---------------------------- MODULE MCOrderApplier ----------------------------
(***************************************************************************)
(* TLC instances of OrderApplier, and the properties that count fills.     *)
(***************************************************************************)
EXTENDS OrderApplier, FiniteSetsExt, TLC

CONSTANTS w1, w2, e1, e2

MCWriters == {w1, w2}
MCSymmetry == Permutations(MCWriters)

\* Two fills that complete an order of three lots.
MCQtyOf == e1 :> 1 @@ e2 :> 2

\* One fill, and positions the reconciler may find, of an order of three lots.
MCHealQtyOf == e1 :> 1

ReportedBy(events) == MapThenSumSet(LAMBDA e : QtyOf[e], events \cap FillEvents)

\* A fill counts at most once: the filled quantity never exceeds the fills
\* whose fingerprints the row holds, however often and to however many writers
\* each event is delivered (the duplicate checks of _record_fill and _apply).
NeverDoubleCounted == order.filled <= ReportedBy(Ids(order.processed))
=============================================================================

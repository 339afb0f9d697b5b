------------------------------ MODULE MCMt4Link ------------------------------
(* Mt4Link on two intents of one strategy.                                 *)
EXTENDS Mt4Link, TLC

CONSTANTS i1, i2, f1, f2

MCIntents == {i1, i2}
MCFingerprints == {f1, f2}

\* Neither intents nor command contents are told apart by the model.
MCSymmetry == Permutations(MCIntents) \cup Permutations(MCFingerprints)
MCSymmetryOne == Permutations(MCFingerprints)
=============================================================================

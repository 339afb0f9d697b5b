------------------------- MODULE ApprovalGateProofs -------------------------
(* GateInv is inductive: one human signature lets at most one order out,    *)
(* whatever the processes sharing the store interleave.                     *)
EXTENDS ApprovalGate, FiniteSetTheorems, TLAPS

\* Type correctness and GateInv together.
IInv == TypeOK /\ GateInv

\* A decided write that is not an authorization changes only the call of its
\* caller, who held no consumption in hand.
LEMMA PutStep ==
    ASSUME IInv, NEW c \in Callers, call[c] = Idle, NEW r \in ApprovalRecord,
           r.status \notin {"APPROVED", "CONSUMED"},
           call' = [call EXCEPT ![c] = [op |-> "put", record |-> r]],
           ids' \in Nat, UNCHANGED <<row, now, kill, history>>
    PROVE  IInv'
<1>1. TypeOK'
  <2>1. [op |-> "put", record |-> r] \in Write  BY DEF Write
  <2>2. call' \in [Callers -> Write \cup {Idle} \cup [op : {"authorized"}, decision : Nat]]
    BY <2>1 DEF IInv, TypeOK
  <2> QED  BY <2>2 DEF IInv, TypeOK, history
<1>2. \A x \in Callers \ {c} : call'[x] = call[x]
  BY DEF IInv, TypeOK
<1>3. call'[c] = [op |-> "put", record |-> r]
  BY DEF IInv, TypeOK
<1>4. InHand' = InHand
  BY <1>2, <1>3 DEF InHand, Idle, Callers
<1>5. AuthorityIsSigned' /\ SignatureBudget'
  BY <1>4 DEF IInv, GateInv, AuthorityIsSigned, SignatureBudget, history
<1>6. PendingSigned'
  BY <1>2, <1>3 DEF IInv, GateInv, PendingSigned, history
<1> QED  BY <1>1, <1>5, <1>6 DEF IInv, GateInv

\* A decided compare-and-put carries an authorization of the right kind.
LEMMA CasStep ==
    ASSUME IInv, NEW c \in Callers, call[c] = Idle,
           NEW e \in {"WAITING_FOR_HUMAN", "APPROVED"}, NEW r \in ApprovalRecord,
           \/ e = "WAITING_FOR_HUMAN" /\ r.status = "APPROVED" /\ c \in Operators
           \/ /\ e = "APPROVED" /\ r.status = "CONSUMED" /\ c \in Executors
              /\ \E s \in signed : s.terms = Terms(r),
           compare_and_put(c, e, r)
    PROVE  IInv'
<1> DEFINE w == [op |-> "compare_and_put", expected |-> e, record |-> r]
<1>1. call' = [call EXCEPT ![c] = w] /\ UNCHANGED <<row, ids, now, kill, history>>
  BY DEF compare_and_put
<1>2. w \in Write  BY DEF Write
<1>3. TypeOK'
  <2>1. call' \in [Callers -> Write \cup {Idle} \cup [op : {"authorized"}, decision : Nat]]
    BY <1>1, <1>2 DEF IInv, TypeOK
  <2> QED  BY <1>1, <2>1 DEF IInv, TypeOK, history
<1>4. \A x \in Callers \ {c} : call'[x] = call[x]
  BY <1>1 DEF IInv, TypeOK
<1>5. call'[c] = w
  BY <1>1 DEF IInv, TypeOK
<1>6. InHand' = InHand
  BY <1>4, <1>5 DEF InHand, Idle, Callers
<1>7. AuthorityIsSigned' /\ SignatureBudget'
  BY <1>1, <1>6 DEF IInv, GateInv, AuthorityIsSigned, SignatureBudget, history
<1>8. PendingSigned'
  BY <1>1, <1>4, <1>5 DEF IInv, GateInv, PendingSigned, history
<1> QED  BY <1>3, <1>7, <1>8 DEF IInv, GateInv

\* Every operator step keeps the invariant.
LEMMA OperatorStep ==
    ASSUME IInv, NEW o \in Operators, Operator(o)
    PROVE  IInv'
<1>1. o \in Callers  BY DEF Callers
<1>2. row \in ApprovalRecord \cup {NoRow}  BY DEF IInv, TypeOK
<1>3. CASE get_approval(o)
  <2>1. row.id \in Nat
    BY <1>2, <1>3 DEF get_approval, ApprovalRecord
  <2>2. TypeOK'
    BY <1>3, <2>1 DEF get_approval, IInv, TypeOK
  <2>3. InHand' = InHand  BY <1>3 DEF get_approval, InHand
  <2> QED
    BY <1>3, <2>2, <2>3 DEF get_approval, IInv, GateInv, AuthorityIsSigned, SignatureBudget,
                            PendingSigned
<1>4. CASE approve(o)
  <2>1. row \in ApprovalRecord /\ row.status = "WAITING_FOR_HUMAN" /\ call[o] = Idle
    BY <1>2, <1>4 DEF approve, NoRow
  <2>2. CASE now >= row.expires
    <3> DEFINE r == [row EXCEPT !.status = "EXPIRED"]
    <3>1. r \in ApprovalRecord /\ r.status = "EXPIRED"
      BY <2>1 DEF ApprovalRecord, ApprovalStatus
    <3>2. put(o, r)  BY <1>4, <2>2 DEF approve
    <3> HIDE DEF r
    <3> QED  BY <1>1, <2>1, <3>1, <3>2, PutStep DEF put, IInv, TypeOK
  <2>3. CASE ~ (now >= row.expires)
    <3> DEFINE r == [row EXCEPT !.status = "APPROVED"]
    <3>1. r \in ApprovalRecord /\ r.status = "APPROVED"
      BY <2>1 DEF ApprovalRecord, ApprovalStatus
    <3>2. compare_and_put(o, "WAITING_FOR_HUMAN", r)  BY <1>4, <2>3 DEF approve
    <3> HIDE DEF r
    <3> QED  BY <1>1, <2>1, <3>1, <3>2, CasStep
  <2> QED  BY <2>2, <2>3
<1>5. CASE reject(o)
  <2> DEFINE r == [row EXCEPT !.status = "REJECTED"]
  <2>1. row \in ApprovalRecord /\ call[o] = Idle
    BY <1>2, <1>5 DEF reject, NoRow
  <2>2. r \in ApprovalRecord /\ r.status = "REJECTED"
    BY <2>1 DEF ApprovalRecord, ApprovalStatus
  <2>3. put(o, r)  BY <1>5 DEF reject
  <2> HIDE DEF r
  <2> QED  BY <1>1, <2>1, <2>2, <2>3, PutStep DEF put, IInv, TypeOK
<1> QED  BY <1>3, <1>4, <1>5 DEF Operator

\* Every executor step up to its write, and the transmission, keep it.
LEMMA ExecutorStep ==
    ASSUME IInv, NEW x \in Executors, Executor(x)
    PROVE  IInv'
<1>1. x \in Callers  BY DEF Callers
<1>2. row \in ApprovalRecord \cup {NoRow} /\ ids \in Nat /\ now \in Nat
  BY DEF IInv, TypeOK
<1>3. ASSUME NEW price \in Prices, request_approval(x, price) PROVE IInv'
  <2>1. row' \in ApprovalRecord /\ row'.status = "WAITING_FOR_HUMAN"
    BY <1>2, <1>3, GateAssumption
       DEF request_approval, ApprovalRecord, ApprovalStatus, MinOf
  <2>2. ids' \in Nat /\ row.status = "NONE"
    BY <1>2, <1>3 DEF request_approval, NoRow
  <2>3. UNCHANGED <<now, kill, call, history>>
    BY <1>3 DEF request_approval
  <2>4. TypeOK'
    BY <2>1, <2>2, <2>3 DEF IInv, TypeOK, history
  <2>5. InHand' = InHand  BY <2>3 DEF InHand
  <2> QED
    BY <2>1, <2>2, <2>3, <2>4, <2>5 DEF IInv, GateInv, AuthorityIsSigned, SignatureBudget,
                                        PendingSigned, history
<1>4. ASSUME NEW d \in 1 .. MaxIds, NEW price \in Prices, consume(x, d, price) PROVE IInv'
  <2>1. row \in ApprovalRecord /\ row.status = "APPROVED" /\ call[x] = Idle
    BY <1>2, <1>4 DEF consume, NoRow
  <2>2. ASSUME NEW r \in ApprovalRecord, r.status \notin {"APPROVED", "CONSUMED"}, put(x, r)
        PROVE  IInv'
    BY <1>1, <1>2, <2>1, <2>2, PutStep DEF put
  <2>3. \A status \in ApprovalStatus :
           LET r == [row EXCEPT !.status = status]
           IN  r \in ApprovalRecord /\ r.status = status /\ Terms(r) = Terms(row)
    BY <2>1 DEF ApprovalRecord, Terms
  <2>4. CASE now >= row.expires
    BY <1>4, <2>2, <2>3, <2>4 DEF consume, ApprovalStatus
  <2>5. CASE ~ (now >= row.expires) /\ price # row.price
    BY <1>4, <2>2, <2>3, <2>5 DEF consume, ApprovalStatus
  <2>6. CASE ~ (now >= row.expires) /\ price = row.price
    <3> DEFINE r == [row EXCEPT !.status = "CONSUMED"]
    <3>1. compare_and_put(x, "APPROVED", r)
      BY <1>4, <2>6 DEF consume
    <3>2. \E s \in signed : s.terms = Terms(row)
      BY <2>1 DEF IInv, GateInv, AuthorityIsSigned
    <3>3. r \in ApprovalRecord /\ r.status = "CONSUMED" /\ Terms(r) = Terms(row)
      BY <2>3 DEF ApprovalStatus
    <3> HIDE DEF r
    <3> QED  BY <1>1, <2>1, <3>1, <3>2, <3>3, CasStep
  <2> QED  BY <2>4, <2>5, <2>6
<1>5. ASSUME NEW price \in Prices, NEW rejects \in BOOLEAN, revalidate(x, price, rejects)
      PROVE  IInv'
  <2>1. row \in ApprovalRecord /\ call[x] = Idle
    BY <1>2, <1>5 DEF revalidate, NoRow
  <2>2. CASE rejects = TRUE
    <3> DEFINE r == [row EXCEPT !.status = "REJECTED"]
    <3>1. put(x, r)  BY <1>5, <2>2 DEF revalidate
    <3>2. r \in ApprovalRecord /\ r.status = "REJECTED"
      BY <2>1 DEF ApprovalRecord, ApprovalStatus
    <3> HIDE DEF r
    <3> QED  BY <1>1, <1>2, <2>1, <3>1, <3>2, PutStep DEF put
  <2>3. CASE rejects = FALSE
    <3> DEFINE r == [status |-> "WAITING_FOR_HUMAN", id |-> ids + 1, price |-> price,
                     expires |-> now + Ttl]
    <3>1. r \in ApprovalRecord /\ r.status = "WAITING_FOR_HUMAN"
      BY <1>2, GateAssumption DEF ApprovalRecord, ApprovalStatus
    <3>2. /\ ids' \in Nat
          /\ call' = [call EXCEPT ![x] = [op |-> "put", record |-> r]]
          /\ UNCHANGED <<row, now, kill, history>>
      BY <1>2, <1>5, <2>3 DEF revalidate
    <3> HIDE DEF r
    <3> QED  BY <1>1, <1>2, <2>1, <3>1, <3>2, PutStep
  <2> QED  BY <2>2, <2>3
<1>6. CASE Transmit(x)
  <2>1. /\ call[x].op = "authorized" /\ call' = [call EXCEPT ![x] = Idle]
        /\ transmissions' \in {transmissions, transmissions + 1}
        /\ UNCHANGED <<row, ids, now, kill, seen, signed, approvals, consumptions>>
    BY <1>6 DEF Transmit
  <2>2. \A c \in Callers \ {x} : call'[c] = call[c]
    BY <2>1 DEF IInv, TypeOK
  <2>3. call'[x] = Idle  BY <1>1, <2>1 DEF IInv, TypeOK
  <2>4. InHand' = InHand \ {x} /\ x \in InHand
    BY <2>1, <2>2, <2>3 DEF InHand, Idle, Callers
  <2>5. IsFiniteSet(InHand)
    BY GateAssumption, FS_Subset DEF InHand
  <2>6. Cardinality(InHand') = Cardinality(InHand) - 1 /\ Cardinality(InHand) \in Nat
    BY <2>4, <2>5, FS_RemoveElement, FS_CardinalityType
  <2>7. TypeOK'
    BY <1>1, <2>1 DEF IInv, TypeOK
  <2>8. SignatureBudget'
    <3>1. /\ transmissions + Cardinality(InHand) <= consumptions
          /\ transmissions \in Nat /\ consumptions \in Nat
      BY DEF IInv, GateInv, SignatureBudget, TypeOK
    <3>2. transmissions' + Cardinality(InHand') <= consumptions'
      BY <2>1, <2>6, <3>1
    <3> QED  BY <2>1, <3>2 DEF IInv, GateInv, SignatureBudget
  <2>9. PendingSigned'
    BY <2>1, <2>2, <2>3 DEF IInv, GateInv, PendingSigned, Idle
  <2>10. AuthorityIsSigned'
    BY <2>1 DEF IInv, GateInv, AuthorityIsSigned
  <2> QED  BY <2>7, <2>8, <2>9, <2>10 DEF IInv, GateInv
<1> QED  BY <1>3, <1>4, <1>5, <1>6 DEF Executor

\* The unconditional put never writes an authorization.
LEMMA StorePut ==
    ASSUME IInv, NEW c \in Callers, Put(c)
    PROVE  IInv'
<1>1. /\ call[c].op = "put" /\ row' = call[c].record /\ call' = [call EXCEPT ![c] = Idle]
      /\ UNCHANGED <<ids, now, kill, history>>
  BY DEF Put
<1>2. call[c] \in Write /\ call[c].record \in ApprovalRecord
  BY <1>1 DEF IInv, TypeOK, Write, Idle
<1>3. row'.status \notin {"APPROVED", "CONSUMED"}
  BY <1>1 DEF IInv, GateInv, PendingSigned
<1>4. \A x \in Callers \ {c} : call'[x] = call[x]
  BY <1>1 DEF IInv, TypeOK
<1>5. call'[c] = Idle  BY <1>1 DEF IInv, TypeOK
<1>6. InHand' = InHand
  BY <1>1, <1>4, <1>5 DEF InHand, Idle, Callers
<1>7. TypeOK'
  BY <1>1, <1>2 DEF IInv, TypeOK, history
<1>8. SignatureBudget'
  <2>1. consumptions \in Nat /\ approvals \in Nat  BY SMTT(30) DEF IInv, TypeOK
  <2> QED  BY <1>1, <1>3, <1>6, <2>1 DEF IInv, GateInv, SignatureBudget, history
<1>9. PendingSigned'
  BY <1>1, <1>4, <1>5 DEF IInv, GateInv, PendingSigned, Idle, history
<1>10. AuthorityIsSigned'
  BY <1>3 DEF AuthorityIsSigned
<1> QED  BY <1>7, <1>8, <1>9, <1>10 DEF IInv, GateInv

\* A compare-and-put that succeeds either adds a signature before the row is
\* APPROVED, or turns the one APPROVED row into one consumption.
LEMMA StoreCas ==
    ASSUME IInv, NEW c \in Callers, CompareAndPut(c)
    PROVE  IInv'
<1> DEFINE r == call[c].record
<1>1. call[c].op = "compare_and_put" /\ UNCHANGED <<ids, now, kill, seen, transmissions>>
  BY DEF CompareAndPut
<1>2. /\ call[c] \in Write /\ r \in ApprovalRecord
      /\ call \in [Callers -> Write \cup {Idle} \cup [op : {"authorized"}, decision : Nat]]
  BY <1>1 DEF IInv, TypeOK, Write, Idle
<1>3. /\ consumptions \in Nat /\ approvals \in Nat /\ transmissions \in Nat
      /\ consumptions + (IF row.status = "APPROVED" THEN 1 ELSE 0) <= approvals
      /\ transmissions + Cardinality(InHand) <= consumptions
  BY DEF IInv, TypeOK, GateInv, SignatureBudget
<1>4. IsFiniteSet(InHand) /\ Cardinality(InHand) \in Nat
  BY GateAssumption, FS_Subset, FS_CardinalityType DEF InHand
<1>5. PendingSigned /\ AuthorityIsSigned  BY SMTT(30) DEF IInv, GateInv
<1>6. CASE ~ Matches(c)
  <2>1. call' = [call EXCEPT ![c] = Idle] /\ UNCHANGED <<row, signed, approvals, consumptions>>
    BY <1>6 DEF CompareAndPut
  <2>2. \A x \in Callers \ {c} : call'[x] = call[x]  BY <1>2, <2>1
  <2>3. call'[c] = Idle  BY <1>2, <2>1
  <2>4. InHand' = InHand
    BY <1>1, <2>2, <2>3 DEF InHand, Idle, Callers
  <2>5. TypeOK'  BY <1>1, <1>2, <2>1, SMTT(30) DEF IInv, TypeOK
  <2> QED
    BY <1>1, <1>3, <1>5, <2>1, <2>2, <2>3, <2>4, <2>5, SMTT(30)
       DEF IInv, GateInv, SignatureBudget, PendingSigned, AuthorityIsSigned, Idle
<1>7. CASE Matches(c) /\ r.status = "APPROVED"
  <2>1. /\ row' = r /\ approvals' = approvals + 1
        /\ signed' = signed \cup {[by |-> c, terms |-> Terms(r)]}
        /\ call' = [call EXCEPT ![c] = Idle] /\ UNCHANGED consumptions
    BY <1>7, SMTT(30) DEF CompareAndPut
  <2>2. c \in Operators /\ row.status = "WAITING_FOR_HUMAN"
    BY <1>1, <1>5, <1>7 DEF PendingSigned, Matches
  <2>3. \A x \in Callers \ {c} : call'[x] = call[x]  BY <1>2, <2>1
  <2>4. call'[c] = Idle  BY <1>2, <2>1, SMTT(30)
  <2>5. InHand' = InHand
    BY <1>1, <2>3, <2>4 DEF InHand, Idle, Callers
  <2>6. TypeOK'
    <3>1. Terms(r) \in [id : Nat, price : Prices]
      BY <1>2 DEF Terms, ApprovalRecord
    <3>2. signed' \subseteq [by : Operators, terms : [id : Nat, price : Prices]]
      BY <2>1, <2>2, <3>1 DEF IInv, TypeOK
    <3> QED  BY <1>1, <1>2, <2>1, <3>2 DEF IInv, TypeOK
  <2>7. SignatureBudget'
    BY <1>1, <1>3, <2>1, <2>2, <2>5, SMTT(30) DEF SignatureBudget
  <2>8. PendingSigned'
    BY <1>5, <2>1, <2>3, <2>4 DEF PendingSigned, Idle
  <2>9. AuthorityIsSigned'
    <3>1. [by |-> c, terms |-> Terms(r)] \in signed'  BY <2>1
    <3>2. [by |-> c, terms |-> Terms(r)].terms = Terms(row')  BY <2>1, SMTT(30)
    <3> QED  BY <3>1, <3>2 DEF AuthorityIsSigned, Terms
  <2> QED  BY <2>6, <2>7, <2>8, <2>9 DEF IInv, GateInv
<1>8. CASE Matches(c) /\ r.status # "APPROVED"
  <2>1. /\ row' = r /\ consumptions' = consumptions + 1
        /\ call' = [call EXCEPT ![c] = Authorized(r.id)]
        /\ UNCHANGED <<approvals, signed>>
    BY <1>8 DEF CompareAndPut
  <2>2. /\ c \in Executors /\ row.status = "APPROVED" /\ r.status = "CONSUMED"
        /\ \E s \in signed : s.terms = Terms(r)
    BY <1>1, <1>5, <1>8 DEF PendingSigned, Matches
  <2>3. \A x \in Callers \ {c} : call'[x] = call[x]  BY <1>2, <2>1
  <2>4. call'[c] = [op |-> "authorized", decision |-> r.id]
    BY <1>2, <2>1 DEF Authorized
  <2>5. InHand' = InHand \cup {c} /\ c \notin InHand
    BY <1>1, <2>2, <2>3, <2>4 DEF InHand, Callers
  <2>6. Cardinality(InHand') = Cardinality(InHand) + 1
    BY <1>4, <2>5, FS_AddElement, SMTT(30)
  <2>7. TypeOK'
    <3>1. r.id \in Nat  BY <1>2 DEF ApprovalRecord
    <3>2. call' \in [Callers -> Write \cup {Idle} \cup [op : {"authorized"}, decision : Nat]]
      BY <1>2, <2>1, <3>1, SMTT(30) DEF Authorized
    <3> QED  BY <1>1, <1>2, <2>1, <3>2 DEF IInv, TypeOK
  <2>8. SignatureBudget'
    BY <1>1, <1>3, <1>4, <2>1, <2>2, <2>6, SMTT(30) DEF SignatureBudget
  <2>9. PendingSigned'
    BY <1>5, <2>1, <2>3, <2>4, SMTT(30) DEF PendingSigned
  <2>10. AuthorityIsSigned'
    BY <2>1, <2>2, SMTT(30) DEF AuthorityIsSigned, Terms
  <2> QED  BY <2>7, <2>8, <2>9, <2>10 DEF IInv, GateInv
<1> QED  BY <1>6, <1>7, <1>8, SMTT(30)

\* The kill switch and the clock touch neither the row nor the counts.
LEMMA EnvironmentStep ==
    ASSUME IInv, \/ \E active \in BOOLEAN : set_kill(active)
                 \/ Tick \/ UNCHANGED gateVars
    PROVE  IInv'
<1>1. /\ UNCHANGED <<row, ids, call, history>>
      /\ kill' \in BOOLEAN /\ now' \in Nat
  <2>1. CASE \E active \in BOOLEAN : set_kill(active)
    BY <2>1 DEF set_kill, IInv, TypeOK
  <2>2. CASE Tick
    BY <2>2 DEF Tick, IInv, TypeOK
  <2>3. CASE UNCHANGED gateVars
    BY <2>3 DEF gateVars, history, IInv, TypeOK
  <2> QED  BY <2>1, <2>2, <2>3
<1>2. InHand' = InHand  BY <1>1 DEF InHand
<1>3. TypeOK'  BY <1>1 DEF IInv, TypeOK, history
<1> QED  BY <1>1, <1>2, <1>3 DEF IInv, GateInv, SignatureBudget, PendingSigned,
                                 AuthorityIsSigned, history

\* The invariant holds before the first request.
LEMMA InitStep == Init => IInv
<1> SUFFICES ASSUME Init PROVE IInv
  OBVIOUS
<1>1. TypeOK  BY DEF Init, TypeOK
<1>2. InHand = {}  BY DEF Init, InHand, Idle, Callers
<1>3. Cardinality(InHand) = 0  BY <1>2, FS_EmptySet
<1>4. SignatureBudget  BY <1>3 DEF Init, SignatureBudget, NoRow
<1>5. PendingSigned  BY DEF Init, PendingSigned, Idle
<1>6. AuthorityIsSigned  BY DEF Init, AuthorityIsSigned, NoRow
<1> QED  BY <1>1, <1>4, <1>5, <1>6 DEF IInv, GateInv

\* GateInv and the types are invariant for any operators, any finite number of
\* execution processes, any lifetimes and bounds.
THEOREM GateInvariant == Spec => [](TypeOK /\ GateInv)
<1>1. Init => IInv  BY InitStep
<1>2. ASSUME IInv, [Next]_gateVars PROVE IInv'
  BY <1>2, OperatorStep, ExecutorStep, StorePut, StoreCas, EnvironmentStep DEF Next
<1>3. IInv <=> TypeOK /\ GateInv  BY DEF IInv
<1> QED  BY <1>1, <1>2, <1>3, PTL DEF Spec

\* The gate never lets more orders to the MT4 boundary than humans signed.
THEOREM SignaturesBoundOrders == Spec => []OneOrderPerSignature
<1>1. TypeOK /\ GateInv => OneOrderPerSignature
  <2> SUFFICES ASSUME TypeOK, GateInv PROVE OneOrderPerSignature
    OBVIOUS
  <2>1. Cardinality(InHand) \in Nat
    BY GateAssumption, FS_Subset, FS_CardinalityType DEF InHand
  <2>2. /\ consumptions + (IF row.status = "APPROVED" THEN 1 ELSE 0) <= approvals
        /\ transmissions + Cardinality(InHand) <= consumptions
        /\ transmissions \in Nat /\ consumptions \in Nat /\ approvals \in Nat
    BY DEF GateInv, SignatureBudget, TypeOK
  <2> QED  BY <2>1, <2>2 DEF OneOrderPerSignature
<1> QED  BY <1>1, GateInvariant, PTL

\* A row that authorizes carries terms some human signed.
THEOREM AuthorityAlwaysSigned == Spec => []AuthorityIsSigned
<1>1. GateInv => AuthorityIsSigned  BY DEF GateInv
<1> QED  BY <1>1, GateInvariant, PTL
=============================================================================

-------------------------- MODULE StatusLogProofs ---------------------------
(***************************************************************************)
(* Proofs about StatusLog, for any workers, outcomes and batches: what the *)
(* status lines say of the outcomes and of the batch.                      *)
(*                                                                         *)
(* The first two invariants need only the types of the counters: the loop  *)
(* moves between the two sides of the equation what it takes from one of   *)
(* them.  That the total of a line is covered by its counters needs the    *)
(* time in between: from the section that takes the total to the line that *)
(* shows it the counters only grow (TotalIsCovered).                       *)
(***************************************************************************)
EXTENDS StatusLog, TLAPS

Counters == [Kinds -> Nat]

CountersTyped ==
  /\ outcome \in Counters /\ occurred \in Counters
  /\ reported \in Counters /\ missed \in Counters
  /\ highestID \in Nat

\* The highest ID is that of the last batch, also outside of the lines.
BatchKnown == highestID = batchID

IInv == CountersTyped /\ ReportedOnceOrMissed /\ BatchKnown /\ LineIsOfOneBatch

-----------------------------------------------------------------------------

LEMMA InitIInv == Init => IInv
  BY DEF Init, IInv, CountersTyped, Counters, Zero, ReportedOnceOrMissed, BatchKnown,
         LineIsOfOneBatch

\* The counters of one kind are numbers.
LEMMA CountersAreNumbers ==
  ASSUME IInv, NEW k \in Kinds
  PROVE  /\ outcome[k] \in Nat /\ occurred[k] \in Nat
         /\ reported[k] \in Nat /\ missed[k] \in Nat
  BY DEF IInv, CountersTyped, Counters

\* The two cases of ReportedOnceOrMissed for one kind.
LEMMA Between ==
  ASSUME IInv, NEW k \in Kinds, pc = "reset outcome"
  PROVE  occurred[k] = reported[k] + missed[k]
  BY Zenon DEF IInv, ReportedOnceOrMissed

LEMMA Elsewhere ==
  ASSUME IInv, NEW k \in Kinds, pc # "reset outcome"
  PROVE  occurred[k] = reported[k] + missed[k] + outcome[k]
  BY Zenon DEF IInv, ReportedOnceOrMissed

\* A step that leaves the counters, the last line and the batches alone, and
\* neither begins nor ends the time between a line and its reset.
LEMMA CountersUntouched ==
  ASSUME IInv, UNCHANGED <<outcome, occurred, reported, missed, stateVars, line>>,
         pc' = "reset outcome" <=> pc = "reset outcome"
  PROVE  IInv'
  BY DEF IInv, CountersTyped, ReportedOnceOrMissed, BatchKnown, LineIsOfOneBatch, stateVars

LEMMA WriteLinePreserves == ASSUME IInv, WriteLine PROVE IInv'
<1>1. /\ pc = "print" /\ pc' = "reset outcome"
      /\ reported' = [k \in Kinds |-> reported[k] + outcome[k]]
      /\ line'.highestID = highestID /\ line'.batchID = batchID
      /\ UNCHANGED <<outcome, occurred, missed, stateVars>>
  BY DEF WriteLine, otherVars
<1>2. CountersTyped'
  <2>1. \A k \in Kinds : reported[k] + outcome[k] \in Nat
    BY CountersAreNumbers
  <2>2. reported' \in Counters
    BY <1>1, <2>1, Zenon DEF Counters
  <2> QED  BY <1>1, <2>2 DEF IInv, CountersTyped, stateVars
<1>3. ReportedOnceOrMissed'
  <2> SUFFICES ASSUME NEW k \in Kinds PROVE occurred'[k] = reported'[k] + missed'[k]
    BY <1>1, Zenon DEF ReportedOnceOrMissed
  <2>1. reported'[k] = reported[k] + outcome[k] /\ occurred'[k] = occurred[k]
        /\ missed'[k] = missed[k]
    BY <1>1, Zenon
  <2>2. occurred[k] = reported[k] + missed[k] + outcome[k]
    BY <1>1, Elsewhere
  <2>3. \A r, m, o \in Nat : r + m + o = (r + o) + m
    OBVIOUS
  <2>4. reported[k] \in Nat /\ missed[k] \in Nat /\ outcome[k] \in Nat
    BY CountersAreNumbers
  <2>5. reported[k] + missed[k] + outcome[k] = (reported[k] + outcome[k]) + missed[k]
    BY <2>3, <2>4, Zenon
  <2> QED  BY <2>1, <2>2, <2>5, Zenon
<1>4. BatchKnown' /\ LineIsOfOneBatch'
  BY <1>1 DEF IInv, BatchKnown, LineIsOfOneBatch, stateVars
<1> QED  BY <1>2, <1>3, <1>4 DEF IInv

LEMMA ResetOutcomePreserves == ASSUME IInv, ResetOutcome PROVE IInv'
<1>1. /\ pc = "reset outcome" /\ pc' = "reset state"
      /\ outcome' = [k \in Kinds |-> 0]
      /\ UNCHANGED <<occurred, reported, missed, stateVars, line>>
  BY DEF ResetOutcome, AfterReset, Zero, otherVars
<1>2. CountersTyped' /\ BatchKnown' /\ LineIsOfOneBatch'
  BY <1>1 DEF IInv, CountersTyped, Counters, BatchKnown, LineIsOfOneBatch, stateVars
<1>3. ReportedOnceOrMissed'
  <2> SUFFICES ASSUME NEW k \in Kinds
               PROVE  occurred'[k] = reported'[k] + missed'[k] + outcome'[k]
    BY <1>1, Zenon DEF ReportedOnceOrMissed
  <2>1. occurred'[k] = reported[k] + missed[k] /\ outcome'[k] = 0
        /\ reported'[k] = reported[k] /\ missed'[k] = missed[k]
    BY <1>1, Between, Zenon
  <2>2. reported[k] + missed[k] + 0 = reported[k] + missed[k]
    BY CountersAreNumbers
  <2> QED  BY <2>1, <2>2, Zenon
<1> QED  BY <1>2, <1>3 DEF IInv

LEMMA CountPreserves == ASSUME IInv, NEW w \in Workers, Count(w) PROVE IInv'
<1> DEFINE kind == phase[w]
<1>1. /\ kind \in Kinds
      /\ outcome'  = [outcome EXCEPT ![kind] = @ + 1]
      /\ occurred' = [occurred EXCEPT ![kind] = @ + 1]
      /\ missed'   = IF pc = "reset outcome" THEN [missed EXCEPT ![kind] = @ + 1] ELSE missed
      /\ UNCHANGED <<reported, pc, stateVars, line>>
  BY DEF Count, loopVars
<1> HIDE DEF kind
<1>2. /\ outcome[kind] + 1 \in Nat /\ occurred[kind] + 1 \in Nat /\ missed[kind] + 1 \in Nat
  <2>1. kind \in Kinds
    BY <1>1
  <2> QED  BY <2>1, CountersAreNumbers
<1>3. CountersTyped'
  BY <1>1, <1>2, Zenon DEF IInv, CountersTyped, Counters, stateVars
<1>4. BatchKnown' /\ LineIsOfOneBatch'
  BY <1>1, Zenon DEF IInv, BatchKnown, LineIsOfOneBatch, stateVars
<1>5. ReportedOnceOrMissed'
  <2> SUFFICES ASSUME NEW k \in Kinds
               PROVE  IF pc = "reset outcome"
                        THEN occurred'[k] = reported'[k] + missed'[k]
                        ELSE occurred'[k] = reported'[k] + missed'[k] + outcome'[k]
    BY <1>1, Zenon DEF ReportedOnceOrMissed
  <2>1. CASE k # kind
    BY <1>1, <2>1, Between, Elsewhere, Zenon DEF IInv, CountersTyped, Counters
  <2>2. CASE k = kind
    <3> DEFINE n == occurred[k]  o == outcome[k]  r == reported[k]  m == missed[k]
    <3>1. occurred'[k] = n + 1 /\ reported'[k] = r /\ outcome'[k] = o + 1
      BY <1>1, <2>2, Zenon DEF IInv, CountersTyped, Counters
    <3>2. n \in Nat /\ o \in Nat /\ r \in Nat /\ m \in Nat
      BY CountersAreNumbers
    <3>3. CASE pc = "reset outcome"
      <4>1. missed'[k] = m + 1
        BY <1>1, <2>2, <3>3, Zenon DEF IInv, CountersTyped, Counters
      <4>2. n = r + m
        BY <3>3, Between
      <4> HIDE DEF n, o, r, m
      <4>3. n + 1 = r + (m + 1)
        BY <3>2, <4>2
      <4> QED  BY <3>1, <3>3, <4>1, <4>3, Zenon
    <3>4. CASE pc # "reset outcome"
      <4>1. missed'[k] = m
        BY <1>1, <3>4, Zenon
      <4>2. n = r + m + o
        BY <3>4, Elsewhere
      <4> HIDE DEF n, o, r, m
      <4>3. n + 1 = r + m + (o + 1)
        BY <3>2, <4>2
      <4> QED  BY <3>1, <3>4, <4>1, <4>3, Zenon
    <3> QED  BY <3>3, <3>4
  <2> QED  BY <2>1, <2>2
<1> QED  BY <1>3, <1>4, <1>5 DEF IInv

LEMMA BatchEndsPreserves == ASSUME IInv, BatchEnds PROVE IInv'
<1>1. /\ batchID' = batchID + 1 /\ highestID' = batchID + 1
      /\ UNCHANGED <<outcome, occurred, reported, missed, pc, line>>
  BY DEF BatchEnds, loopVars
<1>2. batchID + 1 \in Nat
  BY DEF IInv, CountersTyped, BatchKnown
<1> QED
  BY <1>1, <1>2, Zenon
     DEF IInv, CountersTyped, ReportedOnceOrMissed, BatchKnown, LineIsOfOneBatch

\* One step per action of Next.
LEMMA NextIInv == IInv /\ [Next]_vars => IInv'
<1> SUFFICES ASSUME IInv, [Next]_vars PROVE IInv'
  OBVIOUS
<1>1. CASE UNCHANGED vars
  BY <1>1, CountersUntouched DEF vars, loopVars, otherVars
<1>2. CASE Loop
  <2>1. CASE Snapshot \/ Averages \/ LockState \/ LockOutcome \/ ResetState
    BY <2>1, CountersUntouched
       DEF Snapshot, Averages, LockState, LockOutcome, ResetState, otherVars
  <2> QED  BY <1>2, <2>1, WriteLinePreserves, ResetOutcomePreserves DEF Loop
<1>3. CASE Manager
  <2>1. CASE BatchStarts
    BY <2>1, CountersUntouched DEF BatchStarts, loopVars
  <2> QED  BY <1>3, <2>1, BatchEndsPreserves DEF Manager
<1>4. ASSUME NEW w \in Workers, WantToCount(w) \/ AddDelay(w) PROVE IInv'
  BY <1>4, CountersUntouched DEF WantToCount, AddDelay, loopVars
<1> QED  BY <1>1, <1>2, <1>3, <1>4, CountPreserves DEF Next, Worker

-----------------------------------------------------------------------------
(* The total of a line                                                     *)

\* From the snapshot of the total to the line.
Holding == pc \in {"averages", "lock state", "lock outcome", "print"}

TotalIsCovered == Holding => totalRequests <= RequestsOf(outcome)

TInv == IInv /\ totalRequests \in Nat /\ TotalIsCovered /\ LineAddsUp

LEMMA RequestsAreNumbers == ASSUME NEW f \in Counters PROVE RequestsOf(f) \in Nat
<1>1. /\ f["Successes"] \in Nat /\ f["NotFounds"] \in Nat
      /\ f["RateLimits"] \in Nat /\ f["OtherErrs"] \in Nat
  BY Zenon DEF Counters, Kinds
<1>2. \A a, b, c, d \in Nat : a + b + c + d \in Nat
  OBVIOUS
<1> QED  BY <1>1, <1>2, Zenon DEF RequestsOf

\* One more outcome of any kind is no fewer requests.
LEMMA RequestsGrow ==
  ASSUME NEW f \in Counters, NEW kind \in Kinds
  PROVE  RequestsOf(f) <= RequestsOf([f EXCEPT ![kind] = @ + 1])
<1> DEFINE g == [f EXCEPT ![kind] = @ + 1]
<1>1. ASSUME NEW k \in Kinds PROVE f[k] \in Nat /\ (g[k] = f[k] \/ g[k] = f[k] + 1)
  BY Zenon DEF Counters
<1>2. \A k \in Kinds : f[k] \in Nat /\ g[k] \in Nat /\ f[k] <= g[k]
  <2> SUFFICES ASSUME NEW k \in Kinds PROVE f[k] \in Nat /\ g[k] \in Nat /\ f[k] <= g[k]
    OBVIOUS
  <2> HIDE DEF g
  <2>1. \A n, m : n \in Nat /\ (m = n \/ m = n + 1) => m \in Nat /\ n <= m
    OBVIOUS
  <2> QED  BY <1>1, <2>1, Zenon
<1> HIDE DEF g
<1>3. \A a, b, c, d, p, q, r, s \in Nat :
        a <= p /\ b <= q /\ c <= r /\ d <= s => a + b + c + d <= p + q + r + s
  OBVIOUS
<1>4. "Successes" \in Kinds /\ "NotFounds" \in Kinds /\ "RateLimits" \in Kinds
      /\ "OtherErrs" \in Kinds
  BY DEF Kinds
<1>5. RequestsOf(f) <= RequestsOf(g)
  BY <1>2, <1>3, <1>4, Zenon DEF RequestsOf
<1> QED  BY <1>5 DEF g

LEMMA InitTInv == Init => TInv
<1> SUFFICES ASSUME Init PROVE TInv
  OBVIOUS
<1>1. totalRequests = 0 /\ pc = "snapshot" /\ line.requests = 0 /\ line.counts = Zero
  BY DEF Init
<1>2. RequestsOf(Zero) = 0
  <2>1. /\ Zero["Successes"] = 0 /\ Zero["NotFounds"] = 0
        /\ Zero["RateLimits"] = 0 /\ Zero["OtherErrs"] = 0
    BY Zenon DEF Zero, Kinds
  <2>2. 0 + 0 + 0 + 0 = 0
    OBVIOUS
  <2> QED  BY <2>1, <2>2, Zenon DEF RequestsOf
<1>3. ~ Holding
  BY <1>1 DEF Holding
<1> QED  BY <1>1, <1>2, <1>3, InitIInv DEF TInv, TotalIsCovered, LineAddsUp

LEMMA NextTInv == TInv /\ [Next]_vars => TInv'
<1> SUFFICES ASSUME TInv, [Next]_vars PROVE TInv'
  OBVIOUS
<1>1. IInv /\ IInv'
  BY NextIInv DEF TInv
<1>2. ASSUME UNCHANGED <<totalRequests, outcome, line>>, Holding' => Holding PROVE TInv'
  BY <1>1, <1>2 DEF TInv, TotalIsCovered, LineAddsUp
<1>3. CASE UNCHANGED vars
  BY <1>2, <1>3 DEF vars, loopVars, Holding
<1>4. CASE Loop
  <2>1. CASE Snapshot
    <3>1. totalRequests' = RequestsOf(outcome) /\ UNCHANGED <<outcome, line>>
      BY <2>1 DEF Snapshot, Requests
    <3>2. RequestsOf(outcome) \in Nat
      BY <1>1, RequestsAreNumbers DEF IInv, CountersTyped
    <3>3. \A n \in Nat : n <= n
      OBVIOUS
    <3>4. TotalIsCovered'
      BY <3>1, <3>2, <3>3, Zenon DEF TotalIsCovered
    <3> QED  BY <1>1, <3>1, <3>2, <3>4 DEF TInv, LineAddsUp
  <2>2. CASE Averages
    BY <1>2, <2>2 DEF Averages, Holding
  <2>3. CASE LockState
    BY <1>2, <2>3 DEF LockState, Holding
  <2>4. CASE LockOutcome
    BY <1>2, <2>4 DEF LockOutcome, Holding
  <2>5. CASE WriteLine
    <3>1. /\ Holding /\ ~ Holding' /\ totalRequests' = totalRequests
          /\ line'.requests = totalRequests /\ line'.counts = outcome
      BY <2>5 DEF WriteLine, Holding
    <3> QED  BY <1>1, <3>1, Zenon DEF TInv, TotalIsCovered, LineAddsUp
  <2>6. CASE ResetOutcome
    <3>1. ~ Holding' /\ UNCHANGED <<totalRequests, line>>
      BY <2>6 DEF ResetOutcome, Holding
    <3> QED  BY <1>1, <3>1, Zenon DEF TInv, TotalIsCovered, LineAddsUp
  <2>7. CASE ResetState
    <3>1. ~ Holding' /\ UNCHANGED <<totalRequests, line>>
      BY <2>7 DEF ResetState, Holding
    <3> QED  BY <1>1, <3>1, Zenon DEF TInv, TotalIsCovered, LineAddsUp
  <2> QED  BY <1>4, <2>1, <2>2, <2>3, <2>4, <2>5, <2>6, <2>7 DEF Loop
<1>5. CASE Manager
  BY <1>2, <1>5 DEF Manager, BatchStarts, BatchEnds, loopVars, Holding
<1>6. ASSUME NEW w \in Workers, WantToCount(w) \/ AddDelay(w) PROVE TInv'
  BY <1>2, <1>6 DEF WantToCount, AddDelay, loopVars, Holding
<1>7. ASSUME NEW w \in Workers, Count(w) PROVE TInv'
  <2>1. /\ phase[w] \in Kinds
        /\ outcome' = [outcome EXCEPT ![phase[w]] = @ + 1]
        /\ UNCHANGED <<totalRequests, line, pc>>
    BY <1>7 DEF Count, loopVars
  <2>2. /\ RequestsOf(outcome) \in Nat /\ RequestsOf(outcome') \in Nat
        /\ RequestsOf(outcome) <= RequestsOf(outcome')
    BY <1>1, <2>1, RequestsAreNumbers, RequestsGrow DEF IInv, CountersTyped
  <2>3. \A a, b, c \in Nat : a <= b /\ b <= c => a <= c
    OBVIOUS
  <2>4. TotalIsCovered'
    BY <2>1, <2>2, <2>3, Zenon DEF TInv, TotalIsCovered, Holding
  <2> QED  BY <1>1, <2>1, <2>4 DEF TInv, LineAddsUp
<1> QED  BY <1>3, <1>4, <1>5, <1>6, <1>7 DEF Next, Worker

-----------------------------------------------------------------------------
(* The types of the rest                                                   *)

LoopPcs == {"snapshot", "averages", "lock state", "lock outcome", "print",
            "reset outcome", "reset state"}

ControlTyped ==
  /\ outcomeMu \in BOOLEAN /\ stateMu \in BOOLEAN
  /\ pc \in LoopPcs
  /\ phase \in [Workers -> Kinds \cup {"idle", "delay"}]
  /\ managerPc \in {"between", "in batch"}

LEMMA InitControl == Init => ControlTyped
  BY DEF Init, ControlTyped, LoopPcs

LEMMA NextControl == ControlTyped /\ [Next]_vars => ControlTyped'
<1> SUFFICES ASSUME ControlTyped, [Next]_vars PROVE ControlTyped'
  OBVIOUS
<1> USE DEF ControlTyped, LoopPcs
<1>1. CASE UNCHANGED vars
  BY <1>1 DEF vars, loopVars, otherVars
<1>2. CASE Loop
  BY <1>2, Zenon DEF Loop, Snapshot, Averages, LockState, LockOutcome, WriteLine, UnlockBoth,
     ResetOutcome, ResetState, otherVars
<1>3. CASE Manager
  BY <1>3 DEF Manager, BatchStarts, BatchEnds, loopVars
<1>4. ASSUME NEW w \in Workers, WantToCount(w) PROVE ControlTyped'
  <2>1. \A k \in EventKinds : k \in Kinds
    BY KindsExist DEF Kinds
  <2> QED  BY <1>4, <2>1, Zenon DEF WantToCount, loopVars
<1>5. ASSUME NEW w \in Workers, Count(w) PROVE ControlTyped'
  BY <1>5, Zenon DEF Count, loopVars
<1>6. ASSUME NEW w \in Workers, AddDelay(w) PROVE ControlTyped'
  BY <1>6, Zenon DEF AddDelay, loopVars
<1> QED  BY <1>1, <1>2, <1>3, <1>4, <1>5, <1>6 DEF Next, Worker

-----------------------------------------------------------------------------

\* The counters are numbers, and every section finds the locks and the threads in
\* a state it knows.
THEOREM StatusLogTyped == Spec => []TypeOK
<1>1. Init => TInv /\ ControlTyped  BY InitTInv, InitControl
<1>2. TInv /\ ControlTyped /\ [Next]_vars => TInv' /\ ControlTyped'
  BY NextTInv, NextControl
<1>3. TInv /\ ControlTyped => TypeOK
  BY DEF TInv, IInv, CountersTyped, Counters, BatchKnown, ControlTyped, LoopPcs, TypeOK
<1> QED  BY <1>1, <1>2, <1>3, PTL DEF Spec

\* Every outcome shows in exactly one status line, is still to be reported, or
\* was counted between a line and the reset that follows it.
THEOREM OutcomesAreReportedOnce == Spec => []ReportedOnceOrMissed
<1>1. Init => IInv  BY InitIInv
<1>2. IInv /\ [Next]_vars => IInv'  BY NextIInv
<1>3. IInv => ReportedOnceOrMissed  BY DEF IInv
<1> QED  BY <1>1, <1>2, <1>3, PTL DEF Spec

\* A status line never shows the batch of one moment with the ID of another.
THEOREM LinesAreOfOneBatch == Spec => []LineIsOfOneBatch
<1>1. Init => IInv  BY InitIInv
<1>2. IInv /\ [Next]_vars => IInv'  BY NextIInv
<1>3. IInv => LineIsOfOneBatch  BY DEF IInv
<1> QED  BY <1>1, <1>2, <1>3, PTL DEF Spec

\* The total of a line is never larger than the outcomes of the line add up to,
\* although it was taken in an earlier section.
THEOREM LinesAddUp == Spec => []LineAddsUp
<1>1. Init => TInv  BY InitTInv
<1>2. TInv /\ [Next]_vars => TInv'  BY NextTInv
<1>3. TInv => LineAddsUp  BY DEF TInv
<1> QED  BY <1>1, <1>2, <1>3, PTL DEF Spec
=============================================================================

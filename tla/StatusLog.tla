----------------------------- MODULE StatusLog ------------------------------
(***************************************************************************)
(* The counters that all workers share (workers-types/types.go) and the    *)
(* loop that writes them to the status log every second and resets them    *)
(* (workers/status-mgmt.go).  The loop works in sections of its own under  *)
(* one of the two mutexes, or both, between which the workers and the      *)
(* manager go on.                                                          *)
(*                                                                         *)
(* The slices behind the averages are left out, the sections that use them *)
(* are not.  HighestID is identified with the batch that set it.  The      *)
(* other threads' sections are one step each; the only section that holds  *)
(* two mutexes is the loop's.                                              *)
(***************************************************************************)
EXTENDS Integers, FiniteSets

CONSTANTS
  Workers,
  EventKinds,  \* the kinds of outcome that occur
  MaxEvents,   \* bound on the outcomes
  MaxBatches   \* bound on the batches

ASSUME KindsExist == EventKinds \subseteq {"Successes", "NotFounds", "RateLimits",
                                          "OtherErrs", "Recovered", "Lost"}
ASSUME BoundsAreNumbers == MaxEvents \in Nat /\ MaxBatches \in Nat

VARIABLES
  outcome,              \* of each kind, since the last reset
  outcomeMu, stateMu,   \* held by the loop?
  batchID, highestID,   \* of state
  pc,                   \* of the loop
  totalRequests,        \* its local variable
  line,                 \* the status line written last
  phase,                \* of each worker: what it has to record
  managerPc,
  occurred, reported,   \* history: outcomes so far, those in status lines,
  missed                \* and those counted after a line and before its reset

stateVars  == <<batchID, highestID>>
loopVars   == <<pc, totalRequests, line, reported>>
otherVars  == <<phase, managerPc, occurred, missed>>
vars == <<outcome, outcomeMu, stateMu, stateVars, loopVars, otherVars>>

Kinds == {"Successes", "NotFounds", "RateLimits", "OtherErrs", "Recovered", "Lost"}
Zero  == [k \in Kinds |-> 0]

RequestsOf(counts) ==
  counts["Successes"] + counts["NotFounds"] + counts["RateLimits"] + counts["OtherErrs"]

All(counts) == RequestsOf(counts) + counts["Recovered"] + counts["Lost"]

-----------------------------------------------------------------------------
(* LogAndResetVarsLoop                                                     *)

\* Mutant: what the backup workers recovered is counted as requests.
RequestsInAll == All(outcome)

Requests == RequestsOf(outcome)

Snapshot ==
  /\ pc = "snapshot"
  /\ ~ outcomeMu
  /\ totalRequests' = Requests
  /\ pc' = "averages"
  /\ UNCHANGED <<outcome, outcomeMu, stateMu, stateVars, line, reported, otherVars>>

Averages ==
  /\ pc = "averages"
  /\ ~ stateMu
  /\ pc' = "lock state"
  /\ UNCHANGED <<outcome, outcomeMu, stateMu, stateVars, totalRequests, line,
                 reported, otherVars>>

LockState ==
  /\ pc = "lock state"
  /\ ~ stateMu
  /\ stateMu' = TRUE
  /\ pc' = "lock outcome"
  /\ UNCHANGED <<outcome, outcomeMu, stateVars, totalRequests, line, reported, otherVars>>

LockOutcome ==
  /\ pc = "lock outcome"
  /\ ~ outcomeMu
  /\ outcomeMu' = TRUE
  /\ pc' = "print"
  /\ UNCHANGED <<outcome, stateMu, stateVars, totalRequests, line, reported, otherVars>>

\* Mutant: only one of the two mutexes is unlocked.
UnlockStateOnly == stateMu' = FALSE /\ UNCHANGED outcomeMu

UnlockBoth == stateMu' = FALSE /\ outcomeMu' = FALSE

WriteLine ==
  /\ pc = "print"
  /\ line' = [requests |-> totalRequests, counts |-> outcome,
              batchID |-> batchID, highestID |-> highestID]
  /\ reported' = [k \in Kinds |-> reported[k] + outcome[k]]
  /\ UnlockBoth
  /\ pc' = "reset outcome"
  /\ UNCHANGED <<outcome, stateVars, totalRequests, otherVars>>

\* Mutant: one of the counters is not reset.
AfterResetButLost == [Zero EXCEPT !["Lost"] = outcome["Lost"]]

\* Mutant: the total that was printed is taken off.
AfterResetSubtracted == [k \in Kinds |-> outcome[k] - totalRequests]

AfterReset == Zero

ResetOutcome ==
  /\ pc = "reset outcome"
  /\ ~ outcomeMu
  /\ outcome' = AfterReset
  /\ pc' = "reset state"
  /\ UNCHANGED <<outcomeMu, stateMu, stateVars, totalRequests, line, reported, otherVars>>

ResetState ==
  /\ pc = "reset state"
  /\ ~ stateMu
  /\ pc' = "snapshot"
  /\ UNCHANGED <<outcome, outcomeMu, stateMu, stateVars, totalRequests, line,
                 reported, otherVars>>

Loop ==
  \/ Snapshot \/ Averages \/ LockState \/ LockOutcome \/ WriteLine
  \/ ResetOutcome \/ ResetState

-----------------------------------------------------------------------------
(* The workers and the manager                                             *)

\* The outcomes of the workers that are about to count.
Pending == Cardinality({w \in Workers : phase[w] \in Kinds})

\* A fetch ended: the worker wants to count its outcome.
WantToCount(w) ==
  /\ phase[w] = "idle"
  /\ All(occurred) + Pending < MaxEvents
  /\ \E k \in EventKinds : phase' = [phase EXCEPT ![w] = k]
  /\ UNCHANGED <<outcome, outcomeMu, stateMu, stateVars, loopVars, managerPc, occurred,
                 missed>>

\* An item that was fetched also has a delay to add.
Count(w) ==
  /\ phase[w] \in Kinds
  /\ ~ outcomeMu
  /\ outcome'  = [outcome EXCEPT ![phase[w]] = @ + 1]
  /\ occurred' = [occurred EXCEPT ![phase[w]] = @ + 1]
  /\ missed'   = IF pc = "reset outcome" THEN [missed EXCEPT ![phase[w]] = @ + 1] ELSE missed
  /\ phase' = [phase EXCEPT ![w] =
                 IF @ \in {"Successes", "Recovered"} THEN "delay" ELSE "idle"]
  /\ UNCHANGED <<outcomeMu, stateMu, stateVars, loopVars, managerPc>>

AddDelay(w) ==
  /\ phase[w] = "delay"
  /\ ~ stateMu
  /\ phase' = [phase EXCEPT ![w] = "idle"]
  /\ UNCHANGED <<outcome, outcomeMu, stateMu, stateVars, loopVars, managerPc,
                 occurred, missed>>

\* The sections at the start and at the end of the manager's loop.
BatchStarts ==
  /\ managerPc = "between"
  /\ batchID < MaxBatches
  /\ ~ stateMu
  /\ managerPc' = "in batch"
  /\ UNCHANGED <<outcome, outcomeMu, stateMu, stateVars, loopVars, phase, occurred, missed>>

\* Mutant: HighestID is set outside of the section, before it.
BatchEndsInTwo ==
  /\ managerPc = "in batch"
  /\ IF highestID = batchID
       THEN /\ highestID' = highestID + 1
            /\ UNCHANGED <<batchID, managerPc>>
       ELSE /\ ~ stateMu
            /\ batchID' = batchID + 1
            /\ managerPc' = "between"
            /\ UNCHANGED highestID
  /\ UNCHANGED <<outcome, outcomeMu, stateMu, loopVars, phase, occurred, missed>>

BatchEnds ==
  /\ managerPc = "in batch"
  /\ ~ stateMu
  /\ batchID' = batchID + 1
  /\ highestID' = batchID + 1
  /\ managerPc' = "between"
  /\ UNCHANGED <<outcome, outcomeMu, stateMu, loopVars, phase, occurred, missed>>

Worker(w) == Count(w) \/ AddDelay(w)

Manager == BatchStarts \/ BatchEnds

Init ==
  /\ outcome = Zero
  /\ outcomeMu = FALSE /\ stateMu = FALSE
  /\ batchID = 0 /\ highestID = 0
  /\ pc = "snapshot"
  /\ totalRequests = 0
  /\ line = [requests |-> 0, counts |-> Zero, batchID |-> 0, highestID |-> 0]
  /\ phase = [w \in Workers |-> "idle"]
  /\ managerPc = "between"
  /\ occurred = Zero /\ reported = Zero /\ missed = Zero

Next == Loop \/ Manager \/ \E w \in Workers : WantToCount(w) \/ Worker(w)

Spec == Init /\ [][Next]_vars

\* Every goroutine that can run is scheduled, and no goroutine waits for a mutex
\* for ever that is unlocked again and again (sync.Mutex).
Fairness ==
  /\ WF_vars(Loop) /\ SF_vars(LockState) /\ SF_vars(LockOutcome)
  /\ \A w \in Workers : SF_vars(Count(w)) /\ SF_vars(AddDelay(w))
  /\ SF_vars(Manager)

FairSpec == Spec /\ Fairness

-----------------------------------------------------------------------------
(* Properties                                                              *)

TypeOK ==
  /\ outcome \in [Kinds -> Nat]
  /\ {occurred, reported, missed} \subseteq [Kinds -> Nat]
  /\ {outcomeMu, stateMu} \subseteq BOOLEAN
  /\ {batchID, highestID, totalRequests} \subseteq Nat
  /\ pc \in {"snapshot", "averages", "lock state", "lock outcome", "print",
             "reset outcome", "reset state"}
  /\ phase \in [Workers -> Kinds \cup {"idle", "delay"}]
  /\ managerPc \in {"between", "in batch"}

\* Every outcome shows in one status line, and only those are in none that are
\* still to be reported or that were counted between a line and the section that
\* resets the counters: none is reported twice, whenever it is counted.
ReportedOnceOrMissed ==
  \A k \in Kinds :
    IF pc = "reset outcome"
      THEN occurred[k] = reported[k] + missed[k]
      ELSE occurred[k] = reported[k] + missed[k] + outcome[k]

\* A line never claims more requests than the outcomes it lists can account for,
\* although its total is taken in an earlier section than the outcomes.
LineAddsUp == line.requests <= RequestsOf(line.counts)

\* The batch and the highest ID of a line belong together.
LineIsOfOneBatch == line.highestID = line.batchID

\* Neither the loop nor a worker waits for a mutex for ever.
NobodyIsStuck ==
  /\ \A w \in Workers : phase[w] # "idle" ~> phase[w] = "idle"
  /\ pc = "snapshot" ~> pc = "print"
=============================================================================

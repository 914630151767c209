--------------------------- MODULE CrawlerProofs ---------------------------
(***************************************************************************)
(* The composition of the batch loop and the pipeline, proved from what is *)
(* proved of each.                                                         *)
(*                                                                         *)
(* Every step of the crawler is a step of the batch loop or leaves it as   *)
(* it is, and a step of the pipeline or leaves all items where they are.   *)
(* So the invariants of WorkersManagerProofs and of ItemPipelineProofs     *)
(* hold here, and what is left to show is how the two fit: the manager     *)
(* only sends what the pipeline has not seen.                              *)
(*                                                                         *)
(* Crawler has its own instances B and P of the two modules, the proofs    *)
(* have theirs: the first section shows that the definitions agree.        *)
(***************************************************************************)
EXTENDS Crawler, TLAPS

BP == INSTANCE WorkersManagerProofs WITH
        phase <- ProbePhase, item <- probed, InitialHighestID <- 0

PP == INSTANCE ItemPipelineProofs WITH Items <- IDs, NoItem <- NoID

-----------------------------------------------------------------------------
(* The instances agree                                                     *)

LEMMA SameUint16 == B!Uint16 = BP!Uint16
BY DEF BP!Uint16, B!Uint16, BP!Uint16Range, B!Uint16Range

LEMMA LoopAssumptions ==
  /\ BP!InitialAmountIsPositive /\ BP!PoliciesAreValid /\ BP!TimestampsAreDelays
  /\ BP!IncrementsAreIntegers /\ BP!PoolIsNotEmpty /\ BP!OffsetIsPositive
  /\ BP!LimitsAreConfigured /\ BP!StartIsAnID /\ BP!BatchesAreBounded
<1>1. BP!InitialAmountIsPositive /\ BP!PoliciesAreValid /\ BP!TimestampsAreDelays
  BY LoopIsConfigured, Zenon
<1>2. BP!IncrementsAreIntegers
  BY LoopIsConfigured, SameUint16, Zenon
<1>3. /\ BP!PoolIsNotEmpty /\ BP!OffsetIsPositive
      /\ BP!LimitsAreConfigured /\ BP!BatchesAreBounded
  BY LoopIsConfigured, SameUint16, Zenon
<1>4. BP!StartIsAnID
  OBVIOUS
<1> QED  BY <1>1, <1>2, <1>3, <1>4

LEMMA PipelineAssumptions ==
  /\ PP!PoolsAreDisjoint /\ PP!PoolsAreFinite /\ PP!ChannelsHaveRoom
  /\ PP!RetriesAreConfigured /\ PP!LimitIsConfigured /\ PP!NoItemIsNone
BY PipelineIsConfigured, IDsArePositive DEF NoID, PP!IsFiniteSet, IsFiniteSet

LEMMA SameRules ==
  /\ \A l, t : B!NewAmount(l, t) = BP!NewAmount(l, t)
  /\ \A S : B!LeastOf(S) = BP!LeastOf(S)
  /\ \A from : B!GapIDs(from) = BP!GapIDs(from)
  /\ \A drift : B!NextOffset(drift) = BP!NextOffset(drift)
  /\ \A amount : B!ExceedsLimit(amount) = BP!ExceedsLimit(amount)
<1>1. \A S : B!LeastOf(S) = BP!LeastOf(S)
  BY DEF B!LeastOf, BP!LeastOf
<1>2. \A l, a : B!Matching(l, a) = BP!Matching(l, a)
  <2>1. \A p, a : B!MinMatchingLevel(p, a) = BP!MinMatchingLevel(p, a)
    BY DEF B!MinMatchingLevel, BP!MinMatchingLevel, B!LeastOf, BP!LeastOf,
           B!CeilDiv, BP!CeilDiv
  <2> QED  BY <2>1 DEF B!Matching, BP!Matching
<1>3. \A l, a : B!ChosenPolicy(l, a) = BP!ChosenPolicy(l, a)
  BY <1>1, <1>2 DEF B!ChosenPolicy, BP!ChosenPolicy
<1>4. \A a, i : B!Increased(a, i) = BP!Increased(a, i)
  BY DEF B!Increased, BP!Increased, B!Uint16Range, BP!Uint16Range,
         B!LargerOf, BP!LargerOf, B!MaxInt32, BP!MaxInt32
<1>5. \A l, t : B!NewAmount(l, t) = BP!NewAmount(l, t)
  BY <1>2, <1>3, <1>4 DEF B!NewAmount, BP!NewAmount
<1>6. \A from : B!GapIDs(from) = BP!GapIDs(from)
  BY DEF B!GapIDs, BP!GapIDs, B!Fetched, BP!Fetched
<1>7. /\ \A drift : B!NextOffset(drift) = BP!NextOffset(drift)
      /\ \A amount : B!ExceedsLimit(amount) = BP!ExceedsLimit(amount)
  BY DEF B!NextOffset, BP!NextOffset, B!Uint16Range, BP!Uint16Range,
         B!ExceedsLimit, BP!ExceedsLimit
<1> QED  BY <1>1, <1>5, <1>6, <1>7

LEMMA SameManager ==
  /\ B!StartBatch => BP!StartBatch
  /\ B!SendThreshold => BP!SendThreshold
  /\ B!DiscardResult => BP!DiscardResult
  /\ B!AcceptResult => BP!AcceptResult
  /\ B!ScanPending => BP!ScanPending
  /\ B!ScanFailed => BP!ScanFailed
  /\ B!ScanHit => BP!ScanHit
  /\ B!FillGap => BP!FillGap
  /\ B!FinishBatch => BP!FinishBatch
<1>1. B!StartBatch => BP!StartBatch
  BY SameRules DEF B!StartBatch, BP!StartBatch,
         B!controllerVars, BP!controllerVars, B!managerVars, BP!managerVars,
         B!workerVars, BP!workerVars, B!outputVars, BP!outputVars
<1>2. B!SendThreshold => BP!SendThreshold
  BY DEF B!SendThreshold, BP!SendThreshold,
         B!controllerVars, BP!controllerVars, B!managerVars, BP!managerVars,
         B!workerVars, BP!workerVars, B!outputVars, BP!outputVars
<1>3. B!DiscardResult => BP!DiscardResult
  BY DEF B!DiscardResult, BP!DiscardResult, B!IsStale, BP!IsStale,
         B!controllerVars, BP!controllerVars, B!managerVars, BP!managerVars,
         B!workerVars, BP!workerVars, B!outputVars, BP!outputVars
<1>4. B!AcceptResult => BP!AcceptResult
  BY DEF B!AcceptResult, BP!AcceptResult, B!IsStale, BP!IsStale,
         B!controllerVars, BP!controllerVars, B!managerVars, BP!managerVars,
         B!workerVars, BP!workerVars, B!outputVars, BP!outputVars
<1>5. B!ScanPending => BP!ScanPending
  BY DEF B!ScanPending, BP!ScanPending,
         B!controllerVars, BP!controllerVars, B!managerVars, BP!managerVars,
         B!workerVars, BP!workerVars, B!outputVars, BP!outputVars
<1>6. B!ScanFailed => BP!ScanFailed
  BY DEF B!ScanFailed, BP!ScanFailed, B!TopFailed, BP!TopFailed, B!LoweredID, BP!LoweredID,
         B!controllerVars, BP!controllerVars, B!managerVars, BP!managerVars,
         B!workerVars, BP!workerVars, B!outputVars, BP!outputVars
<1>7. B!ScanHit => BP!ScanHit
  BY SameRules DEF B!ScanHit, BP!ScanHit,
         B!controllerVars, BP!controllerVars, B!managerVars, BP!managerVars,
         B!workerVars, BP!workerVars, B!outputVars, BP!outputVars
<1>8. B!FillGap => BP!FillGap
  BY SameRules DEF B!FillGap, BP!FillGap,
         B!controllerVars, BP!controllerVars, B!managerVars, BP!managerVars,
         B!workerVars, BP!workerVars, B!outputVars, BP!outputVars
<1>9. B!FinishBatch => BP!FinishBatch
  BY SameRules DEF B!FinishBatch, BP!FinishBatch, B!Update, BP!Update, B!Uint16Range, BP!Uint16Range,
         B!controllerVars, BP!controllerVars, B!managerVars, BP!managerVars,
         B!workerVars, BP!workerVars, B!outputVars, BP!outputVars
<1> QED  BY <1>1, <1>2, <1>3, <1>4, <1>5, <1>6, <1>7, <1>8, <1>9

LEMMA SameWorker ==
  ASSUME NEW w
  PROVE  /\ B!TakeID(w) => BP!TakeID(w)
         /\ B!FetchSucceeds(w) => BP!FetchSucceeds(w)
         /\ B!SendResult(w) => BP!SendResult(w)
<1>1. B!TakeID(w) => BP!TakeID(w)
  BY DEF B!TakeID, BP!TakeID, B!NoResult, BP!NoResult,
         B!controllerVars, BP!controllerVars, B!managerVars, BP!managerVars,
         B!workerVars, BP!workerVars, B!outputVars, BP!outputVars
<1>2. B!FetchSucceeds(w) => BP!FetchSucceeds(w)
  BY DEF B!FetchSucceeds, BP!FetchSucceeds,
         B!controllerVars, BP!controllerVars, B!managerVars, BP!managerVars,
         B!workerVars, BP!workerVars, B!outputVars, BP!outputVars
<1>3. B!SendResult(w) => BP!SendResult(w)
  BY DEF B!SendResult, BP!SendResult, B!NoResult, BP!NoResult,
         B!controllerVars, BP!controllerVars, B!managerVars, BP!managerVars,
         B!workerVars, BP!workerVars, B!outputVars, BP!outputVars
<1> QED  BY <1>1, <1>2, <1>3

LEMMA SameWorkerActions ==
  ASSUME NEW w
  PROVE  /\ P!EndWait(w) => PP!EndWait(w)
         /\ P!FetchSucceeds(w) => PP!FetchSucceeds(w)
         /\ P!SendContent(w) => PP!SendContent(w)
         /\ P!AssertionFails(w) => PP!AssertionFails(w)
         /\ P!TakeItem(w) => PP!TakeItem(w)
         /\ P!FetchFails(w) => PP!FetchFails(w)
         /\ P!SendBackup(w) => PP!SendBackup(w)
         /\ P!SendRefresh(w) => PP!SendRefresh(w)
         /\ P!CountRateLimit(w) => PP!CountRateLimit(w)
         /\ P!TakePacket(w) => PP!TakePacket(w)
         /\ P!GiveUp(w) => PP!GiveUp(w)
         /\ P!Retry(w) => PP!Retry(w)
         /\ P!RetryFails(w) => PP!RetryFails(w)
<1>1. P!EndWait(w) => PP!EndWait(w)
  BY DEF P!EndWait, PP!EndWait, P!Move, PP!Move, P!FirstPhase, PP!FirstPhase,
         P!chanVars, PP!chanVars, P!workerVars, PP!workerVars, P!fateVars,
         PP!fateVars
<1>2. P!FetchSucceeds(w) => PP!FetchSucceeds(w)
  BY DEF P!FetchSucceeds, PP!FetchSucceeds, P!Move, PP!Move, P!chanVars,
         PP!chanVars, P!workerVars, PP!workerVars, P!fateVars, PP!fateVars
<1>3. P!SendContent(w) => PP!SendContent(w)
  BY DEF P!SendContent, PP!SendContent, P!NoTask, PP!NoTask, P!chanVars,
         PP!chanVars, P!workerVars, PP!workerVars, P!fateVars, PP!fateVars
<1>4. P!AssertionFails(w) => PP!AssertionFails(w)
  BY DEF P!AssertionFails, PP!AssertionFails, P!Move, PP!Move, P!chanVars,
         PP!chanVars, P!workerVars, PP!workerVars, P!fateVars, PP!fateVars
<1>5. P!TakeItem(w) => PP!TakeItem(w)
  BY DEF P!TakeItem, PP!TakeItem, P!Accept, PP!Accept, P!Move, PP!Move,
         P!FirstPhase, PP!FirstPhase, P!chanVars, PP!chanVars, P!workerVars,
         PP!workerVars, P!fateVars, PP!fateVars
<1>6. P!FetchFails(w) => PP!FetchFails(w)
  BY DEF P!FetchFails, PP!FetchFails, P!Move, PP!Move, P!Causes, PP!Causes,
         P!chanVars, PP!chanVars, P!workerVars, PP!workerVars, P!fateVars,
         PP!fateVars
<1>7. P!SendBackup(w) => PP!SendBackup(w)
  BY DEF P!SendBackup, PP!SendBackup, P!FollowUp, PP!FollowUp, P!Move, PP!Move,
         P!NoTask, PP!NoTask, P!chanVars, PP!chanVars, P!workerVars,
         PP!workerVars, P!fateVars, PP!fateVars
<1>8. P!SendRefresh(w) => PP!SendRefresh(w)
  BY DEF P!SendRefresh, PP!SendRefresh, P!Rest, PP!Rest, P!NoTask, PP!NoTask,
         P!chanVars, PP!chanVars, P!workerVars, PP!workerVars, P!fateVars,
         PP!fateVars
<1>9. P!CountRateLimit(w) => PP!CountRateLimit(w)
  BY DEF P!CountRateLimit, PP!CountRateLimit, P!OneMoreRateLimit,
         PP!OneMoreRateLimit, P!Rest, PP!Rest, P!NoTask, PP!NoTask, P!chanVars,
         PP!chanVars, P!workerVars, PP!workerVars, P!fateVars, PP!fateVars
<1>10. P!TakePacket(w) => PP!TakePacket(w)
  BY DEF P!TakePacket, PP!TakePacket, P!Accept, PP!Accept, P!Move, PP!Move,
         P!FirstPhase, PP!FirstPhase, P!chanVars, PP!chanVars, P!workerVars,
         PP!workerVars, P!fateVars, PP!fateVars
<1>11. P!GiveUp(w) => PP!GiveUp(w)
  BY DEF P!GiveUp, PP!GiveUp, P!Exhausted, PP!Exhausted, P!Rest, PP!Rest,
         P!NoTask, PP!NoTask, P!chanVars, PP!chanVars, P!workerVars,
         PP!workerVars, P!fateVars, PP!fateVars
<1>12. P!Retry(w) => PP!Retry(w)
  BY DEF P!Retry, PP!Retry, P!Exhausted, PP!Exhausted, P!Move, PP!Move,
         P!chanVars, PP!chanVars, P!workerVars, PP!workerVars, P!fateVars,
         PP!fateVars
<1>13. P!RetryFails(w) => PP!RetryFails(w)
  BY DEF P!RetryFails, PP!RetryFails, P!Move, PP!Move, P!Causes, PP!Causes,
         P!Counted, PP!Counted, P!chanVars, PP!chanVars, P!workerVars,
         PP!workerVars, P!fateVars, PP!fateVars
<1> QED
  BY <1>1, <1>2, <1>3, <1>4, <1>5, <1>6, <1>7, <1>8, <1>9, <1>10, <1>11, <1>12,
     <1>13

LEMMA SamePools ==
  ASSUME NEW w
  PROVE  /\ P!SubWorker(w) => PP!SubWorker(w)
         /\ P!BackupWorker(w) => PP!BackupWorker(w)
BY SameWorkerActions
DEF P!SubWorker, PP!SubWorker, P!BackupWorker, PP!BackupWorker

LEMMA SameEnds ==
  /\ \A i : P!Assign(i) => PP!Assign(i)
  /\ \A i : P!DeliverThreshold(i) => PP!DeliverThreshold(i)
  /\ P!TakeContent => PP!TakeContent
  /\ \A s : P!TakeRefresh(s) => PP!TakeRefresh(s)
  /\ P!ResetRateLimits => PP!ResetRateLimits
<1>1. \A i : P!Assign(i) => PP!Assign(i)
  BY DEF P!Assign, PP!Assign, P!chanVars, PP!chanVars, P!workerVars,
         PP!workerVars, P!fateVars, PP!fateVars
<1>2. \A i : P!DeliverThreshold(i) => PP!DeliverThreshold(i)
  BY DEF P!DeliverThreshold, PP!DeliverThreshold, P!chanVars, PP!chanVars,
         P!workerVars, PP!workerVars, P!fateVars, PP!fateVars
<1>3. P!TakeContent => PP!TakeContent
  BY DEF P!TakeContent, PP!TakeContent, P!chanVars, PP!chanVars, P!workerVars,
         PP!workerVars, P!fateVars, PP!fateVars
<1>4. \A s : P!TakeRefresh(s) => PP!TakeRefresh(s)
  BY DEF P!TakeRefresh, PP!TakeRefresh, P!chanVars, PP!chanVars, P!workerVars,
         PP!workerVars, P!fateVars, PP!fateVars
<1>5. P!ResetRateLimits => PP!ResetRateLimits
  BY DEF P!ResetRateLimits, PP!ResetRateLimits, P!chanVars, PP!chanVars,
         P!workerVars, PP!workerVars, P!fateVars, PP!fateVars
<1> QED  BY <1>1, <1>2, <1>3, <1>4, <1>5

LEMMA SamePlaces == P!EachItemInOnePlace <=> PP!EachItemInOnePlace
BY DEF P!EachItemInOnePlace, PP!EachItemInOnePlace, P!Places, PP!Places,
       P!Copies, PP!Copies, P!Cardinality, PP!Cardinality, P!Workers, PP!Workers

LEMMA SameInit == Init => BP!Init /\ PP!Init
<1>1. B!Init => BP!Init
  BY DEF B!Init, BP!Init, B!ControllerInit, BP!ControllerInit, B!Workers, BP!Workers,
         B!NoResult, BP!NoResult
<1>2. P!Init => PP!Init
  BY DEF P!Init, PP!Init, P!Workers, PP!Workers, P!NoTask, PP!NoTask
<1> QED  BY <1>1, <1>2 DEF Init

-----------------------------------------------------------------------------
(* The inductive invariant                                                 *)

ProbeStates == {"idle", "waiting", "fetching", "refreshing", "counting", "sending",
                "halted", "finished"}

ProbersTypeOK ==
  /\ probe \in [Probers -> ProbeStates]
  /\ probeSession \in [Probers -> Sessions]

\* The pipeline has not seen what the batch loop has not settled, and the content
\* that the manager holds, which is above the frontier.
Linked ==
  /\ pending \in Nat
  /\ unseen = (IDs \ BP!Settled) \cup ({pending} \ {NoID})
  /\ pending # NoID => /\ pending \in BP!Settled
                       /\ pending > lastSuccID
                       /\ pc = "scan"

LoopInv == BP!Inv /\ BP!FrontierInv /\ BP!NothingSkipped

CrawlerInv == ProbersTypeOK /\ LoopInv /\ PP!DeliveryInv /\ Linked

-----------------------------------------------------------------------------
(* The steps of the batch loop                                             *)

LEMMA InitProbers == Init => ProbersTypeOK
<1>1. (CHOOSE s \in Sessions : TRUE) \in Sessions
  BY PipelineIsConfigured
<1> QED  BY <1>1 DEF Init, ProbersTypeOK, ProbeStates

LEMMA NextProbers ==
  ASSUME ProbersTypeOK, [Next]_vars
  PROVE  ProbersTypeOK'
<1>1. ASSUME NEW w \in Probers, Prober(w) \/ Finish(w)
      PROVE  ProbersTypeOK'
  <2>1. \E to \in ProbeStates : GoOn(w, to)
    BY <1>1
    DEF Prober, TakeID, EndWait, FetchFails, SendRefresh, CountRateLimit,
        FetchSucceeds, TimestampFails, SendResult, Finish, AfterFailure, P!Causes,
        ProbeStates
  <2>2. \/ probeSession' = probeSession
        \/ \E s \in Sessions : probeSession' = [probeSession EXCEPT ![w] = s]
    BY <1>1
    DEF Prober, TakeID, EndWait, FetchFails, SendRefresh, CountRateLimit,
        FetchSucceeds, TimestampFails, SendResult, Finish, loopVars
  <2> QED  BY <2>1, <2>2 DEF GoOn, ProbersTypeOK
<1>2. CASE UNCHANGED probeVars
  BY <1>2 DEF probeVars, ProbersTypeOK
<1>3. CASE Manager
  BY <1>2, <1>3 DEF Manager, Loop, Accept, SendPending, FillGap
<1>4. CASE Alone \/ Quiet \/ UNCHANGED vars
  BY <1>2, <1>4 DEF Alone, Quiet, vars
<1> QED
  BY <1>1, <1>3, <1>4
  DEF Next, Step, SubWorker, BackupWorker, TakeContent, TakeRefresh, ResetRateLimits

\* What a state of a thresholds worker is in the batch loop.
LoopPhase(state) ==
  CASE state \in {"idle", "finished"} -> "idle"
    [] state = "sending"              -> "sending"
    [] OTHER                          -> "fetching"

LEMMA ProbeMoves ==
  ASSUME ProbersTypeOK, NEW w \in Probers, NEW to, GoOn(w, to)
  PROVE  /\ ProbePhase[w] = LoopPhase(probe[w])
         /\ ProbePhase' = [ProbePhase EXCEPT ![w] = LoopPhase(to)]
BY DEF ProbersTypeOK, GoOn, ProbePhase, LoopPhase

\* A worker moves on, and the batch loop sees nothing of it.
LEMMA ProbeMovesUnseen ==
  ASSUME ProbersTypeOK, NEW w \in Probers, NEW to, GoOn(w, to),
         LoopPhase(to) = LoopPhase(probe[w])
  PROVE  ProbePhase' = ProbePhase
<1>1. ProbePhase[w] = LoopPhase(to)
  BY ProbeMoves
<1>2. ProbePhase' = [ProbePhase EXCEPT ![w] = ProbePhase[w]]
  BY <1>1, ProbeMoves
<1> QED  BY <1>2 DEF ProbePhase

LEMMA LoopRests ==
  ASSUME ProbePhase' = ProbePhase, UNCHANGED loopVars
  PROVE  UNCHANGED BP!vars
BY DEF loopVars, BP!vars, BP!controllerVars, BP!managerVars, BP!workerVars,
       BP!outputVars

LEMMA ManagerInLoop ==
  ASSUME Manager
  PROVE  [BP!Next]_(BP!vars)
<1>1. CASE Loop \/ Accept \/ FillGap
  BY <1>1, SameManager DEF Loop, Accept, FillGap, BP!Next, BP!Manager
<1>2. CASE SendPending
  BY <1>2, LoopRests DEF SendPending, ProbePhase, probeVars
<1> QED  BY <1>1, <1>2 DEF Manager

LEMMA FetchFailsInLoop ==
  ASSUME ProbersTypeOK, NEW w \in Probers, FetchFails(w)
  PROVE  BP!Next \/ UNCHANGED BP!vars
<1>1. PICK to : GoOn(w, to) /\ to \in {"refreshing", "counting", "sending"}
  BY DEF FetchFails, AfterFailure, P!Causes
<1>2. probe[w] = "fetching" /\ UNCHANGED loopVars
  BY DEF FetchFails
<1>3. CASE to = "sending"
  <2>1. BP!FetchFails(w)
    BY <1>1, <1>2, <1>3, ProbeMoves
    DEF LoopPhase, BP!FetchFails, loopVars, BP!controllerVars, BP!managerVars,
        BP!outputVars
  <2> QED  BY <2>1 DEF BP!Next, BP!Worker, BP!Workers, Probers
<1>4. CASE to # "sending"
  BY <1>1, <1>2, <1>4, ProbeMovesUnseen, LoopRests DEF LoopPhase
<1> QED  BY <1>3, <1>4

LEMMA ProberInLoop ==
  ASSUME ProbersTypeOK, NEW w \in Probers, Prober(w) \/ Finish(w)
  PROVE  BP!Next \/ UNCHANGED BP!vars
<1>1. CASE TakeID(w) \/ FetchSucceeds(w) \/ SendResult(w)
  <2>1. BP!TakeID(w) \/ BP!FetchSucceeds(w) \/ BP!SendResult(w)
    BY <1>1, SameWorker DEF TakeID, FetchSucceeds, SendResult
  <2> QED  BY <2>1 DEF BP!Next, BP!Worker, BP!Workers, Probers
<1>2. CASE FetchFails(w)
  BY <1>2, FetchFailsInLoop
<1>3. CASE SendRefresh(w) \/ CountRateLimit(w)
  <2>1. /\ GoOn(w, "sending") /\ UNCHANGED loopVars
        /\ probe[w] \in {"refreshing", "counting"}
    BY <1>3 DEF SendRefresh, CountRateLimit
  <2>2. BP!FetchFails(w)
    BY <2>1, ProbeMoves
    DEF LoopPhase, BP!FetchFails, loopVars, BP!controllerVars, BP!managerVars,
        BP!outputVars
  <2> QED  BY <2>2 DEF BP!Next, BP!Worker, BP!Workers, Probers
<1>4. CASE EndWait(w) \/ TimestampFails(w) \/ Finish(w)
  <2>1. PICK to : /\ GoOn(w, to) /\ UNCHANGED loopVars
                  /\ LoopPhase(to) = LoopPhase(probe[w])
    BY <1>4 DEF EndWait, TimestampFails, Finish, LoopPhase
  <2> QED  BY <2>1, ProbeMovesUnseen, LoopRests
<1> QED  BY <1>1, <1>2, <1>3, <1>4 DEF Prober

\* Every step is one of the batch loop, or leaves it as it is.
LEMMA StepInLoop ==
  ASSUME ProbersTypeOK, [Next]_vars
  PROVE  [BP!Next]_(BP!vars)
<1>1. CASE Manager
  BY <1>1, ManagerInLoop
<1>2. ASSUME NEW w \in Probers, Prober(w) \/ Finish(w)
      PROVE  [BP!Next]_(BP!vars)
  BY <1>2, ProberInLoop
<1>3. CASE Alone
  BY <1>3, LoopRests DEF Alone, ProbePhase, probeVars
<1>4. CASE Quiet \/ UNCHANGED vars
  BY <1>4, LoopRests DEF Quiet, vars, ProbePhase, probeVars
<1> QED
  BY <1>1, <1>2, <1>3, <1>4
  DEF Next, Step, SubWorker, BackupWorker, TakeContent, TakeRefresh, ResetRateLimits

-----------------------------------------------------------------------------
(* The steps of the pipeline                                               *)

PipelineStep == PP!PipelineInv' /\ PP!Conserved /\ PP!DeliveryStep

LEMMA PipelineNext ==
  ASSUME PP!DeliveryInv, [PP!Next]_(PP!vars)
  PROVE  PipelineStep
<1>1. PP!PipelineInv' /\ PP!Conserved
  BY PP!NextStep, PipelineAssumptions DEF PP!DeliveryInv
<1>2. PP!DeliveryInv'
  BY <1>1 DEF PP!DeliveryInv, PP!Conserved, PP!EachItemInOnePlace
<1> QED  BY <1>1, <1>2, PP!NextDelivery, PipelineAssumptions DEF PipelineStep

LEMMA PipelineRests ==
  ASSUME UNCHANGED pipeVars
  PROVE  UNCHANGED PP!vars
BY DEF pipeVars, chanVars, workVars, fateVars, PP!vars, PP!chanVars, PP!workerVars,
       PP!fateVars

\* What the thresholds workers do to the pipeline: they ask for a refresh, and
\* they count rate limits.
LEMMA ProbersAside ==
  ASSUME PP!DeliveryInv,
         UNCHANGED <<subordinateChan, backupChan, wsChan, ctx, workVars, fateVars>>,
         refreshChan' \in [Sessions -> 0 .. RefreshSize],
         rateLimits' \in 0 .. MaxRateLimits + 1
  PROVE  PipelineStep
<1>1. /\ UNCHANGED <<subordinateChan, backupChan, wsChan, ctx, phase, task>>
      /\ UNCHANGED <<unseen, delivered, lost>>
      /\ UNCHANGED PP!workerVars /\ UNCHANGED PP!fateVars
  BY DEF workVars, fateVars, PP!workerVars, PP!fateVars
<1>2. /\ \A v \in PP!Workers : PP!WorkerInv(v)'
      /\ \A i : PP!Held(i)' = PP!Held(i)
  BY <1>1, PP!WorkersRest, PipelineAssumptions DEF PP!DeliveryInv
<1>3. PP!TypeOK'
  BY <1>1 DEF PP!DeliveryInv, PP!PipelineInv, PP!TypeOK
<1>4. PP!Conserved
  BY <1>1, <1>2, PP!NothingMoves, PipelineAssumptions
<1>5. \A i : PP!SamePlaces(i)
  BY <1>1 DEF PP!SamePlaces
<1>6. PP!DeliveryStep
  BY <1>1, <1>5, PP!KeptWithoutWorkers, PP!AllKept, PipelineAssumptions
<1> QED  BY <1>2, <1>3, <1>4, <1>6 DEF PipelineStep, PP!PipelineInv

LEMMA ProberInPipeline ==
  ASSUME ProbersTypeOK, PP!DeliveryInv, ctx = "live",
         NEW w \in Probers, Prober(w)
  PROVE  PipelineStep
<1>1. CASE \/ TakeID(w) \/ EndWait(w) \/ FetchFails(w) \/ FetchSucceeds(w)
           \/ SendResult(w)
  BY <1>1, PipelineRests, PipelineNext
  DEF TakeID, EndWait, FetchFails, FetchSucceeds, SendResult
<1>2. PP!TypeOK
  BY DEF PP!DeliveryInv, PP!PipelineInv
<1>3. CASE SendRefresh(w)
  <2>1. /\ refreshChan' = [refreshChan EXCEPT ![probeSession[w]] = @ + 1]
        /\ refreshChan[probeSession[w]] < RefreshSize
        /\ rateLimits' = rateLimits
        /\ UNCHANGED <<subordinateChan, backupChan, wsChan, ctx, workVars, fateVars>>
    BY <1>3 DEF SendRefresh
  <2>2. probeSession[w] \in Sessions
    BY DEF ProbersTypeOK
  <2>3. refreshChan' \in [Sessions -> 0 .. RefreshSize]
    <3>1. /\ refreshChan \in [Sessions -> 0 .. RefreshSize]
          /\ RefreshSize \in Nat
      BY <1>2, PipelineIsConfigured DEF PP!TypeOK
    <3>2. refreshChan[probeSession[w]] + 1 \in 0 .. RefreshSize
      BY <2>1, <2>2, <3>1
    <3> QED  BY <2>1, <2>2, <3>1, <3>2
  <2>4. rateLimits' \in 0 .. MaxRateLimits + 1
    BY <1>2, <2>1 DEF PP!TypeOK
  <2> QED  BY <2>1, <2>3, <2>4, ProbersAside
<1>4. CASE CountRateLimit(w)
  <2>1. /\ rateLimits' = IF rateLimits > MaxRateLimits THEN rateLimits
                         ELSE rateLimits + 1
        /\ UNCHANGED <<chanVars, ctx, workVars, fateVars>>
    BY <1>4 DEF CountRateLimit, P!OneMoreRateLimit
  <2>2. rateLimits' \in 0 .. MaxRateLimits + 1
    <3>1. rateLimits \in 0 .. MaxRateLimits + 1 /\ MaxRateLimits \in Nat
      BY <1>2, PipelineIsConfigured DEF PP!TypeOK
    <3> QED  BY <2>1, <3>1
  <2>3. refreshChan' \in [Sessions -> 0 .. RefreshSize]
    BY <1>2, <2>1 DEF PP!TypeOK, chanVars
  <2> QED  BY <2>1, <2>2, <2>3, ProbersAside DEF chanVars
<1>5. CASE TimestampFails(w)
  <2>1. PP!Cancel
    BY <1>5 DEF TimestampFails, PP!Cancel, PP!chanVars, PP!workerVars, PP!fateVars,
                chanVars, workVars, fateVars
  <2> QED  BY <2>1, PipelineNext DEF PP!Next, PP!Step
<1> QED  BY <1>1, <1>3, <1>4, <1>5 DEF Prober

LEMMA PipelineAlone ==
  ASSUME PP!DeliveryInv, ctx = "live",
         \/ \E w \in SubWorkers : SubWorker(w)
         \/ \E w \in BackupWorkers : BackupWorker(w)
         \/ TakeContent
         \/ \E s \in Sessions : TakeRefresh(s)
         \/ ResetRateLimits
  PROVE  PipelineStep
<1>1. PP!Step
  BY SamePools, SameEnds
  DEF PP!Step, SubWorker, BackupWorker, TakeContent, TakeRefresh, ResetRateLimits
<1> QED  BY <1>1, PipelineNext DEF PP!Next

\* What the manager sends, the pipeline has not seen.
LEMMA ManagerInPipeline ==
  ASSUME IDs = Nat \ {0}, CrawlerInv, ctx = "live", Manager
  PROVE  PipelineStep
<1>1. PP!DeliveryInv /\ Linked /\ LoopInv /\ ProbersTypeOK
  BY DEF CrawlerInv
<1>2. CASE Loop \/ Accept
  BY <1>1, <1>2, PipelineRests, PipelineNext DEF Loop, Accept
<1>3. CASE SendPending
  <2>1. pending \in unseen
    BY <1>1, <1>3 DEF SendPending, Linked, NoID
  <2>2. PP!DeliverThreshold(pending)
    BY <1>3, SameEnds DEF SendPending
  <2> QED  BY <1>1, <2>1, <2>2, PipelineNext DEF PP!Next, PP!Step
<1>4. CASE FillGap
  <2> DEFINE id == B!LeastOf(gaps)
  <2>1. BP!FillGap /\ P!Assign(id) /\ id = BP!LeastOf(gaps)
    BY <1>4, SameManager, SameRules DEF FillGap
  <2>2. id \in unseen
    <3>1. /\ id \in Nat /\ id > stateHighestID /\ id \notin BP!Settled
          /\ stateHighestID \in Nat
      BY <1>1, <2>1, BP!FilledIsNew, LoopAssumptions
      DEF LoopInv, BP!Inv, BP!TypeOK
    <3> QED  BY <1>1, <3>1 DEF Linked
  <2>3. PP!Assign(id)
    BY <2>1, SameEnds
  <2> QED  BY <1>1, <2>2, <2>3, PipelineNext DEF PP!Next, PP!Step
<1> QED  BY <1>2, <1>3, <1>4 DEF Manager

LEMMA StepInPipeline ==
  ASSUME IDs = Nat \ {0}, CrawlerInv, [Next]_vars
  PROVE  PipelineStep
<1>1. ProbersTypeOK /\ PP!DeliveryInv
  BY DEF CrawlerInv
<1>2. CASE ctx = "live" /\ Step
  BY <1>1, <1>2, ManagerInPipeline, ProberInPipeline, PipelineAlone DEF Step
<1>3. CASE (\E w \in Probers : Finish(w)) \/ Quiet \/ UNCHANGED vars
  BY <1>1, <1>3, PipelineRests, PipelineNext DEF Finish, Quiet, vars
<1> QED  BY <1>2, <1>3 DEF Next

-----------------------------------------------------------------------------
(* How the two fit                                                         *)

\* A step that settles nothing and leaves the pipeline and the manager's content.
LEMMA LinkKept ==
  ASSUME Linked,
         UNCHANGED <<unseen, pending, successfulItems, subordinateItems,
                     stateHighestID>>,
         pending # NoID => UNCHANGED <<lastSuccID, pc>>
  PROVE  Linked'
<1>1. BP!Settled' = BP!Settled
  BY DEF BP!Settled, BP!Delivered, BP!Assigned, BP!Contents
<1> QED  BY <1>1 DEF Linked

LEMMA AcceptLinked ==
  ASSUME IDs = Nat \ {0}, CrawlerInv, Accept
  PROVE  Linked'
<1> DEFINE result == Head(resultsChan)
<1>1. /\ BP!AcceptResult /\ pending = NoID /\ unseen' = unseen
      /\ pending' = IF result.success THEN result.id ELSE NoID
      /\ unseen = IDs \ BP!Settled
  BY SameManager DEF Accept, pipeVars, fateVars, CrawlerInv, Linked
<1>2. /\ result.id \in Nat /\ result.id > lastSuccID /\ result.id \notin BP!Settled
      /\ lastSuccID \in Nat /\ successfulItems \in Seq(Nat)
  BY <1>1, BP!AcceptedIsNew, LoopAssumptions
  DEF CrawlerInv, LoopInv, BP!Inv, BP!TypeOK
<1>3. /\ successfulItems' = IF result.success
                              THEN Append(successfulItems, result.id)
                              ELSE successfulItems
      /\ subordinateItems' = subordinateItems
      /\ lastSuccID' = lastSuccID
      /\ pc' = "scan"
  BY <1>1 DEF BP!AcceptResult
<1>4. CASE result.success
  <2>1. BP!Settled' = BP!Settled \cup {result.id}
    <3>1. BP!Contents(Append(successfulItems, result.id))
            = BP!Contents(successfulItems) \cup {result.id}
      BY <1>2, BP!AppendContents, LoopAssumptions
    <3> QED  BY <1>3, <1>4, <3>1
             DEF BP!Settled, BP!Delivered, BP!Assigned, BP!Contents
  <2> QED  BY <1>1, <1>2, <1>3, <1>4, <2>1 DEF Linked, NoID
<1>5. CASE ~ result.success
  <2>1. BP!Settled' = BP!Settled
    BY <1>3, <1>5 DEF BP!Settled, BP!Delivered, BP!Assigned, BP!Contents
  <2> QED  BY <1>1, <1>5, <2>1 DEF Linked, NoID
<1> QED  BY <1>4, <1>5

LEMMA SendPendingLinked ==
  ASSUME CrawlerInv, SendPending
  PROVE  Linked'
<1>1. /\ pending \in BP!Settled /\ unseen = (IDs \ BP!Settled) \cup {pending}
      /\ pending' = NoID /\ unseen' = unseen \ {pending}
      /\ UNCHANGED <<successfulItems, subordinateItems>>
  BY DEF SendPending, CrawlerInv, Linked, P!DeliverThreshold, loopVars
<1>2. BP!Settled' = BP!Settled
  BY <1>1 DEF BP!Settled, BP!Delivered, BP!Assigned, BP!Contents
<1> QED  BY <1>1, <1>2 DEF Linked, NoID

LEMMA FillGapLinked ==
  ASSUME CrawlerInv, FillGap
  PROVE  Linked'
<1> DEFINE id == BP!LeastOf(gaps)
<1>1. /\ pending = NoID /\ pending' = NoID
      /\ BP!FillGap /\ unseen' = unseen \ {id}
      /\ unseen = IDs \ BP!Settled
  BY SameManager, SameRules DEF FillGap, P!Assign, CrawlerInv, Linked
<1>2. id \in Nat /\ subordinateItems \in Seq(Nat)
  BY <1>1, BP!FilledIsNew, LoopAssumptions
  DEF CrawlerInv, LoopInv, BP!Inv, BP!TypeOK
<1>3. /\ subordinateItems' = Append(subordinateItems, id)
      /\ successfulItems' = successfulItems
  BY <1>1 DEF BP!FillGap
<1>4. BP!Contents(Append(subordinateItems, id))
        = BP!Contents(subordinateItems) \cup {id}
  BY <1>2, BP!AppendContents, LoopAssumptions
<1>5. BP!Settled' = BP!Settled \cup {id}
  BY <1>3, <1>4 DEF BP!Settled, BP!Delivered, BP!Assigned, BP!Contents
<1> QED  BY <1>1, <1>5 DEF Linked, NoID

LEMMA LoopLinked ==
  ASSUME CrawlerInv, Loop
  PROVE  Linked'
<1>1. /\ pending = NoID /\ pending' = pending /\ unseen' = unseen
      /\ UNCHANGED <<successfulItems, subordinateItems>>
  BY DEF Loop, pipeVars, fateVars, B!StartBatch, B!SendThreshold, B!DiscardResult,
         B!ScanPending, B!ScanFailed, B!ScanHit, B!FinishBatch, B!outputVars
<1>2. BP!Settled' = BP!Settled
  BY <1>1 DEF BP!Settled, BP!Delivered, BP!Assigned, BP!Contents
<1> QED  BY <1>1, <1>2 DEF CrawlerInv, Linked

LEMMA PoolsLeaveUnseen ==
  ASSUME NEW w, P!SubWorker(w) \/ P!BackupWorker(w)
  PROVE  unseen' = unseen
BY DEF P!SubWorker, P!BackupWorker, P!TakeItem, P!EndWait, P!FetchSucceeds,
       P!FetchFails, P!SendBackup, P!SendRefresh, P!CountRateLimit, P!SendContent,
       P!AssertionFails, P!TakePacket, P!GiveUp, P!Retry, P!RetryFails, P!fateVars

LEMMA ProberLinked ==
  ASSUME Linked, NEW w \in Probers, Prober(w) \/ Finish(w)
  PROVE  Linked'
<1>1. UNCHANGED <<unseen, pending, successfulItems, subordinateItems,
                  stateHighestID, lastSuccID, pc>>
  BY DEF Prober, TakeID, EndWait, FetchFails, SendRefresh, CountRateLimit,
         FetchSucceeds, TimestampFails, SendResult, Finish, B!TakeID,
         B!FetchSucceeds, B!SendResult, B!managerVars, B!outputVars, loopVars,
         pipeVars, fateVars
<1> QED  BY <1>1, LinkKept

LEMMA StepLinked ==
  ASSUME IDs = Nat \ {0}, CrawlerInv, [Next]_vars
  PROVE  Linked'
<1>1. Linked
  BY DEF CrawlerInv
<1>2. CASE Manager
  BY <1>2, LoopLinked, AcceptLinked, SendPendingLinked, FillGapLinked DEF Manager
<1>3. ASSUME NEW w \in Probers, Prober(w) \/ Finish(w)
      PROVE  Linked'
  BY <1>1, <1>3, ProberLinked
<1>4. CASE Alone /\ unseen' = unseen
  BY <1>1, <1>4, LinkKept DEF Alone, loopVars
<1>5. CASE Quiet \/ UNCHANGED vars
  BY <1>1, <1>5, LinkKept DEF Quiet, vars, loopVars, pipeVars, fateVars
<1>6. CASE \/ \E w \in SubWorkers : SubWorker(w)
           \/ \E w \in BackupWorkers : BackupWorker(w)
  BY <1>4, <1>6, PoolsLeaveUnseen DEF SubWorker, BackupWorker
<1>7. CASE TakeContent \/ (\E s \in Sessions : TakeRefresh(s)) \/ ResetRateLimits
  BY <1>4, <1>7
  DEF TakeContent, TakeRefresh, ResetRateLimits, P!TakeContent, P!TakeRefresh,
      P!ResetRateLimits, P!fateVars
<1> QED  BY <1>2, <1>3, <1>5, <1>6, <1>7 DEF Next, Step

-----------------------------------------------------------------------------
(* The invariant holds                                                     *)

LEMMA InitCrawlerInv ==
  ASSUME Init
  PROVE  CrawlerInv
<1>1. BP!Init /\ PP!Init
  BY SameInit
<1>2. LoopInv
  BY <1>1, BP!InitInv, BP!FrontierInit, BP!InitSkipsNothing, LoopAssumptions
  DEF LoopInv
<1>3. PP!DeliveryInv
  BY <1>1, PP!InitPipeline, PipelineAssumptions DEF PP!DeliveryInv
<1>4. ProbersTypeOK
  BY InitProbers
<1>5. Linked
  <2>1. BP!Settled = {}
    BY <1>1 DEF BP!Init, BP!Settled, BP!Delivered, BP!Assigned, BP!Contents
  <2>2. unseen = IDs /\ pending = NoID
    BY <1>1 DEF PP!Init, Init
  <2> QED  BY <2>1, <2>2 DEF Linked, NoID
<1> QED  BY <1>2, <1>3, <1>4, <1>5 DEF CrawlerInv

LEMMA NextLoopInv ==
  ASSUME ProbersTypeOK, LoopInv, [Next]_vars
  PROVE  LoopInv' /\ BP!Step
<1>1. [BP!Next]_(BP!vars)
  BY StepInLoop
<1>2. BP!Inv' /\ BP!FrontierInv' /\ BP!Step
  BY <1>1, BP!NextInv, BP!NextFrontier, LoopAssumptions DEF LoopInv
<1>3. BP!NothingSkipped'
  BY <1>2, BP!NextSkipsNothing, LoopAssumptions DEF LoopInv
<1> QED  BY <1>2, <1>3 DEF LoopInv

LEMMA NextCrawlerInv ==
  ASSUME IDs = Nat \ {0}, CrawlerInv, [Next]_vars
  PROVE  CrawlerInv'
<1>1. ProbersTypeOK' /\ LoopInv'
  BY NextProbers, NextLoopInv DEF CrawlerInv
<1>2. PP!DeliveryInv'
  BY StepInPipeline
  DEF PipelineStep, CrawlerInv, PP!DeliveryInv, PP!Conserved, PP!EachItemInOnePlace
<1>3. Linked'
  BY StepLinked
<1> QED  BY <1>1, <1>2, <1>3 DEF CrawlerInv

LEMMA CrawlerInvAlways ==
  ASSUME IDs = Nat \ {0}
  PROVE  Spec => []CrawlerInv
<1>1. CrawlerInv /\ [Next]_vars => CrawlerInv'
  BY NextCrawlerInv
<1> QED  BY <1>1, InitCrawlerInv, PTL DEF Spec

-----------------------------------------------------------------------------
(* Theorems                                                                *)

\* However the manager, the thresholds workers and the pipeline interleave, every
\* ID is with the manager or at one place of the pipeline, or delivered or lost:
\* none is dropped and none is handed out twice, over all batches.
THEOREM EachIDIsInOnePlace ==
  ASSUME IDs = Nat \ {0}
  PROVE  Spec => []EachIDInOnePlace
<1>1. CrawlerInv => EachIDInOnePlace
  BY SamePlaces DEF CrawlerInv, PP!DeliveryInv, EachIDInOnePlace
<1> QED  BY <1>1, CrawlerInvAlways, PTL

\* Without limits on the batches, every ID up to the one that the status log calls
\* the highest has entered the pipeline, although the manager may still hold the
\* content of a threshold above it.
THEOREM NothingIsLeftBehind ==
  ASSUME IDs = Nat \ {0}
  PROVE  Spec => []NothingLeftBehind
<1>1. ASSUME CrawlerInv
      PROVE  NothingLeftBehind
  <2> SUFFICES ASSUME ~ EnableBatchLimits, NEW id \in unseen
               PROVE  id > stateHighestID
    BY DEF NothingLeftBehind
  <2>1. /\ stateHighestID \in Nat /\ lastSuccID \in Nat /\ pending \in Nat
        /\ pc # "start" => stateHighestID = lastSuccID
        /\ 1 .. stateHighestID \subseteq BP!Settled
    BY <1>1 DEF CrawlerInv, LoopInv, Linked, BP!Inv, BP!TypeOK, BP!FrontierInv,
                BP!NothingSkipped
  <2>2. CASE id = pending /\ pending # NoID
    BY <1>1, <2>1, <2>2 DEF CrawlerInv, Linked
  <2>3. CASE id \in IDs \ BP!Settled
    BY <2>1, <2>3, IDsArePositive
  <2> QED  BY <1>1, <2>2, <2>3 DEF CrawlerInv, Linked
<1> QED  BY <1>1, CrawlerInvAlways, PTL

\* The crawler implements the batch loop, whatever the pipeline holds up: what the
\* manager waits for and the detours of the thresholds workers add no behaviour.
THEOREM CrawlerImplementsLoop == Spec => BP!Spec
<1>1. Init => BP!Init /\ ProbersTypeOK
  BY SameInit, InitProbers
<1>2. ProbersTypeOK /\ [Next]_vars => ProbersTypeOK' /\ [BP!Next]_(BP!vars)
  BY NextProbers, StepInLoop
<1> QED  BY <1>1, <1>2, PTL DEF Spec, BP!Spec

\* So the frontier of the whole crawler only moves to fetched IDs, and what it
\* passes was delivered or assigned once, or is skipped for the configured limit.
THEOREM CrawlerImplementsFrontier == Spec => B!ImplementsFrontier
<1>1. Init => B!F!FrontierInit
  BY SameInit, BP!FrontierInit, LoopAssumptions
  DEF B!F!FrontierInit, BP!F!FrontierInit, B!Delivered, BP!Delivered, B!Assigned,
      BP!Assigned, B!Contents, BP!Contents
<1>2. BP!Step => [B!F!FrontierNext]_(B!F!frontierVars)
  BY DEF BP!Step, B!F!FrontierNext, BP!F!FrontierNext, B!F!frontierVars,
         BP!F!frontierVars, B!F!Deliver, BP!F!Deliver, B!F!Assign, BP!F!Assign,
         B!F!Advance, BP!F!Advance, B!F!Open, BP!F!Open, B!F!Passed, BP!F!Passed,
         B!Delivered, BP!Delivered, B!Assigned, BP!Assigned, B!Contents, BP!Contents
<1>3. Init => ProbersTypeOK /\ LoopInv
  BY InitCrawlerInv DEF CrawlerInv
<1>4. ProbersTypeOK /\ LoopInv /\ [Next]_vars => (ProbersTypeOK /\ LoopInv)' /\ BP!Step
  BY NextProbers, NextLoopInv
<1> QED  BY <1>1, <1>2, <1>3, <1>4, PTL DEF Spec, B!ImplementsFrontier, B!F!FrontierSpec

\* The crawler as a whole implements ItemDelivery: each ID is delivered or given
\* up once, and given up only after a try of a subordinate worker and all retries
\* of a backup worker.
THEOREM CrawlerImplementsDelivery ==
  ASSUME IDs = Nat \ {0}
  PROVE  Spec => P!ImplementsDelivery
<1>1. /\ P!AbstractStatus = PP!AbstractStatus
      /\ P!AbstractTries = PP!AbstractTries
  BY DEF P!AbstractStatus, PP!AbstractStatus, P!AbstractTries, PP!AbstractTries,
         P!Copies, PP!Copies, P!HandedOver, PP!HandedOver, P!Cardinality,
         PP!Cardinality
<1>2. (/\ P!AbstractStatus = PP!AbstractStatus
       /\ P!AbstractTries = PP!AbstractTries)'
  BY <1>1, PTL
<1>3. PP!D!DeliveryInit => P!D!DeliveryInit
  BY <1>1 DEF P!D!DeliveryInit, PP!D!DeliveryInit
<1>4. PP!DeliveryStep => [P!D!DeliveryNext]_(P!D!deliveryVars)
  BY <1>1, <1>2
  DEF PP!DeliveryStep, P!D!DeliveryNext, PP!D!DeliveryNext, P!D!deliveryVars,
      PP!D!deliveryVars, P!D!HandOut, PP!D!HandOut, P!D!FailedTry, PP!D!FailedTry,
      P!D!Deliver, PP!D!Deliver, P!D!GiveUp, PP!D!GiveUp, P!D!Become, PP!D!Become
<1>5. Init => P!D!DeliveryInit
  BY <1>3, SameInit, PP!InitDelivery, PipelineAssumptions
<1>6. CrawlerInv /\ [Next]_vars => [P!D!DeliveryNext]_(P!D!deliveryVars)
  BY <1>4, StepInPipeline DEF PipelineStep
<1> QED  BY <1>5, <1>6, CrawlerInvAlways, PTL
         DEF Spec, P!ImplementsDelivery, P!D!DeliverySpec

-----------------------------------------------------------------------------
(***************************************************************************)
(* Nobody waits for ever in a circle.  The websocket worker and the        *)
(* refreshers take whatever is in their channels, so the pools behind them *)
(* can empty theirs, and the manager finds room; what is left is the batch *)
(* loop alone, which is never stuck.                                       *)
(***************************************************************************)
SubPhases == {"idle", "waiting", "fetching", "handing over", "refreshing",
              "counting", "delivering", "asserting", "halted"}

BackupPhases == {"idle", "waiting", "retrying", "fetching", "delivering",
                 "asserting", "halted"}

\* Each worker is in a phase of its own loop, and nobody has ended.
AllAlive ==
  /\ \A w \in SubWorkers : phase[w] \in SubPhases
  /\ \A w \in BackupWorkers : phase[w] \in BackupPhases
  /\ ctx = "live" =>
       /\ \A w \in PP!Workers : phase[w] # "halted"
       /\ \A w \in Probers : probe[w] \notin {"halted", "finished"}

(***************************************************************************)
(* Who can go on: the guards of the actions.                               *)
(***************************************************************************)
ManagerCanStep ==
  \/ pending # NoID /\ Len(wsChan) < WsSize
  \/ /\ pending = NoID
     /\ \/ pc \in {"start", "scan", "update"}
        \/ pc = "send" /\ Len(idsChan) < IdealMaxThresholdsAmount
        \/ pc = "collect" /\ resultsChan # <<>>
        \/ pc = "fill" /\ gaps # {} /\ Len(subordinateChan) < SubordinateSize

ProberCanStep(w) ==
  \/ probe[w] = "idle" /\ idsChan # <<>>
  \/ probe[w] \in {"waiting", "fetching", "counting"}
  \/ probe[w] = "refreshing" /\ refreshChan[probeSession[w]] < RefreshSize
  \/ probe[w] = "sending" /\ Len(resultsChan) < IdealMaxThresholdsAmount

SubWorkerCanStep(w) ==
  \/ phase[w] = "idle" /\ subordinateChan # <<>>
  \/ phase[w] \in {"waiting", "fetching", "counting", "asserting"}
  \/ phase[w] = "handing over" /\ Len(backupChan) < BackupSize
  \/ phase[w] = "refreshing" /\ refreshChan[task[w].session] < RefreshSize
  \/ phase[w] = "delivering" /\ Len(wsChan) < WsSize

BackupWorkerCanStep(w) ==
  \/ phase[w] = "idle" /\ backupChan # <<>>
  \/ phase[w] \in {"waiting", "retrying", "fetching", "asserting"}
  \/ phase[w] = "delivering" /\ Len(wsChan) < WsSize

SomeoneCanStep ==
  \/ ManagerCanStep
  \/ \E w \in Probers : ProberCanStep(w)
  \/ \E w \in SubWorkers : SubWorkerCanStep(w)
  \/ \E w \in BackupWorkers : BackupWorkerCanStep(w)
  \/ wsChan # <<>>
  \/ \E s \in Sessions : refreshChan[s] > 0

LEMMA InitAlive == Init => AllAlive
BY DEF Init, P!Init, AllAlive, P!Workers, PP!Workers, SubPhases, BackupPhases

\* A worker of a pool moves to a phase of its loop.
LEMMA PoolMoves ==
  ASSUME AllAlive, PP!TypeOK, NEW w \in PP!Workers, NEW to,
         phase' = [phase EXCEPT ![w] = to],
         w \in SubWorkers => to \in SubPhases,
         w \in BackupWorkers => to \in BackupPhases,
         to = "halted" => ctx' # "live", ctx' = "live" => ctx = "live",
         UNCHANGED probe
  PROVE  AllAlive'
BY DEF AllAlive, PP!TypeOK, PP!Workers

LEMMA SubWorkerAlive ==
  ASSUME AllAlive, PP!PipelineInv, ctx = "live", NEW w \in SubWorkers, SubWorker(w)
  PROVE  AllAlive'
<1>1. w \in PP!Workers /\ w \notin BackupWorkers
  BY PipelineIsConfigured DEF PP!Workers
<1>2. \E to \in SubPhases : /\ phase' = [phase EXCEPT ![w] = to]
                            /\ to = "halted" => ctx' # "live"
  <2>1. CASE P!SendBackup(w)
    <3>1. task[w].cause \in {"unauthorized", "rate limit", "other"}
      BY <1>1, <2>1
      DEF P!SendBackup, PP!PipelineInv, PP!WorkerInv, PP!TypeOK, PP!Causes
    <3>2. P!FollowUp(w) \in {"idle", "refreshing", "counting"}
      BY <3>1 DEF P!FollowUp
    <3> QED  BY <2>1, <3>2 DEF P!SendBackup, P!Move, SubPhases
  <2>2. CASE P!TakeItem(w) \/ P!EndWait(w) \/ P!FetchSucceeds(w) \/ P!FetchFails(w)
    BY <1>1, <2>2
    DEF P!TakeItem, P!Accept, P!EndWait, P!FetchSucceeds, P!FetchFails, P!Move,
        P!FirstPhase, SubPhases
  <2>3. CASE P!SendRefresh(w) \/ P!CountRateLimit(w) \/ P!SendContent(w)
    BY <2>3
    DEF P!SendRefresh, P!CountRateLimit, P!SendContent, P!Move, P!Rest, SubPhases
  <2>4. CASE P!AssertionFails(w)
    BY <2>4 DEF P!AssertionFails, P!Move, SubPhases
  <2> QED  BY <2>1, <2>2, <2>3, <2>4 DEF SubWorker, P!SubWorker
<1> QED  BY <1>1, <1>2, PoolMoves DEF SubWorker, Alone, probeVars, PP!PipelineInv

LEMMA BackupWorkerAlive ==
  ASSUME AllAlive, PP!TypeOK, ctx = "live", NEW w \in BackupWorkers, BackupWorker(w)
  PROVE  AllAlive'
<1>1. w \in PP!Workers /\ w \notin SubWorkers
  BY PipelineIsConfigured DEF PP!Workers
<1>2. \E to \in BackupPhases : /\ phase' = [phase EXCEPT ![w] = to]
                               /\ to = "halted" => ctx' # "live"
  BY <1>1
  DEF BackupWorker, P!BackupWorker, P!TakePacket, P!Accept, P!EndWait, P!GiveUp,
      P!Retry, P!FetchSucceeds, P!RetryFails, P!SendContent, P!AssertionFails,
      P!Move, P!Rest, P!FirstPhase, BackupPhases
<1> QED  BY <1>1, <1>2, PoolMoves DEF BackupWorker, Alone, probeVars

LEMMA ProberAlive ==
  ASSUME AllAlive, ProbersTypeOK, NEW w \in Probers,
         (ctx = "live" /\ Prober(w)) \/ Finish(w)
  PROVE  AllAlive'
<1>1. phase' = phase
  BY DEF Prober, TakeID, EndWait, FetchFails, SendRefresh, CountRateLimit,
         FetchSucceeds, TimestampFails, SendResult, Finish, pipeVars, workVars
<1>2. \E to : /\ probe' = [probe EXCEPT ![w] = to]
              /\ to \in {"halted", "finished"} => ctx' # "live"
  BY DEF Prober, TakeID, EndWait, FetchFails, SendRefresh, CountRateLimit,
         FetchSucceeds, TimestampFails, SendResult, Finish, GoOn, AfterFailure,
         P!Causes, pipeVars
<1>3. ctx' = "live" => ctx = "live"
  BY DEF Finish, pipeVars
<1> QED  BY <1>1, <1>2, <1>3 DEF AllAlive, ProbersTypeOK

LEMMA NextAlive ==
  ASSUME AllAlive, ProbersTypeOK, PP!PipelineInv, [Next]_vars
  PROVE  AllAlive'
<1>1. ASSUME UNCHANGED <<phase, probe, ctx>>
      PROVE  AllAlive'
  BY <1>1 DEF AllAlive
<1>2. CASE Manager
  BY <1>1, <1>2
  DEF Manager, Loop, Accept, SendPending, FillGap, P!DeliverThreshold, P!Assign,
      P!workerVars, probeVars, pipeVars, workVars
<1>3. CASE TakeContent \/ (\E s \in Sessions : TakeRefresh(s)) \/ ResetRateLimits
  BY <1>1, <1>3
  DEF TakeContent, TakeRefresh, ResetRateLimits, P!TakeContent, P!TakeRefresh,
      P!ResetRateLimits, P!workerVars, Alone, probeVars
<1>4. CASE Quiet \/ UNCHANGED vars
  BY <1>1, <1>4 DEF Quiet, vars, probeVars, pipeVars, workVars
<1>5. CASE ctx = "live" /\ Step
  BY <1>2, <1>3, <1>5, SubWorkerAlive, BackupWorkerAlive, ProberAlive
  DEF Step, PP!PipelineInv
<1>6. ASSUME NEW w \in Probers, Finish(w)
      PROVE  AllAlive'
  BY <1>6, ProberAlive
<1> QED  BY <1>4, <1>5, <1>6 DEF Next

\* With empty channels to the websocket worker and the refreshers, a pool that
\* cannot go on has nothing to do.
LEMMA PoolsRest ==
  ASSUME PP!TypeOK, AllAlive, ctx = "live",
         SubWorkers # {}, BackupWorkers # {}, ~ SomeoneCanStep
  PROVE  /\ subordinateChan = <<>> /\ wsChan = <<>>
         /\ \A s \in Sessions : refreshChan[s] < RefreshSize
<1>1. {SubordinateSize, BackupSize, WsSize, RefreshSize} \subseteq Nat \ {0}
  BY PipelineIsConfigured
<1>2. wsChan = <<>> /\ Len(wsChan) < WsSize
  BY <1>1 DEF SomeoneCanStep
<1>3. \A s \in Sessions : refreshChan[s] < RefreshSize
  <2> TAKE s \in Sessions
  <2>1. refreshChan[s] \in 0 .. RefreshSize /\ ~ (refreshChan[s] > 0)
    BY DEF PP!TypeOK, SomeoneCanStep
  <2> QED  BY <1>1, <2>1
<1>4. backupChan = <<>> /\ Len(backupChan) < BackupSize
  <2>1. PICK w \in BackupWorkers : TRUE
    OBVIOUS
  <2>2. phase[w] \in BackupPhases /\ phase[w] # "halted"
    BY DEF AllAlive, PP!Workers
  <2>3. ~ BackupWorkerCanStep(w)
    BY DEF SomeoneCanStep
  <2>4. backupChan = <<>>
    BY <1>2, <2>2, <2>3 DEF BackupWorkerCanStep, BackupPhases
  <2> QED  BY <1>1, <2>4
<1>5. subordinateChan = <<>>
  <2>1. PICK w \in SubWorkers : TRUE
    OBVIOUS
  <2>2. phase[w] \in SubPhases /\ phase[w] # "halted"
    BY DEF AllAlive, PP!Workers
  <2>3. ~ SubWorkerCanStep(w)
    BY DEF SomeoneCanStep
  <2>4. task[w].session \in Sessions
    BY DEF PP!TypeOK, PP!Workers
  <2> QED  BY <1>2, <1>3, <1>4, <2>2, <2>3, <2>4 DEF SubWorkerCanStep, SubPhases
<1> QED  BY <1>2, <1>3, <1>5

\* Then the batch loop can go on, if it can on its own.
LEMMA LoopGoesOn ==
  ASSUME PP!TypeOK, AllAlive, ProbersTypeOK, ctx = "live",
         SubWorkers # {}, BackupWorkers # {}, BP!SomeoneCanStep
  PROVE  SomeoneCanStep
<1> SUFFICES ASSUME ~ SomeoneCanStep PROVE FALSE
  OBVIOUS
<1>1. /\ subordinateChan = <<>> /\ wsChan = <<>>
      /\ \A s \in Sessions : refreshChan[s] < RefreshSize
  BY PoolsRest
<1>2. {SubordinateSize, WsSize} \subseteq Nat \ {0}
  BY PipelineIsConfigured
<1>3. Len(subordinateChan) < SubordinateSize /\ Len(wsChan) < WsSize
  BY <1>1, <1>2
<1>4. CASE BP!ManagerCanStep
  BY <1>3, <1>4 DEF BP!ManagerCanStep, ManagerCanStep, SomeoneCanStep
<1>5. ASSUME NEW w \in BP!Workers, BP!WorkerCanStep(w)
      PROVE  FALSE
  <2>1. w \in Probers
    BY DEF BP!Workers, Probers
  <2>2. probe[w] \in ProbeStates \ {"halted", "finished"}
    BY <2>1 DEF AllAlive, ProbersTypeOK
  <2>3. ProbePhase[w] = LoopPhase(probe[w])
    BY <2>1 DEF ProbePhase, LoopPhase
  <2>4. probeSession[w] \in Sessions
    BY <2>1 DEF ProbersTypeOK
  <2>5. ~ ProberCanStep(w)
    BY <2>1 DEF SomeoneCanStep
  <2> QED  BY <1>1, <1>5, <2>2, <2>3, <2>4, <2>5
           DEF BP!WorkerCanStep, ProberCanStep, ProbeStates, LoopPhase
<1> QED  BY <1>4, <1>5 DEF BP!SomeoneCanStep

\* While the program runs, somebody can go on, although the manager sends all its
\* thresholds before it receives a result (workers-manager.go:53-59) and subordinate
\* workers wait for up to three channels: no circle of waits closes, if a batch has at
\* most twice as many thresholds, and one, as there are workers for them.  Both
\* pools have a worker (crawler.go:43, 79-85), and IDs are all IDs there are.
THEOREM CrawlerIsNeverStuck ==
  ASSUME IDs = Nat \ {0}, SubWorkers # {}, BackupWorkers # {}
  PROVE  Spec => [](ctx = "live" /\ thresholdsAmount <= 2 * IdealMaxThresholdsAmount + 1
                      => SomeoneCanStep)
<1>1. Spec => [](thresholdsAmount <= 2 * IdealMaxThresholdsAmount + 1 => BP!SomeoneCanStep)
  <2>1. BP!Spec => [](thresholdsAmount <= 2 * IdealMaxThresholdsAmount + 1 => BP!SomeoneCanStep)
    BY BP!LoopIsNeverStuck, LoopAssumptions
  <2> QED  BY <2>1, CrawlerImplementsLoop, PTL
<1>2. CrawlerInv => ProbersTypeOK /\ PP!TypeOK /\ PP!PipelineInv
  BY DEF CrawlerInv, PP!DeliveryInv, PP!PipelineInv
<1>3. CrawlerInv /\ AllAlive /\ [Next]_vars => AllAlive'
  BY <1>2, NextAlive
<1>4. Spec => []AllAlive
  BY <1>3, InitAlive, CrawlerInvAlways, PTL DEF Spec
<1>5. CrawlerInv /\ AllAlive
        /\ (thresholdsAmount <= 2 * IdealMaxThresholdsAmount + 1 => BP!SomeoneCanStep)
        => (ctx = "live" /\ thresholdsAmount <= 2 * IdealMaxThresholdsAmount + 1
              => SomeoneCanStep)
  BY <1>2, LoopGoesOn
<1> QED  BY <1>1, <1>4, <1>5, CrawlerInvAlways, PTL
=============================================================================

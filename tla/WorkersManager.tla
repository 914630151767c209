--------------------------- MODULE WorkersManager ---------------------------
(***************************************************************************)
(* The batch loop of the crawler: the workers manager                      *)
(* (app/pkg/crawler/workers-manager.go), the pool of thresholds workers    *)
(* (app/pkg/crawler/workers/thresholds-worker.go), the two bounded         *)
(* channels between them, and the thresholds controller.                   *)
(*                                                                         *)
(* In every batch the manager probes `level' IDs, `offset' apart, above    *)
(* the highest ID it knows.  The results come back in any order.  The      *)
(* batch is decided at the highest probed ID that exists: the IDs below it *)
(* that no worker fetched go to the subordinate workers, and the frontier  *)
(* moves there.                                                            *)
(*                                                                         *)
(* What leaves the component is kept as a history: successfulItems is all  *)
(* that was sent on successfulItemsChan and subordinateItems all that was  *)
(* sent on subordinateWkChan.  The slices of State that only feed the      *)
(* averages of the status log, the BatchID of a packet (log text) and the  *)
(* reason why a fetch failed are abstracted.  What a worker does between   *)
(* the response and its result belongs to its fetch here: it waits for the *)
(* channel of refresh requests (CookieSession) and counts (StatusLog).     *)
(***************************************************************************)
EXTENDS ThresholdsController, FiniteSets

CONSTANTS
  IdealMaxThresholdsAmount, \* thresholds workers, and size of both channels
  InitialOffset,            \* cfg.Core.ThresholdsOffset
  EnableBatchLimits,        \* cfg.Core.BatchLimits
  MaxBatchSize,
  InitialHighestID,         \* what FetchHighestID returned
  MaxBatches                \* bound on the batches; 65535 bounds nothing

ASSUME PoolIsNotEmpty == IdealMaxThresholdsAmount \in 1 .. 254
ASSUME OffsetIsPositive == InitialOffset \in 1 .. 255
ASSUME LimitsAreConfigured ==
  EnableBatchLimits \in BOOLEAN /\ MaxBatchSize \in Uint16
ASSUME StartIsAnID == InitialHighestID \in Nat
ASSUME BatchesAreBounded == MaxBatches \in Uint16

VARIABLES
  pc,                 \* where the manager is in its loop
  batchID,
  offset,
  highestThresholdID,
  lastSuccID,
  level,              \* the loop's own thresholdsAmount
  sent,               \* thresholds sent so far in this batch
  results,            \* map from ID to result
  gaps,               \* IDs still to send to the subordinate workers
  idsChan,            \* thresholdsWkIDsChan
  resultsChan,        \* thresholdsWkResultsChan
  phase, item,        \* of each thresholds worker
  successfulItems,
  subordinateItems,
  stateHighestID      \* state.HighestID, read by the status log

managerVars == <<pc, batchID, offset, highestThresholdID, lastSuccID, level,
                 sent, results, gaps>>
workerVars  == <<phase, item>>
outputVars  == <<successfulItems, subordinateItems, stateHighestID>>
vars == <<controllerVars, managerVars, idsChan, resultsChan, workerVars, outputVars>>

Workers == 1 .. IdealMaxThresholdsAmount

Result   == [id : Nat, success : BOOLEAN, timestamp : Timestamps]
NoResult == [id |-> 0, success |-> FALSE, timestamp |-> 0]

Contents(seq) == {seq[i] : i \in DOMAIN seq}

-----------------------------------------------------------------------------
(* The rules of a batch                                                    *)

\* Mutant: the offset drifts as an int, without being brought back.
NextOffsetSigned(drift) == offset + drift

\* Mutant: it drifts within 16 bits, without being brought back.
NextOffsetUnbounded(drift) == (offset + drift) % Uint16Range

\* The offset drifts by at most 1 per batch, and starts again when it has
\* doubled or halved.
NextOffset(drift) ==
  LET drifted == (offset + drift) % Uint16Range
  IN  IF drifted >= 2 * InitialOffset \/ drifted <= InitialOffset \div 2
        THEN InitialOffset
        ELSE drifted

\* Mutant: late results of an earlier batch are taken for current ones.
IsStaleNever(result) == FALSE

\* Mutant: the result is compared with the threshold that is looked for.
IsStaleBelowTop(result) == result.id < highestThresholdID

\* "discard previous batch results that keep coming"
IsStale(result) == result.id < lastSuccID

\* Mutant: a threshold that is still not fetched counts as a failed one.
TopFailedOrPending ==
  highestThresholdID \in DOMAIN results => ~ results[highestThresholdID].success

\* The highest threshold came back, without an item.
TopFailed ==
  /\ highestThresholdID \in DOMAIN results
  /\ ~ results[highestThresholdID].success

\* Mutant: the level is lowered and the ID is not.
LoweredIDKept == highestThresholdID

\* The threshold below the highest one.
LoweredID == highestThresholdID - offset

Fetched == {id \in DOMAIN results : results[id].success}

\* Mutant: the gaps end at the highest threshold instead of before it.
GapIDsInclusive(from) == {id \in from .. highestThresholdID : id \notin Fetched \ {highestThresholdID}}

\* The IDs below the successful thresholds that no threshold fetched.
GapIDs(from) ==
  {id \in from .. highestThresholdID :
     id \notin Fetched /\ \E hit \in Fetched : id < hit}

\* thresholdsAmount*wkM.offset is a product of two uint16.
ExceedsLimit(amount) ==
  EnableBatchLimits /\ (amount * offset) % Uint16Range > MaxBatchSize

-----------------------------------------------------------------------------
(* The workers manager                                                     *)

StartBatch ==
  /\ pc = "start"
  /\ batchID <= MaxBatches
  /\ lastSuccID' = highestThresholdID
  /\ level' = thresholdsAmount
  /\ results' = <<>>
  /\ \E drift \in {-1, 0, 1} : offset' = NextOffset(drift)
  /\ sent' = 0
  /\ pc' = IF thresholdsAmount = 0 THEN "update" ELSE "send"
  /\ UNCHANGED <<controllerVars, batchID, highestThresholdID, gaps, idsChan,
                 resultsChan, workerVars, outputVars>>

SendThreshold ==
  /\ pc = "send"
  /\ Len(idsChan) < IdealMaxThresholdsAmount
  /\ highestThresholdID' = highestThresholdID + offset
  /\ idsChan' = Append(idsChan, highestThresholdID + offset)
  /\ sent' = sent + 1
  /\ pc' = IF sent + 1 = level THEN "collect" ELSE "send"
  /\ UNCHANGED <<controllerVars, batchID, offset, lastSuccID, level, results,
                 gaps, resultsChan, workerVars, outputVars>>

DiscardResult ==
  /\ pc = "collect"
  /\ resultsChan # <<>>
  /\ IsStale(Head(resultsChan))
  /\ resultsChan' = Tail(resultsChan)
  /\ UNCHANGED <<controllerVars, managerVars, idsChan, workerVars, outputVars>>

AcceptResult ==
  /\ pc = "collect"
  /\ resultsChan # <<>>
  /\ LET result == Head(resultsChan)
     IN  /\ ~ IsStale(result)
         /\ results' = [id \in DOMAIN results \cup {result.id} |->
                          IF id = result.id THEN result ELSE results[id]]
         /\ successfulItems' = IF result.success
                                 THEN Append(successfulItems, result.id)
                                 ELSE successfulItems
  /\ resultsChan' = Tail(resultsChan)
  /\ pc' = "scan"
  /\ UNCHANGED <<controllerVars, batchID, offset, highestThresholdID, lastSuccID,
                 level, sent, gaps, idsChan, workerVars, subordinateItems,
                 stateHighestID>>

\* "highest threshold ID item still not fetched"
ScanPending ==
  /\ pc = "scan"
  /\ highestThresholdID \notin DOMAIN results
  /\ pc' = "collect"
  /\ UNCHANGED <<controllerVars, batchID, offset, highestThresholdID, lastSuccID,
                 level, sent, results, gaps, idsChan, resultsChan, workerVars,
                 outputVars>>

\* "decrease the highest threshold level by 1"
ScanFailed ==
  /\ pc = "scan"
  /\ TopFailed
  /\ level' = level - 1
  /\ highestThresholdID' = LoweredID
  /\ pc' = IF level = 1 THEN "update" ELSE "scan"
  /\ UNCHANGED <<controllerVars, batchID, offset, lastSuccID, sent, results,
                 gaps, idsChan, resultsChan, workerVars, outputVars>>

ScanHit ==
  /\ pc = "scan"
  /\ highestThresholdID \in DOMAIN results
  /\ results[highestThresholdID].success
  /\ gaps' = IF ExceedsLimit(level) THEN {} ELSE GapIDs(lastSuccID + 1)
  /\ pc' = IF gaps' = {} THEN "update" ELSE "fill"
  /\ UNCHANGED <<controllerVars, batchID, offset, highestThresholdID, lastSuccID,
                 level, sent, results, idsChan, resultsChan, workerVars,
                 outputVars>>

FillGap ==
  /\ pc = "fill"
  /\ gaps # {}
  /\ subordinateItems' = Append(subordinateItems, LeastOf(gaps))
  /\ gaps' = gaps \ {LeastOf(gaps)}
  /\ pc' = IF gaps' = {} THEN "update" ELSE "fill"
  /\ UNCHANGED <<controllerVars, batchID, offset, highestThresholdID, lastSuccID,
                 level, sent, results, idsChan, resultsChan, workerVars,
                 successfulItems, stateHighestID>>

FinishBatch ==
  /\ pc = "update"
  /\ stateHighestID' = highestThresholdID
  /\ batchID' = (batchID + 1) % Uint16Range
  /\ Update(level, IF level = 0 THEN 0 ELSE results[highestThresholdID].timestamp)
  /\ pc' = "start"
  /\ UNCHANGED <<offset, highestThresholdID, lastSuccID, level, sent, results,
                 gaps, idsChan, resultsChan, workerVars, successfulItems,
                 subordinateItems>>

\* The bound of the model: no batch is started after MaxBatches.
BoundReached == pc = "start" /\ batchID > MaxBatches /\ UNCHANGED vars

Manager ==
  \/ StartBatch \/ SendThreshold \/ DiscardResult \/ AcceptResult
  \/ ScanPending \/ ScanFailed \/ ScanHit \/ FillGap \/ FinishBatch

-----------------------------------------------------------------------------
(* The thresholds workers                                                  *)

TakeID(w) ==
  /\ phase[w] = "idle"
  /\ idsChan # <<>>
  /\ idsChan' = Tail(idsChan)
  /\ phase' = [phase EXCEPT ![w] = "fetching"]
  /\ item' = [item EXCEPT ![w] = [NoResult EXCEPT !.id = Head(idsChan)]]
  /\ UNCHANGED <<controllerVars, managerVars, resultsChan, outputVars>>

FetchFails(w) ==
  /\ phase[w] = "fetching"
  /\ phase' = [phase EXCEPT ![w] = "sending"]
  /\ UNCHANGED <<controllerVars, managerVars, idsChan, resultsChan, item, outputVars>>

FetchSucceeds(w) ==
  /\ phase[w] = "fetching"
  /\ phase' = [phase EXCEPT ![w] = "sending"]
  /\ \E delay \in Timestamps :
       item' = [item EXCEPT ![w] = [id |-> item[w].id, success |-> TRUE,
                                    timestamp |-> delay]]
  /\ UNCHANGED <<controllerVars, managerVars, idsChan, resultsChan, outputVars>>

SendResult(w) ==
  /\ phase[w] = "sending"
  /\ Len(resultsChan) < IdealMaxThresholdsAmount
  /\ resultsChan' = Append(resultsChan, item[w])
  /\ phase' = [phase EXCEPT ![w] = "idle"]
  /\ item' = [item EXCEPT ![w] = NoResult]
  /\ UNCHANGED <<controllerVars, managerVars, idsChan, outputVars>>

Worker(w) == TakeID(w) \/ FetchFails(w) \/ FetchSucceeds(w) \/ SendResult(w)

-----------------------------------------------------------------------------

Init ==
  /\ ControllerInit
  /\ pc = "start"
  /\ batchID = 1
  /\ offset = InitialOffset
  /\ highestThresholdID = InitialHighestID
  /\ lastSuccID = InitialHighestID
  /\ level = 0
  /\ sent = 0
  /\ results = <<>>
  /\ gaps = {}
  /\ idsChan = <<>>
  /\ resultsChan = <<>>
  /\ phase = [w \in Workers |-> "idle"]
  /\ item = [w \in Workers |-> NoResult]
  /\ successfulItems = <<>>
  /\ subordinateItems = <<>>
  /\ stateHighestID = InitialHighestID

Next == Manager \/ BoundReached \/ \E w \in Workers : Worker(w)

Spec == Init /\ [][Next]_vars

\* Every goroutine that can run is scheduled, and every fetch returns.
Fairness == WF_vars(Manager) /\ \A w \in Workers : WF_vars(Worker(w))

FairSpec == Spec /\ Fairness

-----------------------------------------------------------------------------
(* Properties                                                              *)

TypeOK ==
  /\ ControllerTypeOK
  /\ pc \in {"start", "send", "collect", "scan", "fill", "update"}
  /\ batchID \in Uint16
  /\ offset \in Nat
  /\ highestThresholdID \in Int
  /\ lastSuccID \in Nat
  /\ level \in Nat
  /\ sent \in Nat
  /\ DOMAIN results \subseteq Nat
  /\ \A id \in DOMAIN results : results[id] \in Result /\ results[id].id = id
  /\ gaps \subseteq Nat
  /\ idsChan \in Seq(Nat) /\ Len(idsChan) <= IdealMaxThresholdsAmount
  /\ resultsChan \in Seq(Result) /\ Len(resultsChan) <= IdealMaxThresholdsAmount
  /\ phase \in [Workers -> {"idle", "fetching", "sending"}]
  /\ item \in [Workers -> Result]
  /\ successfulItems \in Seq(Nat)
  /\ subordinateItems \in Seq(Nat)
  /\ stateHighestID \in Nat

\* The IDs that were handed to thresholds workers and whose result has not been
\* received yet.
Outstanding ==
  Contents(idsChan) \cup {r.id : r \in Contents(resultsChan)}
    \cup {item[w].id : w \in {v \in Workers : phase[v] # "idle"}}

\* Once the manager has decided a batch nothing it probed above the chosen ID is
\* still under way: no later result can show that the batch had reached further.
\* What is under way is below lastSuccID of the next batch, so that the rule
\* "discard previous batch results that keep coming" drops all of it and nothing
\* else.  It needs the scan to go from the top down, whatever the order of the
\* results.
NothingOutstandingAbove ==
  pc \in {"fill", "update", "start"} =>
    \A id \in Outstanding : id < highestThresholdID

\* Over all batches no ID is sent twice: neither twice to the same channel, nor
\* to the websocket worker by a thresholds worker's late success and to the
\* subordinate workers as a gap.
SettledOnce ==
  LET settled == successfulItems \o subordinateItems
  IN  \A i, j \in DOMAIN settled : settled[i] = settled[j] => i = j

\* The ID the status log shows is the initial one or one that was really fetched
\* and handed to the websocket worker, although highestThresholdID itself runs
\* ahead to IDs that do not exist during each batch.
LoggedFrontierConfirmed ==
  stateHighestID \in {InitialHighestID} \cup Contents(successfulItems)

\* However many batches the offset drifts over, as an unsigned number, the distance
\* between two thresholds never wraps and never leaves the interval between half
\* and twice the configured one: the pools are sized for the configured one.
OffsetInRange == offset > InitialOffset \div 2 /\ offset < 2 * InitialOffset

\* The premise under which the pools were dimensioned (crawler.go).
AmountWithinPool == thresholdsAmount <= IdealMaxThresholdsAmount

\* As long as the amount stays within the pool, the manager finds room in the
\* channel for every threshold of a batch, however slow the workers are and
\* whatever is left of earlier batches: it is never held up before it collects.
SendNeverBlocks ==
  AmountWithinPool /\ pc = "send" => Len(idsChan) < IdealMaxThresholdsAmount

\* "if this amount of thresholds is exceeded the system will slow down": the
\* manager that waits to send a threshold is not waiting for workers that all
\* wait for the manager.
SlowsDownOnly ==
  ~ /\ pc = "send"
    /\ Len(idsChan) = IdealMaxThresholdsAmount
    /\ Len(resultsChan) = IdealMaxThresholdsAmount
    /\ \A w \in Workers : phase[w] = "sending"

\* Every batch that is started is decided, and the controller is told.
BatchCompletes == pc # "start" ~> pc = "start"

-----------------------------------------------------------------------------
(* The batch loop implements Frontier.                                     *)

Delivered == Contents(successfulItems)
Assigned  == Contents(subordinateItems)

F == INSTANCE Frontier WITH
       InitialID <- InitialHighestID,
       MaySkip   <- EnableBatchLimits,
       frontier  <- stateHighestID,
       delivered <- Delivered,
       assigned  <- Assigned,
       skipped   <- (InitialHighestID + 1 .. stateHighestID)
                      \ (Delivered \cup Assigned)

\* Every ID the frontier passes was delivered or assigned exactly once, or
\* belongs to a batch over the configured limit.
ImplementsFrontier == F!FrontierSpec
=============================================================================

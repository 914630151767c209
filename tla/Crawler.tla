------------------------------ MODULE Crawler ------------------------------
(***************************************************************************)
(* The crawler at work: the batch loop (WorkersManager) and the item       *)
(* pipeline (ItemPipeline) joined by the channels they share.  What each   *)
(* of the two leaves to the other happens here in one step of both:        *)
(*                                                                         *)
(*   - the manager's sends to the websocket worker (`pending' is the       *)
(*     content it holds until there is room, workers-manager.go:72-77) and *)
(*     to the subordinate workers (lines 115-126) wait for the channels    *)
(*     of the pipeline;                                                    *)
(*   - thresholds workers do all that thresholds-worker.go:67-151 says     *)
(*     between an ID and its result: they sleep when there were too many   *)
(*     rate limits, count them, wait for room for a refresh request, and   *)
(*     stop the program when a timestamp is not understood, which they     *)
(*     look at before they send the result.                                *)
(*                                                                         *)
(* The composition is about the program while it runs: when an assertion   *)
(* has cancelled the context only the ends of the thresholds workers are   *)
(* left here (ItemPipeline has the rest of the last 250 ms, and SIGTERM).  *)
(***************************************************************************)
EXTENDS Integers, Sequences, FiniteSets

CONSTANTS
  Policies, ComputeIncrement(_, _, _, _), InitialThresholdsAmount,
  Timestamps, MaxTimestamp,
  IdealMaxThresholdsAmount, InitialOffset, EnableBatchLimits, MaxBatchSize,
  MaxBatches,
  SubWorkers, BackupWorkers, Sessions,
  SubordinateSize, BackupSize, WsSize, RefreshSize,
  MaxRetriesPerItem, MaxRateLimits,
  IDs                     \* all that the batches can reach

ASSUME IDsArePositive == IDs \subseteq Nat \ {0}

NoID == 0

VARIABLES
  (* of the batch loop *)
  thresholdsAmount, currentTimestamp,
  pc, batchID, offset, highestThresholdID, lastSuccID, level, sent, results, gaps,
  idsChan, resultsChan, successfulItems, subordinateItems, stateHighestID,
  (* of the pipeline *)
  subordinateChan, backupChan, wsChan, refreshChan, rateLimits, ctx,
  phase, task, unseen, delivered, lost,
  (* of both *)
  pending,              \* content the manager waits to send
  probe, probeSession,  \* of each thresholds worker: what it does, and the
                        \* session it fetches with
  probed                \* and the result it is about

Probers == 1 .. IdealMaxThresholdsAmount

\* In the batch loop alone a worker is idle, fetching or sending.
ProbePhase ==
  [w \in Probers |->
     CASE probe[w] \in {"idle", "finished"} -> "idle"
       [] probe[w] = "sending"              -> "sending"
       [] OTHER                             -> "fetching"]

B == INSTANCE WorkersManager WITH
       phase <- ProbePhase, item <- probed, InitialHighestID <- 0

P == INSTANCE ItemPipeline WITH Items <- IDs, NoItem <- NoID

\* The assumptions of the two modules.
ASSUME LoopIsConfigured ==
  /\ InitialThresholdsAmount \in 1 .. 255
  /\ Policies \in Seq([hundredths : 0 .. 100, mantissa : Nat, shift : Nat])
  /\ \E i \in DOMAIN Policies : Policies[i].mantissa = 0
  /\ MaxTimestamp \in Nat
  /\ 0 \in Timestamps
  /\ Timestamps \subseteq 0 .. MaxTimestamp
  /\ \A i \in DOMAIN Policies, c \in Timestamps \cup {MaxTimestamp},
        n \in Timestamps, a \in B!Uint16 :
          ComputeIncrement(i, c, n, a) \in Int
  /\ IdealMaxThresholdsAmount \in 1 .. 254
  /\ InitialOffset \in 1 .. 255
  /\ EnableBatchLimits \in BOOLEAN /\ MaxBatchSize \in B!Uint16
  /\ MaxBatches \in B!Uint16

ASSUME PipelineIsConfigured ==
  /\ SubWorkers \cap BackupWorkers = {}
  /\ IsFiniteSet(SubWorkers) /\ IsFiniteSet(BackupWorkers)
  /\ {SubordinateSize, BackupSize, WsSize, RefreshSize} \subseteq Nat \ {0}
  /\ MaxRetriesPerItem \in 0 .. 255
  /\ MaxRateLimits \in Nat
  /\ Sessions # {}

probeVars == <<probe, probeSession>>
loopVars  == <<thresholdsAmount, currentTimestamp, pc, batchID, offset,
               highestThresholdID, lastSuccID, level, sent, results, gaps, idsChan,
               resultsChan, successfulItems, subordinateItems, stateHighestID, probed>>
chanVars == <<subordinateChan, backupChan, wsChan, refreshChan>>
workVars == <<phase, task>>
fateVars == <<unseen, delivered, lost>>
pipeVars == <<chanVars, rateLimits, ctx, workVars, fateVars>>
vars == <<pending, probeVars, loopVars, pipeVars>>

-----------------------------------------------------------------------------
(* The workers manager                                                     *)

\* What the manager does without the pipeline.
Loop ==
  /\ pending = NoID
  /\ UNCHANGED <<pending, probeVars, pipeVars>>
  /\ \/ B!StartBatch \/ B!SendThreshold \/ B!DiscardResult
     \/ B!ScanPending \/ B!ScanFailed \/ B!ScanHit \/ B!FinishBatch

Accept ==
  /\ pending = NoID
  /\ UNCHANGED <<probeVars, pipeVars>>
  /\ B!AcceptResult
  /\ pending' = IF Head(resultsChan).success THEN Head(resultsChan).id ELSE NoID

\* Mutant: the content is dropped when the channel is full.
SendPendingOrDrop ==
  /\ pending # NoID
  /\ IF Len(wsChan) < WsSize THEN P!DeliverThreshold(pending) ELSE UNCHANGED pipeVars
  /\ pending' = NoID
  /\ UNCHANGED <<probeVars, loopVars>>

SendPending ==
  /\ pending # NoID
  /\ P!DeliverThreshold(pending)
  /\ pending' = NoID
  /\ UNCHANGED <<probeVars, loopVars>>

FillGap ==
  /\ pending = NoID
  /\ gaps # {}
  /\ P!Assign(B!LeastOf(gaps))
  /\ UNCHANGED <<pending, probeVars>>
  /\ B!FillGap

Manager == Loop \/ Accept \/ SendPending \/ FillGap

-----------------------------------------------------------------------------
(* The thresholds workers                                                  *)

GoOn(w, to) == probe' = [probe EXCEPT ![w] = to]

\* The worker sleeps once if too many rate limits were counted, and picks a
\* session.
TakeID(w) ==
  /\ probe[w] = "idle"
  /\ GoOn(w, IF rateLimits > MaxRateLimits THEN "waiting" ELSE "fetching")
  /\ \E s \in Sessions : probeSession' = [probeSession EXCEPT ![w] = s]
  /\ B!TakeID(w)
  /\ UNCHANGED <<pending, pipeVars>>

EndWait(w) ==
  /\ probe[w] = "waiting"
  /\ GoOn(w, "fetching")
  /\ UNCHANGED <<pending, probeSession, loopVars, pipeVars>>

\* Mutant: the worker goes on to its next ID without a result.
AfterFailureUnanswered(cause) ==
  CASE cause = "unauthorized" -> "refreshing"
    [] cause = "rate limit"   -> "idle"
    [] cause = "other"        -> "sending"

AfterFailure(cause) ==
  CASE cause = "unauthorized" -> "refreshing"
    [] cause = "rate limit"   -> "counting"
    [] cause = "other"        -> "sending"

FetchFails(w) ==
  /\ probe[w] = "fetching"
  /\ \E cause \in P!Causes \ {"none"} : GoOn(w, AfterFailure(cause))
  /\ UNCHANGED <<pending, probeSession, loopVars, pipeVars>>

\* This send waits for room.
SendRefresh(w) ==
  /\ probe[w] = "refreshing"
  /\ refreshChan[probeSession[w]] < RefreshSize
  /\ refreshChan' = [refreshChan EXCEPT ![probeSession[w]] = @ + 1]
  /\ GoOn(w, "sending")
  /\ UNCHANGED <<pending, probeSession, loopVars, subordinateChan, backupChan,
                 wsChan, rateLimits, ctx, workVars, fateVars>>

CountRateLimit(w) ==
  /\ probe[w] = "counting"
  /\ rateLimits' = P!OneMoreRateLimit
  /\ GoOn(w, "sending")
  /\ UNCHANGED <<pending, probeSession, loopVars, chanVars, ctx, workVars,
                 fateVars>>

FetchSucceeds(w) ==
  /\ probe[w] = "fetching"
  /\ GoOn(w, "sending")
  /\ B!FetchSucceeds(w)
  /\ UNCHANGED <<pending, probeSession, pipeVars>>

\* "timestamp must be parsed successfully": the content was fetched, and is not
\* sent to the manager.
TimestampFails(w) ==
  /\ probe[w] = "fetching"
  /\ GoOn(w, "halted")
  /\ ctx' = "cancelled"
  /\ UNCHANGED <<pending, probeSession, loopVars, chanVars, rateLimits,
                 workVars, fateVars>>

SendResult(w) ==
  /\ probe[w] = "sending"
  /\ GoOn(w, "idle")
  /\ B!SendResult(w)
  /\ UNCHANGED <<pending, probeSession, pipeVars>>

\* The select takes ctx.Done().
Finish(w) ==
  /\ probe[w] = "idle"
  /\ ctx = "cancelled"
  /\ GoOn(w, "finished")
  /\ UNCHANGED <<pending, probeSession, loopVars, pipeVars>>

Prober(w) ==
  \/ TakeID(w) \/ EndWait(w) \/ FetchFails(w) \/ SendRefresh(w) \/ CountRateLimit(w)
  \/ FetchSucceeds(w) \/ TimestampFails(w) \/ SendResult(w)

-----------------------------------------------------------------------------
(* The pipeline                                                            *)

Alone == UNCHANGED <<pending, probeVars, loopVars>>

SubWorker(w)    == P!SubWorker(w) /\ Alone
BackupWorker(w) == P!BackupWorker(w) /\ Alone
TakeContent     == P!TakeContent /\ Alone
TakeRefresh(s)  == P!TakeRefresh(s) /\ Alone
ResetRateLimits == P!ResetRateLimits /\ Alone

\* The bound of the model is reached, or the program has stopped.
Quiet ==
  /\ \/ ctx = "cancelled"
     \/ pc = "start" /\ batchID > MaxBatches
  /\ UNCHANGED vars

Init ==
  /\ probe = [w \in Probers |-> "idle"]
  /\ probeSession = [w \in Probers |-> CHOOSE s \in Sessions : TRUE]
  /\ pending = NoID
  /\ B!Init
  /\ P!Init

Step ==
  \/ Manager
  \/ \E w \in Probers : Prober(w)
  \/ \E w \in SubWorkers : SubWorker(w)
  \/ \E w \in BackupWorkers : BackupWorker(w)
  \/ TakeContent
  \/ \E s \in Sessions : TakeRefresh(s)
  \/ ResetRateLimits

Next ==
  \/ ctx = "live" /\ Step
  \/ \E w \in Probers : Finish(w)
  \/ Quiet

Running(A) == ctx = "live" /\ A

\* Every goroutine that can run is scheduled, and every fetch returns.
Fairness ==
  /\ WF_vars(Running(Manager))
  /\ \A w \in Probers : WF_vars(Running(Prober(w)))
  /\ \A w \in SubWorkers : WF_vars(Running(SubWorker(w)))
  /\ \A w \in BackupWorkers : WF_vars(Running(BackupWorker(w)))
  /\ WF_vars(Running(TakeContent))
  /\ \A s \in Sessions : WF_vars(Running(TakeRefresh(s)))

Spec == Init /\ [][Next]_vars /\ Fairness

-----------------------------------------------------------------------------
(* Properties                                                              *)

\* An ID is with the manager, or at one place of the pipeline, or delivered or
\* lost, over all batches: the two ways out of the batch loop, as a threshold
\* and as a gap, never lead the same item into the pipeline twice.
EachIDInOnePlace == P!EachItemInOnePlace

\* What the status log calls the highest ID is not ahead of the crawler's work:
\* without limits on the batches every ID up to it has entered the pipeline,
\* although the manager may be held up anywhere among its sends.
NothingLeftBehind ==
  ~ EnableBatchLimits => \A id \in unseen : id > stateHighestID

\* Every batch ends while the program runs: the manager's waits (for room for its
\* thresholds, contents and gaps, and for results), the thresholds workers' (for
\* room for results and refresh requests), and those of the pipeline behind them
\* never close a circle.
BatchCompletes == pc # "start" ~> (pc = "start" \/ ctx # "live")

\* Every ID the logged frontier has passed reaches the websocket worker or is
\* counted as lost, while the program runs.
FrontierIsSettled ==
  \A id \in IDs :
    (~ EnableBatchLimits /\ id <= stateHighestID)
      ~> (delivered[id] + lost[id] > 0 \/ ctx # "live")
=============================================================================

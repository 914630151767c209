---------------------------- MODULE ItemPipeline ----------------------------
(***************************************************************************)
(* The way of an item from the workers manager to the websocket worker:    *)
(* the subordinate workers (workers/sub-worker.go), which try it once, the *)
(* backup workers (workers/backup-worker.go), which try it again, and the  *)
(* bounded channels between them (crawler.go).                             *)
(*                                                                         *)
(* The other ends of the channels are reduced to what they do here: the    *)
(* manager hands out each item (see WorkersManager), the websocket worker  *)
(* takes contents (WebsocketWorker), the refreshers take requests          *)
(* (CookieSession) and the status log resets the counter of rate limits    *)
(* that makes a worker wait (StatusLog, which also has the counters that   *)
(* are only reported).  Item values are opaque; whether a suffix is        *)
(* appended to the url, and the averages of delays, are left out.          *)
(***************************************************************************)
EXTENDS Integers, Sequences, FiniteSets

CONSTANTS
  Items, SubWorkers, BackupWorkers, Sessions,
  SubordinateSize, BackupSize, WsSize, RefreshSize, \* channel capacities
  MaxRetriesPerItem,        \* cfg.Http.MaxRetriesPerItem
  MaxRateLimits,            \* cfg.Http.MaxRateLimitsPerSecond
  NoItem

ASSUME PoolsAreDisjoint == SubWorkers \cap BackupWorkers = {}
ASSUME PoolsAreFinite == IsFiniteSet(SubWorkers) /\ IsFiniteSet(BackupWorkers)
ASSUME ChannelsHaveRoom ==
  {SubordinateSize, BackupSize, WsSize, RefreshSize} \subseteq Nat \ {0}
ASSUME RetriesAreConfigured == MaxRetriesPerItem \in 0 .. 255
ASSUME LimitIsConfigured == MaxRateLimits \in Nat
ASSUME NoItemIsNone == NoItem \notin Items /\ Sessions # {}

VARIABLES
  subordinateChan, backupChan, wsChan, \* sequences of items
  refreshChan,      \* of each session: how many requests are queued
  rateLimits,       \* outcome.RateLimits, up to the first value that is too many
  ctx,              \* "live", "cancelled", then "exited"
  phase, task,      \* of each worker
  unseen,           \* items the manager has not handed out
  delivered, lost   \* history: how often the websocket worker received an
                    \* item, how often outcome.Lost was counted for it

chanVars   == <<subordinateChan, backupChan, wsChan, refreshChan>>
workerVars == <<phase, task>>
fateVars   == <<unseen, delivered, lost>>
vars == <<chanVars, rateLimits, ctx, workerVars, fateVars>>

Workers == SubWorkers \cup BackupWorkers
Phases  == {"idle", "waiting", "retrying", "fetching", "handing over",
            "refreshing", "counting", "delivering", "asserting", "halted", "finished"}
Causes  == {"none", "unauthorized", "rate limit", "other"}

NoTask  == [item |-> NoItem, retries |-> 0, cause |-> "none",
            session |-> CHOOSE s \in Sessions : TRUE]

\* Worker w is done with what it had.
Rest(w) ==
  /\ phase' = [phase EXCEPT ![w] = "idle"]
  /\ task'  = [task EXCEPT ![w] = NoTask]

Move(w, to) == phase' = [phase EXCEPT ![w] = to]

-----------------------------------------------------------------------------
(* What both kinds of workers do                                           *)

\* A backup worker starts at the top of its loop.
FirstPhase(w) == IF w \in BackupWorkers THEN "retrying" ELSE "fetching"

\* The worker takes an item, and sleeps once if too many rate limits were
\* counted since the last reset.
Accept(w, i) ==
  /\ phase[w] = "idle"
  /\ Move(w, IF rateLimits > MaxRateLimits THEN "waiting" ELSE FirstPhase(w))
  /\ task' = [task EXCEPT ![w].item = i]

EndWait(w) ==
  /\ phase[w] = "waiting"
  /\ Move(w, FirstPhase(w))
  /\ UNCHANGED <<chanVars, rateLimits, ctx, task, fateVars>>

FetchSucceeds(w) ==
  /\ phase[w] = "fetching"
  /\ Move(w, "delivering")
  /\ UNCHANGED <<chanVars, rateLimits, ctx, task, fateVars>>

\* The content goes to the websocket worker; then the timestamp of the item is
\* parsed, which has to succeed.
SendContent(w) ==
  /\ phase[w] = "delivering"
  /\ Len(wsChan) < WsSize
  /\ wsChan' = Append(wsChan, task[w].item)
  /\ phase' \in {[phase EXCEPT ![w] = "idle"], [phase EXCEPT ![w] = "asserting"]}
  /\ task' = [task EXCEPT ![w] = NoTask]
  /\ UNCHANGED <<subordinateChan, backupChan, refreshChan, rateLimits, ctx, fateVars>>

\* A failed assertion cancels the context and does not return.
AssertionFails(w) ==
  /\ phase[w] = "asserting"
  /\ Move(w, "halted")
  /\ ctx' = "cancelled"
  /\ UNCHANGED <<chanVars, rateLimits, task, fateVars>>

\* The select takes ctx.Done().
Finish(w) ==
  /\ phase[w] = "idle"
  /\ ctx = "cancelled"
  /\ Move(w, "finished")
  /\ UNCHANGED <<chanVars, rateLimits, ctx, task, fateVars>>

-----------------------------------------------------------------------------
(* Subordinate workers                                                     *)

TakeItem(w) ==
  /\ subordinateChan # <<>>
  /\ Accept(w, Head(subordinateChan))
  /\ subordinateChan' = Tail(subordinateChan)
  /\ UNCHANGED <<backupChan, wsChan, refreshChan, rateLimits, ctx, fateVars>>

FetchFails(w) ==
  /\ phase[w] = "fetching"
  /\ Move(w, "handing over")
  /\ \E cause \in Causes \ {"none"}, s \in Sessions :
       task' = [task EXCEPT ![w].cause = cause, ![w].session = s]
  /\ UNCHANGED <<chanVars, rateLimits, ctx, fateVars>>

\* What the cause of the failure asks for, once the item is handed over.
FollowUp(w) ==
  CASE task[w].cause = "unauthorized" -> "refreshing"
    [] task[w].cause = "rate limit"   -> "counting"
    [] task[w].cause = "other"        -> "idle"

\* Mutant: the packet is dropped when the channel is full, as the backup
\* workers do with their refresh requests.
SendBackupOrDrop(w) ==
  /\ phase[w] = "handing over"
  /\ backupChan' = IF Len(backupChan) < BackupSize
                     THEN Append(backupChan, task[w].item) ELSE backupChan
  /\ Move(w, FollowUp(w))
  /\ task' = [task EXCEPT ![w].item = NoItem]
  /\ UNCHANGED <<subordinateChan, wsChan, refreshChan, rateLimits, ctx, fateVars>>

SendBackup(w) ==
  /\ phase[w] = "handing over"
  /\ Len(backupChan) < BackupSize
  /\ backupChan' = Append(backupChan, task[w].item)
  /\ Move(w, FollowUp(w))
  /\ task' = [task EXCEPT ![w] =
                IF FollowUp(w) = "idle" THEN NoTask ELSE [@ EXCEPT !.item = NoItem]]
  /\ UNCHANGED <<subordinateChan, wsChan, refreshChan, rateLimits, ctx, fateVars>>

\* This send waits for room, unlike that of the backup workers.
SendRefresh(w) ==
  /\ phase[w] = "refreshing"
  /\ refreshChan[task[w].session] < RefreshSize
  /\ refreshChan' = [refreshChan EXCEPT ![task[w].session] = @ + 1]
  /\ Rest(w)
  /\ UNCHANGED <<subordinateChan, backupChan, wsChan, rateLimits, ctx, fateVars>>

\* The workers only compare the number with the maximum.
OneMoreRateLimit == IF rateLimits > MaxRateLimits THEN rateLimits ELSE rateLimits + 1

CountRateLimit(w) ==
  /\ phase[w] = "counting"
  /\ rateLimits' = OneMoreRateLimit
  /\ Rest(w)
  /\ UNCHANGED <<chanVars, ctx, fateVars>>

SubWorker(w) ==
  \/ TakeItem(w) \/ EndWait(w) \/ FetchSucceeds(w) \/ FetchFails(w)
  \/ SendBackup(w) \/ SendRefresh(w) \/ CountRateLimit(w)
  \/ SendContent(w) \/ AssertionFails(w)

-----------------------------------------------------------------------------
(* Backup workers                                                          *)

\* Mutant: the try of the subordinate worker is not deducted.
ExhaustedLate(retries) == retries > MaxRetriesPerItem

\* Mutant: the last retry is not made.
ExhaustedEarly(retries) == retries >= MaxRetriesPerItem - 1

\* retriesAmount > MaxRetries, which is int16(maxRetriesPerItem) - 1.
Exhausted(retries) == retries > MaxRetriesPerItem - 1

Counted(retries, cause) == retries + 1

TakePacket(w) ==
  /\ backupChan # <<>>
  /\ Accept(w, Head(backupChan))
  /\ backupChan' = Tail(backupChan)
  /\ UNCHANGED <<subordinateChan, wsChan, refreshChan, rateLimits, ctx, fateVars>>

GiveUp(w) ==
  /\ phase[w] = "retrying"
  /\ Exhausted(task[w].retries)
  /\ lost' = [lost EXCEPT ![task[w].item] = @ + 1]
  /\ Rest(w)
  /\ UNCHANGED <<chanVars, rateLimits, ctx, unseen, delivered>>

Retry(w) ==
  /\ phase[w] = "retrying"
  /\ ~ Exhausted(task[w].retries)
  /\ Move(w, "fetching")
  /\ UNCHANGED <<chanVars, rateLimits, ctx, task, fateVars>>

\* "channel is full, the refresher is already working on this"
RetryFails(w) ==
  /\ phase[w] = "fetching"
  /\ Move(w, "retrying")
  /\ \E cause \in Causes \ {"none"}, s \in Sessions :
       /\ task' = [task EXCEPT ![w].retries = Counted(@, cause)]
       /\ refreshChan' = IF cause = "unauthorized" /\ refreshChan[s] < RefreshSize
                           THEN [refreshChan EXCEPT ![s] = @ + 1]
                           ELSE refreshChan
  /\ UNCHANGED <<subordinateChan, backupChan, wsChan, rateLimits, ctx, fateVars>>

BackupWorker(w) ==
  \/ TakePacket(w) \/ EndWait(w) \/ GiveUp(w) \/ Retry(w) \/ FetchSucceeds(w)
  \/ RetryFails(w) \/ SendContent(w) \/ AssertionFails(w)

-----------------------------------------------------------------------------
(* The other ends of the channels, and the end of the process              *)

\* subordinateWkChan <- item, by the manager
Assign(i) ==
  /\ Len(subordinateChan) < SubordinateSize
  /\ subordinateChan' = Append(subordinateChan, i)
  /\ unseen' = unseen \ {i}
  /\ UNCHANGED <<backupChan, wsChan, refreshChan, rateLimits, ctx, workerVars,
                 delivered, lost>>

\* successfulItemsChan <- item, by the manager
DeliverThreshold(i) ==
  /\ Len(wsChan) < WsSize
  /\ wsChan' = Append(wsChan, i)
  /\ unseen' = unseen \ {i}
  /\ UNCHANGED <<subordinateChan, backupChan, refreshChan, rateLimits, ctx,
                 workerVars, delivered, lost>>

TakeContent ==
  /\ wsChan # <<>>
  /\ wsChan' = Tail(wsChan)
  /\ delivered' = [delivered EXCEPT ![Head(wsChan)] = @ + 1]
  /\ UNCHANGED <<subordinateChan, backupChan, refreshChan, rateLimits, ctx,
                 workerVars, unseen, lost>>

TakeRefresh(s) ==
  /\ refreshChan[s] > 0
  /\ refreshChan' = [refreshChan EXCEPT ![s] = @ - 1]
  /\ UNCHANGED <<subordinateChan, backupChan, wsChan, rateLimits, ctx,
                 workerVars, fateVars>>

ResetRateLimits ==
  /\ rateLimits > 0
  /\ rateLimits' = 0
  /\ UNCHANGED <<chanVars, ctx, workerVars, fateVars>>

\* HandleSIGTERM, or an assertion elsewhere.
Cancel ==
  /\ ctx = "live"
  /\ ctx' = "cancelled"
  /\ UNCHANGED <<chanVars, rateLimits, workerVars, fateVars>>

\* os.Exit, 250 ms after the context was cancelled.
Exit ==
  /\ ctx = "cancelled"
  /\ ctx' = "exited"
  /\ UNCHANGED <<chanVars, rateLimits, workerVars, fateVars>>

\* Nothing is left to do, or the process is gone.
Quiet ==
  /\ \/ ctx = "exited"
     \/ /\ unseen = {} /\ subordinateChan = <<>> /\ backupChan = <<>> /\ wsChan = <<>>
        /\ \A w \in Workers : phase[w] = "idle"
  /\ UNCHANGED vars

Init ==
  /\ subordinateChan = <<>> /\ backupChan = <<>> /\ wsChan = <<>>
  /\ refreshChan = [s \in Sessions |-> 0]
  /\ rateLimits = 0
  /\ ctx = "live"
  /\ phase = [w \in Workers |-> "idle"]
  /\ task = [w \in Workers |-> NoTask]
  /\ unseen = Items
  /\ delivered = [i \in Items |-> 0]
  /\ lost = [i \in Items |-> 0]

Step ==
  \/ \E i \in unseen : Assign(i) \/ DeliverThreshold(i)
  \/ \E w \in SubWorkers : SubWorker(w)
  \/ \E w \in BackupWorkers : BackupWorker(w)
  \/ \E w \in Workers : Finish(w)
  \/ TakeContent
  \/ \E s \in Sessions : TakeRefresh(s)
  \/ ResetRateLimits
  \/ Cancel
  \/ Exit

Next == (ctx # "exited" /\ Step) \/ Quiet

Spec == Init /\ [][Next]_vars

-----------------------------------------------------------------------------
(* Properties                                                              *)

TypeOK ==
  /\ subordinateChan \in Seq(Items) /\ Len(subordinateChan) <= SubordinateSize
  /\ backupChan \in Seq(Items) /\ Len(backupChan) <= BackupSize
  /\ wsChan \in Seq(Items) /\ Len(wsChan) <= WsSize
  /\ refreshChan \in [Sessions -> 0 .. RefreshSize]
  /\ rateLimits \in 0 .. MaxRateLimits + 1
  /\ ctx \in {"live", "cancelled", "exited"}
  /\ phase \in [Workers -> Phases]
  /\ task \in [Workers -> [item : Items \cup {NoItem}, retries : 0 .. MaxRetriesPerItem,
                           cause : Causes, session : Sessions]]
  /\ unseen \subseteq Items
  /\ delivered \in [Items -> Nat]
  /\ lost \in [Items -> Nat]

Copies(i, chan) == Cardinality({n \in DOMAIN chan : chan[n] = i})

\* In how many places an item is: still with the manager, in a channel, with a
\* worker, received by the websocket worker, or counted as lost.
Places(i) ==
  Cardinality({i} \cap unseen) + Copies(i, subordinateChan) + Copies(i, backupChan)
    + Copies(i, wsChan) + Cardinality({w \in Workers : task[w].item = i})
    + delivered[i] + lost[i]

\* No item is dropped on the way and none is doubled, whatever fails, whichever
\* channel is full, and also while the process is going down: a worker finishes
\* only between two items.
EachItemInOnePlace == \A i \in Items : Places(i) = 1

-----------------------------------------------------------------------------
(* The pipeline implements ItemDelivery.  An item is delivered when it is  *)
(* in the websocket channel.                                               *)

AbstractStatus ==
  [i \in Items |-> IF i \in unseen THEN "unseen"
                   ELSE IF lost[i] > 0 THEN "lost"
                   ELSE IF delivered[i] + Copies(i, wsChan) > 0 THEN "delivered"
                   ELSE "pending"]

HandedOver(i) ==
  \/ Copies(i, backupChan) > 0
  \/ \E w \in SubWorkers : phase[w] = "handing over" /\ task[w].item = i

AbstractTries ==
  [i \in Items |->
     LET backup == {w \in BackupWorkers : task[w].item = i}
     IN  IF backup # {} THEN 1 + task[CHOOSE w \in backup : TRUE].retries
         ELSE IF HandedOver(i) THEN 1 ELSE 0]

D == INSTANCE ItemDelivery WITH status <- AbstractStatus, tries <- AbstractTries

\* An item is delivered or given up once, and given up only after its first try
\* by a subordinate worker and MaxRetriesPerItem retries by one backup worker
\* have failed.
ImplementsDelivery == D!DeliverySpec
=============================================================================

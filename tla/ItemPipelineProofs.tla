------------------------- MODULE ItemPipelineProofs -------------------------
(***************************************************************************)
(* No item is dropped or doubled in the pipeline, for any number of items, *)
(* workers, sessions and retries, any capacities, and any end of the       *)
(* process.                                                                *)
(*                                                                         *)
(* Places(i) is a sum with one term for each place where an item can be.   *)
(* Every action moves at most one item, and moves it: one term becomes     *)
(* smaller by one and another one larger by one.  What a worker holds must *)
(* be known for that: it has an item in certain phases and in no other, so *)
(* it never takes one over another and never sends one it has not.         *)
(***************************************************************************)
EXTENDS ItemPipeline, FiniteSetTheorems, TLAPS

Task == [item : Items \cup {NoItem}, retries : 0 .. MaxRetriesPerItem,
         cause : Causes, session : Sessions]

Holding == {"waiting", "retrying", "fetching", "handing over", "delivering"}

\* Worker w has an item exactly in those phases, it hands one over for a cause,
\* it rests without retries, and a backup worker fetches only while it has a
\* retry left.
WorkerInv(w) ==
  /\ phase[w] \in Holding <=> task[w].item \in Items
  /\ phase[w] = "handing over" => task[w].cause # "none"
  /\ phase[w] = "idle" => task[w].retries = 0
  /\ w \in BackupWorkers /\ phase[w] = "fetching" =>
       task[w].retries < MaxRetriesPerItem

PipelineInv == TypeOK /\ \A w \in Workers : WorkerInv(w)

-----------------------------------------------------------------------------
(* The terms of the sum                                                    *)

InHand(i) == Cardinality({i} \cap unseen)

Holders(i) == {w \in Workers : task[w].item = i}

Held(i) == Cardinality(Holders(i))

Conserved == \A i \in Items : Places(i)' = Places(i)

LEMMA CardinalityPlusOne ==
  ASSUME NEW S, IsFiniteSet(S), NEW x, x \notin S
  PROVE  /\ Cardinality(S) \in Nat
         /\ Cardinality(S \cup {x}) = Cardinality(S) + 1
BY FS_AddElement, FS_CardinalityType

LEMMA CopiesAreFinite ==
  ASSUME NEW chan \in Seq(Items), NEW i
  PROVE  /\ IsFiniteSet({n \in DOMAIN chan : chan[n] = i})
         /\ Copies(i, chan) \in Nat
<1>1. IsFiniteSet(1 .. Len(chan))
  BY FS_Interval
<1>2. {n \in DOMAIN chan : chan[n] = i} \in SUBSET (1 .. Len(chan))
  OBVIOUS
<1>3. IsFiniteSet({n \in DOMAIN chan : chan[n] = i})
  BY <1>1, <1>2, FS_Subset
<1> QED  BY <1>3, FS_CardinalityType DEF Copies

\* Sending an item adds one copy of it, and of no other.
LEMMA CopiesAppend ==
  ASSUME NEW chan \in Seq(Items), NEW x \in Items
  PROVE  /\ Copies(x, Append(chan, x)) = Copies(x, chan) + 1
         /\ \A i : i # x => Copies(i, Append(chan, x)) = Copies(i, chan)
<1> DEFINE longer == Append(chan, x)
           at(i)  == {n \in DOMAIN chan : chan[n] = i}
<1>1. /\ DOMAIN longer = DOMAIN chan \cup {Len(chan) + 1}
      /\ Len(chan) + 1 \notin DOMAIN chan
      /\ \A n \in DOMAIN chan : longer[n] = chan[n]
      /\ longer[Len(chan) + 1] = x
  OBVIOUS
<1> HIDE DEF longer
<1>2. {n \in DOMAIN longer : longer[n] = x} = at(x) \cup {Len(chan) + 1}
  BY <1>1
<1>3. Len(chan) + 1 \notin at(x)
  BY <1>1
<1>4. IsFiniteSet(at(x))
  BY CopiesAreFinite
<1>5. Cardinality(at(x) \cup {Len(chan) + 1}) = Cardinality(at(x)) + 1
  BY <1>3, <1>4, CardinalityPlusOne
<1>6. Copies(x, longer) = Copies(x, chan) + 1
  BY <1>2, <1>5 DEF Copies
<1>7. ASSUME NEW i, i # x
      PROVE  Copies(i, longer) = Copies(i, chan)
  <2>1. {n \in DOMAIN longer : longer[n] = i} = at(i)
    BY <1>1, <1>7
  <2> QED  BY <2>1 DEF Copies
<1> QED  BY <1>6, <1>7 DEF longer

\* Receiving an item removes one copy of it, and of no other.
LEMMA CopiesTail ==
  ASSUME NEW chan \in Seq(Items), chan # <<>>
  PROVE  /\ Head(chan) \in Items
         /\ Copies(Head(chan), chan) = Copies(Head(chan), Tail(chan)) + 1
         /\ \A i : i # Head(chan) => Copies(i, Tail(chan)) = Copies(i, chan)
<1> DEFINE shorter == Tail(chan)
           at(i)    == {n \in DOMAIN chan : chan[n] = i}
           later(i) == {n \in DOMAIN shorter : shorter[n] = i}
           back(i)  == [n \in later(i) |-> n + 1]
<1>1. /\ Len(chan) \in Nat /\ Len(chan) > 0
      /\ DOMAIN chan = 1 .. Len(chan)
      /\ DOMAIN shorter = 1 .. Len(chan) - 1
      /\ \A n \in DOMAIN shorter : shorter[n] = chan[n + 1]
      /\ chan[1] = Head(chan) /\ Head(chan) \in Items
      /\ shorter \in Seq(Items)
  OBVIOUS
<1> HIDE DEF shorter
<1>2. ASSUME NEW i
      PROVE  Copies(i, shorter) = Cardinality(at(i) \ {1})
  <2>1. back(i) \in [later(i) -> at(i) \ {1}]
    BY <1>1
  <2>2. \A m, n \in later(i) : back(i)[m] = back(i)[n] => m = n
    BY <1>1
  <2>3. \A n \in at(i) \ {1} : \E m \in later(i) : back(i)[m] = n
    <3> TAKE n \in at(i) \ {1}
    <3>1. n - 1 \in later(i) /\ (n - 1) + 1 = n
      BY <1>1
    <3> QED  BY <3>1
  <2>4. back(i) \in Bijection(later(i), at(i) \ {1})
    BY <2>1, <2>2, <2>3 DEF Bijection, Injection, Surjection, IsInjective
  <2>5. IsFiniteSet(later(i))
    BY <1>1, CopiesAreFinite
  <2>6. Cardinality(at(i) \ {1}) = Cardinality(later(i))
    BY <2>4, <2>5, FS_Bijection DEF ExistsBijection
  <2> QED  BY <2>6 DEF Copies
<1>3. Copies(Head(chan), chan) = Copies(Head(chan), shorter) + 1
  <2>1. IsFiniteSet(at(Head(chan))) /\ 1 \in at(Head(chan))
    BY SMTT(30), <1>1, CopiesAreFinite
  <2>2. IsFiniteSet(at(Head(chan)) \ {1})
    BY <2>1, FS_RemoveElement
  <2>3. at(Head(chan)) = (at(Head(chan)) \ {1}) \cup {1}
    BY <2>1
  <2>4. Cardinality(at(Head(chan))) = Cardinality(at(Head(chan)) \ {1}) + 1
    BY <2>2, <2>3, CardinalityPlusOne
  <2> QED  BY <1>2, <2>4 DEF Copies
<1>4. ASSUME NEW i, i # Head(chan)
      PROVE  Copies(i, shorter) = Copies(i, chan)
  <2>1. at(i) \ {1} = at(i)
    BY <1>1, <1>4
  <2> QED  BY <1>2, <2>1 DEF Copies
<1> QED  BY <1>1, <1>3, <1>4 DEF shorter

LEMMA HoldersAreFinite ==
  \A i : IsFiniteSet(Holders(i)) /\ Held(i) \in Nat
<1> TAKE i
<1>1. IsFiniteSet(Workers)
  BY PoolsAreFinite, FS_Union DEF Workers
<1>2. IsFiniteSet(Holders(i))
  BY <1>1, FS_Subset DEF Holders
<1> QED  BY <1>2, FS_CardinalityType DEF Held

\* Worker w's item becomes `to' and no other worker's item changes.
Exchanges(w, to) ==
  /\ task'[w].item = to
  /\ \A v \in Workers \ {w} : task'[v].item = task[v].item

LEMMA HeldKept ==
  ASSUME NEW w \in Workers, Exchanges(w, task[w].item)
  PROVE  \A i : Held(i)' = Held(i)
<1> TAKE i
<1>1. Holders(i)' = Holders(i)
  BY DEF Holders, Exchanges
<1> QED  BY <1>1 DEF Held

LEMMA HeldTaken ==
  ASSUME NEW w \in Workers, NEW x \in Items, Exchanges(w, x), task[w].item = NoItem
  PROVE  /\ Held(x)' = Held(x) + 1
         /\ \A i \in Items : i # x => Held(i)' = Held(i)
<1>1. Holders(x)' = Holders(x) \cup {w} /\ w \notin Holders(x)
  BY NoItemIsNone DEF Holders, Exchanges
<1>2. Held(x)' = Held(x) + 1
  BY <1>1, HoldersAreFinite, CardinalityPlusOne DEF Held
<1>3. ASSUME NEW i \in Items, i # x
      PROVE  Held(i)' = Held(i)
  <2>1. Holders(i)' = Holders(i)
    BY <1>3, NoItemIsNone DEF Holders, Exchanges
  <2> QED  BY <2>1 DEF Held
<1> QED  BY <1>2, <1>3

LEMMA HeldReleased ==
  ASSUME NEW w \in Workers, NEW x \in Items, Exchanges(w, NoItem), task[w].item = x
  PROVE  /\ Held(x) = Held(x)' + 1
         /\ \A i \in Items : i # x => Held(i)' = Held(i)
<1>1. Holders(x) = Holders(x)' \cup {w} /\ w \notin Holders(x)'
  BY NoItemIsNone DEF Holders, Exchanges
<1>2. IsFiniteSet(Holders(x)')
  <2>1. Holders(x)' \in SUBSET Holders(x)
    BY <1>1
  <2> QED  BY <2>1, HoldersAreFinite, FS_Subset
<1>3. Held(x) = Held(x)' + 1
  BY <1>1, <1>2, CardinalityPlusOne DEF Held
<1>4. ASSUME NEW i \in Items, i # x
      PROVE  Held(i)' = Held(i)
  <2>1. Holders(i)' = Holders(i)
    BY <1>4, NoItemIsNone DEF Holders, Exchanges
  <2> QED  BY <2>1 DEF Held
<1> QED  BY <1>3, <1>4

\* Handing out an item.
LEMMA HandedOut ==
  ASSUME NEW x \in unseen, unseen' = unseen \ {x}
  PROVE  /\ InHand(x) = InHand(x)' + 1
         /\ \A i : i # x => InHand(i)' = InHand(i)
         /\ InHand(x)' \in Nat
<1>1. {x} \cap unseen = {x} /\ {x} \cap unseen' = {}
  OBVIOUS
<1>2. InHand(x) = 1 /\ InHand(x)' = 0
  BY <1>1, FS_EmptySet, FS_Singleton DEF InHand
<1>3. ASSUME NEW i, i # x
      PROVE  InHand(i)' = InHand(i)
  <2>1. {i} \cap unseen' = {i} \cap unseen
    BY <1>3
  <2> QED  BY <2>1 DEF InHand
<1> QED  BY <1>2, <1>3

LEMMA InHandIsNatural == \A i : InHand(i) \in Nat
<1> TAKE i
<1>1. IsFiniteSet({i} \cap unseen)
  <2>1. IsFiniteSet({i}) /\ {i} \cap unseen \in SUBSET {i}
    BY FS_Singleton
  <2> QED  BY <2>1, FS_Subset
<1> QED  BY <1>1, FS_CardinalityType DEF InHand

-----------------------------------------------------------------------------
(* One worker moves                                                        *)

\* Worker w goes on to phase `to' with task t.
MovesOn(w, t, to) ==
  /\ task'  = [task EXCEPT ![w] = t]
  /\ phase' = [phase EXCEPT ![w] = to]

LEMMA WorkerMoves ==
  ASSUME PipelineInv, NEW w \in Workers, NEW t \in Task, NEW to \in Phases,
         MovesOn(w, t, to),
         to \in Holding <=> t.item \in Items,
         to = "handing over" => t.cause # "none",
         to = "idle" => t.retries = 0,
         w \in BackupWorkers /\ to = "fetching" => t.retries < MaxRetriesPerItem
  PROVE  /\ task' \in [Workers -> Task]
         /\ phase' \in [Workers -> Phases]
         /\ \A v \in Workers : WorkerInv(v)'
         /\ Exchanges(w, t.item)
<1>1. task \in [Workers -> Task] /\ phase \in [Workers -> Phases]
  BY DEF PipelineInv, TypeOK, Task
<1>2. task' \in [Workers -> Task] /\ phase' \in [Workers -> Phases]
  BY <1>1 DEF MovesOn
<1>3. /\ task'[w] = t /\ phase'[w] = to
      /\ \A v \in Workers \ {w} : task'[v] = task[v] /\ phase'[v] = phase[v]
  BY <1>1 DEF MovesOn
<1>4. ASSUME NEW v \in Workers
      PROVE  WorkerInv(v)'
  <2>1. CASE v = w
    BY <1>3, <2>1 DEF WorkerInv
  <2>2. CASE v # w
    BY <1>3, <2>2 DEF WorkerInv, PipelineInv
  <2> QED  BY <2>1, <2>2
<1>5. Exchanges(w, t.item)
  BY <1>3 DEF Exchanges
<1> QED  BY <1>2, <1>4, <1>5

\* No task: what a worker has when it rests.
LEMMA NoTaskIsATask == NoTask \in Task /\ NoTask.item = NoItem /\ NoTask.retries = 0
<1>1. (CHOOSE s \in Sessions : TRUE) \in Sessions
  BY NoItemIsNone
<1>2. 0 \in 0 .. MaxRetriesPerItem
  BY RetriesAreConfigured
<1> QED  BY <1>1, <1>2 DEF NoTask, Task, Causes

LEMMA HolderHasItem ==
  ASSUME PipelineInv, NEW w \in Workers
  PROVE  /\ task[w] \in Task
         /\ phase[w] \in Holding => task[w].item \in Items
         /\ phase[w] \notin Holding => task[w].item = NoItem
<1>1. task[w] \in Task
  BY DEF PipelineInv, TypeOK, Task
<1>2. task[w].item \in Items \cup {NoItem}
  BY <1>1 DEF Task
<1> QED  BY <1>1, <1>2 DEF PipelineInv, WorkerInv

-----------------------------------------------------------------------------
(* One item moves                                                          *)

\* The channels, the workers and the two counters of an item, as numbers.
LEMMA TermsAreNaturals ==
  ASSUME TypeOK, NEW i \in Items
  PROVE  /\ InHand(i) \in Nat /\ Held(i) \in Nat
         /\ Copies(i, subordinateChan) \in Nat
         /\ Copies(i, backupChan) \in Nat
         /\ Copies(i, wsChan) \in Nat
         /\ delivered[i] \in Nat /\ lost[i] \in Nat
<1>1. /\ subordinateChan \in Seq(Items) /\ backupChan \in Seq(Items)
      /\ wsChan \in Seq(Items)
      /\ delivered \in [Items -> Nat] /\ lost \in [Items -> Nat]
  BY DEF TypeOK
<1> QED  BY <1>1, CopiesAreFinite, HoldersAreFinite, InHandIsNatural

LEMMA PlacesIsTheSum ==
  \A i : Places(i) = InHand(i) + Copies(i, subordinateChan) + Copies(i, backupChan)
                       + Copies(i, wsChan) + Held(i) + delivered[i] + lost[i]
BY DEF Places, InHand, Held, Holders

LEMMA PlacesIsTheSumNext ==
  \A i : Places(i)' = InHand(i)' + Copies(i, subordinateChan') + Copies(i, backupChan')
                        + Copies(i, wsChan') + Held(i)' + delivered'[i] + lost'[i]
BY DEF Places, InHand, Held, Holders

\* No item moves.
LEMMA NothingMoves ==
  ASSUME UNCHANGED <<subordinateChan, backupChan, wsChan, fateVars>>,
         \A i : Held(i)' = Held(i)
  PROVE  Conserved
<1>1. \A i : InHand(i)' = InHand(i)
  BY DEF InHand, fateVars
<1>2. delivered' = delivered /\ lost' = lost
  BY DEF fateVars
<1> QED  BY <1>1, <1>2, PlacesIsTheSum, PlacesIsTheSumNext DEF Conserved

\* Nothing changes for the workers.
LEMMA WorkersRest ==
  ASSUME PipelineInv, UNCHANGED workerVars
  PROVE  /\ task' \in [Workers -> Task]
         /\ phase' \in [Workers -> Phases]
         /\ \A v \in Workers : WorkerInv(v)'
         /\ \A i : Held(i)' = Held(i)
<1>1. task' = task /\ phase' = phase
  BY DEF workerVars
<1> QED  BY <1>1 DEF PipelineInv, TypeOK, Task, WorkerInv, Held, Holders

\* One worker goes on with the item it has, or with none.
LEMMA StepInPlace ==
  ASSUME PipelineInv, NEW w \in Workers, NEW t \in Task, NEW to \in Phases,
         MovesOn(w, t, to), t.item = task[w].item,
         to \in Holding <=> phase[w] \in Holding,
         to = "handing over" => t.cause # "none",
         to = "idle" => t.retries = 0,
         w \in BackupWorkers /\ to = "fetching" => t.retries < MaxRetriesPerItem,
         UNCHANGED <<subordinateChan, backupChan, wsChan, fateVars>>,
         refreshChan' \in [Sessions -> 0 .. RefreshSize],
         rateLimits' \in 0 .. MaxRateLimits + 1,
         ctx' \in {"live", "cancelled", "exited"}
  PROVE  PipelineInv' /\ Conserved
<1>1. to \in Holding <=> t.item \in Items
  BY NoItemIsNone, HolderHasItem
<1>2. /\ task' \in [Workers -> Task] /\ phase' \in [Workers -> Phases]
      /\ \A v \in Workers : WorkerInv(v)'
      /\ Exchanges(w, t.item)
  BY <1>1, WorkerMoves
<1>3. TypeOK'
  BY <1>2 DEF PipelineInv, TypeOK, Task, fateVars
<1>4. \A i : Held(i)' = Held(i)
  BY <1>2, HeldKept
<1>5. Conserved
  BY <1>4, NothingMoves
<1> QED  BY <1>2, <1>3, <1>5 DEF PipelineInv

-----------------------------------------------------------------------------
(* Steps of a worker that move no item                                     *)

LEMMA WaitFetchRetrySteps ==
  ASSUME PipelineInv, NEW w \in Workers,
         EndWait(w) \/ FetchSucceeds(w) \/ Retry(w) \/ AssertionFails(w) \/ Finish(w)
  PROVE  PipelineInv' /\ Conserved
<1>1. task \in [Workers -> Task] /\ phase \in [Workers -> Phases] /\ task[w] \in Task
  BY DEF PipelineInv, TypeOK, Task
<1>2. /\ task' = task
      /\ UNCHANGED <<chanVars, rateLimits, fateVars>>
      /\ ctx' \in {ctx, "cancelled"}
  BY DEF EndWait, FetchSucceeds, Retry, AssertionFails, Finish
<1>3. /\ UNCHANGED <<subordinateChan, backupChan, wsChan, fateVars>>
      /\ refreshChan' \in [Sessions -> 0 .. RefreshSize]
      /\ rateLimits' \in 0 .. MaxRateLimits + 1
      /\ ctx' \in {"live", "cancelled", "exited"}
  BY <1>2 DEF PipelineInv, TypeOK, chanVars
<1>4. PICK to \in {"retrying", "fetching", "delivering", "halted", "finished"} :
        /\ Move(w, to)
        /\ to \in Holding <=> phase[w] \in Holding
        /\ w \in BackupWorkers /\ to = "fetching" =>
             task[w].retries < MaxRetriesPerItem
  <2>1. CASE EndWait(w)
    <3>1. Move(w, FirstPhase(w)) /\ phase[w] = "waiting"
      BY <2>1 DEF EndWait
    <3> QED  BY <3>1 DEF FirstPhase, Holding
  <2>2. CASE FetchSucceeds(w)
    BY <2>2 DEF FetchSucceeds, Holding
  <2>3. CASE Retry(w)
    <3>1. task[w].retries \in 0 .. MaxRetriesPerItem
      BY <1>1 DEF Task
    <3>2. task[w].retries < MaxRetriesPerItem
      BY <2>3, <3>1, RetriesAreConfigured DEF Retry, Exhausted
    <3> QED  BY <2>3, <3>2 DEF Retry, Holding
  <2>4. CASE AssertionFails(w)
    BY <2>4 DEF AssertionFails, Holding
  <2>5. CASE Finish(w)
    BY <2>5 DEF Finish, Holding
  <2> QED  BY <2>1, <2>2, <2>3, <2>4, <2>5
<1>5. MovesOn(w, task[w], to)
  BY <1>1, <1>2, <1>4 DEF MovesOn, Move
<1>6. to \in Phases
  BY <1>4 DEF Phases
<1>7. to # "handing over" /\ to # "idle"
  BY <1>4
<1> QED  BY <1>1, <1>3, <1>4, <1>5, <1>6, <1>7, StepInPlace

LEMMA FetchFailsStep ==
  ASSUME PipelineInv, NEW w \in SubWorkers, FetchFails(w)
  PROVE  PipelineInv' /\ Conserved
<1>1. w \in Workers /\ w \notin BackupWorkers
  BY PoolsAreDisjoint DEF Workers
<1>2. task \in [Workers -> Task] /\ phase \in [Workers -> Phases] /\ task[w] \in Task
  BY <1>1 DEF PipelineInv, TypeOK, Task
<1>3. PICK cause \in Causes \ {"none"}, s \in Sessions :
        task' = [task EXCEPT ![w].cause = cause, ![w].session = s]
  BY DEF FetchFails
<1> DEFINE t == [task[w] EXCEPT !.cause = cause, !.session = s]
<1>4. t \in Task /\ t.item = task[w].item /\ t.cause = cause
  BY <1>2, <1>3 DEF Task
<1>5. MovesOn(w, t, "handing over")
  BY <1>1, <1>2, <1>3 DEF MovesOn, FetchFails, Move, Task
<1>6. /\ UNCHANGED <<subordinateChan, backupChan, wsChan, fateVars>>
      /\ refreshChan' \in [Sessions -> 0 .. RefreshSize]
      /\ rateLimits' \in 0 .. MaxRateLimits + 1
      /\ ctx' \in {"live", "cancelled", "exited"}
  BY DEF FetchFails, PipelineInv, TypeOK, chanVars
<1>7. "handing over" \in Holding /\ phase[w] \in Holding
  BY DEF Holding, FetchFails
<1> HIDE DEF t
<1> QED  BY <1>1, <1>3, <1>4, <1>5, <1>6, <1>7, StepInPlace DEF Phases

LEMMA RetryFailsStep ==
  ASSUME PipelineInv, NEW w \in BackupWorkers, RetryFails(w)
  PROVE  PipelineInv' /\ Conserved
<1>1. w \in Workers
  BY DEF Workers
<1>2. task \in [Workers -> Task] /\ phase \in [Workers -> Phases] /\ task[w] \in Task
  BY <1>1 DEF PipelineInv, TypeOK, Task
<1>3. PICK cause \in Causes \ {"none"}, s \in Sessions :
        /\ task' = [task EXCEPT ![w].retries = @ + 1]
        /\ refreshChan' = IF cause = "unauthorized" /\ refreshChan[s] < RefreshSize
                            THEN [refreshChan EXCEPT ![s] = @ + 1]
                            ELSE refreshChan
  BY DEF RetryFails, Counted
<1> DEFINE t == [task[w] EXCEPT !.retries = @ + 1]
<1>4. t \in Task /\ t.item = task[w].item
  <2>1. task[w].retries \in 0 .. MaxRetriesPerItem
    BY <1>2 DEF Task
  <2>2. task[w].retries < MaxRetriesPerItem
    BY <1>1 DEF PipelineInv, WorkerInv, RetryFails
  <2>3. task[w].retries + 1 \in 0 .. MaxRetriesPerItem
    BY <2>1, <2>2, RetriesAreConfigured
  <2> QED  BY <1>2, <2>3 DEF Task
<1>5. MovesOn(w, t, "retrying")
  BY <1>1, <1>2, <1>3 DEF MovesOn, RetryFails, Move, Task
<1>6. refreshChan' \in [Sessions -> 0 .. RefreshSize]
  <2>1. refreshChan \in [Sessions -> 0 .. RefreshSize] /\ RefreshSize \in Nat
    BY ChannelsHaveRoom DEF PipelineInv, TypeOK
  <2>2. CASE cause = "unauthorized" /\ refreshChan[s] < RefreshSize
    <3>1. refreshChan[s] + 1 \in 0 .. RefreshSize
      BY <2>1, <2>2
    <3> QED  BY <1>3, <2>1, <2>2, <3>1
  <2>3. CASE ~ (cause = "unauthorized" /\ refreshChan[s] < RefreshSize)
    BY <1>3, <2>1, <2>3
  <2> QED  BY <2>2, <2>3
<1>7. /\ UNCHANGED <<subordinateChan, backupChan, wsChan, fateVars>>
      /\ rateLimits' \in 0 .. MaxRateLimits + 1
      /\ ctx' \in {"live", "cancelled", "exited"}
  BY DEF RetryFails, PipelineInv, TypeOK
<1>8. "retrying" \in Holding /\ phase[w] \in Holding
  BY DEF Holding, RetryFails
<1> HIDE DEF t
<1> QED  BY <1>1, <1>4, <1>5, <1>6, <1>7, <1>8, StepInPlace DEF Phases

\* A refresh request or a rate limit is counted after the item was handed over.
LEMMA SendRefreshCountSteps ==
  ASSUME PipelineInv, NEW w \in Workers, SendRefresh(w) \/ CountRateLimit(w)
  PROVE  PipelineInv' /\ Conserved
<1>1. task \in [Workers -> Task] /\ task[w] \in Task
  BY DEF PipelineInv, TypeOK, Task
<1>2. MovesOn(w, NoTask, "idle") /\ phase[w] \notin Holding
  BY DEF SendRefresh, CountRateLimit, Rest, MovesOn, Holding
<1>3. NoTask.item = task[w].item
  BY <1>2, HolderHasItem, NoTaskIsATask
<1>4. refreshChan' \in [Sessions -> 0 .. RefreshSize]
  <2>1. /\ refreshChan \in [Sessions -> 0 .. RefreshSize] /\ RefreshSize \in Nat
        /\ task[w].session \in Sessions
    BY <1>1, ChannelsHaveRoom DEF PipelineInv, TypeOK, Task
  <2>2. CASE SendRefresh(w)
    <3>1. refreshChan[task[w].session] + 1 \in 0 .. RefreshSize
      BY <2>1, <2>2 DEF SendRefresh
    <3> QED  BY <2>1, <2>2, <3>1 DEF SendRefresh
  <2>3. CASE CountRateLimit(w)
    BY <2>1, <2>3 DEF CountRateLimit, chanVars
  <2> QED  BY <2>2, <2>3
<1>5. rateLimits' \in 0 .. MaxRateLimits + 1
  <2>1. rateLimits \in 0 .. MaxRateLimits + 1
    BY DEF PipelineInv, TypeOK
  <2> QED  BY <2>1, LimitIsConfigured DEF SendRefresh, CountRateLimit, OneMoreRateLimit
<1>6. /\ UNCHANGED <<subordinateChan, backupChan, wsChan, fateVars>>
      /\ ctx' \in {"live", "cancelled", "exited"}
  BY DEF SendRefresh, CountRateLimit, PipelineInv, TypeOK, chanVars
<1>7. "idle" \notin Holding /\ "idle" \in Phases
  BY DEF Holding, Phases
<1> QED  BY <1>2, <1>3, <1>4, <1>5, <1>6, <1>7, NoTaskIsATask, StepInPlace

-----------------------------------------------------------------------------
(* Steps that move an item                                                 *)

\* A worker that rests takes an item from a channel.
LEMMA AcceptFrom ==
  ASSUME PipelineInv, NEW w \in Workers, NEW x \in Items, Accept(w, x)
  PROVE  /\ task' \in [Workers -> Task]
         /\ phase' \in [Workers -> Phases]
         /\ \A v \in Workers : WorkerInv(v)'
         /\ Held(x)' = Held(x) + 1
         /\ \A i \in Items : i # x => Held(i)' = Held(i)
<1> DEFINE t  == [task[w] EXCEPT !.item = x]
           to == IF rateLimits > MaxRateLimits THEN "waiting" ELSE FirstPhase(w)
<1>1. task \in [Workers -> Task] /\ task[w] \in Task
  BY DEF PipelineInv, TypeOK, Task
<1>2. t \in Task /\ t.item = x /\ t.retries = task[w].retries
  BY <1>1 DEF Task
<1>3. MovesOn(w, t, to)
  BY <1>1 DEF Accept, MovesOn, Move, Task
<1>4. /\ to \in Phases /\ to \in Holding /\ to # "handing over" /\ to # "idle"
      /\ w \in BackupWorkers => to # "fetching"
  BY DEF FirstPhase, Phases, Holding
<1>5. task[w].item = NoItem
  BY HolderHasItem DEF Accept, Holding
<1> HIDE DEF t, to
<1>6. /\ task' \in [Workers -> Task] /\ phase' \in [Workers -> Phases]
      /\ \A v \in Workers : WorkerInv(v)'
      /\ Exchanges(w, x)
  BY <1>2, <1>3, <1>4, WorkerMoves
<1> QED  BY <1>5, <1>6, HeldTaken

\* A worker is rid of its item.
LEMMA Release ==
  ASSUME PipelineInv, NEW w \in Workers, NEW t \in Task, NEW to \in Phases,
         NEW x \in Items, task[w].item = x,
         MovesOn(w, t, to), t.item = NoItem, to \notin Holding,
         to = "idle" => t.retries = 0
  PROVE  /\ task' \in [Workers -> Task]
         /\ phase' \in [Workers -> Phases]
         /\ \A v \in Workers : WorkerInv(v)'
         /\ Held(x) = Held(x)' + 1
         /\ \A i \in Items : i # x => Held(i)' = Held(i)
<1>1. /\ to \in Holding <=> t.item \in Items
      /\ to # "handing over" /\ to # "fetching"
  BY NoItemIsNone DEF Holding
<1>2. /\ task' \in [Workers -> Task] /\ phase' \in [Workers -> Phases]
      /\ \A v \in Workers : WorkerInv(v)'
      /\ Exchanges(w, NoItem)
  BY <1>1, WorkerMoves
<1> QED  BY <1>2, HeldReleased

\* No term of item i changes.
Unmoved(i) ==
  /\ InHand(i)' = InHand(i) /\ Held(i)' = Held(i)
  /\ Copies(i, subordinateChan') = Copies(i, subordinateChan)
  /\ Copies(i, backupChan') = Copies(i, backupChan)
  /\ Copies(i, wsChan') = Copies(i, wsChan)
  /\ delivered'[i] = delivered[i] /\ lost'[i] = lost[i]

LEMMA UnmovedPlaces ==
  \A i : Unmoved(i) => Places(i)' = Places(i)
BY PlacesIsTheSum, PlacesIsTheSumNext DEF Unmoved

LEMMA TermsAreNaturalsNext ==
  ASSUME TypeOK', NEW i \in Items
  PROVE  /\ InHand(i)' \in Nat /\ Held(i)' \in Nat
         /\ Copies(i, subordinateChan') \in Nat
         /\ Copies(i, backupChan') \in Nat
         /\ Copies(i, wsChan') \in Nat
<1>1. /\ subordinateChan' \in Seq(Items) /\ backupChan' \in Seq(Items)
      /\ wsChan' \in Seq(Items)
  BY DEF TypeOK
<1>2. IsFiniteSet(Workers)
  BY PoolsAreFinite, FS_Union DEF Workers
<1>3. Held(i)' \in Nat
  <2>1. IsFiniteSet(Holders(i)')
    <3>1. Holders(i)' \in SUBSET Workers
      BY DEF Holders
    <3> QED  BY <1>2, <3>1, FS_Subset
  <2> QED  BY <2>1, FS_CardinalityType DEF Held
<1>4. InHand(i)' \in Nat
  <2>1. IsFiniteSet({i}) /\ {i} \cap unseen' \in SUBSET {i}
    BY FS_Singleton
  <2>2. IsFiniteSet({i} \cap unseen')
    BY <2>1, FS_Subset
  <2> QED  BY <2>2, FS_CardinalityType DEF InHand
<1> QED  BY <1>1, <1>3, <1>4, CopiesAreFinite

LEMMA TakeItemStep ==
  ASSUME PipelineInv, TypeOK, NEW w \in Workers, TakeItem(w)
  PROVE  PipelineInv' /\ Conserved
<1>1. PICK x : x = Head(subordinateChan)
  OBVIOUS
<1>2. /\ subordinateChan \in Seq(Items) /\ subordinateChan # <<>>
      /\ subordinateChan' = Tail(subordinateChan)
      /\ Accept(w, x)
      /\ UNCHANGED <<backupChan, wsChan, refreshChan, rateLimits, ctx, fateVars>>
  BY <1>1 DEF TakeItem, TypeOK
<1>3. /\ x \in Items
      /\ Copies(x, subordinateChan) = Copies(x, subordinateChan') + 1
      /\ \A i : i # x => Copies(i, subordinateChan') = Copies(i, subordinateChan)
      /\ subordinateChan' \in Seq(Items)
      /\ Len(subordinateChan') <= Len(subordinateChan)
  BY <1>1, <1>2, CopiesTail
<1>4. /\ task' \in [Workers -> Task] /\ phase' \in [Workers -> Phases]
      /\ \A v \in Workers : WorkerInv(v)'
      /\ Held(x)' = Held(x) + 1
      /\ \A i \in Items : i # x => Held(i)' = Held(i)
  BY <1>2, <1>3, AcceptFrom
<1>5. TypeOK'
  <2>1. Len(subordinateChan') <= SubordinateSize
    BY <1>2, <1>3, ChannelsHaveRoom DEF TypeOK
  <2> QED  BY <1>2, <1>3, <1>4, <2>1 DEF TypeOK, Task, fateVars
<1>6. \A i : InHand(i)' = InHand(i) /\ delivered'[i] = delivered[i] /\ lost'[i] = lost[i]
  BY <1>2 DEF InHand, fateVars
<1>7. ASSUME NEW i \in Items
      PROVE  Places(i)' = Places(i)
  <2>1. CASE i = x
    <3>1. /\ InHand(i)' = InHand(i)
          /\ Held(i)' = Held(i) + 1
          /\ Copies(i, subordinateChan) = Copies(i, subordinateChan') + 1
          /\ Copies(i, backupChan') = Copies(i, backupChan)
          /\ Copies(i, wsChan') = Copies(i, wsChan)
          /\ delivered'[i] = delivered[i]
          /\ lost'[i] = lost[i]
      BY <1>2, <1>3, <1>4, <1>6, <2>1
    <3> QED  BY <1>5, <3>1, TermsAreNaturals, TermsAreNaturalsNext, PlacesIsTheSum,
                PlacesIsTheSumNext
  <2>2. CASE i # x
    <3>1. Unmoved(i)
      BY <1>2, <1>3, <1>4, <1>6, <2>2 DEF Unmoved
    <3> QED  BY <3>1, UnmovedPlaces
  <2> QED  BY <2>1, <2>2
<1> QED  BY <1>4, <1>5, <1>7 DEF PipelineInv, Conserved

LEMMA TakePacketStep ==
  ASSUME PipelineInv, TypeOK, NEW w \in Workers, TakePacket(w)
  PROVE  PipelineInv' /\ Conserved
<1>1. PICK x : x = Head(backupChan)
  OBVIOUS
<1>2. /\ backupChan \in Seq(Items) /\ backupChan # <<>>
      /\ backupChan' = Tail(backupChan)
      /\ Accept(w, x)
      /\ UNCHANGED <<subordinateChan, wsChan, refreshChan, rateLimits, ctx, fateVars>>
  BY <1>1 DEF TakePacket, TypeOK
<1>3. /\ x \in Items
      /\ Copies(x, backupChan) = Copies(x, backupChan') + 1
      /\ \A i : i # x => Copies(i, backupChan') = Copies(i, backupChan)
      /\ backupChan' \in Seq(Items)
      /\ Len(backupChan') <= Len(backupChan)
  BY <1>1, <1>2, CopiesTail
<1>4. /\ task' \in [Workers -> Task] /\ phase' \in [Workers -> Phases]
      /\ \A v \in Workers : WorkerInv(v)'
      /\ Held(x)' = Held(x) + 1
      /\ \A i \in Items : i # x => Held(i)' = Held(i)
  BY <1>2, <1>3, AcceptFrom
<1>5. TypeOK'
  <2>1. Len(backupChan') <= BackupSize
    BY <1>2, <1>3, ChannelsHaveRoom DEF TypeOK
  <2> QED  BY <1>2, <1>3, <1>4, <2>1 DEF TypeOK, Task, fateVars
<1>6. \A i : InHand(i)' = InHand(i) /\ delivered'[i] = delivered[i] /\ lost'[i] = lost[i]
  BY <1>2 DEF InHand, fateVars
<1>7. ASSUME NEW i \in Items
      PROVE  Places(i)' = Places(i)
  <2>1. CASE i = x
    <3>1. /\ InHand(i)' = InHand(i)
          /\ Held(i)' = Held(i) + 1
          /\ Copies(i, subordinateChan') = Copies(i, subordinateChan)
          /\ Copies(i, backupChan) = Copies(i, backupChan') + 1
          /\ Copies(i, wsChan') = Copies(i, wsChan)
          /\ delivered'[i] = delivered[i]
          /\ lost'[i] = lost[i]
      BY <1>2, <1>3, <1>4, <1>6, <2>1
    <3> QED  BY <1>5, <3>1, TermsAreNaturals, TermsAreNaturalsNext, PlacesIsTheSum,
                PlacesIsTheSumNext
  <2>2. CASE i # x
    <3>1. Unmoved(i)
      BY <1>2, <1>3, <1>4, <1>6, <2>2 DEF Unmoved
    <3> QED  BY <3>1, UnmovedPlaces
  <2> QED  BY <2>1, <2>2
<1> QED  BY <1>4, <1>5, <1>7 DEF PipelineInv, Conserved

LEMMA SendContentStep ==
  ASSUME PipelineInv, TypeOK, NEW w \in Workers, SendContent(w)
  PROVE  PipelineInv' /\ Conserved
<1>1. PICK x : x = task[w].item
  OBVIOUS
<1>2. /\ x \in Items /\ wsChan \in Seq(Items) /\ Len(wsChan) < WsSize
      /\ wsChan' = Append(wsChan, x)
      /\ UNCHANGED <<subordinateChan, backupChan, refreshChan, rateLimits, ctx, fateVars>>
  BY <1>1, HolderHasItem DEF SendContent, TypeOK, Holding
<1>3. /\ Copies(x, wsChan') = Copies(x, wsChan) + 1
      /\ \A i : i # x => Copies(i, wsChan') = Copies(i, wsChan)
      /\ wsChan' \in Seq(Items)
      /\ Len(wsChan') <= WsSize
  BY <1>2, CopiesAppend, ChannelsHaveRoom
<1>4. /\ task' \in [Workers -> Task] /\ phase' \in [Workers -> Phases]
      /\ \A v \in Workers : WorkerInv(v)'
      /\ Held(x) = Held(x)' + 1
      /\ \A i \in Items : i # x => Held(i)' = Held(i)
  <2>1. PICK to \in {"idle", "asserting"} : MovesOn(w, NoTask, to)
    BY DEF SendContent, MovesOn
  <2>2. to \in Phases /\ to \notin Holding
    BY <2>1 DEF Phases, Holding
  <2> QED  BY <1>1, <1>2, <2>1, <2>2, NoTaskIsATask, Release
<1>5. TypeOK'
  BY <1>2, <1>3, <1>4 DEF TypeOK, Task, fateVars
<1>6. \A i : InHand(i)' = InHand(i) /\ delivered'[i] = delivered[i] /\ lost'[i] = lost[i]
  BY <1>2 DEF InHand, fateVars
<1>7. ASSUME NEW i \in Items
      PROVE  Places(i)' = Places(i)
  <2>1. CASE i = x
    <3>1. /\ InHand(i)' = InHand(i)
          /\ Held(i) = Held(i)' + 1
          /\ Copies(i, subordinateChan') = Copies(i, subordinateChan)
          /\ Copies(i, backupChan') = Copies(i, backupChan)
          /\ Copies(i, wsChan') = Copies(i, wsChan) + 1
          /\ delivered'[i] = delivered[i]
          /\ lost'[i] = lost[i]
      BY <1>2, <1>3, <1>4, <1>6, <2>1
    <3> QED  BY <1>5, <3>1, TermsAreNaturals, TermsAreNaturalsNext, PlacesIsTheSum,
                PlacesIsTheSumNext
  <2>2. CASE i # x
    <3>1. Unmoved(i)
      BY <1>2, <1>3, <1>4, <1>6, <2>2 DEF Unmoved
    <3> QED  BY <3>1, UnmovedPlaces
  <2> QED  BY <2>1, <2>2
<1> QED  BY <1>4, <1>5, <1>7 DEF PipelineInv, Conserved

LEMMA SendBackupStep ==
  ASSUME PipelineInv, TypeOK, NEW w \in Workers, SendBackup(w)
  PROVE  PipelineInv' /\ Conserved
<1>1. PICK x : x = task[w].item
  OBVIOUS
<1>2. /\ x \in Items /\ backupChan \in Seq(Items) /\ Len(backupChan) < BackupSize
      /\ backupChan' = Append(backupChan, x)
      /\ UNCHANGED <<subordinateChan, wsChan, refreshChan, rateLimits, ctx, fateVars>>
  BY <1>1, HolderHasItem DEF SendBackup, TypeOK, Holding
<1>3. /\ Copies(x, backupChan') = Copies(x, backupChan) + 1
      /\ \A i : i # x => Copies(i, backupChan') = Copies(i, backupChan)
      /\ backupChan' \in Seq(Items)
      /\ Len(backupChan') <= BackupSize
  BY <1>2, CopiesAppend, ChannelsHaveRoom
<1>4. /\ task' \in [Workers -> Task] /\ phase' \in [Workers -> Phases]
      /\ \A v \in Workers : WorkerInv(v)'
      /\ Held(x) = Held(x)' + 1
      /\ \A i \in Items : i # x => Held(i)' = Held(i)
  <2>1. task \in [Workers -> Task] /\ task[w] \in Task
    BY DEF TypeOK, Task
  <2>2. /\ FollowUp(w) \in {"idle", "refreshing", "counting"}
    BY <2>1 DEF FollowUp, SendBackup, PipelineInv, WorkerInv, Task, Causes
  <2>3. PICK to : to = FollowUp(w)
    OBVIOUS
  <2>4. PICK t : t = IF to = "idle" THEN NoTask ELSE [task[w] EXCEPT !.item = NoItem]
    OBVIOUS
  <2>5. /\ t \in Task /\ t.item = NoItem
        /\ to = "idle" => t.retries = 0
    BY <2>1, <2>4, NoTaskIsATask DEF Task
  <2>6. MovesOn(w, t, to)
    BY <2>3, <2>4 DEF SendBackup, MovesOn, Move
  <2>7. to \in Phases /\ to \notin Holding
    BY <2>2, <2>3 DEF Phases, Holding
  <2> QED  BY <1>1, <1>2, <2>5, <2>6, <2>7, Release
<1>5. TypeOK'
  BY <1>2, <1>3, <1>4 DEF TypeOK, Task, fateVars
<1>6. \A i : InHand(i)' = InHand(i) /\ delivered'[i] = delivered[i] /\ lost'[i] = lost[i]
  BY <1>2 DEF InHand, fateVars
<1>7. ASSUME NEW i \in Items
      PROVE  Places(i)' = Places(i)
  <2>1. CASE i = x
    <3>1. /\ InHand(i)' = InHand(i)
          /\ Held(i) = Held(i)' + 1
          /\ Copies(i, subordinateChan') = Copies(i, subordinateChan)
          /\ Copies(i, backupChan') = Copies(i, backupChan) + 1
          /\ Copies(i, wsChan') = Copies(i, wsChan)
          /\ delivered'[i] = delivered[i]
          /\ lost'[i] = lost[i]
      BY <1>2, <1>3, <1>4, <1>6, <2>1
    <3> QED  BY <1>5, <3>1, TermsAreNaturals, TermsAreNaturalsNext, PlacesIsTheSum,
                PlacesIsTheSumNext
  <2>2. CASE i # x
    <3>1. Unmoved(i)
      BY <1>2, <1>3, <1>4, <1>6, <2>2 DEF Unmoved
    <3> QED  BY <3>1, UnmovedPlaces
  <2> QED  BY <2>1, <2>2
<1> QED  BY <1>4, <1>5, <1>7 DEF PipelineInv, Conserved

LEMMA GiveUpStep ==
  ASSUME PipelineInv, TypeOK, NEW w \in Workers, GiveUp(w)
  PROVE  PipelineInv' /\ Conserved
<1>1. PICK x : x = task[w].item
  OBVIOUS
<1>2. /\ x \in Items /\ lost \in [Items -> Nat]
      /\ lost' = [lost EXCEPT ![x] = @ + 1]
      /\ UNCHANGED <<chanVars, rateLimits, ctx, unseen, delivered>>
  BY <1>1, HolderHasItem DEF GiveUp, TypeOK, Holding
<1>3. /\ lost' \in [Items -> Nat]
      /\ lost'[x] = lost[x] + 1
      /\ \A i \in Items : i # x => lost'[i] = lost[i]
  BY <1>2
<1>4. /\ task' \in [Workers -> Task] /\ phase' \in [Workers -> Phases]
      /\ \A v \in Workers : WorkerInv(v)'
      /\ Held(x) = Held(x)' + 1
      /\ \A i \in Items : i # x => Held(i)' = Held(i)
  <2>1. MovesOn(w, NoTask, "idle")
    BY DEF GiveUp, Rest, MovesOn
  <2>2. "idle" \in Phases /\ "idle" \notin Holding
    BY DEF Phases, Holding
  <2> QED  BY <1>1, <1>2, <2>1, <2>2, NoTaskIsATask, Release
<1>5. TypeOK'
  BY <1>2, <1>3, <1>4 DEF TypeOK, Task, chanVars
<1>6. /\ \A i : InHand(i)' = InHand(i) /\ delivered'[i] = delivered[i]
      /\ UNCHANGED <<subordinateChan, backupChan, wsChan>>
  BY <1>2 DEF InHand, chanVars
<1>7. ASSUME NEW i \in Items
      PROVE  Places(i)' = Places(i)
  <2>1. CASE i = x
    <3>1. /\ InHand(i)' = InHand(i)
          /\ Held(i) = Held(i)' + 1
          /\ Copies(i, subordinateChan') = Copies(i, subordinateChan)
          /\ Copies(i, backupChan') = Copies(i, backupChan)
          /\ Copies(i, wsChan') = Copies(i, wsChan)
          /\ delivered'[i] = delivered[i]
          /\ lost'[i] = lost[i] + 1
      BY <1>3, <1>4, <1>6, <2>1
    <3> QED  BY <1>5, <3>1, TermsAreNaturals, TermsAreNaturalsNext, PlacesIsTheSum,
                PlacesIsTheSumNext
  <2>2. CASE i # x
    <3>1. Unmoved(i)
      BY <1>3, <1>4, <1>6, <2>2 DEF Unmoved
    <3> QED  BY <3>1, UnmovedPlaces
  <2> QED  BY <2>1, <2>2
<1> QED  BY <1>4, <1>5, <1>7 DEF PipelineInv, Conserved

LEMMA AssignStep ==
  ASSUME PipelineInv, TypeOK, NEW x \in unseen, Assign(x)
  PROVE  PipelineInv' /\ Conserved
<1>1. /\ x \in Items /\ subordinateChan \in Seq(Items) /\ Len(subordinateChan) < SubordinateSize
      /\ subordinateChan' = Append(subordinateChan, x)
      /\ unseen' = unseen \ {x}
      /\ UNCHANGED <<backupChan, wsChan, refreshChan, rateLimits, ctx, workerVars,
                     delivered, lost>>
  BY DEF Assign, TypeOK
<1>2. /\ Copies(x, subordinateChan') = Copies(x, subordinateChan) + 1
      /\ \A i : i # x => Copies(i, subordinateChan') = Copies(i, subordinateChan)
      /\ subordinateChan' \in Seq(Items)
      /\ Len(subordinateChan') <= SubordinateSize
  BY <1>1, CopiesAppend, ChannelsHaveRoom
<1>3. /\ task' \in [Workers -> Task] /\ phase' \in [Workers -> Phases]
      /\ \A v \in Workers : WorkerInv(v)'
      /\ \A i : Held(i)' = Held(i)
  BY <1>1, WorkersRest
<1>4. /\ InHand(x) = InHand(x)' + 1
      /\ \A i : i # x => InHand(i)' = InHand(i)
  BY <1>1, HandedOut
<1>5. TypeOK'
  BY <1>1, <1>2, <1>3 DEF TypeOK, Task
<1>6. ASSUME NEW i \in Items
      PROVE  Places(i)' = Places(i)
  <2>1. CASE i = x
    <3>1. /\ InHand(i) = InHand(i)' + 1
          /\ Held(i)' = Held(i)
          /\ Copies(i, subordinateChan') = Copies(i, subordinateChan) + 1
          /\ Copies(i, backupChan') = Copies(i, backupChan)
          /\ Copies(i, wsChan') = Copies(i, wsChan)
          /\ delivered'[i] = delivered[i]
          /\ lost'[i] = lost[i]
      BY <1>1, <1>2, <1>3, <1>4, <2>1
    <3> QED  BY <1>5, <3>1, TermsAreNaturals, TermsAreNaturalsNext, PlacesIsTheSum,
                PlacesIsTheSumNext
  <2>2. CASE i # x
    <3>1. Unmoved(i)
      BY <1>1, <1>2, <1>3, <1>4, <2>2 DEF Unmoved
    <3> QED  BY <3>1, UnmovedPlaces
  <2> QED  BY <2>1, <2>2
<1> QED  BY <1>3, <1>5, <1>6 DEF PipelineInv, Conserved

LEMMA DeliverThresholdStep ==
  ASSUME PipelineInv, TypeOK, NEW x \in unseen, DeliverThreshold(x)
  PROVE  PipelineInv' /\ Conserved
<1>1. /\ x \in Items /\ wsChan \in Seq(Items) /\ Len(wsChan) < WsSize
      /\ wsChan' = Append(wsChan, x)
      /\ unseen' = unseen \ {x}
      /\ UNCHANGED <<subordinateChan, backupChan, refreshChan, rateLimits, ctx, workerVars,
                     delivered, lost>>
  BY DEF DeliverThreshold, TypeOK
<1>2. /\ Copies(x, wsChan') = Copies(x, wsChan) + 1
      /\ \A i : i # x => Copies(i, wsChan') = Copies(i, wsChan)
      /\ wsChan' \in Seq(Items)
      /\ Len(wsChan') <= WsSize
  BY <1>1, CopiesAppend, ChannelsHaveRoom
<1>3. /\ task' \in [Workers -> Task] /\ phase' \in [Workers -> Phases]
      /\ \A v \in Workers : WorkerInv(v)'
      /\ \A i : Held(i)' = Held(i)
  BY <1>1, WorkersRest
<1>4. /\ InHand(x) = InHand(x)' + 1
      /\ \A i : i # x => InHand(i)' = InHand(i)
  BY <1>1, HandedOut
<1>5. TypeOK'
  BY <1>1, <1>2, <1>3 DEF TypeOK, Task
<1>6. ASSUME NEW i \in Items
      PROVE  Places(i)' = Places(i)
  <2>1. CASE i = x
    <3>1. /\ InHand(i) = InHand(i)' + 1
          /\ Held(i)' = Held(i)
          /\ Copies(i, subordinateChan') = Copies(i, subordinateChan)
          /\ Copies(i, backupChan') = Copies(i, backupChan)
          /\ Copies(i, wsChan') = Copies(i, wsChan) + 1
          /\ delivered'[i] = delivered[i]
          /\ lost'[i] = lost[i]
      BY <1>1, <1>2, <1>3, <1>4, <2>1
    <3> QED  BY <1>5, <3>1, TermsAreNaturals, TermsAreNaturalsNext, PlacesIsTheSum,
                PlacesIsTheSumNext
  <2>2. CASE i # x
    <3>1. Unmoved(i)
      BY <1>1, <1>2, <1>3, <1>4, <2>2 DEF Unmoved
    <3> QED  BY <3>1, UnmovedPlaces
  <2> QED  BY <2>1, <2>2
<1> QED  BY <1>3, <1>5, <1>6 DEF PipelineInv, Conserved

LEMMA TakeContentStep ==
  ASSUME PipelineInv, TypeOK, TakeContent
  PROVE  PipelineInv' /\ Conserved
<1>1. PICK x : x = Head(wsChan)
  OBVIOUS
<1>2. /\ wsChan \in Seq(Items) /\ wsChan # <<>> /\ wsChan' = Tail(wsChan)
      /\ delivered \in [Items -> Nat]
      /\ delivered' = [delivered EXCEPT ![x] = @ + 1]
      /\ UNCHANGED <<subordinateChan, backupChan, refreshChan, rateLimits, ctx,
                     workerVars, unseen, lost>>
  BY <1>1 DEF TakeContent, TypeOK
<1>3. /\ x \in Items
      /\ Copies(x, wsChan) = Copies(x, wsChan') + 1
      /\ \A i : i # x => Copies(i, wsChan') = Copies(i, wsChan)
      /\ wsChan' \in Seq(Items)
      /\ Len(wsChan') <= Len(wsChan)
  BY <1>1, <1>2, CopiesTail
<1>4. /\ task' \in [Workers -> Task] /\ phase' \in [Workers -> Phases]
      /\ \A v \in Workers : WorkerInv(v)'
      /\ \A i : Held(i)' = Held(i)
  BY <1>2, WorkersRest
<1>5. TypeOK'
  <2>1. Len(wsChan') <= WsSize
    BY <1>2, <1>3, ChannelsHaveRoom DEF TypeOK
  <2>2. delivered' \in [Items -> Nat]
    BY <1>2, <1>3
  <2> QED  BY <1>2, <1>3, <1>4, <2>1, <2>2 DEF TypeOK, Task
<1>6. /\ \A i : InHand(i)' = InHand(i)
      /\ delivered'[x] = delivered[x] + 1
      /\ \A i \in Items : i # x => delivered'[i] = delivered[i]
  BY <1>2, <1>3 DEF InHand
<1>7. ASSUME NEW i \in Items
      PROVE  Places(i)' = Places(i)
  <2>1. CASE i = x
    <3>1. /\ InHand(i)' = InHand(i)
          /\ Held(i)' = Held(i)
          /\ Copies(i, subordinateChan') = Copies(i, subordinateChan)
          /\ Copies(i, backupChan') = Copies(i, backupChan)
          /\ Copies(i, wsChan) = Copies(i, wsChan') + 1
          /\ delivered'[i] = delivered[i] + 1
          /\ lost'[i] = lost[i]
      BY <1>2, <1>3, <1>4, <1>6, <2>1
    <3> QED  BY <1>5, <3>1, TermsAreNaturals, TermsAreNaturalsNext, PlacesIsTheSum,
                PlacesIsTheSumNext
  <2>2. CASE i # x
    <3>1. Unmoved(i)
      BY <1>2, <1>3, <1>4, <1>6, <2>2 DEF Unmoved
    <3> QED  BY <3>1, UnmovedPlaces
  <2> QED  BY <2>1, <2>2
<1> QED  BY <1>4, <1>5, <1>7 DEF PipelineInv, Conserved

\* What the refreshers, the status log, a cancellation and the exit change is
\* none of the items' places.
LEMMA EnvironmentSteps ==
  ASSUME PipelineInv, TypeOK, UNCHANGED workerVars,
         \/ \E s \in Sessions : TakeRefresh(s)
         \/ ResetRateLimits \/ Cancel \/ Exit \/ UNCHANGED vars
  PROVE  PipelineInv' /\ Conserved
<1>1. UNCHANGED <<subordinateChan, backupChan, wsChan, fateVars>>
  BY DEF TakeRefresh, ResetRateLimits, Cancel, Exit, vars, chanVars
<1>2. /\ task' \in [Workers -> Task] /\ phase' \in [Workers -> Phases]
      /\ \A v \in Workers : WorkerInv(v)'
      /\ \A i : Held(i)' = Held(i)
  BY WorkersRest
<1>3. refreshChan' \in [Sessions -> 0 .. RefreshSize]
  <2>1. refreshChan \in [Sessions -> 0 .. RefreshSize] /\ RefreshSize \in Nat
    BY ChannelsHaveRoom DEF TypeOK
  <2>2. ASSUME NEW s \in Sessions, TakeRefresh(s)
        PROVE  refreshChan' \in [Sessions -> 0 .. RefreshSize]
    <3>1. refreshChan[s] - 1 \in 0 .. RefreshSize
      BY <2>1, <2>2 DEF TakeRefresh
    <3> QED  BY <2>1, <2>2, <3>1 DEF TakeRefresh
  <2>3. CASE ResetRateLimits \/ Cancel \/ Exit \/ UNCHANGED vars
    BY <2>1, <2>3 DEF ResetRateLimits, Cancel, Exit, vars, chanVars
  <2> QED  BY <2>2, <2>3
<1>4. rateLimits' \in 0 .. MaxRateLimits + 1
  BY LimitIsConfigured
  DEF TypeOK, TakeRefresh, ResetRateLimits, Cancel, Exit, vars
<1>5. ctx' \in {"live", "cancelled", "exited"}
  BY DEF TypeOK, TakeRefresh, ResetRateLimits, Cancel, Exit, vars
<1>6. TypeOK'
  BY <1>1, <1>2, <1>3, <1>4, <1>5 DEF TypeOK, Task, fateVars
<1> QED  BY <1>1, <1>2, <1>6, NothingMoves DEF PipelineInv

LEMMA NextStep ==
  ASSUME PipelineInv, [Next]_vars
  PROVE  PipelineInv' /\ Conserved
<1>0. TypeOK
  BY DEF PipelineInv
<1>1. SubWorkers \subseteq Workers /\ BackupWorkers \subseteq Workers
  BY DEF Workers
<1>2. ASSUME NEW i \in unseen, Assign(i) \/ DeliverThreshold(i)
      PROVE  PipelineInv' /\ Conserved
  BY <1>0, <1>2, AssignStep, DeliverThresholdStep
<1>3. ASSUME NEW w \in SubWorkers, SubWorker(w)
      PROVE  PipelineInv' /\ Conserved
  BY <1>0, <1>1, <1>3, TakeItemStep, WaitFetchRetrySteps, FetchFailsStep,
     SendBackupStep, SendRefreshCountSteps, SendContentStep
  DEF SubWorker
<1>4. ASSUME NEW w \in BackupWorkers, BackupWorker(w)
      PROVE  PipelineInv' /\ Conserved
  BY <1>0, <1>1, <1>4, TakePacketStep, WaitFetchRetrySteps, GiveUpStep,
     RetryFailsStep, SendContentStep
  DEF BackupWorker
<1>5. ASSUME NEW w \in Workers, Finish(w)
      PROVE  PipelineInv' /\ Conserved
  BY <1>5, WaitFetchRetrySteps
<1>6. CASE TakeContent
  BY <1>0, <1>6, TakeContentStep
<1>7. CASE \/ \E s \in Sessions : TakeRefresh(s)
           \/ ResetRateLimits \/ Cancel \/ Exit \/ Quiet \/ UNCHANGED vars
  <2>1. UNCHANGED workerVars
    BY <1>7 DEF TakeRefresh, ResetRateLimits, Cancel, Exit, Quiet, vars
  <2> QED  BY <1>0, <1>7, <2>1, EnvironmentSteps DEF Quiet
<1> QED  BY <1>2, <1>3, <1>4, <1>5, <1>6, <1>7 DEF Next, Step

LEMMA InitPipeline == Init => PipelineInv /\ EachItemInOnePlace
<1> SUFFICES ASSUME Init PROVE PipelineInv /\ EachItemInOnePlace
  OBVIOUS
<1>1. /\ task = [w \in Workers |-> NoTask] /\ phase = [w \in Workers |-> "idle"]
      /\ subordinateChan = <<>> /\ backupChan = <<>> /\ wsChan = <<>>
      /\ unseen = Items
      /\ delivered = [i \in Items |-> 0] /\ lost = [i \in Items |-> 0]
  BY DEF Init
<1>2. \A w \in Workers : WorkerInv(w)
  BY <1>1, NoTaskIsATask, NoItemIsNone DEF WorkerInv, Holding
<1>3. TypeOK
  <2>1. task \in [Workers -> Task] /\ phase \in [Workers -> Phases]
    BY <1>1, NoTaskIsATask DEF Phases
  <2>2. refreshChan \in [Sessions -> 0 .. RefreshSize] /\ rateLimits \in 0 .. MaxRateLimits + 1
    BY ChannelsHaveRoom, LimitIsConfigured DEF Init
  <2>3. ctx = "live"
    BY DEF Init
  <2>4. /\ subordinateChan \in Seq(Items) /\ Len(subordinateChan) <= SubordinateSize
        /\ backupChan \in Seq(Items) /\ Len(backupChan) <= BackupSize
        /\ wsChan \in Seq(Items) /\ Len(wsChan) <= WsSize
    BY <1>1, ChannelsHaveRoom
  <2> QED  BY <1>1, <2>1, <2>2, <2>3, <2>4 DEF TypeOK, Task
<1>4. ASSUME NEW i \in Items
      PROVE  Places(i) = 1
  <2>1. Copies(i, <<>>) = 0
    <3>1. {n \in DOMAIN <<>> : <<>>[n] = i} = {}
      OBVIOUS
    <3> QED  BY <3>1, FS_EmptySet DEF Copies
  <2>2. Held(i) = 0
    <3>1. Holders(i) = {}
      BY <1>1, <1>4, NoTaskIsATask, NoItemIsNone DEF Holders
    <3> QED  BY <3>1, FS_EmptySet DEF Held
  <2>3. InHand(i) = 1
    <3>1. {i} \cap unseen = {i}
      BY <1>1
    <3> QED  BY <3>1, FS_Singleton DEF InHand
  <2>4. delivered[i] = 0 /\ lost[i] = 0
    BY <1>1
  <2> QED  BY <1>1, <2>1, <2>2, <2>3, <2>4, PlacesIsTheSum
<1> QED  BY <1>2, <1>3, <1>4 DEF PipelineInv, EachItemInOnePlace

LEMMA PipelineInvAlways == Spec => [](PipelineInv /\ EachItemInOnePlace)
<1>1. Init => PipelineInv /\ EachItemInOnePlace
  BY InitPipeline
<1>2. PipelineInv /\ EachItemInOnePlace /\ [Next]_vars
        => (PipelineInv /\ EachItemInOnePlace)'
  BY NextStep DEF Conserved, EachItemInOnePlace
<1> QED  BY <1>1, <1>2, PTL DEF Spec

-----------------------------------------------------------------------------
(* Theorems                                                                *)

\* Every variable has its type in every reachable state: no channel exceeds its
\* capacity and no worker counts more retries than are configured.
THEOREM PipelineTypeCorrect == Spec => []TypeOK
<1>1. PipelineInv => TypeOK
  BY DEF PipelineInv
<1> QED  BY <1>1, PipelineInvAlways, PTL

\* At any time every item is in exactly one place: none is dropped on the way
\* and none is doubled, whatever fails and however the process ends.
THEOREM NoItemIsDroppedOrDoubled == Spec => []EachItemInOnePlace
BY PipelineInvAlways, PTL

-----------------------------------------------------------------------------
(***************************************************************************)
(* The item pipeline implements ItemDelivery, for any number of items,     *)
(* workers and retries and any capacities.                                 *)
(*                                                                         *)
(* Because an item is in one place only, that place determines its status  *)
(* and its tries: Values.  A step moves one item from a place to another,  *)
(* which is a step of ItemDelivery or none, and leaves the other items     *)
(* where they are.                                                         *)
(***************************************************************************)

\* Status and tries of item i.
Is(i, s, n) == AbstractStatus[i] = s /\ AbstractTries[i] = n

\* What each place says of the item that is there.
Values(i) ==
  /\ i \in unseen => Is(i, "unseen", 0)
  /\ Copies(i, subordinateChan) > 0 => Is(i, "pending", 0)
  /\ Copies(i, backupChan) > 0 => Is(i, "pending", 1)
  /\ Copies(i, wsChan) > 0 => Is(i, "delivered", 0)
  /\ delivered[i] > 0 => Is(i, "delivered", 0)
  /\ lost[i] > 0 => Is(i, "lost", 0)
  /\ \A w \in SubWorkers : task[w].item = i /\ phase[w] # "handing over" =>
       Is(i, "pending", 0)
  /\ \A w \in SubWorkers : task[w].item = i /\ phase[w] = "handing over" =>
       Is(i, "pending", 1)
  /\ \A w \in BackupWorkers : task[w].item = i =>
       Is(i, "pending", 1 + task[w].retries)

DeliveryInv == PipelineInv /\ EachItemInOnePlace

-----------------------------------------------------------------------------
(* An item that is in one place is in no other                             *)

\* The places an item can be in besides the workers: none of them.
Nowhere(i) ==
  /\ i \notin unseen
  /\ Copies(i, subordinateChan) = 0 /\ Copies(i, backupChan) = 0
  /\ Copies(i, wsChan) = 0 /\ delivered[i] = 0 /\ lost[i] = 0

Unheld(i) == \A w \in Workers : task[w].item # i

LEMMA InHandIsMembership ==
  \A i : /\ i \in unseen => InHand(i) = 1
         /\ i \notin unseen => InHand(i) = 0
<1> TAKE i
<1>1. ASSUME i \in unseen PROVE InHand(i) = 1
  <2>1. {i} \cap unseen = {i}
    BY <1>1
  <2> QED  BY <2>1, FS_Singleton DEF InHand
<1>2. ASSUME i \notin unseen PROVE InHand(i) = 0
  <2>1. {i} \cap unseen = {}
    BY <1>2
  <2> QED  BY <2>1, FS_EmptySet DEF InHand
<1> QED  BY <1>1, <1>2

LEMMA HeldIsHolding ==
  \A i : Held(i) = 0 <=> Unheld(i)
<1> TAKE i
<1>1. Held(i) = 0 <=> Holders(i) = {}
  BY HoldersAreFinite, FS_EmptySet DEF Held
<1> QED  BY <1>1 DEF Holders, Unheld

LEMMA PlacesExclude ==
  ASSUME DeliveryInv, NEW i \in Items
  PROVE  /\ i \in unseen =>
              /\ Copies(i, subordinateChan) = 0 /\ Copies(i, backupChan) = 0
              /\ Copies(i, wsChan) = 0 /\ delivered[i] = 0 /\ lost[i] = 0
              /\ Unheld(i)
         /\ Copies(i, subordinateChan) > 0 =>
              /\ i \notin unseen /\ Copies(i, backupChan) = 0
              /\ Copies(i, wsChan) = 0 /\ delivered[i] = 0 /\ lost[i] = 0
              /\ Unheld(i)
         /\ Copies(i, backupChan) > 0 =>
              /\ i \notin unseen /\ Copies(i, subordinateChan) = 0
              /\ Copies(i, wsChan) = 0 /\ delivered[i] = 0 /\ lost[i] = 0
              /\ Unheld(i)
         /\ Copies(i, wsChan) > 0 \/ delivered[i] > 0 =>
              /\ i \notin unseen /\ Copies(i, subordinateChan) = 0
              /\ Copies(i, backupChan) = 0 /\ lost[i] = 0
              /\ Unheld(i)
         /\ lost[i] > 0 =>
              /\ i \notin unseen /\ Copies(i, subordinateChan) = 0
              /\ Copies(i, backupChan) = 0 /\ Copies(i, wsChan) = 0
              /\ delivered[i] = 0 /\ Unheld(i)
         /\ \A w \in Workers : task[w].item = i =>
              /\ Nowhere(i)
              /\ \A v \in Workers : task[v].item = i => v = w
<1> DEFINE h == InHand(i)
           s == Copies(i, subordinateChan)
           b == Copies(i, backupChan)
           c == Copies(i, wsChan)
           g == Held(i)
           d == delivered[i]
           l == lost[i]
<1>1. h \in Nat /\ s \in Nat /\ b \in Nat /\ c \in Nat /\ g \in Nat /\ d \in Nat /\ l \in Nat
  BY TermsAreNaturals DEF DeliveryInv, PipelineInv
<1>2. h + s + b + c + g + d + l = 1
  BY PlacesIsTheSum DEF DeliveryInv, EachItemInOnePlace
<1>3. /\ i \in unseen <=> InHand(i) > 0
      /\ i \notin unseen <=> InHand(i) = 0
      /\ Held(i) = 0 <=> Unheld(i)
  BY InHandIsMembership, HeldIsHolding
<1>4. /\ h > 0 => s = 0 /\ b = 0 /\ c = 0 /\ d = 0 /\ l = 0 /\ g = 0
      /\ s > 0 => h = 0 /\ b = 0 /\ c = 0 /\ d = 0 /\ l = 0 /\ g = 0
      /\ b > 0 => h = 0 /\ s = 0 /\ c = 0 /\ d = 0 /\ l = 0 /\ g = 0
      /\ c > 0 \/ d > 0 => h = 0 /\ s = 0 /\ b = 0 /\ l = 0 /\ g = 0
      /\ l > 0 => h = 0 /\ s = 0 /\ b = 0 /\ c = 0 /\ d = 0 /\ g = 0
      /\ g > 0 => h = 0 /\ s = 0 /\ b = 0 /\ c = 0 /\ d = 0 /\ l = 0 /\ g = 1
  <2> HIDE DEF h, s, b, c, g, d, l
  <2> QED  BY <1>1, <1>2
<1>5. ASSUME NEW w \in Workers, task[w].item = i
      PROVE  /\ Nowhere(i)
             /\ \A v \in Workers : task[v].item = i => v = w
  <2>1. Held(i) > 0
    BY <1>1, <1>3, <1>5 DEF Unheld
  <2>2. Nowhere(i)
    BY <1>3, <1>4, <2>1 DEF Nowhere
  <2>3. PICK u : Holders(i) = {u}
    BY <1>4, <2>1, HoldersAreFinite, FS_Singleton DEF Held
  <2> QED  BY <1>5, <2>2, <2>3 DEF Holders
<1> QED  BY <1>3, <1>4, <1>5

LEMMA StatusOf ==
  \A i \in Items :
    AbstractStatus[i] = IF i \in unseen THEN "unseen"
                        ELSE IF lost[i] > 0 THEN "lost"
                        ELSE IF delivered[i] + Copies(i, wsChan) > 0 THEN "delivered"
                        ELSE "pending"
BY DEF AbstractStatus

LEMMA TriesOf ==
  ASSUME NEW i \in Items
  PROVE  /\ \A w \in BackupWorkers :
              /\ task[w].item = i
              /\ \A v \in BackupWorkers : task[v].item = i => v = w
              => AbstractTries[i] = 1 + task[w].retries
         /\ (\A v \in BackupWorkers : task[v].item # i) =>
              AbstractTries[i] = IF HandedOver(i) THEN 1 ELSE 0
<1> DEFINE backup == {v \in BackupWorkers : task[v].item = i}
<1>1. AbstractTries[i] = IF backup # {} THEN 1 + task[CHOOSE v \in backup : TRUE].retries
                         ELSE IF HandedOver(i) THEN 1 ELSE 0
  BY DEF AbstractTries
<1>2. ASSUME NEW w \in BackupWorkers, task[w].item = i,
             \A v \in BackupWorkers : task[v].item = i => v = w
      PROVE  AbstractTries[i] = 1 + task[w].retries
  <2>1. w \in backup /\ \A v \in backup : v = w
    BY <1>2
  <2>2. (CHOOSE v \in backup : TRUE) \in backup
    BY <2>1
  <2>3. (CHOOSE v \in backup : TRUE) = w
    BY <2>1, <2>2
  <2> QED  BY <1>1, <2>1, <2>3
<1>3. ASSUME \A v \in BackupWorkers : task[v].item # i
      PROVE  AbstractTries[i] = IF HandedOver(i) THEN 1 ELSE 0
  <2>1. backup = {}
    BY <1>3
  <2> QED  BY <1>1, <2>1
<1> QED  BY <1>2, <1>3

\* The place of an item determines its status and its tries.
LEMMA PlaceDetermines ==
  ASSUME DeliveryInv, NEW i \in Items
  PROVE  Values(i)
<1>1. /\ Copies(i, wsChan) \in Nat /\ delivered[i] \in Nat /\ lost[i] \in Nat
  BY TermsAreNaturals DEF DeliveryInv, PipelineInv
<1>2. SubWorkers \subseteq Workers /\ BackupWorkers \subseteq Workers
  BY DEF Workers
<1>3. ASSUME Unheld(i)
      PROVE  AbstractTries[i] = IF Copies(i, backupChan) > 0 THEN 1 ELSE 0
  BY <1>2, <1>3, TriesOf DEF Unheld, HandedOver
<1>4. i \in unseen => Is(i, "unseen", 0)
  <2> HAVE i \in unseen
  <2>1. Unheld(i) /\ Copies(i, backupChan) = 0
    BY PlacesExclude
  <2> QED  BY <1>3, <2>1, StatusOf DEF Is
<1>5. Copies(i, subordinateChan) > 0 => Is(i, "pending", 0)
  <2> HAVE Copies(i, subordinateChan) > 0
  <2>1. /\ Unheld(i) /\ Copies(i, backupChan) = 0 /\ i \notin unseen
        /\ lost[i] = 0 /\ delivered[i] = 0 /\ Copies(i, wsChan) = 0
    BY PlacesExclude
  <2> QED  BY <1>3, <2>1, StatusOf DEF Is
<1>6. Copies(i, backupChan) > 0 => Is(i, "pending", 1)
  <2> HAVE Copies(i, backupChan) > 0
  <2>1. /\ Unheld(i) /\ i \notin unseen
        /\ lost[i] = 0 /\ delivered[i] = 0 /\ Copies(i, wsChan) = 0
    BY PlacesExclude
  <2> QED  BY <1>3, <2>1, StatusOf DEF Is
<1>7. Copies(i, wsChan) > 0 \/ delivered[i] > 0 => Is(i, "delivered", 0)
  <2> HAVE Copies(i, wsChan) > 0 \/ delivered[i] > 0
  <2>1. /\ Unheld(i) /\ Copies(i, backupChan) = 0 /\ i \notin unseen
        /\ lost[i] = 0
    BY PlacesExclude
  <2>2. delivered[i] + Copies(i, wsChan) > 0
    BY <1>1
  <2> QED  BY <1>3, <2>1, <2>2, StatusOf DEF Is
<1>8. lost[i] > 0 => Is(i, "lost", 0)
  <2> HAVE lost[i] > 0
  <2>1. Unheld(i) /\ Copies(i, backupChan) = 0 /\ i \notin unseen
    BY PlacesExclude
  <2> QED  BY <1>3, <2>1, StatusOf DEF Is
<1>9. ASSUME NEW w \in Workers, task[w].item = i
      PROVE  /\ AbstractStatus[i] = "pending"
             /\ Copies(i, backupChan) = 0
             /\ \A v \in Workers : task[v].item = i => v = w
  <2>1. Nowhere(i) /\ \A v \in Workers : task[v].item = i => v = w
    BY <1>9, PlacesExclude
  <2> QED  BY <2>1, StatusOf DEF Nowhere
<1>10. ASSUME NEW w \in SubWorkers, task[w].item = i
       PROVE  AbstractTries[i] = IF phase[w] = "handing over" THEN 1 ELSE 0
  <2>1. /\ Copies(i, backupChan) = 0
        /\ \A v \in Workers : task[v].item = i => v = w
    BY <1>2, <1>9, <1>10
  <2>2. \A v \in BackupWorkers : task[v].item # i
    BY <1>2, <2>1, PoolsAreDisjoint
  <2>3. HandedOver(i) <=> phase[w] = "handing over"
    <3>1. ~ (Copies(i, backupChan) > 0)
      BY <2>1
    <3>2. \A v \in SubWorkers : task[v].item = i => v = w
      BY <1>2, <2>1
    <3> QED  BY <1>10, <3>1, <3>2, Zenon DEF HandedOver
  <2> QED  BY <2>2, <2>3, TriesOf
<1>11. ASSUME NEW w \in BackupWorkers, task[w].item = i
       PROVE  AbstractTries[i] = 1 + task[w].retries
  <2>1. \A v \in BackupWorkers : task[v].item = i => v = w
    BY <1>2, <1>9, <1>11
  <2> QED  BY <1>11, <2>1, TriesOf
<1>12. \A w \in SubWorkers : task[w].item = i =>
         Is(i, "pending", IF phase[w] = "handing over" THEN 1 ELSE 0)
  BY <1>2, <1>9, <1>10 DEF Is
<1>13. \A w \in BackupWorkers : task[w].item = i => Is(i, "pending", 1 + task[w].retries)
  BY <1>2, <1>9, <1>11 DEF Is
<1> QED  BY <1>4, <1>5, <1>6, <1>7, <1>8, <1>12, <1>13 DEF Values

LEMMA PlacesDetermine == DeliveryInv => \A i \in Items : Values(i)
BY PlaceDetermines

LEMMA PlacesDetermineNext == (DeliveryInv => \A i \in Items : Values(i))'
BY PlacesDetermine, PTL

-----------------------------------------------------------------------------
(* What a step does to ItemDelivery's variables                            *)

DeliveryStep == [D!DeliveryNext]_D!deliveryVars

Kept(i) ==
  AbstractStatus'[i] = AbstractStatus[i] /\ AbstractTries'[i] = AbstractTries[i]

\* Worker w changes, and no other one.
OnlyWorker(w) == \A v \in Workers \ {w} : task'[v] = task[v] /\ phase'[v] = phase[v]

\* The places of item i that show in its status and its tries.
SamePlaces(i) ==
  /\ i \in unseen' <=> i \in unseen
  /\ Copies(i, backupChan') = Copies(i, backupChan)
  /\ Copies(i, wsChan') = Copies(i, wsChan)
  /\ delivered'[i] = delivered[i]
  /\ lost'[i] = lost[i]

\* An item keeps its status and tries if its places and those who hold it stay.
LEMMA KeptWhereItIs ==
  ASSUME NEW i \in Items, SamePlaces(i),
         \A v \in Workers :
           /\ task'[v].item = i <=> task[v].item = i
           /\ task[v].item = i =>
                /\ task'[v].retries = task[v].retries
                /\ phase'[v] = "handing over" <=> phase[v] = "handing over"
  PROVE  Kept(i)
<1> DEFINE backup == {v \in BackupWorkers : task[v].item = i}
           chosen == CHOOSE v \in backup : TRUE
<1>1. AbstractStatus'[i] = AbstractStatus[i]
  BY DEF AbstractStatus, SamePlaces
<1>2. SubWorkers \subseteq Workers /\ BackupWorkers \subseteq Workers
  BY DEF Workers
<1>3. /\ AbstractTries[i] = IF backup # {} THEN 1 + task[chosen].retries
                            ELSE IF HandedOver(i) THEN 1 ELSE 0
      /\ AbstractTries'[i] = IF backup' # {} THEN 1 + task'[chosen'].retries
                             ELSE IF HandedOver(i)' THEN 1 ELSE 0
  BY DEF AbstractTries
<1>4. backup' = backup
  BY <1>2
<1>5. HandedOver(i)' <=> HandedOver(i)
  <2>1. \A v \in SubWorkers :
          (phase'[v] = "handing over" /\ task'[v].item = i)
            <=> (phase[v] = "handing over" /\ task[v].item = i)
    BY <1>2
  <2>2. Copies(i, backupChan') = Copies(i, backupChan)
    BY DEF SamePlaces
  <2> QED  BY <2>1, <2>2 DEF HandedOver
<1>6. chosen' = chosen
  BY <1>4
<1>7. backup # {} => task'[chosen].retries = task[chosen].retries
  <2> HAVE backup # {}
  <2>1. chosen \in backup
    OBVIOUS
  <2> QED  BY <1>2, <2>1
<1>8. AbstractTries'[i] = AbstractTries[i]
  <2> HIDE DEF backup, chosen
  <2> QED  BY <1>3, <1>4, <1>5, <1>6, <1>7
<1> QED  BY <1>1, <1>8 DEF Kept

\* A worker that takes or leaves item x leaves the other items alone.
LEMMA OthersKept ==
  ASSUME NEW w \in Workers, NEW x, OnlyWorker(w),
         task[w].item \in {x, NoItem}, task'[w].item \in {x, NoItem},
         NEW i \in Items, i # x, SamePlaces(i)
  PROVE  Kept(i)
<1>1. task[w].item # i /\ task'[w].item # i
  BY NoItemIsNone
<1> QED  BY <1>1, KeptWhereItIs DEF OnlyWorker

LEMMA AllKept ==
  ASSUME \A i \in Items : Kept(i)
  PROVE  DeliveryStep
<1>1. AbstractStatus' = AbstractStatus
  BY DEF AbstractStatus, Kept
<1>2. AbstractTries' = AbstractTries
  BY DEF AbstractTries, Kept
<1> QED  BY <1>1, <1>2 DEF DeliveryStep, D!deliveryVars

\* Item x alone changes its status or its tries.
LEMMA OneChanges ==
  ASSUME NEW x \in Items, \A i \in Items : i # x => Kept(i),
         NEW s, NEW n, Is(x, s, n)'
  PROVE  /\ AbstractStatus' = [AbstractStatus EXCEPT ![x] = s]
         /\ AbstractTries' = [AbstractTries EXCEPT ![x] = n]
<1>1. AbstractStatus'[x] = s /\ AbstractTries'[x] = n
  BY DEF Is
<1>2. AbstractStatus' = [AbstractStatus EXCEPT ![x] = s]
  BY <1>1 DEF AbstractStatus, Kept
<1>3. AbstractTries' = [AbstractTries EXCEPT ![x] = n]
  <2>1. /\ AbstractTries' = [i \in Items |-> AbstractTries'[i]]
        /\ AbstractTries = [i \in Items |-> AbstractTries[i]]
    BY DEF AbstractTries
  <2> QED  BY <1>1, <2>1 DEF Kept
<1> QED  BY <1>2, <1>3

\* The number of tries changes and the status does not.
LEMMA TryFails ==
  ASSUME NEW x \in Items, \A i \in Items : i # x => Kept(i),
         NEW n \in 0 .. MaxRetriesPerItem,
         Is(x, "pending", n), Is(x, "pending", n + 1)'
  PROVE  DeliveryStep
<1>1. /\ AbstractStatus' = [AbstractStatus EXCEPT ![x] = "pending"]
      /\ AbstractTries' = [AbstractTries EXCEPT ![x] = n + 1]
  BY OneChanges
<1>2. AbstractStatus' = AbstractStatus
  BY <1>1 DEF Is, AbstractStatus
<1>3. AbstractTries[x] = n /\ n <= MaxRetriesPerItem
  BY RetriesAreConfigured DEF Is
<1>4. D!FailedTry(x)
  BY <1>1, <1>2, <1>3 DEF D!FailedTry, Is
<1> QED  BY <1>4 DEF DeliveryStep, D!DeliveryNext

LEMMA ItemDelivered ==
  ASSUME NEW x \in Items, \A i \in Items : i # x => Kept(i),
         AbstractStatus[x] \in {"unseen", "pending"}, Is(x, "delivered", 0)'
  PROVE  DeliveryStep
<1>1. D!Deliver(x)
  BY OneChanges DEF D!Deliver, D!Become
<1> QED  BY <1>1 DEF DeliveryStep, D!DeliveryNext

-----------------------------------------------------------------------------
(* What each action does to ItemDelivery's variables                       *)

LEMMA ValuesBeforeAndAfter ==
  ASSUME DeliveryInv, DeliveryInv'
  PROVE  \A i \in Items : Values(i) /\ Values(i)'
BY PlacesDetermine, PlacesDetermineNext

LEMMA MovingWorker ==
  ASSUME PipelineInv, NEW w \in Workers, NEW t, NEW to, MovesOn(w, t, to)
  PROVE  OnlyWorker(w) /\ task'[w] = t /\ phase'[w] = to
<1>1. task \in [Workers -> Task] /\ phase \in [Workers -> Phases]
  BY DEF PipelineInv, TypeOK, Task
<1> QED  BY <1>1 DEF MovesOn, OnlyWorker

\* A worker that goes on with the item it has, and has neither failed with it
\* nor hands it over.
LEMMA WorkerStays ==
  ASSUME PipelineInv, NEW w \in Workers, NEW t, NEW to,
         MovesOn(w, t, to), t.item = task[w].item,
         task[w].item \in Items => t.retries = task[w].retries,
         phase[w] # "handing over", to # "handing over",
         UNCHANGED <<backupChan, wsChan, fateVars>>
  PROVE  DeliveryStep
<1>1. OnlyWorker(w) /\ task'[w] = t /\ phase'[w] = to
  BY MovingWorker
<1>2. ASSUME NEW i \in Items
      PROVE  Kept(i)
  <2>1. SamePlaces(i)
    BY DEF SamePlaces, fateVars
  <2>2. ASSUME NEW v \in Workers
        PROVE  /\ task'[v].item = i <=> task[v].item = i
               /\ task[v].item = i =>
                    /\ task'[v].retries = task[v].retries
                    /\ phase'[v] = "handing over" <=> phase[v] = "handing over"
    <3>1. CASE v = w
      BY <1>1, <3>1
    <3>2. CASE v # w
      BY <1>1, <3>2 DEF OnlyWorker
    <3> QED  BY <3>1, <3>2
  <2> QED  BY <2>1, <2>2, KeptWhereItIs
<1> QED  BY <1>2, AllKept

\* Steps without a worker.
LEMMA KeptWithoutWorkers ==
  ASSUME NEW i \in Items, SamePlaces(i), UNCHANGED workerVars
  PROVE  Kept(i)
<1>1. task' = task /\ phase' = phase
  BY DEF workerVars
<1> QED  BY <1>1, KeptWhereItIs

LEMMA WaitFetchRetryDelivery ==
  ASSUME PipelineInv, NEW w \in Workers,
         EndWait(w) \/ FetchSucceeds(w) \/ Retry(w) \/ AssertionFails(w) \/ Finish(w)
  PROVE  DeliveryStep
<1>1. task \in [Workers -> Task] /\ phase \in [Workers -> Phases]
  BY DEF PipelineInv, TypeOK, Task
<1>2. /\ task' = task
      /\ UNCHANGED <<backupChan, wsChan, fateVars>>
      /\ phase[w] # "handing over"
      /\ \E to \in {"retrying", "fetching", "delivering", "halted", "finished"} : Move(w, to)
  BY DEF EndWait, FetchSucceeds, Retry, AssertionFails, Finish, chanVars, FirstPhase
<1>3. PICK to \in {"retrying", "fetching", "delivering", "halted", "finished"} : Move(w, to)
  BY <1>2
<1>4. MovesOn(w, task[w], to)
  BY <1>1, <1>2, <1>3 DEF MovesOn, Move
<1> QED  BY <1>2, <1>3, <1>4, WorkerStays

LEMMA SendRefreshCountDelivery ==
  ASSUME PipelineInv, NEW w \in Workers, SendRefresh(w) \/ CountRateLimit(w)
  PROVE  DeliveryStep
<1>1. MovesOn(w, NoTask, "idle") /\ phase[w] \notin Holding /\ phase[w] # "handing over"
  BY DEF SendRefresh, CountRateLimit, Rest, MovesOn, Holding
<1>2. task[w].item = NoItem
  BY <1>1, HolderHasItem
<1>3. UNCHANGED <<backupChan, wsChan, fateVars>>
  BY DEF SendRefresh, CountRateLimit, chanVars
<1> QED  BY <1>1, <1>2, <1>3, NoTaskIsATask, NoItemIsNone, WorkerStays

LEMMA FetchFailsDelivery ==
  ASSUME DeliveryInv, DeliveryInv', NEW w \in SubWorkers, FetchFails(w)
  PROVE  DeliveryStep
<1>1. w \in Workers /\ PipelineInv /\ w \notin BackupWorkers
  BY PoolsAreDisjoint DEF Workers, DeliveryInv
<1>2. task \in [Workers -> Task] /\ phase \in [Workers -> Phases]
  BY <1>1 DEF PipelineInv, TypeOK, Task
<1>3. PICK x : x = task[w].item
  OBVIOUS
<1>4. x \in Items /\ phase[w] = "fetching"
  BY <1>1, <1>3, HolderHasItem DEF FetchFails, Holding
<1>5. PICK t : MovesOn(w, t, "handing over") /\ t.item = x
  <2>1. PICK cause \in Causes \ {"none"}, s \in Sessions :
          task' = [task EXCEPT ![w].cause = cause, ![w].session = s]
    BY DEF FetchFails
  <2>2. task' = [task EXCEPT ![w] = [task[w] EXCEPT !.cause = cause, !.session = s]]
    BY <1>1, <1>2, <2>1 DEF Task
  <2>3. [task[w] EXCEPT !.cause = cause, !.session = s].item = x
    BY <1>1, <1>2, <1>3 DEF Task
  <2> QED  BY <2>2, <2>3 DEF MovesOn, FetchFails, Move
<1>6. OnlyWorker(w) /\ task'[w].item = x /\ phase'[w] = "handing over"
  BY <1>1, <1>5, MovingWorker
<1>7. \A i \in Items : i # x => Kept(i)
  <2>1. \A i : SamePlaces(i)
    BY DEF SamePlaces, FetchFails, chanVars, fateVars
  <2> QED  BY <1>1, <1>3, <1>6, <2>1, OthersKept
<1>8. Values(x) /\ Values(x)'
  BY <1>4, ValuesBeforeAndAfter
<1>9. Is(x, "pending", 0) /\ Is(x, "pending", 1)'
  BY <1>3, <1>4, <1>6, <1>8 DEF Values
<1>10. 0 \in 0 .. MaxRetriesPerItem /\ 0 + 1 = 1
  BY RetriesAreConfigured
<1> QED  BY <1>4, <1>7, <1>9, <1>10, TryFails

LEMMA RetryFailsDelivery ==
  ASSUME DeliveryInv, DeliveryInv', NEW w \in BackupWorkers, RetryFails(w)
  PROVE  DeliveryStep
<1>1. w \in Workers /\ PipelineInv
  BY DEF Workers, DeliveryInv
<1>2. task \in [Workers -> Task] /\ phase \in [Workers -> Phases]
  BY <1>1 DEF PipelineInv, TypeOK, Task
<1>3. PICK x, r : x = task[w].item /\ r = task[w].retries
  OBVIOUS
<1>4. x \in Items /\ phase[w] = "fetching"
  BY <1>1, <1>3, HolderHasItem DEF RetryFails, Holding
<1>5. r \in Nat /\ r < MaxRetriesPerItem
  <2>1. r \in 0 .. MaxRetriesPerItem
    BY <1>1, <1>2, <1>3 DEF Task
  <2>2. r < MaxRetriesPerItem
    BY <1>1, <1>3, <1>4 DEF PipelineInv, WorkerInv
  <2> QED  BY <2>1, <2>2, RetriesAreConfigured
<1>6. PICK t : MovesOn(w, t, "retrying") /\ t.item = x /\ t.retries = r + 1
  <2>1. task' = [task EXCEPT ![w].retries = @ + 1]
    BY DEF RetryFails, Counted
  <2>2. task' = [task EXCEPT ![w] = [task[w] EXCEPT !.retries = @ + 1]]
    BY <1>1, <1>2, <2>1 DEF Task
  <2>3. /\ [task[w] EXCEPT !.retries = @ + 1].item = x
        /\ [task[w] EXCEPT !.retries = @ + 1].retries = r + 1
    BY <1>1, <1>2, <1>3 DEF Task
  <2> QED  BY <2>2, <2>3 DEF MovesOn, RetryFails, Move
<1>7. OnlyWorker(w) /\ task'[w].item = x /\ task'[w].retries = r + 1
  BY <1>1, <1>6, MovingWorker
<1>8. \A i \in Items : i # x => Kept(i)
  <2>1. \A i : SamePlaces(i)
    BY DEF SamePlaces, RetryFails, fateVars
  <2> QED  BY <1>1, <1>3, <1>7, <2>1, OthersKept
<1>9. Values(x) /\ Values(x)'
  BY <1>4, ValuesBeforeAndAfter
<1>10. Is(x, "pending", 1 + r) /\ Is(x, "pending", 1 + (r + 1))'
  <2>1. Is(x, "pending", 1 + r)
    BY <1>3, <1>9 DEF Values
  <2>2. AbstractStatus'[x] = "pending" /\ AbstractTries'[x] = 1 + task'[w].retries
    BY <1>7, <1>9 DEF Values, Is
  <2> QED  BY <1>7, <2>1, <2>2 DEF Is
<1>11. PICK n : n = 1 + r
  OBVIOUS
<1>12. n \in 0 .. MaxRetriesPerItem /\ 1 + (r + 1) = n + 1
  BY <1>5, <1>11, RetriesAreConfigured
<1>13. Is(x, "pending", n) /\ Is(x, "pending", n + 1)'
  BY <1>10, <1>11, <1>12 DEF Is
<1> QED  BY <1>4, <1>8, <1>12, <1>13, TryFails

\* A worker that rests takes item x from a channel, or has x and is rid of it.
LEMMA OthersKeptByExchange ==
  ASSUME PipelineInv, NEW w \in Workers, NEW x \in Items, NEW t, NEW to,
         MovesOn(w, t, to), task[w].item \in {x, NoItem}, t.item \in {x, NoItem},
         \A i \in Items : i # x => SamePlaces(i)
  PROVE  \A i \in Items : i # x => Kept(i)
<1>1. OnlyWorker(w) /\ task'[w].item \in {x, NoItem}
  BY MovingWorker
<1> QED  BY <1>1, OthersKept

LEMMA Accepting ==
  ASSUME PipelineInv, NEW w \in Workers, NEW x \in Items, Accept(w, x)
  PROVE  \E t, to :
           /\ MovesOn(w, t, to) /\ task[w].item = NoItem
           /\ t.item = x /\ t.retries = 0 /\ to # "handing over"
<1>1. task \in [Workers -> Task] /\ task[w] \in Task /\ phase[w] = "idle"
  BY DEF PipelineInv, TypeOK, Task, Accept
<1>2. task[w].item = NoItem /\ task[w].retries = 0
  BY <1>1, HolderHasItem DEF PipelineInv, WorkerInv, Holding
<1>3. MovesOn(w, [task[w] EXCEPT !.item = x],
              IF rateLimits > MaxRateLimits THEN "waiting" ELSE FirstPhase(w))
  BY <1>1 DEF Accept, MovesOn, Move, Task
<1>4. [task[w] EXCEPT !.item = x].item = x /\ [task[w] EXCEPT !.item = x].retries = 0
  BY <1>1, <1>2 DEF Task
<1>5. (IF rateLimits > MaxRateLimits THEN "waiting" ELSE FirstPhase(w)) # "handing over"
  BY DEF FirstPhase
<1> QED  BY <1>2, <1>3, <1>4, <1>5

LEMMA TakeItemDelivery ==
  ASSUME DeliveryInv, DeliveryInv', NEW w \in SubWorkers, TakeItem(w)
  PROVE  DeliveryStep
<1>1. w \in Workers /\ PipelineInv /\ TypeOK
  BY DEF Workers, DeliveryInv, PipelineInv
<1>2. PICK x : x = Head(subordinateChan)
  OBVIOUS
<1>3. /\ x \in Items /\ Accept(w, x)
      /\ Copies(x, subordinateChan) = Copies(x, Tail(subordinateChan)) + 1
      /\ Copies(x, Tail(subordinateChan)) \in Nat
      /\ UNCHANGED <<backupChan, wsChan, fateVars>>
  <2>1. subordinateChan \in Seq(Items) /\ subordinateChan # <<>>
    BY <1>1 DEF TakeItem, TypeOK
  <2>2. Tail(subordinateChan) \in Seq(Items)
    BY <2>1
  <2> QED  BY <1>2, <2>1, <2>2, CopiesTail, CopiesAreFinite DEF TakeItem
<1>4. Copies(x, subordinateChan) > 0
  BY <1>3
<1>5. PICK t, to :
        /\ MovesOn(w, t, to) /\ task[w].item = NoItem
        /\ t.item = x /\ t.retries = 0 /\ to # "handing over"
  BY <1>1, <1>3, Accepting
<1>6. OnlyWorker(w) /\ task'[w].item = x /\ phase'[w] # "handing over"
  BY <1>1, <1>5, MovingWorker
<1>7. \A i \in Items : i # x => Kept(i)
  <2>1. \A i : SamePlaces(i)
    BY <1>3 DEF SamePlaces, fateVars
  <2> QED  BY <1>1, <1>3, <1>5, <2>1, OthersKeptByExchange
<1>8. Values(x) /\ Values(x)'
  BY <1>3, ValuesBeforeAndAfter
<1>9. Is(x, "pending", 0) /\ Is(x, "pending", 0)'
  BY <1>4, <1>6, <1>8 DEF Values
<1>10. Kept(x)
  BY <1>9 DEF Is, Kept
<1> QED  BY <1>7, <1>10, AllKept

LEMMA TakePacketDelivery ==
  ASSUME DeliveryInv, DeliveryInv', NEW w \in BackupWorkers, TakePacket(w)
  PROVE  DeliveryStep
<1>1. w \in Workers /\ PipelineInv /\ TypeOK
  BY DEF Workers, DeliveryInv, PipelineInv
<1>2. PICK x : x = Head(backupChan)
  OBVIOUS
<1>3. /\ x \in Items /\ Accept(w, x)
      /\ Copies(x, backupChan) = Copies(x, Tail(backupChan)) + 1
      /\ Copies(x, Tail(backupChan)) \in Nat
      /\ \A i : i # x => Copies(i, Tail(backupChan)) = Copies(i, backupChan)
      /\ backupChan' = Tail(backupChan)
      /\ UNCHANGED <<wsChan, fateVars>>
  <2>1. backupChan \in Seq(Items) /\ backupChan # <<>>
    BY <1>1 DEF TakePacket, TypeOK
  <2>2. Tail(backupChan) \in Seq(Items)
    BY <2>1
  <2> QED  BY <1>2, <2>1, <2>2, CopiesTail, CopiesAreFinite DEF TakePacket
<1>4. Copies(x, backupChan) > 0
  BY <1>3
<1>5. PICK t, to :
        /\ MovesOn(w, t, to) /\ task[w].item = NoItem
        /\ t.item = x /\ t.retries = 0 /\ to # "handing over"
  BY <1>1, <1>3, Accepting
<1>6. OnlyWorker(w) /\ task'[w].item = x /\ task'[w].retries = 0
  BY <1>1, <1>5, MovingWorker
<1>7. \A i \in Items : i # x => Kept(i)
  <2>1. \A i : i # x => SamePlaces(i)
    BY <1>3 DEF SamePlaces, fateVars
  <2> QED  BY <1>1, <1>3, <1>5, <2>1, OthersKeptByExchange
<1>8. Values(x) /\ Values(x)'
  BY <1>3, ValuesBeforeAndAfter
<1>9. Is(x, "pending", 1)
  BY <1>4, <1>8 DEF Values
<1>10. AbstractStatus'[x] = "pending" /\ AbstractTries'[x] = 1 + task'[w].retries
  BY <1>6, <1>8 DEF Values, Is
<1>11. Kept(x)
  BY <1>6, <1>9, <1>10 DEF Is, Kept
<1> QED  BY <1>7, <1>11, AllKept

LEMMA SendBackupDelivery ==
  ASSUME DeliveryInv, DeliveryInv', NEW w \in SubWorkers, SendBackup(w)
  PROVE  DeliveryStep
<1>1. w \in Workers /\ PipelineInv /\ TypeOK
  BY DEF Workers, DeliveryInv, PipelineInv
<1>2. PICK x : x = task[w].item
  OBVIOUS
<1>3. /\ x \in Items /\ phase[w] = "handing over"
      /\ backupChan \in Seq(Items) /\ backupChan' = Append(backupChan, x)
      /\ UNCHANGED <<wsChan, fateVars>>
  BY <1>1, <1>2, HolderHasItem DEF SendBackup, Holding, TypeOK
<1>4. /\ Copies(x, backupChan') = Copies(x, backupChan) + 1
      /\ Copies(x, backupChan) \in Nat
      /\ \A i : i # x => Copies(i, backupChan') = Copies(i, backupChan)
  BY <1>3, CopiesAppend, CopiesAreFinite
<1>5. Copies(x, backupChan') > 0
  BY <1>4
<1>6. PICK t : MovesOn(w, t, FollowUp(w)) /\ t.item = NoItem
  <2>1. task[w] \in Task
    BY <1>1, HolderHasItem
  <2>2. [task[w] EXCEPT !.item = NoItem].item = NoItem
    BY <2>1 DEF Task
  <2>3. MovesOn(w, IF FollowUp(w) = "idle" THEN NoTask ELSE [task[w] EXCEPT !.item = NoItem],
                FollowUp(w))
    <3>1. task \in [Workers -> Task]
      BY <1>1 DEF TypeOK, Task
    <3> QED  BY <1>1, <3>1 DEF SendBackup, MovesOn, Move
  <2> QED  BY <2>2, <2>3, NoTaskIsATask
<1>7. \A i \in Items : i # x => Kept(i)
  <2>1. \A i : i # x => SamePlaces(i)
    BY <1>3, <1>4 DEF SamePlaces, fateVars
  <2> QED  BY <1>1, <1>2, <1>3, <1>6, <2>1, OthersKeptByExchange
<1>8. Values(x) /\ Values(x)'
  BY <1>3, ValuesBeforeAndAfter
<1>9. Is(x, "pending", 1) /\ Is(x, "pending", 1)'
  BY <1>2, <1>3, <1>5, <1>8 DEF Values
<1>10. Kept(x)
  BY <1>9 DEF Is, Kept
<1> QED  BY <1>7, <1>10, AllKept

LEMMA SendContentDelivery ==
  ASSUME DeliveryInv, DeliveryInv', NEW w \in Workers, SendContent(w)
  PROVE  DeliveryStep
<1>1. PipelineInv /\ TypeOK
  BY DEF DeliveryInv, PipelineInv
<1>2. PICK x : x = task[w].item
  OBVIOUS
<1>3. /\ x \in Items /\ phase[w] = "delivering"
      /\ wsChan \in Seq(Items) /\ wsChan' = Append(wsChan, x)
      /\ UNCHANGED <<backupChan, fateVars>>
  BY <1>1, <1>2, HolderHasItem DEF SendContent, Holding, TypeOK
<1>4. /\ Copies(x, wsChan') = Copies(x, wsChan) + 1
      /\ Copies(x, wsChan) \in Nat
      /\ \A i : i # x => Copies(i, wsChan') = Copies(i, wsChan)
  BY <1>3, CopiesAppend, CopiesAreFinite
<1>5. Copies(x, wsChan') > 0
  BY <1>4
<1>6. PICK to \in {"idle", "asserting"} : MovesOn(w, NoTask, to)
  BY DEF SendContent, MovesOn
<1>7. \A i \in Items : i # x => Kept(i)
  <2>1. \A i : i # x => SamePlaces(i)
    BY <1>3, <1>4 DEF SamePlaces, fateVars
  <2> QED  BY <1>1, <1>2, <1>3, <1>6, <2>1, NoTaskIsATask, OthersKeptByExchange
<1>8. Values(x) /\ Values(x)'
  BY <1>3, ValuesBeforeAndAfter
<1>9. AbstractStatus[x] = "pending"
  BY <1>2, <1>3, <1>8 DEF Values, Is, Workers
<1>10. Is(x, "delivered", 0)'
  BY <1>5, <1>8 DEF Values
<1> QED  BY <1>3, <1>7, <1>9, <1>10, ItemDelivered

LEMMA GiveUpDelivery ==
  ASSUME DeliveryInv, DeliveryInv', NEW w \in BackupWorkers, GiveUp(w)
  PROVE  DeliveryStep
<1>1. w \in Workers /\ PipelineInv /\ TypeOK
  BY DEF Workers, DeliveryInv, PipelineInv
<1>2. PICK x, r : x = task[w].item /\ r = task[w].retries
  OBVIOUS
<1>3. /\ x \in Items /\ lost \in [Items -> Nat]
      /\ lost' = [lost EXCEPT ![x] = @ + 1]
      /\ UNCHANGED <<chanVars, unseen, delivered>>
  BY <1>1, <1>2, HolderHasItem DEF GiveUp, TypeOK, Holding
<1>4. /\ lost'[x] > 0
      /\ \A i \in Items : i # x => lost'[i] = lost[i]
  BY <1>3
<1>5. r = MaxRetriesPerItem
  <2>1. task[w] \in Task
    BY <1>1, HolderHasItem
  <2>2. r \in 0 .. MaxRetriesPerItem
    BY <1>2, <2>1 DEF Task
  <2> QED  BY <1>2, <2>2, RetriesAreConfigured DEF GiveUp, Exhausted
<1>6. MovesOn(w, NoTask, "idle")
  BY DEF GiveUp, Rest, MovesOn
<1>7. \A i \in Items : i # x => Kept(i)
  <2>1. \A i \in Items : i # x => SamePlaces(i)
    BY <1>3, <1>4 DEF SamePlaces, chanVars
  <2> QED  BY <1>1, <1>2, <1>3, <1>6, <2>1, NoTaskIsATask, OthersKeptByExchange
<1>8. Values(x) /\ Values(x)'
  BY <1>3, ValuesBeforeAndAfter
<1>9. Is(x, "pending", 1 + MaxRetriesPerItem)
  BY <1>2, <1>5, <1>8 DEF Values
<1>10. Is(x, "lost", 0)'
  BY <1>4, <1>8 DEF Values
<1>11. D!GiveUp(x)
  BY <1>3, <1>7, <1>9, <1>10, OneChanges DEF D!GiveUp, D!Become, Is
<1> QED  BY <1>3, <1>11 DEF DeliveryStep, D!DeliveryNext

LEMMA AssignDelivery ==
  ASSUME DeliveryInv, DeliveryInv', NEW x \in unseen, Assign(x)
  PROVE  DeliveryStep
<1>1. /\ x \in Items
      /\ subordinateChan \in Seq(Items) /\ subordinateChan' = Append(subordinateChan, x)
      /\ unseen' = unseen \ {x}
      /\ UNCHANGED <<backupChan, wsChan, workerVars, delivered, lost>>
  BY DEF Assign, DeliveryInv, PipelineInv, TypeOK
<1>2. Copies(x, subordinateChan') > 0
  <2>1. /\ Copies(x, subordinateChan') = Copies(x, subordinateChan) + 1
        /\ Copies(x, subordinateChan) \in Nat
    BY <1>1, CopiesAppend, CopiesAreFinite
  <2> QED  BY <2>1
<1>3. \A i \in Items : i # x => Kept(i)
  <2>1. \A i : i # x => SamePlaces(i)
    BY <1>1 DEF SamePlaces
  <2> QED  BY <1>1, <2>1, KeptWithoutWorkers
<1>4. Values(x) /\ Values(x)'
  BY <1>1, ValuesBeforeAndAfter
<1>5. Is(x, "unseen", 0) /\ Is(x, "pending", 0)'
  BY <1>2, <1>4 DEF Values
<1>6. D!HandOut(x)
  BY <1>1, <1>3, <1>5, OneChanges DEF D!HandOut, D!Become, Is
<1> QED  BY <1>1, <1>6 DEF DeliveryStep, D!DeliveryNext

LEMMA DeliverThresholdDelivery ==
  ASSUME DeliveryInv, DeliveryInv', NEW x \in unseen, DeliverThreshold(x)
  PROVE  DeliveryStep
<1>1. /\ x \in Items
      /\ wsChan \in Seq(Items) /\ wsChan' = Append(wsChan, x)
      /\ unseen' = unseen \ {x}
      /\ UNCHANGED <<backupChan, workerVars, delivered, lost>>
  BY DEF DeliverThreshold, DeliveryInv, PipelineInv, TypeOK
<1>2. /\ Copies(x, wsChan') = Copies(x, wsChan) + 1
      /\ Copies(x, wsChan) \in Nat
      /\ \A i : i # x => Copies(i, wsChan') = Copies(i, wsChan)
  BY <1>1, CopiesAppend, CopiesAreFinite
<1>3. Copies(x, wsChan') > 0
  BY <1>2
<1>4. \A i \in Items : i # x => Kept(i)
  <2>1. \A i : i # x => SamePlaces(i)
    BY <1>1, <1>2 DEF SamePlaces
  <2> QED  BY <1>1, <2>1, KeptWithoutWorkers
<1>5. Values(x) /\ Values(x)'
  BY <1>1, ValuesBeforeAndAfter
<1>6. AbstractStatus[x] = "unseen" /\ Is(x, "delivered", 0)'
  BY <1>3, <1>5 DEF Values, Is
<1> QED  BY <1>1, <1>4, <1>6, ItemDelivered

LEMMA TakeContentDelivery ==
  ASSUME DeliveryInv, DeliveryInv', TakeContent
  PROVE  DeliveryStep
<1>1. PICK x : x = Head(wsChan)
  OBVIOUS
<1>2. /\ wsChan \in Seq(Items) /\ wsChan # <<>> /\ wsChan' = Tail(wsChan)
      /\ delivered \in [Items -> Nat]
      /\ delivered' = [delivered EXCEPT ![x] = @ + 1]
      /\ UNCHANGED <<backupChan, workerVars, unseen, lost>>
  BY <1>1 DEF TakeContent, DeliveryInv, PipelineInv, TypeOK
<1>3. /\ x \in Items
      /\ Copies(x, wsChan) = Copies(x, wsChan') + 1
      /\ \A i : i # x => Copies(i, wsChan') = Copies(i, wsChan)
      /\ wsChan' \in Seq(Items)
  BY <1>1, <1>2, CopiesTail
<1>4. Copies(x, wsChan) > 0
  <2>1. Copies(x, wsChan') \in Nat
    BY <1>3, CopiesAreFinite
  <2> QED  BY <1>3, <2>1
<1>5. /\ delivered'[x] > 0
      /\ \A i \in Items : i # x => delivered'[i] = delivered[i]
  BY <1>2, <1>3
<1>6. \A i \in Items : i # x => Kept(i)
  <2>1. \A i \in Items : i # x => SamePlaces(i)
    BY <1>2, <1>3, <1>5 DEF SamePlaces
  <2> QED  BY <1>2, <2>1, KeptWithoutWorkers
<1>7. Values(x) /\ Values(x)'
  BY <1>3, ValuesBeforeAndAfter
<1>8. Is(x, "delivered", 0) /\ Is(x, "delivered", 0)'
  BY <1>4, <1>5, <1>7 DEF Values
<1>9. Kept(x)
  BY <1>8 DEF Is, Kept
<1> QED  BY <1>6, <1>9, AllKept

LEMMA EnvironmentDelivery ==
  ASSUME \/ \E s \in Sessions : TakeRefresh(s)
         \/ ResetRateLimits \/ Cancel \/ Exit \/ Quiet \/ UNCHANGED vars
  PROVE  DeliveryStep
<1>1. UNCHANGED <<backupChan, wsChan, fateVars, workerVars>>
  BY DEF TakeRefresh, ResetRateLimits, Cancel, Exit, Quiet, vars, chanVars
<1>2. \A i : SamePlaces(i)
  BY <1>1 DEF SamePlaces, fateVars
<1> QED  BY <1>1, <1>2, KeptWithoutWorkers, AllKept

LEMMA NextDelivery ==
  ASSUME DeliveryInv, DeliveryInv', [Next]_vars
  PROVE  DeliveryStep
<1>0. PipelineInv
  BY DEF DeliveryInv
<1>1. SubWorkers \subseteq Workers /\ BackupWorkers \subseteq Workers
  BY DEF Workers
<1>2. ASSUME NEW i \in unseen, Assign(i) \/ DeliverThreshold(i)
      PROVE  DeliveryStep
  BY <1>2, AssignDelivery, DeliverThresholdDelivery
<1>3. ASSUME NEW w \in SubWorkers, SubWorker(w)
      PROVE  DeliveryStep
  BY <1>0, <1>1, <1>3, TakeItemDelivery, WaitFetchRetryDelivery, FetchFailsDelivery,
     SendBackupDelivery, SendRefreshCountDelivery, SendContentDelivery
  DEF SubWorker
<1>4. ASSUME NEW w \in BackupWorkers, BackupWorker(w)
      PROVE  DeliveryStep
  BY <1>0, <1>1, <1>4, TakePacketDelivery, WaitFetchRetryDelivery, GiveUpDelivery,
     RetryFailsDelivery, SendContentDelivery
  DEF BackupWorker
<1>5. ASSUME NEW w \in Workers, Finish(w)
      PROVE  DeliveryStep
  BY <1>0, <1>5, WaitFetchRetryDelivery
<1>6. CASE TakeContent
  BY <1>6, TakeContentDelivery
<1>7. CASE \/ \E s \in Sessions : TakeRefresh(s)
           \/ ResetRateLimits \/ Cancel \/ Exit \/ Quiet \/ UNCHANGED vars
  BY <1>7, EnvironmentDelivery
<1> QED  BY <1>2, <1>3, <1>4, <1>5, <1>6, <1>7 DEF Next, Step

LEMMA InitDelivery == Init => D!DeliveryInit
<1> SUFFICES ASSUME Init PROVE D!DeliveryInit
  OBVIOUS
<1>1. DeliveryInv
  BY InitPipeline DEF DeliveryInv
<1>2. unseen = Items
  BY DEF Init
<1>3. \A i \in Items : Is(i, "unseen", 0)
  BY <1>1, <1>2, PlacesDetermine DEF Values
<1>4. AbstractStatus = [i \in Items |-> "unseen"]
  BY <1>3 DEF AbstractStatus, Is
<1>5. AbstractTries = [i \in Items |-> 0]
  <2>1. AbstractTries = [i \in Items |-> AbstractTries[i]]
    BY DEF AbstractTries
  <2> QED  BY <1>3, <2>1 DEF Is
<1> QED  BY <1>4, <1>5 DEF D!DeliveryInit

-----------------------------------------------------------------------------
(* Theorem                                                                 *)

\* Every item is delivered or given up, once and for good, and it is given up
\* only after its first try and exactly MaxRetriesPerItem retries have failed,
\* however many workers race for the items and however the process ends.
THEOREM PipelineImplementsDelivery == Spec => ImplementsDelivery
<1>1. Init => D!DeliveryInit
  BY InitDelivery
<1>2. DeliveryInv /\ DeliveryInv' /\ [Next]_vars => [D!DeliveryNext]_D!deliveryVars
  BY NextDelivery DEF DeliveryStep
<1>3. Spec => []DeliveryInv
  BY PipelineInvAlways DEF DeliveryInv
<1> QED  BY <1>1, <1>2, <1>3, PTL DEF Spec, ImplementsDelivery, D!DeliverySpec

=============================================================================

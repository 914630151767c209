--------------------------- MODULE CookieSession ----------------------------
(***************************************************************************)
(* One cookie session: the jar that the workers use for their requests,    *)
(* the refresh worker that owns it (workers/cookies-refresher-worker.go),  *)
(* the periodic fetch it starts, both by FetchCookie and FetchCookieLoop   *)
(* (network/requests.go), and the channel on which workers that were       *)
(* answered 401 ask for a refresh (sub-worker.go, thresholds-worker.go and *)
(* backup-worker.go).                                                      *)
(*                                                                         *)
(* Of the cookies that a fetch finds only the target ones are kept, as how *)
(* many of each name there are; two cookies may have one name when their   *)
(* domains or paths differ.  Those in the jar are only sent, and replaced  *)
(* by the next fetch: they are abstracted to whether the server accepts    *)
(* them.  It accepts all target cookies of a session until it expires.     *)
(* The jar is that of every worker's http.Client too (httpx.go:78), so     *)
(* that any response sets or deletes cookies in it.  Cookies without a     *)
(* target name, which a fetch copies to the new jar, are left out.  Of the *)
(* log channel of the refresh worker, which the periodic fetch uses too,   *)
(* only matters that it is closed when the worker returns; what is sent on *)
(* it finds room (1000 places).                                            *)
(***************************************************************************)
EXTENDS Naturals, FiniteSets

CONSTANTS
  Names,                \* cfg.Standard.SessionCookieNames
  Blocking,             \* subordinate and thresholds workers
  NonBlocking,          \* backup workers
  RefreshSize,          \* capacity of RefreshChan, math.MaxUint8
  MaxExpiries           \* bound on how often the server ends the sessions

ASSUME NamesAreGiven == IsFiniteSet(Names) /\ Names # {}
ASSUME ChannelHasRoom == RefreshSize \in Nat \ {0}
ASSUME ExpiriesAreBounded == MaxExpiries \in Nat
ASSUME KindsAreDisjoint == Blocking \cap NonBlocking = {}

VARIABLES
  jarValid,     \* does the server accept what is in the jar?
  refresher,    \* where the refresh worker is
  timer,        \* where FetchCookieLoop is
  found,        \* the jar each of the two has got from the server, not yet used:
                \* how many cookies of each name, and whether they are accepted
  requests,     \* messages in RefreshChan
  phase,        \* of each worker that uses the jar
  ready,        \* OnSessionReady was called
  expiries,
  done,         \* the context is cancelled
  crashed,      \* a goroutine panicked
  crashOnFirstError \* cfg.Http.CrashOnFirstCookieFetchError

fetchVars  == <<jarValid, refresher, timer, found>>
workerVars == <<requests, phase>>
restVars   == <<ready, done, crashed, crashOnFirstError>>
vars == <<fetchVars, workerVars, restVars, expiries>>

Fetchers  == {"refresher", "timer"}
Consumers == Blocking \cup NonBlocking
Counts    == [Names -> 0 .. 2]
Jars      == [cookies : Counts, valid : BOOLEAN]
EmptyJar  == [cookies |-> [n \in Names |-> 0], valid |-> FALSE]

-----------------------------------------------------------------------------
(* FetchCookie, after the response                                         *)

Complete(cookies) == \A n \in Names : cookies[n] > 0

\* The cookies that have a target name: of each name the first, the second.
Targets(cookies) == {t \in Names \X (1 .. 2) : t[2] <= cookies[t[1]]}

\* Mutant: the first cookie with a target name is enough.
AcceptsAny(cookies) == Targets(cookies) # {}

\* targetCookiesAmount goes down with every one of them, whatever its name.
Accepts(cookies) == Cardinality(Targets(cookies)) >= Cardinality(Names)

Fetching(f) == IF f = "refresher" THEN refresher \in {"first", "fetching"}
                                  ELSE timer = "fetching"

\* The server answers with a new session, and some of the cookies; that it accepts
\* them is certain only if they are complete.
Respond(f) ==
  /\ Fetching(f)
  /\ found[f] = EmptyJar
  /\ \E new \in Jars :
       /\ Complete(new.cookies) => new.valid
       /\ found' = [found EXCEPT ![f] = new]
  /\ UNCHANGED <<jarValid, refresher, timer, workerVars, restVars, expiries>>

Forget(f) ==
  /\ found' = [found EXCEPT ![f] = EmptyJar]
  /\ UNCHANGED jarValid

\* *jar = tmpJar.  Mutant: without the assignment, Install is Forget.
Install(f) ==
  /\ jarValid' = found[f].valid
  /\ found' = [found EXCEPT ![f] = EmptyJar]

Succeeds(f) == Fetching(f) /\ Accepts(found[f].cookies) /\ Install(f)

\* No answer, another status than 200, or cookies that are not accepted.
Fails(f) == Fetching(f) /\ ~ Accepts(found[f].cookies) /\ Forget(f)

-----------------------------------------------------------------------------
(* The refresh worker                                                      *)

FirstFetchEnds ==
  /\ refresher = "first"
  /\ Succeeds("refresher") \/ (Fails("refresher") /\ ~ crashOnFirstError)
  /\ ready' = TRUE
  /\ refresher' = "waiting"
  /\ timer' = "sleeping"
  /\ UNCHANGED <<workerVars, expiries, done, crashed, crashOnFirstError>>

\* assert.NoError cancels the context, and does not return.
FirstFetchCrashes ==
  /\ refresher = "first"
  /\ crashOnFirstError
  /\ Fails("refresher")
  /\ done' = TRUE
  /\ refresher' = "halted"
  /\ UNCHANGED <<timer, workerVars, ready, expiries, crashed, crashOnFirstError>>

TakeRequest ==
  /\ refresher = "waiting"
  /\ requests > 0
  /\ requests' = requests - 1
  /\ refresher' = "fetching"
  /\ UNCHANGED <<jarValid, timer, found, phase, restVars, expiries>>

RefreshSucceeds ==
  /\ refresher = "fetching"
  /\ Succeeds("refresher")
  /\ refresher' = "draining"
  /\ UNCHANGED <<timer, workerVars, restVars, expiries>>

\* Mutant: a failed refresh ends the worker.
RefreshFailsForGood ==
  /\ refresher = "fetching"
  /\ Fails("refresher")
  /\ refresher' = "finished"
  /\ UNCHANGED <<timer, workerVars, restVars, expiries>>

\* The error is ignored.
RefreshFails ==
  /\ refresher = "fetching"
  /\ Fails("refresher")
  /\ refresher' = "draining"
  /\ UNCHANGED <<timer, workerVars, restVars, expiries>>

\* "discard all other refresh requests that might have come in"
Discard ==
  /\ refresher = "draining"
  /\ requests > 0
  /\ requests' = requests - 1
  /\ UNCHANGED <<fetchVars, phase, restVars, expiries>>

DrainEnds ==
  /\ refresher = "draining"
  /\ requests = 0
  /\ refresher' = "waiting"
  /\ UNCHANGED <<jarValid, timer, found, workerVars, restVars, expiries>>

\* The worker returns, which closes its log channel.
RefresherStops ==
  /\ done
  /\ refresher \in {"waiting", "draining"}
  /\ refresher' = "finished"
  /\ UNCHANGED <<jarValid, timer, found, workerVars, restVars, expiries>>

Refresher ==
  \/ FirstFetchEnds \/ FirstFetchCrashes \/ TakeRequest
  \/ RefreshSucceeds \/ RefreshFails \/ Discard \/ DrainEnds

-----------------------------------------------------------------------------
(* FetchCookieLoop                                                         *)

LogClosed == refresher = "finished"

Wake ==
  /\ timer = "sleeping"
  /\ timer' = IF done THEN "finished" ELSE "fetching"
  /\ UNCHANGED <<jarValid, refresher, found, workerVars, restVars, expiries>>

TimerFetchEnds ==
  /\ timer = "fetching"
  /\ Succeeds("timer") \/ (Fails("timer") /\ ~ LogClosed)
  /\ timer' = "sleeping"
  /\ UNCHANGED <<refresher, workerVars, restVars, expiries>>

\* The error is sent to the log channel, which is closed.
TimerFetchPanics ==
  /\ timer = "fetching"
  /\ Fails("timer")
  /\ LogClosed
  /\ crashed' = TRUE
  /\ timer' = "finished"
  /\ UNCHANGED <<refresher, workerVars, ready, done, crashOnFirstError, expiries>>

Timer == Wake \/ TimerFetchEnds \/ TimerFetchPanics

-----------------------------------------------------------------------------
(* The workers, as far as they use the session                             *)

\* A request is sent with the jar of this moment, and its response may set, replace
\* or delete what is in it; cookies whose own time is over are gone as well.  If
\* the jar is replaced in between, what the response sets is lost with the old one.
Use(w) ==
  /\ ready
  /\ phase[w] = "idle"
  /\ phase' = [phase EXCEPT ![w] = IF jarValid THEN "accepted" ELSE "refused"]
  /\ jarValid' \in BOOLEAN
  /\ UNCHANGED <<refresher, timer, found, requests, restVars, expiries>>

Accepted(w) ==
  /\ phase[w] = "accepted"
  /\ phase' = [phase EXCEPT ![w] = "idle"]
  /\ UNCHANGED <<fetchVars, requests, restVars, expiries>>

\* cookieJarSession.RefreshChan <- struct{}{}
Request(w) ==
  /\ phase[w] = "refused"
  /\ w \in Blocking
  /\ requests < RefreshSize
  /\ requests' = requests + 1
  /\ phase' = [phase EXCEPT ![w] = "idle"]
  /\ UNCHANGED <<fetchVars, restVars, expiries>>

\* Mutant: the default case is missing and the channel unbounded.
RequestUnbounded(w) ==
  /\ phase[w] = "refused"
  /\ w \in NonBlocking
  /\ requests' = requests + 1
  /\ phase' = [phase EXCEPT ![w] = "idle"]
  /\ UNCHANGED <<fetchVars, restVars, expiries>>

\* "channel is full, the refresher is already working on this"
RequestOrSkip(w) ==
  /\ phase[w] = "refused"
  /\ w \in NonBlocking
  /\ requests' = IF requests < RefreshSize THEN requests + 1 ELSE requests
  /\ phase' = [phase EXCEPT ![w] = "idle"]
  /\ UNCHANGED <<fetchVars, restVars, expiries>>

Consumer(w) == Use(w) \/ Accepted(w) \/ Request(w) \/ RequestOrSkip(w)

-----------------------------------------------------------------------------
(* The server and the user                                                 *)

\* The server ends every session it has given, also one on its way.
Expire ==
  /\ expiries < MaxExpiries
  /\ expiries' = expiries + 1
  /\ jarValid' = FALSE
  /\ found' = [f \in Fetchers |-> [found[f] EXCEPT !.valid = FALSE]]
  /\ UNCHANGED <<refresher, timer, workerVars, restVars>>

Cancel ==
  /\ ~ done
  /\ done' = TRUE
  /\ UNCHANGED <<fetchVars, workerVars, ready, expiries, crashed, crashOnFirstError>>

Init ==
  /\ jarValid = FALSE
  /\ refresher = "first"
  /\ timer = "not started"
  /\ found = [f \in Fetchers |-> EmptyJar]
  /\ requests = 0
  /\ phase = [w \in Consumers |-> "idle"]
  /\ ready = FALSE
  /\ expiries = 0
  /\ done = FALSE
  /\ crashed = FALSE
  /\ crashOnFirstError \in BOOLEAN

Step ==
  \/ \E f \in Fetchers : Respond(f)
  \/ Refresher \/ RefresherStops \/ Timer
  \/ \E w \in Consumers : Consumer(w)
  \/ Expire \/ Cancel

\* A panic ends the process.
Next == ~ crashed /\ Step

Spec == Init /\ [][Next]_vars

\* Every goroutine that can run is scheduled and every fetch returns; the
\* periodic fetch may come as late as it likes.  The refresh worker empties the
\* channel faster than the workers, which need a response for every request,
\* fill it: otherwise the drain need not end.  A refresh that is tried again and
\* again is at some time answered with what it needs.  A channel serves the
\* senders that wait for room in the order in which they came.
Fairness ==
  /\ WF_vars(~ crashed /\ Refresher)
  /\ SF_vars(~ crashed /\ DrainEnds)
  /\ SF_vars(/\ ~ crashed
             /\ Respond("refresher") /\ Complete(found'["refresher"].cookies))
  /\ \A w \in Consumers : WF_vars(~ crashed /\ Consumer(w))
  /\ \A w \in Blocking : SF_vars(~ crashed /\ Request(w))

FairSpec == Spec /\ Fairness

-----------------------------------------------------------------------------
(* Properties                                                              *)

TypeOK ==
  /\ refresher \in {"first", "waiting", "fetching", "draining", "finished", "halted"}
  /\ timer \in {"not started", "sleeping", "fetching", "finished"}
  /\ found \in [Fetchers -> Jars]
  /\ requests \in 0 .. RefreshSize
  /\ phase \in [Consumers -> {"idle", "accepted", "refused"}]
  /\ {jarValid, ready, done, crashed, crashOnFirstError} \subseteq BOOLEAN
  /\ expiries \in 0 .. MaxExpiries

\* "All of these cookies must always be present in the client cookies": a fetch that
\* ends without an error, of whichever of the two goroutines, leaves a jar that the
\* server accepts.  There are two exceptions: the server has ended a session, maybe
\* this one on its way, or it sent two cookies of one name, which the code counts for
\* two names.
FetchedIsUsable ==
  [][\A f \in Fetchers :
       Succeeds(f) => \/ jarValid'
                      \/ expiries > 0
                      \/ \E n \in Names : found[f].cookies[n] > 1]_vars

\* The goroutine of the periodic fetch outlives the refresh worker, and logs its
\* errors to that worker's channel: the panic of a send on the closed channel can
\* end the process only when it is being shut down anyway.
CrashOnlyAfterCancel == crashed => done

\* No worker is held up for ever by its request for a refresh.
RequestsAreTaken ==
  \A w \in Blocking : phase[w] = "refused" ~> (phase[w] = "idle" \/ done)

\* A session that is not accepted any more is replaced, although a failed
\* refresh is ignored, requests made after it are discarded with the others, and
\* the periodic fetch may put an expired jar over a new one.
SessionRecovers == ready /\ ~ jarValid ~> (jarValid \/ done)
=============================================================================

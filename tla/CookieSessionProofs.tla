------------------------ MODULE CookieSessionProofs -------------------------
(***************************************************************************)
(* Theorems about a cookie session, for any names of target cookies, any   *)
(* number of workers, any capacity of the channel of refresh requests and  *)
(* any number of times the server ends the session.                        *)
(***************************************************************************)
EXTENDS CookieSession, FiniteSetTheorems, TLAPS

\* The refresh worker returns only when the context is cancelled, so that the
\* channel on which the periodic fetch panics is closed only then.
ClosedWhenDone == refresher = "finished" \/ crashed => done

SessionInv == TypeOK /\ ClosedWhenDone

-----------------------------------------------------------------------------
(* What FetchCookie accepts                                                *)

\* If no name has two cookies, as many target cookies as there are names are all
\* of them.
LEMMA CountedOnceIsComplete ==
  ASSUME NEW cookies \in Counts, \A n \in Names : ~ (cookies[n] > 1), Accepts(cookies)
  PROVE  Complete(cookies)
<1> DEFINE Set == {n \in Names : cookies[n] > 0}
           F   == [t \in Targets(cookies) |-> t[1]]
<1>1. cookies \in [Names -> 0 .. 2]
  BY DEF Counts
<1>2. IsFiniteSet(Set) /\ Cardinality(Set) <= Cardinality(Names)
      /\ (Cardinality(Set) = Cardinality(Names) => Set = Names)
  BY NamesAreGiven, FS_Subset
<1>3. F \in Injection(Targets(cookies), Set)
  <2>1. ASSUME NEW t \in Targets(cookies)
        PROVE  t[1] \in Set /\ t = <<t[1], 1>>
    BY <1>1 DEF Targets
  <2> QED  BY <2>1 DEF Injection, IsInjective
<1>4. Cardinality(Targets(cookies)) <= Cardinality(Set)
  BY <1>2, <1>3, FS_Injection
<1>5. /\ Cardinality(Targets(cookies)) \in Nat
      /\ Cardinality(Set) \in Nat /\ Cardinality(Names) \in Nat
  BY <1>2, <1>3, FS_Injection, FS_CardinalityType, NamesAreGiven
<1>6. Set = Names
  BY <1>2, <1>4, <1>5 DEF Accepts
<1> QED  BY <1>6 DEF Complete

-----------------------------------------------------------------------------
(* What the steps preserve                                                 *)

LEMMA EmptyJarIsAJar == EmptyJar \in Jars
BY DEF EmptyJar, Jars, Counts

\* How a fetch ends: with the jar it found, or with the old one.
LEMMA FetchEnds ==
  ASSUME TypeOK, NEW f \in Fetchers, Succeeds(f) \/ Fails(f)
  PROVE  /\ jarValid' \in BOOLEAN
         /\ found' \in [Fetchers -> Jars]
<1>1. found \in [Fetchers -> Jars] /\ jarValid \in BOOLEAN /\ EmptyJar \in Jars
  BY EmptyJarIsAJar DEF TypeOK
<1>2. found[f].valid \in BOOLEAN
  BY <1>1 DEF Jars
<1>3. CASE Succeeds(f)
  BY <1>1, <1>2, <1>3 DEF Succeeds, Install
<1>4. CASE Fails(f)
  BY <1>1, <1>4 DEF Fails, Forget
<1> QED  BY <1>3, <1>4

LEMMA ChannelBounds ==
  ASSUME NEW n \in 0 .. RefreshSize
  PROVE  /\ 0 \in 0 .. RefreshSize
         /\ n > 0 => n - 1 \in 0 .. RefreshSize
         /\ n < RefreshSize => n + 1 \in 0 .. RefreshSize
BY ChannelHasRoom

LEMMA ExpiryBounds ==
  /\ 0 \in 0 .. MaxExpiries
  /\ \A n \in 0 .. MaxExpiries : n < MaxExpiries => n + 1 \in 0 .. MaxExpiries
BY ExpiriesAreBounded

LEMMA InitSession == Init => SessionInv
<1>1. 0 \in 0 .. RefreshSize /\ 0 \in 0 .. MaxExpiries
  BY ChannelHasRoom, ExpiriesAreBounded
<1> QED  BY <1>1, EmptyJarIsAJar DEF Init, SessionInv, TypeOK, ClosedWhenDone

LEMMA RespondSession ==
  ASSUME SessionInv, NEW f \in Fetchers, Respond(f)
  PROVE  SessionInv'
<1>1. found' \in [Fetchers -> Jars]
  <2>1. PICK new \in Jars : found' = [found EXCEPT ![f] = new]
    BY DEF Respond
  <2> QED  BY <2>1 DEF SessionInv, TypeOK
<1> QED  BY <1>1
         DEF SessionInv, TypeOK, ClosedWhenDone, Respond, workerVars, restVars

LEMMA RefresherSession ==
  ASSUME SessionInv, Refresher \/ RefresherStops
  PROVE  SessionInv'
<1> USE DEF SessionInv, ClosedWhenDone
<1>0. "refresher" \in Fetchers
  BY DEF Fetchers
<1>1. CASE FirstFetchEnds
  <2>1. Succeeds("refresher") \/ Fails("refresher")
    BY <1>1 DEF FirstFetchEnds
  <2> QED  BY <1>0, <1>1, <2>1, FetchEnds DEF FirstFetchEnds, TypeOK, workerVars
<1>2. CASE FirstFetchCrashes
  BY <1>0, <1>2, FetchEnds DEF FirstFetchCrashes, TypeOK, workerVars
<1>3. CASE TakeRequest
  BY <1>3, ChannelBounds DEF TakeRequest, TypeOK, restVars
<1>4. CASE RefreshSucceeds
  BY <1>0, <1>4, FetchEnds DEF RefreshSucceeds, TypeOK, workerVars, restVars
<1>5. CASE RefreshFails
  BY <1>0, <1>5, FetchEnds DEF RefreshFails, TypeOK, workerVars, restVars
<1>6. CASE Discard
  BY <1>6, ChannelBounds DEF Discard, TypeOK, fetchVars, restVars
<1>7. CASE DrainEnds
  BY <1>7 DEF DrainEnds, TypeOK, workerVars, restVars
<1>8. CASE RefresherStops
  BY <1>8 DEF RefresherStops, TypeOK, workerVars, restVars
<1> QED  BY <1>1, <1>2, <1>3, <1>4, <1>5, <1>6, <1>7, <1>8 DEF Refresher

LEMMA TimerSession ==
  ASSUME SessionInv, Timer
  PROVE  SessionInv'
<1> USE DEF SessionInv, ClosedWhenDone
<1>0. "timer" \in Fetchers
  BY DEF Fetchers
<1>1. CASE Wake
  BY <1>1 DEF Wake, TypeOK, workerVars, restVars
<1>2. CASE TimerFetchEnds
  <2>1. Succeeds("timer") \/ Fails("timer")
    BY <1>2 DEF TimerFetchEnds
  <2> QED  BY <1>0, <1>2, <2>1, FetchEnds DEF TimerFetchEnds, TypeOK, workerVars, restVars
<1>3. CASE TimerFetchPanics
  BY <1>0, <1>3, FetchEnds DEF TimerFetchPanics, TypeOK, LogClosed, workerVars
<1> QED  BY <1>1, <1>2, <1>3 DEF Timer

LEMMA ConsumerSession ==
  ASSUME SessionInv, NEW w \in Consumers, Consumer(w)
  PROVE  SessionInv'
<1> USE DEF SessionInv, ClosedWhenDone, TypeOK, fetchVars, restVars
<1>1. CASE Use(w)
  BY <1>1 DEF Use
<1>2. CASE Accepted(w)
  BY <1>2 DEF Accepted
<1>3. CASE Request(w)
  BY <1>3, ChannelBounds DEF Request
<1>4. CASE RequestOrSkip(w)
  BY <1>4, ChannelBounds DEF RequestOrSkip
<1> QED  BY <1>1, <1>2, <1>3, <1>4 DEF Consumer

LEMMA ServerAndUserSession ==
  ASSUME SessionInv, Expire \/ Cancel
  PROVE  SessionInv'
<1> USE DEF SessionInv, ClosedWhenDone
<1>1. CASE Expire
  <2>1. jarValid' \in BOOLEAN /\ found' \in [Fetchers -> Jars]
    BY <1>1 DEF Expire, TypeOK, Jars
  <2> QED  BY <1>1, <2>1, ExpiryBounds DEF Expire, TypeOK, workerVars, restVars
<1>2. CASE Cancel
  BY <1>2 DEF Cancel, TypeOK, fetchVars, workerVars
<1> QED  BY <1>1, <1>2

LEMMA NextSession == SessionInv /\ [Next]_vars => SessionInv'
<1> SUFFICES ASSUME SessionInv, [Next]_vars
             PROVE  SessionInv'
  OBVIOUS
<1>1. CASE UNCHANGED vars
  BY <1>1 DEF vars, fetchVars, workerVars, restVars, SessionInv, TypeOK, ClosedWhenDone
<1>2. CASE Step
  BY <1>2, RespondSession, RefresherSession, TimerSession, ConsumerSession,
     ServerAndUserSession DEF Step
<1> QED  BY <1>1, <1>2 DEF Next

LEMMA SessionInvAlways == Spec => []SessionInv
BY InitSession, NextSession, PTL DEF Spec

\* Whatever the server answers and in whichever order the goroutines go on, the
\* channel of refresh requests never holds more than its capacity, and what is
\* fetched for the jar is a jar.
THEOREM SessionTyped == Spec => []TypeOK
<1>1. SessionInv => TypeOK
  BY DEF SessionInv
<1> QED  BY <1>1, SessionInvAlways, PTL

\* The periodic fetch, which outlives the refresh worker and logs to the channel
\* that this worker closes, panics only while the process is shut down.
THEOREM PanicOnlyAfterCancel == Spec => []CrashOnlyAfterCancel
<1>1. SessionInv => CrashOnlyAfterCancel
  BY DEF SessionInv, ClosedWhenDone, CrashOnlyAfterCancel
<1> QED  BY <1>1, SessionInvAlways, PTL

-----------------------------------------------------------------------------
(* What a fetch leaves                                                     *)

\* A complete set of cookies on its way to the jar is good until the server ends it.
CompleteIsValid ==
  \A f \in Fetchers :
    Complete(found[f].cookies) => found[f].valid \/ expiries > 0

LEMMA EmptyJarIsIncomplete == ~ Complete(EmptyJar.cookies)
BY NamesAreGiven DEF EmptyJar, Complete

LEMMA NextValid ==
  ASSUME TypeOK, CompleteIsValid, [Next]_vars
  PROVE  CompleteIsValid'
<1>0. found \in [Fetchers -> Jars] /\ expiries \in Nat
  <2>1. found \in [Fetchers -> Jars] /\ expiries \in 0 .. MaxExpiries
    BY DEF TypeOK
  <2> QED  BY <2>1, ExpiriesAreBounded
<1>1. ASSUME found' = found, expiries' = expiries
      PROVE  CompleteIsValid'
  BY <1>1 DEF CompleteIsValid
<1>2. ASSUME NEW f \in Fetchers, Succeeds(f) \/ Fails(f), expiries' = expiries
      PROVE  CompleteIsValid'
  <2>1. found' = [found EXCEPT ![f] = EmptyJar]
    BY <1>2 DEF Succeeds, Install, Fails, Forget
  <2> QED  BY <1>0, <1>2, <2>1, EmptyJarIsIncomplete DEF CompleteIsValid
<1>3. ASSUME NEW f \in Fetchers, Respond(f)
      PROVE  CompleteIsValid'
  <2>1. PICK new \in Jars : /\ Complete(new.cookies) => new.valid
                            /\ found' = [found EXCEPT ![f] = new]
    BY <1>3 DEF Respond
  <2> QED  BY <1>0, <1>3, <2>1 DEF CompleteIsValid, Respond
<1>4. CASE Refresher \/ RefresherStops
  <2>1. CASE FirstFetchEnds \/ FirstFetchCrashes \/ RefreshSucceeds \/ RefreshFails
    BY <1>2, <2>1 DEF FirstFetchEnds, FirstFetchCrashes, RefreshSucceeds, RefreshFails,
                      Fetchers
  <2>2. CASE TakeRequest \/ Discard \/ DrainEnds \/ RefresherStops
    BY <1>1, <2>2 DEF TakeRequest, Discard, DrainEnds, RefresherStops, fetchVars
  <2> QED  BY <1>4, <2>1, <2>2 DEF Refresher
<1>5. CASE Timer
  BY <1>1, <1>2, <1>5 DEF Timer, Wake, TimerFetchEnds, TimerFetchPanics, Fetchers
<1>6. ASSUME NEW w \in Consumers, Consumer(w)
      PROVE  CompleteIsValid'
  BY <1>1, <1>6 DEF Consumer, Use, Accepted, Request, RequestOrSkip, fetchVars
<1>7. CASE Expire
  BY <1>0, <1>7 DEF Expire, CompleteIsValid
<1>8. CASE Cancel \/ UNCHANGED vars
  BY <1>1, <1>8 DEF Cancel, vars, fetchVars
<1> QED  BY <1>3, <1>4, <1>5, <1>6, <1>7, <1>8 DEF Next, Step

\* A fetch that ends without an error leaves a jar that the server accepts, unless a
\* session was ended or two cookies of one name were counted: the count of
\* FetchCookie is wrong about nothing else, for any set of names.
THEOREM SuccessfulFetchIsUsable == Spec => FetchedIsUsable
<1>1. Init => CompleteIsValid
  BY EmptyJarIsIncomplete DEF Init, CompleteIsValid
<1>2. SessionInv => TypeOK
  BY DEF SessionInv
<1>3. ASSUME TypeOK, CompleteIsValid, NEW f \in Fetchers, Succeeds(f)
      PROVE  jarValid' \/ expiries > 0 \/ \E n \in Names : found[f].cookies[n] > 1
  <2> SUFFICES ASSUME \A n \in Names : ~ (found[f].cookies[n] > 1)
               PROVE  jarValid' \/ expiries > 0
    OBVIOUS
  <2>1. found[f].cookies \in Counts /\ Accepts(found[f].cookies)
    BY <1>3 DEF TypeOK, Jars, Succeeds
  <2>2. Complete(found[f].cookies)
    BY <2>1, CountedOnceIsComplete
  <2> QED  BY <1>3, <2>2 DEF CompleteIsValid, Succeeds, Install
<1>4. TypeOK /\ CompleteIsValid =>
        [\A f \in Fetchers :
           Succeeds(f) => \/ jarValid'
                          \/ expiries > 0
                          \/ \E n \in Names : found[f].cookies[n] > 1]_vars
  BY <1>3
<1> QED  BY <1>1, <1>2, <1>4, NextValid, SessionInvAlways, PTL DEF Spec, FetchedIsUsable
=============================================================================

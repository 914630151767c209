---------------------------- MODULE FetchProofs -----------------------------
(***************************************************************************)
(* Proofs of the invariants of Fetch, for every number of tries.           *)
(*                                                                         *)
(* NoSocketIsForgotten is not inductive: that a response which nobody      *)
(* reads is left with a deadline that still runs needs that the deadline   *)
(* of a request under way is never switched off, and that no request has   *)
(* a socket before it begins.  OnlyTheItemKeyPanics needs that the url     *)
(* asked and the packet agree about the addition in every try.             *)
(***************************************************************************)
EXTENDS Fetch, TLAPS

TriesInOrder ==
  /\ stage = "new" <=> try = 0
  /\ stage = "retry" => try < MaxTries
  /\ \A n \in Tries : n > try => socket[n] = "none"

DeadlineIsSet == stage \notin Resting => deadline[try] # "off"

AskedAsPacked == asked = appended

IInv ==
  /\ TypeOK
  /\ TriesInOrder
  /\ DeadlineIsSet
  /\ AskedAsPacked
  /\ NoSocketIsForgotten
  /\ OnlyTheItemKeyPanics

-----------------------------------------------------------------------------

\* Everything that ends a request with an error leaves a stage between requests.
LEMMA AfterErrorRests ==
  ASSUME TypeOK, stage \notin Resting, TriesInOrder
  PROVE  /\ AfterError \in {"retry", "given up"}
         /\ AfterError = "retry" => try < MaxTries
         /\ try \in Tries
<1>1. try \in 0 .. MaxTries /\ MaxTries \in Nat
  BY ThereIsATry DEF TypeOK
<1>2. try # 0
  BY DEF TriesInOrder, Resting
<1> QED  BY <1>1, <1>2 DEF AfterError, Tries

\* Fail preserves the invariant, from whichever stage it is taken.
LEMMA FailPreserves ==
  ASSUME IInv, ~ crashed, stage \notin Resting, Fail
  PROVE  IInv'
<1>1. try \in Tries /\ stage' \in {"retry", "given up"} /\ (stage' = "retry" => try < MaxTries)
  BY AfterErrorRests DEF IInv, Fail, Go
<1>2. /\ socket' = [socket EXCEPT ![try] = IF @ = "open" THEN "closed" ELSE @]
      /\ deadline' = [deadline EXCEPT ![try] = "off"]
      /\ UNCHANGED <<config, try, requestVars, crashed>>
  BY DEF Fail, Close
<1>3. TypeOK'
  BY <1>1, <1>2 DEF IInv, TypeOK, config, requestVars, Resting
<1>4. TriesInOrder'
  BY <1>1, <1>2 DEF IInv, TypeOK, TriesInOrder, Tries, Resting
<1>5. DeadlineIsSet' /\ AskedAsPacked'
  BY <1>1, <1>2 DEF IInv, DeadlineIsSet, AskedAsPacked, requestVars, Resting
<1>6. NoSocketIsForgotten'
  BY <1>1, <1>2 DEF IInv, TypeOK, NoSocketIsForgotten, UnderWay
<1>7. OnlyTheItemKeyPanics'
  BY <1>2 DEF OnlyTheItemKeyPanics
<1> QED  BY <1>3, <1>4, <1>5, <1>6, <1>7 DEF IInv

\* So does FailAndLeave: what it leaves open still has a deadline that runs.
LEMMA FailAndLeavePreserves ==
  ASSUME IInv, ~ crashed, stage \notin Resting, FailAndLeave
  PROVE  IInv'
<1>1. try \in Tries /\ stage' \in {"retry", "given up"} /\ (stage' = "retry" => try < MaxTries)
  BY AfterErrorRests DEF IInv, FailAndLeave, Go
<1>2. /\ socket' = IF deadline[try] = "over"
                     THEN [socket EXCEPT ![try] = IF @ = "open" THEN "closed" ELSE @]
                     ELSE socket
      /\ UNCHANGED <<config, try, requestVars, deadline, crashed>>
  BY DEF FailAndLeave, Close
<1>3. TypeOK'
  BY <1>1, <1>2 DEF IInv, TypeOK, config, requestVars, Resting
<1>4. TriesInOrder'
  BY <1>1, <1>2 DEF IInv, TypeOK, TriesInOrder, Tries, Resting
<1>5. DeadlineIsSet' /\ AskedAsPacked'
  BY <1>1, <1>2 DEF IInv, DeadlineIsSet, AskedAsPacked, requestVars, Resting
<1>6. deadline[try] \in {"running", "over"}
  BY <1>1 DEF IInv, TypeOK, DeadlineIsSet
<1>7. NoSocketIsForgotten'
  BY <1>1, <1>2, <1>6 DEF IInv, TypeOK, NoSocketIsForgotten, UnderWay
<1>8. OnlyTheItemKeyPanics'
  BY <1>2 DEF OnlyTheItemKeyPanics
<1> QED  BY <1>3, <1>4, <1>5, <1>7, <1>8 DEF IInv

-----------------------------------------------------------------------------

LEMMA InitIInv == Init => IInv
<1> SUFFICES ASSUME Init PROVE IInv
  OBVIOUS
<1>0. MaxTries \in Nat
  BY ThereIsATry
<1>1. try \in 0 .. MaxTries
  BY <1>0 DEF Init
<1>2. TypeOK
  <2>1. redirects \in 0 .. MaxRedirects
    BY RedirectsAreBounded DEF Init
  <2> QED  BY <1>1, <2>1 DEF Init, TypeOK, Resting
<1>3. TriesInOrder
  BY DEF Init, TriesInOrder
<1>4. DeadlineIsSet /\ AskedAsPacked /\ NoSocketIsForgotten /\ OnlyTheItemKeyPanics
  BY DEF Init, DeadlineIsSet, AskedAsPacked, NoSocketIsForgotten, OnlyTheItemKeyPanics, Resting
<1> QED  BY <1>2, <1>3, <1>4 DEF IInv

\* One step per action of Next.
LEMMA NextIInv == IInv /\ [Next]_vars => IInv'
<1> SUFFICES ASSUME IInv, [Next]_vars PROVE IInv'
  OBVIOUS
<1> USE DEF Resting, Dialling, Asking
<1>0. try \in 0 .. MaxTries /\ MaxTries \in Nat
  BY ThereIsATry DEF IInv, TypeOK
<1>1. stage \notin Resting => try \in Tries
  <2>1. stage \notin Resting => try # 0
    BY DEF IInv, TriesInOrder
  <2>2. try # 0 => try \in Tries
    BY <1>0 DEF Tries
  <2> QED  BY <2>1, <2>2
<1>2. CASE UNCHANGED vars
  BY <1>2 DEF vars, config, requestVars, ioVars, IInv, TypeOK, TriesInOrder, DeadlineIsSet,
              AskedAsPacked, NoSocketIsForgotten, OnlyTheItemKeyPanics, UnderWay
<1>3. CASE Next
  <2> USE <1>3
  <2>0. ~ crashed
    BY DEF Next
  <2>1. CASE Begin
    <3>1. /\ stage \in {"new", "retry"} /\ stage' = "dialing"
          /\ try' = try + 1 /\ try' \in Tries
          /\ deadline' = [deadline EXCEPT ![try'] = "running"]
          /\ asked' = appended' /\ asked' \in BOOLEAN /\ redirects' = 0
          /\ UNCHANGED <<config, socket, crashed>>
      <4>1. try' = try + 1 /\ try < MaxTries
        BY <2>1, <1>0, ThereIsATry DEF Begin, IInv, TriesInOrder
      <4>2. try' \in Tries
        BY <4>1, <1>0 DEF Tries
      <4>3. asked' = appended' /\ asked' \in BOOLEAN
        BY <2>1 DEF Begin, Suffixes, IInv, TypeOK, AskedAsPacked
      <4> QED  BY <4>1, <4>2, <4>3, <2>1 DEF Begin, Go
    <3>2. TypeOK' /\ AskedAsPacked'
      <4>1. try' \in 0 .. MaxTries
        BY <3>1, <1>0 DEF Tries
      <4>2. deadline' \in [Tries -> {"off", "running", "over"}]
        BY <3>1 DEF IInv, TypeOK
      <4>3. redirects' \in 0 .. MaxRedirects
        BY <3>1, RedirectsAreBounded
      <4> QED  BY <3>1, <4>1, <4>2, <4>3 DEF IInv, TypeOK, config, AskedAsPacked
    <3>3. TriesInOrder' /\ DeadlineIsSet'
      <4>1. deadline'[try'] = "running"
        BY <3>1 DEF IInv, TypeOK
      <4>2. \A n \in Tries : n > try' => n > try
        BY <3>1, <1>0 DEF Tries
      <4>3. stage' # "new" /\ stage' # "retry" /\ try' # 0
        BY <3>1, <1>0
      <4> QED  BY <3>1, <4>1, <4>2, <4>3 DEF IInv, TriesInOrder, DeadlineIsSet
    <3>4. NoSocketIsForgotten'
      BY <3>1 DEF IInv, TypeOK, NoSocketIsForgotten, UnderWay, Tries
    <3>5. OnlyTheItemKeyPanics'
      BY <3>1, <2>0 DEF OnlyTheItemKeyPanics
    <3> QED  BY <3>2, <3>3, <3>4, <3>5 DEF IInv
  <2>2. CASE Dialled
    <3>1. try \in Tries
      BY <2>2 DEF Dialled, IInv, TypeOK, TriesInOrder, Tries
    <3>2. /\ stage = "dialing" /\ stage' \in {"connecting", "requesting"}
          /\ socket' = IF scheme = "https" THEN [socket EXCEPT ![try] = "open"] ELSE socket
          /\ UNCHANGED <<config, try, requestVars, deadline, crashed>>
      BY <2>2 DEF Dialled, Go
    <3>3. TypeOK' /\ AskedAsPacked'
      BY <3>1, <3>2 DEF IInv, TypeOK, config, requestVars, AskedAsPacked
    <3>4. TriesInOrder' /\ DeadlineIsSet'
      <4>1. \A m \in Tries : m > try => socket'[m] = "none"
        BY <3>1, <3>2, <1>0 DEF IInv, TypeOK, TriesInOrder, Tries
      <4>2. DeadlineIsSet'
        BY <3>1, <3>2 DEF IInv, TypeOK, DeadlineIsSet
      <4> QED  BY <3>1, <3>2, <4>1, <4>2 DEF IInv, TriesInOrder
    <3>5. NoSocketIsForgotten' /\ OnlyTheItemKeyPanics'
      BY <3>1, <3>2, <2>0 DEF IInv, TypeOK, NoSocketIsForgotten, OnlyTheItemKeyPanics, UnderWay
    <3> QED  BY <3>3, <3>4, <3>5 DEF IInv
  <2>3. CASE \/ stage = "connecting" /\ Go("handshaking")
             \/ stage = "handshaking" /\ Go("requesting")
             \/ stage = "requesting" /\ Go("reading")
    <3>1. UNCHANGED <<config, try, requestVars, ioVars, crashed>>
      BY <2>3, <2>0 DEF Next, Go, Begin, Dial, Dialled, DialFails, Open, Connected, ConnectFails,
         HandshakeDone, HandshakeFails, Converse, Respond, RespondWithError, RequestFails, Redirect,
         DecompressFails, DecodeFails, Decode, TimeOut, Fail, FailAndLeave, AfterError,
         Expire, StreamEnds
    <3> QED
      BY <3>1, <2>3, <2>0 DEF Go, config, requestVars, ioVars, IInv, TypeOK, TriesInOrder,
         DeadlineIsSet, AskedAsPacked, NoSocketIsForgotten, OnlyTheItemKeyPanics, UnderWay
  <2>4. CASE Redirect
    <3>1. try \in Tries
      BY <2>4, <1>1 DEF Redirect
    <3>2. /\ stage = "requesting" /\ stage' = "dialing"
          /\ socket' = [socket EXCEPT ![try] = IF @ = "open" THEN "closed" ELSE @]
          /\ redirects < MaxRedirects /\ redirects' = redirects + 1
          /\ UNCHANGED <<config, try, appended, asked, deadline, crashed>>
      BY <2>4 DEF Redirect, Go, Close
    <3>3. redirects' \in 0 .. MaxRedirects
      BY <3>2, RedirectsAreBounded DEF IInv, TypeOK
    <3>4. TypeOK' /\ AskedAsPacked'
      BY <3>1, <3>2, <3>3 DEF IInv, TypeOK, config, AskedAsPacked
    <3>5. TriesInOrder' /\ DeadlineIsSet'
      <4>1. \A m \in Tries : m > try => socket'[m] = "none"
        BY <3>1, <3>2, <1>0 DEF IInv, TypeOK, TriesInOrder, Tries
      <4>2. DeadlineIsSet'
        BY <3>1, <3>2 DEF IInv, TypeOK, DeadlineIsSet
      <4> QED  BY <3>1, <3>2, <4>1, <4>2 DEF IInv, TriesInOrder
    <3>6. NoSocketIsForgotten' /\ OnlyTheItemKeyPanics'
      BY <3>1, <3>2, <2>0 DEF IInv, TypeOK, NoSocketIsForgotten, OnlyTheItemKeyPanics, UnderWay
    <3> QED  BY <3>4, <3>5, <3>6 DEF IInv
  <2>5. CASE DialFails \/ ConnectFails \/ HandshakeFails \/ RequestFails \/ DecodeFails \/ TimeOut
    BY <2>5, <2>0, FailPreserves
       DEF DialFails, ConnectFails, HandshakeFails, RequestFails, DecodeFails, TimeOut
  <2>6. CASE RespondWithError \/ DecompressFails
    BY <2>6, <2>0, FailAndLeavePreserves DEF RespondWithError, DecompressFails
  <2>7. CASE Decode
    <3>1. try \in Tries
      BY <2>7 DEF Decode, IInv, TypeOK, TriesInOrder, Tries
    <3>2. /\ stage = "reading" /\ stage' = "fetched"
          /\ socket' = [socket EXCEPT ![try] = IF @ = "open" THEN "closed" ELSE @]
          /\ deadline' = [deadline EXCEPT ![try] = "off"]
          /\ UNCHANGED <<config, try, requestVars>>
      BY <2>7 DEF Decode, Go, Close
    <3>3. TypeOK' /\ AskedAsPacked'
      BY <3>1, <3>2, <2>7 DEF Decode, IInv, TypeOK, config, requestVars, AskedAsPacked
    <3>4. TriesInOrder' /\ DeadlineIsSet'
      <4>1. \A m \in Tries : m > try => socket'[m] = "none"
        BY <3>1, <3>2, <1>0 DEF IInv, TypeOK, TriesInOrder, Tries
      <4>2. DeadlineIsSet'
        BY <3>1, <3>2 DEF IInv, TypeOK, DeadlineIsSet
      <4> QED  BY <3>1, <3>2, <4>1, <4>2 DEF IInv, TriesInOrder
    <3>5. NoSocketIsForgotten'
      BY <3>1, <3>2 DEF IInv, TypeOK, NoSocketIsForgotten, UnderWay
    <3>6. OnlyTheItemKeyPanics'
      BY <3>2, <2>7 DEF Decode, ItemKeyFits, TimestampKeyFits, IInv, TypeOK, AskedAsPacked,
                        OnlyTheItemKeyPanics, config, requestVars
    <3> QED  BY <3>3, <3>4, <3>5, <3>6 DEF IInv
  <2>8. ASSUME NEW n \in Tries, Expire(n) PROVE IInv'
    <3>1. /\ deadline' = [deadline EXCEPT ![n] = "over"]
          /\ socket' = IF n = try /\ stage \notin Resting
                         THEN socket
                         ELSE [socket EXCEPT ![n] = IF @ = "open" THEN "closed" ELSE @]
          /\ UNCHANGED <<config, stage, try, requestVars, crashed>>
      BY <2>8 DEF Expire, Close
    <3>2. TypeOK' /\ AskedAsPacked'
      BY <3>1 DEF IInv, TypeOK, config, requestVars, AskedAsPacked
    <3>3. TriesInOrder' /\ DeadlineIsSet'
      <4>1. \A m \in Tries : m > try => socket'[m] = "none"
        BY <3>1, <1>0 DEF IInv, TypeOK, TriesInOrder, Tries
      <4>2. DeadlineIsSet'
        BY <3>1, <1>1 DEF IInv, TypeOK, DeadlineIsSet
      <4> QED  BY <3>1, <4>1, <4>2 DEF IInv, TriesInOrder
    <3>4. NoSocketIsForgotten' /\ OnlyTheItemKeyPanics'
      BY <3>1, <2>0 DEF IInv, TypeOK, NoSocketIsForgotten, OnlyTheItemKeyPanics, UnderWay
    <3> QED  BY <3>2, <3>3, <3>4 DEF IInv
  <2>9. ASSUME NEW n \in Tries, StreamEnds(n) PROVE IInv'
    <3>1. /\ socket' = [socket EXCEPT ![n] = IF @ = "open" THEN "closed" ELSE @]
          /\ UNCHANGED <<config, stage, try, requestVars, deadline, crashed>>
      BY <2>9 DEF StreamEnds, Close
    <3>2. TypeOK' /\ AskedAsPacked'
      BY <3>1 DEF IInv, TypeOK, config, requestVars, AskedAsPacked
    <3>3. TriesInOrder' /\ DeadlineIsSet'
      <4>1. \A m \in Tries : m > try => socket'[m] = "none"
        BY <3>1, <1>0 DEF IInv, TypeOK, TriesInOrder, Tries
      <4>2. DeadlineIsSet'
        BY <3>1 DEF IInv, TypeOK, DeadlineIsSet
      <4> QED  BY <3>1, <4>1, <4>2 DEF IInv, TriesInOrder
    <3>4. NoSocketIsForgotten' /\ OnlyTheItemKeyPanics'
      BY <3>1, <2>0 DEF IInv, TypeOK, NoSocketIsForgotten, OnlyTheItemKeyPanics, UnderWay
    <3> QED  BY <3>2, <3>3, <3>4 DEF IInv
  <2> QED
    BY <2>1, <2>2, <2>3, <2>4, <2>5, <2>6, <2>7, <2>8, <2>9
       DEF Next, Dial, Open, Connected, HandshakeDone, Converse, Respond
<1> QED  BY <1>2, <1>3

\* The types of the variables of a fetch hold in every reachable state.
THEOREM FetchTyped == Spec => []TypeOK
<1>1. Init => IInv  BY InitIInv
<1>2. IInv /\ [Next]_vars => IInv'  BY NextIInv
<1>3. IInv => TypeOK  BY DEF IInv
<1> QED  BY <1>1, <1>2, <1>3, PTL DEF Spec

\* No path out of a request forgets the socket it opened: what is still open
\* after the request belongs to a response whose deadline runs.
THEOREM SocketsAreClosed == Spec => []NoSocketIsForgotten
<1>1. Init => IInv  BY InitIInv
<1>2. IInv /\ [Next]_vars => IInv'  BY NextIInv
<1>3. IInv => NoSocketIsForgotten  BY DEF IInv
<1> QED  BY <1>1, <1>2, <1>3, PTL DEF Spec

\* Only the item key that is configured but never looked for makes a worker panic.
THEOREM PanicNeedsItemKey == Spec => []OnlyTheItemKeyPanics
<1>1. Init => IInv  BY InitIInv
<1>2. IInv /\ [Next]_vars => IInv'  BY NextIInv
<1>3. IInv => OnlyTheItemKeyPanics  BY DEF IInv
<1> QED  BY <1>1, <1>2, <1>3, PTL DEF Spec
=============================================================================

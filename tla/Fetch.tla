------------------------------- MODULE Fetch -------------------------------
(***************************************************************************)
(* The requests made for one item: the first by a subordinate worker       *)
(* (FetchItem), the others by a backup worker (network/requests.go,        *)
(* utils/httpx/httpx.go), up to the keys under which the workers look for  *)
(* the item and its timestamp.                                             *)
(*                                                                         *)
(* Every request has a deadline (http.Client.Timeout) and, with https, a   *)
(* socket that dialWithUTLS opens.  net/http and x/net/http2 are modelled  *)
(* from how they are called here.  The deadline ends what waits on the     *)
(* request's context: with http all of it, with https only what follows    *)
(* DialTLSContext, which ignores its context (httpx.go:60-68) and is       *)
(* waited for.  A response whose body nobody closes keeps its socket until *)
(* the server has sent all of it or the deadline has passed; the header    *)
(* "Connection: close" (profiles.go:22) lets the socket go with its only   *)
(* stream.  A redirect is followed (no CheckRedirect is set): with that    *)
(* header every hop dials a connection of its own, under the deadline of   *)
(* the first.  The sockets of plain http, which net/http dials and closes  *)
(* itself, are left out.  The proxy and the server may fall silent at any  *)
(* point.                                                                  *)
(***************************************************************************)
EXTENDS Naturals

CONSTANTS
  MaxTries,      \* 1 + max_retries_per_item
  MaxRedirects   \* that net/http follows for one request: 10

ASSUME ThereIsATry == MaxTries \in Nat \ {0}
ASSUME RedirectsAreBounded == MaxRedirects \in Nat

VARIABLES
  scheme,        \* of the configured urls
  randomize,     \* urls.randomize_item_url_addition
  ownItemKey,    \* is item_when_url_suffix not the same as item?
  stage,         \* of the current request, or between two
  try,           \* its number
  appended,      \* was the addition appended? (AppendSuffix of the packet)
  asked,         \* is it in the url of the current request?
  redirects,     \* that the current request has followed
  socket,        \* of each https request
  deadline,      \* of each request
  crashed        \* a worker panicked

config      == <<scheme, randomize, ownItemKey>>
requestVars == <<appended, asked, redirects>>
ioVars      == <<socket, deadline>>
vars == <<config, stage, try, requestVars, ioVars, crashed>>

Tries == 1 .. MaxTries

Resting  == {"new", "retry", "fetched", "given up"}
Dialling == {"dialing", "connecting", "handshaking"}
Asking   == {"requesting", "reading"}

Go(to) == stage' = to

Close(n) == socket' = [socket EXCEPT ![n] = IF @ = "open" THEN "closed" ELSE @]

-----------------------------------------------------------------------------
(* The start and the end of a request                                      *)

\* Mutant: a retry chooses again, and the packet's choice is used for the key.
SuffixesAnew == IF randomize THEN BOOLEAN ELSE {TRUE}

\* The first try chooses at random, if configured; later ones ask the same url.
Suffixes ==
  IF stage = "retry" THEN {appended} ELSE IF randomize THEN BOOLEAN ELSE {TRUE}

\* client.Do: the deadline is set before the connection is dialled.
Begin ==
  /\ stage \in {"new", "retry"}
  /\ Go("dialing")
  /\ \E s \in Suffixes :
       /\ asked' = s
       /\ appended' = IF stage = "new" THEN s ELSE appended
  /\ try' = try + 1
  /\ redirects' = 0
  /\ deadline' = [deadline EXCEPT ![try + 1] = "running"]
  /\ UNCHANGED <<config, socket, crashed>>

\* Mutant: one more try than configured.
AfterErrorLate == IF try <= MaxTries THEN "retry" ELSE "given up"

AfterError == IF try < MaxTries THEN "retry" ELSE "given up"

\* The request returns an error, and its socket and deadline are gone.
Fail ==
  /\ Go(AfterError)
  /\ Close(try)
  /\ deadline' = [deadline EXCEPT ![try] = "off"]
  /\ UNCHANGED <<config, try, requestVars, crashed>>

\* The request returns an error, and nobody closes the body of the response.
FailAndLeave ==
  /\ Go(AfterError)
  /\ IF deadline[try] = "over" THEN Close(try) ELSE UNCHANGED socket
  /\ UNCHANGED <<config, try, requestVars, deadline, crashed>>

-----------------------------------------------------------------------------
(* Dialling                                                                *)

\* net.DialTimeout with 5 seconds, or the dialer of net/http.
Dialled ==
  /\ stage = "dialing"
  /\ socket' = IF scheme = "https" THEN [socket EXCEPT ![try] = "open"] ELSE socket
  /\ Go(IF scheme = "https" THEN "connecting" ELSE "requesting")
  /\ UNCHANGED <<config, try, requestVars, deadline, crashed>>

DialFails == stage = "dialing" /\ Fail

\* The proxy answers to CONNECT with status 200.
Connected ==
  /\ stage = "connecting"
  /\ Go("handshaking")
  /\ UNCHANGED <<config, try, requestVars, ioVars, crashed>>

\* Mutant: another status is an error, and the connection is kept.
ConnectFailsOpen ==
  /\ stage = "connecting"
  /\ Go(AfterError)
  /\ deadline' = [deadline EXCEPT ![try] = "off"]
  /\ UNCHANGED <<config, try, requestVars, socket, crashed>>

\* Another status, or no response that can be read.
ConnectFails == stage = "connecting" /\ Fail

HandshakeDone ==
  /\ stage = "handshaking"
  /\ Go("requesting")
  /\ UNCHANGED <<config, try, requestVars, ioVars, crashed>>

HandshakeFails == stage = "handshaking" /\ Fail

Dial == Dialled \/ DialFails

Open == Connected \/ ConnectFails \/ HandshakeDone \/ HandshakeFails

-----------------------------------------------------------------------------
(* Request and response                                                    *)

Respond ==
  /\ stage = "requesting"
  /\ Go("reading")
  /\ UNCHANGED <<config, try, requestVars, ioVars, crashed>>

\* A status other than 200 returns before the body is read, or closed.
RespondWithError == stage = "requesting" /\ FailAndLeave

\* Also a redirect to plain http, or one more than is followed.
RequestFails == stage = "requesting" /\ Fail

\* The next hop dials anew, whatever is left of the time.
Redirect ==
  /\ stage = "requesting"
  /\ redirects < MaxRedirects
  /\ redirects' = redirects + 1
  /\ Go("dialing")
  /\ Close(try)
  /\ UNCHANGED <<config, try, appended, asked, deadline, crashed>>

\* The body is not what its Content-Encoding says, from the start on.
DecompressFails == stage = "reading" /\ FailAndLeave

\* Anything else that is wrong with the body: the deferred Close runs.
DecodeFails == stage = "reading" /\ Fail

\* item_response.item is used whether or not the addition was appended.
ItemKeyFits == asked => ~ ownItemKey

TimestampKeyFits == asked = appended

\* The body is decoded and closed; a key that is not in it panics.
Decode ==
  /\ stage = "reading"
  /\ Go("fetched")
  /\ Close(try)
  /\ deadline' = [deadline EXCEPT ![try] = "off"]
  /\ crashed' = ~ (ItemKeyFits /\ TimestampKeyFits)
  /\ UNCHANGED <<config, try, requestVars>>

Converse ==
  \/ Respond \/ RespondWithError \/ RequestFails \/ Redirect
  \/ DecompressFails \/ DecodeFails \/ Decode

-----------------------------------------------------------------------------
(* The deadline                                                            *)

\* Mutant: the deadline is only looked at until the response has come.
WaitsOnContextForHeaders == stage = "requesting"

\* Does what the request waits for end with its context?
WaitsOnContext ==
  stage \in Asking \/ (scheme = "http" /\ stage = "dialing")

\* A request under way whose deadline passes fails, if it waits on the context;
\* otherwise it will once it does.
Expire(n) ==
  /\ deadline[n] = "running"
  /\ deadline' = [deadline EXCEPT ![n] = "over"]
  /\ IF n = try /\ stage \notin Resting THEN UNCHANGED socket ELSE Close(n)
  /\ UNCHANGED <<config, stage, try, requestVars, crashed>>

TimeOut ==
  /\ stage \notin Resting
  /\ deadline[try] = "over"
  /\ WaitsOnContext
  /\ Fail

\* The server has sent all of a response that nobody reads.
StreamEnds(n) ==
  /\ socket[n] = "open"
  /\ n < try \/ stage \in Resting
  /\ Close(n)
  /\ UNCHANGED <<config, stage, try, requestVars, deadline, crashed>>

Init ==
  /\ scheme \in {"http", "https"}
  /\ randomize \in BOOLEAN
  /\ ownItemKey \in BOOLEAN
  /\ stage = "new"
  /\ try = 0
  /\ appended = FALSE
  /\ asked = FALSE
  /\ redirects = 0
  /\ socket = [n \in Tries |-> "none"]
  /\ deadline = [n \in Tries |-> "off"]
  /\ crashed = FALSE

Next ==
  /\ ~ crashed
  /\ \/ Begin \/ Dial \/ Open \/ Converse \/ TimeOut
     \/ \E n \in Tries : Expire(n) \/ StreamEnds(n)

Spec == Init /\ [][Next]_vars

Running(A) == ~ crashed /\ A

\* The goroutine of a request runs when it can, time passes, and the TCP dial ends
\* within 5 seconds.  Nothing is assumed of the proxy and the server: they may
\* never answer, and never end an answer.
Fairness ==
  /\ WF_vars(Running(Begin)) /\ WF_vars(Running(Dial)) /\ WF_vars(Running(TimeOut))
  /\ \A n \in Tries : WF_vars(Running(Expire(n)))

FairSpec == Spec /\ Fairness

-----------------------------------------------------------------------------
(* Properties                                                              *)

TypeOK ==
  /\ scheme \in {"http", "https"} /\ randomize \in BOOLEAN /\ ownItemKey \in BOOLEAN
  /\ stage \in Resting \cup Dialling \cup Asking
  /\ try \in 0 .. MaxTries
  /\ appended \in BOOLEAN /\ asked \in BOOLEAN
  /\ redirects \in 0 .. MaxRedirects
  /\ socket \in [Tries -> {"none", "open", "closed"}]
  /\ deadline \in [Tries -> {"off", "running", "over"}]
  /\ crashed \in BOOLEAN

UnderWay(n) == n = try /\ stage \notin Resting

\* A request that has returned holds a socket only as long as its deadline runs:
\* every path out of the dial closes what it opened, and a response that nobody
\* reads is not kept beyond the timeout.
NoSocketIsForgotten ==
  \A n \in Tries :
    socket[n] = "open" /\ ~ UnderWay(n) => deadline[n] = "running"

\* A response with the configured keys makes a worker panic only if the addition
\* was appended and has an item key of its own, which the code never looks for;
\* the timestamp is looked for where the url asked puts it, in retries too.
OnlyTheItemKeyPanics ==
  crashed => ownItemKey /\ stage = "fetched" /\ appended

HangsInDial == scheme = "https" /\ stage \in {"connecting", "handshaking"}

\* Whatever the proxy and the server do, and however often they redirect, a
\* request ends and its socket is closed, unless it stays for ever in one dial of
\* https: it is never lost in the TCP dial, in a response that does not end, or in
\* a chain of redirects, and a request of plain http always ends.
OnlyTheDialHangs ==
  \A n \in Tries :
    UnderWay(n) ~> \/ ~ UnderWay(n) /\ socket[n] # "open"
                   \/ crashed
                   \/ [](UnderWay(n) /\ HangsInDial)

\* "Timeout for HTTP requests, in seconds": a request whose time is over returns.
TimeoutEndsFetch ==
  \A n \in Tries :
    deadline[n] = "over" ~> (~ UnderWay(n) \/ crashed)
=============================================================================

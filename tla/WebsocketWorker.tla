-------------------------- MODULE WebsocketWorker ---------------------------
(***************************************************************************)
(* The websocket worker (workers/websocket-worker.go) and the connections  *)
(* it shares with the goroutines it starts (safe-ws/safe-ws.go).           *)
(*                                                                         *)
(* Every content that is received gets a goroutine of its own, which reads *)
(* the worker's variable currentConnIdx when it comes to write.  Contents  *)
(* are numbered in the order in which they are received.  The read races   *)
(* with the worker's assignment: it returns the index before or after it.  *)
(***************************************************************************)
EXTENDS Naturals, Sequences

CONSTANTS
  ConnsAmount,  \* len(wsWk.Conns)
  MaxContents   \* bound on the contents that are received

ASSUME SomeConnection == ConnsAmount \in Nat \ {0}
ASSUME ContentsAreBounded == MaxContents \in Nat

VARIABLES
  pc,              \* of the worker
  received,        \* how many contents were received
  currentConnIdx,
  phase,           \* of the goroutine of each content
  conn,            \* the connection it writes to
  holder,          \* of each connection's mutex: the content, or 0
  written,         \* contents written on each connection, in order
  failed           \* contents for which an error was logged

workerVars    == <<pc, received, currentConnIdx>>
goroutineVars == <<phase, conn>>
connVars      == <<holder, written>>
vars == <<workerVars, goroutineVars, connVars, failed>>

Contents == 1 .. MaxContents
Conns    == 0 .. ConnsAmount - 1
NoOne    == 0

-----------------------------------------------------------------------------
(* The worker                                                              *)

\* contentEl := <-ContentsChan; go func() ...
Receive ==
  /\ pc = "receive"
  /\ received < MaxContents
  /\ received' = received + 1
  /\ phase' = [phase EXCEPT ![received + 1] = "marshal"]
  /\ pc' = "advance"
  /\ UNCHANGED <<currentConnIdx, conn, connVars, failed>>

\* Mutant: the index is not brought back to the first connection.
AdvancePastTheEnd ==
  /\ pc = "advance"
  /\ currentConnIdx' = currentConnIdx + 1
  /\ pc' = "receive"
  /\ UNCHANGED <<received, goroutineVars, connVars, failed>>

Advance ==
  /\ pc = "advance"
  /\ currentConnIdx' = (currentConnIdx + 1) % ConnsAmount
  /\ pc' = "receive"
  /\ UNCHANGED <<received, goroutineVars, connVars, failed>>

-----------------------------------------------------------------------------
(* The goroutine of content c                                              *)

Marshal(c) ==
  /\ phase[c] = "marshal"
  /\ phase' = [phase EXCEPT ![c] = "select"]
  /\ UNCHANGED <<workerVars, conn, connVars, failed>>

MarshalFails(c) ==
  /\ phase[c] = "marshal"
  /\ phase' = [phase EXCEPT ![c] = "done"]
  /\ failed' = failed \cup {c}
  /\ UNCHANGED <<workerVars, conn, connVars>>

\* Conns[currentConnIdx]
Select(c) ==
  /\ phase[c] = "select"
  /\ conn' = [conn EXCEPT ![c] = currentConnIdx]
  /\ phase' = [phase EXCEPT ![c] = "lock"]
  /\ UNCHANGED <<workerVars, connVars, failed>>

\* Mutant: the mutex does not exclude anybody.
LockAnyway(c) ==
  /\ phase[c] = "lock"
  /\ holder' = [holder EXCEPT ![conn[c]] = c]
  /\ phase' = [phase EXCEPT ![c] = "write"]
  /\ UNCHANGED <<workerVars, conn, written, failed>>

Lock(c) ==
  /\ phase[c] = "lock"
  /\ holder[conn[c]] = NoOne
  /\ holder' = [holder EXCEPT ![conn[c]] = c]
  /\ phase' = [phase EXCEPT ![c] = "write"]
  /\ UNCHANGED <<workerVars, conn, written, failed>>

\* The deferred Unlock runs whether or not the write succeeded.
Write(c) ==
  /\ phase[c] = "write"
  /\ written' = [written EXCEPT ![conn[c]] = Append(@, c)]
  /\ holder' = [holder EXCEPT ![conn[c]] = NoOne]
  /\ phase' = [phase EXCEPT ![c] = "done"]
  /\ UNCHANGED <<workerVars, conn, failed>>

\* Mutant: an error returns before the mutex is unlocked.
WriteFailsLocked(c) ==
  /\ phase[c] = "write"
  /\ failed' = failed \cup {c}
  /\ phase' = [phase EXCEPT ![c] = "done"]
  /\ UNCHANGED <<workerVars, conn, connVars>>

\* Mutant: the content is tried again on the next connection.
WriteFailsOver(c) ==
  /\ phase[c] = "write"
  /\ failed' = failed \cup {c}
  /\ holder' = [holder EXCEPT ![conn[c]] = NoOne]
  /\ conn' = [conn EXCEPT ![c] = (@ + 1) % ConnsAmount]
  /\ phase' = [phase EXCEPT ![c] = "lock"]
  /\ UNCHANGED <<workerVars, written>>

WriteFails(c) ==
  /\ phase[c] = "write"
  /\ failed' = failed \cup {c}
  /\ holder' = [holder EXCEPT ![conn[c]] = NoOne]
  /\ phase' = [phase EXCEPT ![c] = "done"]
  /\ UNCHANGED <<workerVars, conn, written>>

Goroutine(c) ==
  \/ Marshal(c) \/ MarshalFails(c) \/ Select(c) \/ Lock(c) \/ Write(c) \/ WriteFails(c)

\* The bound of the model: no content comes any more, the worker waits.
BoundReached == received = MaxContents /\ pc = "receive" /\ UNCHANGED vars

Init ==
  /\ pc = "receive"
  /\ received = 0
  /\ currentConnIdx = 0
  /\ phase = [c \in Contents |-> "unborn"]
  /\ conn = [c \in Contents |-> 0]
  /\ holder = [k \in Conns |-> NoOne]
  /\ written = [k \in Conns |-> <<>>]
  /\ failed = {}

Next == Receive \/ Advance \/ (\E c \in Contents : Goroutine(c)) \/ BoundReached

Spec == Init /\ [][Next]_vars

\* Every goroutine that can run is scheduled, and every write returns.
Fairness ==
  /\ WF_vars(Receive \/ Advance)
  /\ \A c \in Contents : WF_vars(Goroutine(c))

FairSpec == Spec /\ Fairness

-----------------------------------------------------------------------------
(* Properties                                                              *)

TypeOK ==
  /\ pc \in {"receive", "advance"}
  /\ received \in 0 .. MaxContents
  /\ currentConnIdx \in Conns
  /\ phase \in [Contents -> {"unborn", "marshal", "select", "lock", "write", "done"}]
  /\ conn \in [Contents -> Conns]
  /\ holder \in [Conns -> 0 .. MaxContents]
  /\ written \in [Conns -> Seq(Contents)]
  /\ failed \subseteq Contents

\* No two goroutines write on one connection at the same time (the websocket
\* library allows one writer), although any number of them may have chosen it.
OneWriterPerConnection ==
  \A c, d \in Contents :
    phase[c] = "write" /\ phase[d] = "write" /\ conn[c] = conn[d] => c = d

IsWritten(c) == \E k \in Conns : \E n \in DOMAIN written[k] : written[k][n] = c

WrittenOnce ==
  \A k, l \in Conns : \A m \in DOMAIN written[k], n \in DOMAIN written[l] :
    written[k][m] = written[l][n] => k = l /\ m = n

\* Over all connections a content is written once, or an error was logged for
\* it: never both, never twice, and nothing is done silently.
WrittenOrLogged ==
  /\ WrittenOnce
  /\ \A c \in Contents :
       /\ IsWritten(c) => phase[c] = "done" /\ c \notin failed
       /\ phase[c] = "done" /\ c \notin failed => IsWritten(c)

\* Every content that was received is eventually written or logged, whatever
\* fails on its connection before.
ReceivedIsHandled == \A c \in Contents : phase[c] = "marshal" ~> phase[c] = "done"
=============================================================================

----------------------- MODULE WebsocketWorkerProofs ------------------------
(***************************************************************************)
(* Proofs of the invariants of WebsocketWorker, for any number of          *)
(* connections and contents.                                               *)
(*                                                                         *)
(* OneWriterPerConnection is not inductive: that a goroutine which locks a *)
(* mutex meets no other writer needs that every writer holds the mutex of  *)
(* its connection.  WrittenOrLogged needs that a content whose goroutine   *)
(* is not done was neither written nor logged.                             *)
(***************************************************************************)
EXTENDS WebsocketWorker, TLAPS

WritersHold == \A c \in Contents : phase[c] = "write" => holder[conn[c]] = c

Untouched == \A c \in Contents : phase[c] # "done" => ~ IsWritten(c) /\ c \notin failed

\* A content that is yet to be received has no goroutine.
UnbornLater == \A c \in Contents : c > received => phase[c] = "unborn"

IInv ==
  /\ TypeOK
  /\ WritersHold
  /\ Untouched
  /\ UnbornLater
  /\ WrittenOrLogged

-----------------------------------------------------------------------------

LEMMA InitIInv == Init => IInv
<1> SUFFICES ASSUME Init PROVE IInv
  OBVIOUS
<1>1. /\ MaxContents \in Nat /\ ConnsAmount \in Nat \ {0}
  BY ContentsAreBounded, SomeConnection
<1>2. 0 \in Conns /\ Conns \subseteq Nat /\ NoOne \in 0 .. MaxContents
  BY <1>1 DEF Conns, NoOne
<1>3. TypeOK
  BY <1>1, <1>2 DEF Init, TypeOK
<1>4. \A c \in Contents : ~ IsWritten(c)
  BY DEF Init, IsWritten
<1>5. WritersHold /\ Untouched /\ UnbornLater
  BY <1>4 DEF Init, WritersHold, Untouched, UnbornLater
<1>6. WrittenOrLogged
  BY <1>4 DEF Init, WrittenOrLogged, WrittenOnce
<1> QED  BY <1>3, <1>5, <1>6 DEF IInv

\* A step of a goroutine that neither locks nor writes: only its phase, the
\* connection it has chosen and the log of errors change.
LEMMA QuietGoroutine ==
  ASSUME IInv, NEW c \in Contents, NEW p \in {"select", "lock", "done"},
         phase[c] # "done", phase[c] # "unborn",
         phase' = [phase EXCEPT ![c] = p],
         conn' \in [Contents -> Conns],
         \A d \in Contents : d # c => conn'[d] = conn[d],
         failed' = IF p = "done" THEN failed \cup {c} ELSE failed,
         \A k \in Conns : holder'[k] = holder[k] \/ holder[k] = c,
         holder' \in [Conns -> 0 .. MaxContents],
         UNCHANGED <<workerVars, written>>
  PROVE  IInv'
<1>1. TypeOK'
  BY DEF IInv, TypeOK, workerVars
<1>2. WritersHold'
  BY DEF IInv, TypeOK, WritersHold
<1>3. \A d \in Contents : IsWritten(d)' <=> IsWritten(d)
  BY DEF IsWritten
<1>4. Untouched'
  BY <1>3 DEF IInv, TypeOK, Untouched
<1>5. WrittenOnce' /\ UnbornLater'
  BY DEF IInv, TypeOK, WrittenOrLogged, WrittenOnce, UnbornLater, workerVars
<1>6. WrittenOrLogged'
  BY <1>3, <1>5 DEF IInv, TypeOK, Untouched, WrittenOrLogged
<1> QED  BY <1>1, <1>2, <1>4, <1>5, <1>6 DEF IInv

LEMMA WritePreserves ==
  ASSUME IInv, NEW c \in Contents, Write(c)
  PROVE  IInv'
<1> DEFINE k == conn[c]
           last == Len(written[k]) + 1
<1>1. k \in Conns /\ written[k] \in Seq(Contents) /\ phase[c] = "write"
  BY DEF IInv, TypeOK, Write
<1>2. /\ written'[k] = Append(written[k], c)
      /\ written' \in [Conns -> Seq(Contents)]
      /\ \A l \in Conns : l # k => written'[l] = written[l]
  BY <1>1 DEF IInv, TypeOK, Write
<1>3. /\ DOMAIN written'[k] = DOMAIN written[k] \cup {last}
      /\ written'[k][last] = c
      /\ \A n \in DOMAIN written[k] : written'[k][n] = written[k][n]
      /\ last \notin DOMAIN written[k]
  BY <1>1, <1>2
<1>4. ~ IsWritten(c) /\ c \notin failed
  BY <1>1 DEF IInv, Untouched
<1>5. /\ IsWritten(c)'
      /\ \A d \in Contents : d # c => (IsWritten(d)' <=> IsWritten(d))
  <2>1. IsWritten(c)'
    BY <1>1, <1>3 DEF IsWritten
  <2>2. ASSUME NEW d \in Contents, d # c, IsWritten(d) PROVE IsWritten(d)'
    <3>1. PICK l \in Conns : \E n \in DOMAIN written[l] : written[l][n] = d
      BY <2>2 DEF IsWritten
    <3>2. PICK n \in DOMAIN written[l] : written[l][n] = d
      BY <3>1
    <3>3. n \in DOMAIN written'[l] /\ written'[l][n] = d
      BY <1>2, <1>3, <3>2
    <3> QED  BY <3>3 DEF IsWritten
  <2>3. ASSUME NEW d \in Contents, d # c, IsWritten(d)' PROVE IsWritten(d)
    <3>1. PICK l \in Conns : \E n \in DOMAIN written'[l] : written'[l][n] = d
      BY <2>3 DEF IsWritten
    <3>2. PICK n \in DOMAIN written'[l] : written'[l][n] = d
      BY <3>1
    <3>3. n \in DOMAIN written[l] /\ written[l][n] = d
      BY <1>2, <1>3, <2>3, <3>2
    <3> QED  BY <3>3 DEF IsWritten
  <2> QED  BY <2>1, <2>2, <2>3
<1>6. /\ phase' = [phase EXCEPT ![c] = "done"]
      /\ holder' = [holder EXCEPT ![k] = NoOne]
      /\ UNCHANGED <<workerVars, conn, failed>>
  BY DEF Write
<1>7. TypeOK'
  <2>1. NoOne \in 0 .. MaxContents
    BY ContentsAreBounded DEF NoOne
  <2> QED  BY <1>2, <1>6, <2>1 DEF IInv, TypeOK, workerVars
<1>8. WritersHold'
  BY <1>1, <1>6 DEF IInv, TypeOK, WritersHold
<1>9. Untouched' /\ UnbornLater'
  BY <1>1, <1>5, <1>6 DEF IInv, TypeOK, Untouched, UnbornLater, workerVars
<1>10. WrittenOnce'
  <2> SUFFICES ASSUME NEW i \in Conns, NEW j \in Conns,
                      NEW m \in DOMAIN written'[i], NEW n \in DOMAIN written'[j],
                      written'[i][m] = written'[j][n]
               PROVE  i = j /\ m = n
    BY DEF WrittenOnce
  <2>1. \A l \in Conns : \A x \in DOMAIN written[l] : written[l][x] # c
    BY <1>4 DEF IsWritten
  <2>2. \A l \in Conns : \A x \in DOMAIN written'[l] :
          \/ l = k /\ x = last
          \/ x \in DOMAIN written[l] /\ written'[l][x] = written[l][x]
    BY <1>2, <1>3
  <2>3. CASE i = k /\ m = last
    BY <1>3, <2>1, <2>2, <2>3
  <2>4. CASE j = k /\ n = last
    BY <1>3, <2>1, <2>2, <2>4
  <2>5. CASE m \in DOMAIN written[i] /\ n \in DOMAIN written[j]
             /\ written'[i][m] = written[i][m] /\ written'[j][n] = written[j][n]
    <3>1. WrittenOnce
      BY DEF IInv, WrittenOrLogged
    <3>2. written[i][m] = written[j][n]
      BY <2>5
    <3> QED  BY <2>5, <3>1, <3>2 DEF WrittenOnce
  <2> QED  BY <2>2, <2>3, <2>4, <2>5
<1>11. WrittenOrLogged'
  BY <1>4, <1>5, <1>6, <1>10 DEF IInv, TypeOK, WrittenOrLogged
<1> QED  BY <1>7, <1>8, <1>9, <1>11 DEF IInv

\* One step per action of Next.
LEMMA NextIInv == IInv /\ [Next]_vars => IInv'
<1> SUFFICES ASSUME IInv, [Next]_vars PROVE IInv'
  OBVIOUS
<1>0. /\ ConnsAmount \in Nat \ {0} /\ MaxContents \in Nat
      /\ Contents = 1 .. MaxContents /\ Conns = 0 .. ConnsAmount - 1
  BY SomeConnection, ContentsAreBounded DEF Contents, Conns
<1>1. CASE UNCHANGED vars
  BY <1>1 DEF vars, workerVars, goroutineVars, connVars, IInv, TypeOK, WritersHold, Untouched,
              UnbornLater, WrittenOrLogged, WrittenOnce, IsWritten
<1>2. CASE Receive
  <2>1. /\ received + 1 \in Contents /\ phase[received + 1] = "unborn"
    BY <1>0, <1>2 DEF Receive, IInv, TypeOK, UnbornLater
  <2>2. /\ phase' = [phase EXCEPT ![received + 1] = "marshal"]
        /\ received' = received + 1 /\ pc' = "advance"
        /\ UNCHANGED <<currentConnIdx, conn, connVars, failed>>
    BY <1>2 DEF Receive
  <2>3. TypeOK' /\ WritersHold'
    BY SMTT(30), <1>0, <2>1, <2>2 DEF IInv, TypeOK, WritersHold, connVars
  <2>4. \A c \in Contents : IsWritten(c)' <=> IsWritten(c)
    BY <2>2 DEF IsWritten, connVars
  <2>5. UnbornLater'
    <3> SUFFICES ASSUME NEW c \in Contents, c > received + 1
                 PROVE  phase'[c] = "unborn"
      BY <2>2 DEF UnbornLater
    <3>1. c > received /\ c # received + 1
      BY <1>0 DEF IInv, TypeOK
    <3> QED  BY <2>1, <2>2, <3>1 DEF IInv, TypeOK, UnbornLater
  <2>6. Untouched' /\ WrittenOrLogged'
    BY <2>1, <2>2, <2>4 DEF IInv, TypeOK, Untouched, WrittenOrLogged, WrittenOnce, connVars
  <2> QED  BY <2>3, <2>5, <2>6 DEF IInv
<1>3. CASE Advance
  <2>1. currentConnIdx' \in Conns
    BY <1>0, <1>3 DEF Advance, IInv, TypeOK
  <2>2. pc' = "receive" /\ UNCHANGED <<received, goroutineVars, connVars, failed>>
    BY <1>3 DEF Advance
  <2> QED
    BY <2>1, <2>2 DEF IInv, TypeOK, WritersHold, Untouched, UnbornLater, WrittenOrLogged,
                      WrittenOnce, IsWritten, goroutineVars, connVars
<1>4. ASSUME NEW c \in Contents, Marshal(c) \/ MarshalFails(c) PROVE IInv'
  <2>1. CASE Marshal(c)
    BY <2>1, QuietGoroutine DEF Marshal, IInv, TypeOK, connVars
  <2>2. CASE MarshalFails(c)
    BY <2>2, QuietGoroutine DEF MarshalFails, IInv, TypeOK, connVars
  <2> QED  BY <1>4, <2>1, <2>2
<1>5. ASSUME NEW c \in Contents, Select(c) PROVE IInv'
  <2>1. conn' \in [Contents -> Conns] /\ \A d \in Contents : d # c => conn'[d] = conn[d]
    BY <1>5 DEF Select, IInv, TypeOK
  <2> QED  BY <1>5, <2>1, QuietGoroutine DEF Select, IInv, TypeOK, connVars
<1>6. ASSUME NEW c \in Contents, Lock(c) PROVE IInv'
  <2>1. /\ phase[c] = "lock" /\ holder[conn[c]] = NoOne
        /\ holder' = [holder EXCEPT ![conn[c]] = c]
        /\ phase' = [phase EXCEPT ![c] = "write"]
        /\ UNCHANGED <<workerVars, conn, written, failed>>
    BY <1>6 DEF Lock
  <2>2. TypeOK'
    BY <1>0, <2>1 DEF IInv, TypeOK, workerVars
  <2>3. WritersHold'
    <3>1. \A d \in Contents : phase[d] = "write" => conn[d] # conn[c]
      BY <1>0, <2>1 DEF IInv, TypeOK, WritersHold, NoOne
    <3> QED  BY <2>1, <3>1 DEF IInv, TypeOK, WritersHold
  <2>4. \A d \in Contents : IsWritten(d)' <=> IsWritten(d)
    BY <2>1 DEF IsWritten
  <2>5. Untouched' /\ UnbornLater'
    BY <2>1, <2>4 DEF IInv, TypeOK, Untouched, UnbornLater, workerVars
  <2>6. WrittenOrLogged'
    BY <2>1, <2>4 DEF IInv, TypeOK, Untouched, WrittenOrLogged, WrittenOnce
  <2> QED  BY <2>2, <2>3, <2>5, <2>6 DEF IInv
<1>7. ASSUME NEW c \in Contents, Write(c) PROVE IInv'
  BY <1>7, WritePreserves
<1>8. ASSUME NEW c \in Contents, WriteFails(c) PROVE IInv'
  <2>1. conn[c] \in Conns /\ phase[c] = "write" /\ holder[conn[c]] = c
    BY <1>8 DEF WriteFails, IInv, TypeOK, WritersHold
  <2>2. /\ holder' = [holder EXCEPT ![conn[c]] = NoOne]
        /\ NoOne \in 0 .. MaxContents
    BY <1>0, <1>8 DEF WriteFails, NoOne
  <2>3. /\ \A k \in Conns : holder'[k] = holder[k] \/ holder[k] = c
        /\ holder' \in [Conns -> 0 .. MaxContents]
    BY <2>1, <2>2 DEF IInv, TypeOK
  <2>4. /\ phase' = [phase EXCEPT ![c] = "done"]
        /\ failed' = failed \cup {c}
        /\ UNCHANGED <<workerVars, conn, written>>
    BY <1>8 DEF WriteFails
  <2>5. conn' \in [Contents -> Conns] /\ \A d \in Contents : conn'[d] = conn[d]
    BY <2>4 DEF IInv, TypeOK
  <2> QED  BY <2>1, <2>3, <2>4, <2>5, QuietGoroutine
<1>9. CASE BoundReached
  BY <1>1, <1>9 DEF BoundReached
<1> QED
  BY <1>1, <1>2, <1>3, <1>4, <1>5, <1>6, <1>7, <1>8, <1>9 DEF Next, Goroutine

\* The variables keep their types, whatever the number of connections: the index
\* of the connection never leaves the array.
THEOREM WebsocketWorkerTyped == Spec => []TypeOK
<1>1. Init => IInv  BY InitIInv
<1>2. IInv /\ [Next]_vars => IInv'  BY NextIInv
<1>3. IInv => TypeOK  BY DEF IInv
<1> QED  BY <1>1, <1>2, <1>3, PTL DEF Spec

\* Two goroutines never write on one connection at the same time.
THEOREM WritersAreAlone == Spec => []OneWriterPerConnection
<1>1. Init => IInv  BY InitIInv
<1>2. IInv /\ [Next]_vars => IInv'  BY NextIInv
<1>3. IInv => OneWriterPerConnection  BY DEF IInv, WritersHold, OneWriterPerConnection
<1> QED  BY <1>1, <1>2, <1>3, PTL DEF Spec

\* A content is written once, or an error was logged for it, and not both.
THEOREM ContentsAreHandledOnce == Spec => []WrittenOrLogged
<1>1. Init => IInv  BY InitIInv
<1>2. IInv /\ [Next]_vars => IInv'  BY NextIInv
<1>3. IInv => WrittenOrLogged  BY DEF IInv
<1> QED  BY <1>1, <1>2, <1>3, PTL DEF Spec
=============================================================================

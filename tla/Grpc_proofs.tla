------------------------------ MODULE Grpc_proofs ------------------------------
(***************************************************************************)
(* Proofs about the gRPC proxy filter (GrpcRelay): one call with its two   *)
(* directions and its watcher, and the pool of connections behind it; and  *)
(* about the descriptors of the HTTP to gRPC filter (GrpcTranscode).       *)
(***************************************************************************)
EXTENDS GrpcRelay, GrpcTranscode, SequenceTheorems, TLAPS

-----------------------------------------------------------------------------
(***************************************************************************)
(* One call, for any number of messages and replies                        *)
(***************************************************************************)
Direction == [pc : {"idle", "top", "recv", "send", "done"}, read : Nat]

RelayTypes ==
    /\ method \in BOOLEAN /\ streaming \in BOOLEAN
    /\ client \in [sent : Nat, got : Nat, state : {"open", "half", "gone"}]
    /\ backend \in [got : Nat, sent : Nat, eof : BOOLEAN, status : {"none", "ok", "error"}]
    /\ up \in Direction /\ down \in Direction
    /\ watcher \in {"idle", "select", "set", "clear", "close", "done"}
    /\ main \in {"start", "wait", "drain", "return", "ok", "failed"}
    /\ errChan \in [queue : Nat, closed : BOOLEAN]
    /\ done \in BOOLEAN /\ error \in BOOLEAN /\ raced \in BOOLEAN

\* The backend has what was read from the caller, but for the message in the hand
\* of the upward direction; a method that does not stream has one message.
UpInHand ==
    /\ up.pc \in {"idle", "top", "recv"} => backend.got = up.read
    /\ up.pc = "send" => up.read = backend.got + 1
    /\ up.read <= client.sent
    /\ ~method => client.sent <= 1
    /\ streaming => method

\* A half-close is the last thing the upward direction does, and nothing follows it.
EofIsLast ==
    backend.eof =>
        /\ up.pc = "done"
        /\ ~(method /\ ~streaming) => backend.got = client.sent
        /\ ~(method /\ ~streaming) => client.state # "open" \/ (~method /\ client.sent = 1)

\* The caller has what was read from the backend, but for the message in the hand
\* of the downward direction.
DownInHand ==
    /\ down.pc \in {"idle", "top", "recv"} => client.got = down.read
    /\ down.pc = "send" => down.read = client.got + 1

\* Nothing has begun, both directions have begun, or nothing will.
Begun ==
    /\ main = "start" => up.pc = "idle" /\ down.pc = "idle" /\ watcher = "idle"
    /\ main \in {"drain", "ok"} => down.pc = "done"
    /\ main \in {"return", "failed"} => down.pc = "done" \/ (error /\ watcher = "idle")
    /\ errChan.closed => main \notin {"start", "wait"}
    /\ up.pc = "idle" <=> down.pc = "idle"

\* The watcher is through because the caller has gone, because of an error that is
\* set and stays, or because handleStream waits for nobody any more.
WatcherIsThrough ==
    /\ done => watcher = "done"
    /\ watcher = "clear" => main \notin {"start", "wait"}
    /\ watcher \in {"close", "done"} => Gone \/ error \/ main \notin {"start", "wait"}

\* The caller has everything, or it will not be told of a success.
Settled == Gone \/ backend.status = "error" \/ (backend.status = "ok" /\ client.got = backend.sent)

DownIsThrough ==
    /\ down.pc = "done" => Settled \/ (watcher = "done" /\ error)
    /\ main = "ok" => Settled

RelayInv ==
    /\ RelayTypes /\ UpInHand /\ EofIsLast
    /\ DownInHand /\ Begun /\ WatcherIsThrough /\ DownIsThrough

LEMMA RelayInvInit == RelayInit => RelayInv
<1> SUFFICES ASSUME RelayInit PROVE RelayInv
  OBVIOUS
<1>1. RelayTypes
  BY DEF RelayInit, RelayTypes, Direction
<1>2. UpInHand /\ EofIsLast
  BY DEF RelayInit, UpInHand, EofIsLast
<1>3. DownInHand /\ Begun /\ WatcherIsThrough /\ DownIsThrough
  BY DEF RelayInit, DownInHand, Begun, WatcherIsThrough, DownIsThrough
<1> QED BY <1>1, <1>2, <1>3 DEF RelayInv

LEMMA ClientStep ==
    ASSUME RelayInv, ClientSend \/ ClientClose PROVE RelayInv'
<1> USE DEF RelayInv
<1>1. RelayTypes'
  BY DEF RelayTypes, ClientSend, ClientClose
<1>2. /\ client'.got = client.got /\ (Gone => Gone')
      /\ client'.state = "open" => client.state = "open"
      /\ client'.sent # client.sent =>
            /\ client.state = "open" /\ client'.sent = client.sent + 1
            /\ ~method => client.sent < 1
      /\ client'.sent \in Nat /\ client.sent \in Nat /\ method \in BOOLEAN
  BY DEF RelayTypes, ClientSend, ClientClose, Gone
<1>3. UNCHANGED <<method, streaming, backend, up, down, watcher, main, errChan, done, error>>
  BY DEF ClientSend, ClientClose
<1>4. up.read \in Nat /\ streaming \in BOOLEAN
  BY DEF RelayTypes, Direction
<1> HIDE DEF RelayInv
<1>5. UpInHand'
  BY <1>2, <1>3, <1>4 DEF RelayInv, UpInHand
<1>6. EofIsLast'
  BY <1>2, <1>3, <1>4 DEF RelayInv, EofIsLast
<1>7. DownInHand' /\ Begun' /\ WatcherIsThrough' /\ DownIsThrough'
  BY <1>2, <1>3 DEF RelayInv, DownInHand, Begun, WatcherIsThrough, DownIsThrough, Settled
<1> QED BY <1>1, <1>5, <1>6, <1>7 DEF RelayInv

LEMMA BackendStep ==
    ASSUME RelayInv, BackendReply \/ BackendEnd PROVE RelayInv'
<1> USE DEF RelayInv
<1>1. RelayTypes'
  BY DEF RelayTypes, BackendReply, BackendEnd
<1>2. UpInHand' /\ EofIsLast'
  BY DEF RelayTypes, BackendReply, BackendEnd, UpInHand, EofIsLast
<1>3. backend.status = "none" /\ UNCHANGED <<client, up, down, watcher, main, errChan, done, error>>
  BY DEF BackendReply, BackendEnd
<1>4. DownInHand' /\ Begun' /\ WatcherIsThrough'
  BY <1>3 DEF DownInHand, Begun, WatcherIsThrough, Gone
<1>5. DownIsThrough'
  BY <1>3 DEF DownIsThrough, Settled, Gone
<1> QED BY <1>1, <1>2, <1>4, <1>5

LEMMA handleStreamStep ==
    ASSUME RelayInv, handleStream PROVE RelayInv'
<1> USE DEF RelayInv
<1>1. /\ up.pc = "idle" /\ down.pc = "idle" /\ watcher = "idle" /\ main = "start"
      /\ UNCHANGED <<method, client, backend, errChan, done, raced>>
  BY DEF handleStream, Begun
<1>2. up \in Direction /\ down \in Direction /\ method \in BOOLEAN /\ streaming \in BOOLEAN
  BY DEF RelayTypes
<1>3. CASE /\ main' = "wait" /\ watcher' = "select" /\ error' = error
           /\ streaming' = method \/ streaming' = FALSE
           /\ up' = [up EXCEPT !.pc = IF streaming' THEN "top" ELSE "recv"]
           /\ down' = [down EXCEPT !.pc = "top"]
  <2>1. /\ up' \in Direction /\ down' \in Direction
        /\ up'.read = up.read /\ down'.read = down.read
        /\ up'.pc \in {"top", "recv"} /\ down'.pc = "top"
    <3>1. up' = [up EXCEPT !.pc = "top"] \/ up' = [up EXCEPT !.pc = "recv"]
      BY <1>3
    <3> QED BY <1>2, <1>3, <3>1 DEF Direction
  <2>2. streaming' \in BOOLEAN /\ (streaming' => method)
    <3>1. CASE streaming' = method
      BY <1>2, <3>1
    <3>2. CASE streaming' = FALSE
      BY <3>2
    <3> QED BY <1>3, <3>1, <3>2
  <2>3. RelayTypes'
    BY <1>1, <1>3, <2>1, <2>2 DEF RelayTypes
  <2> HIDE DEF RelayInv
  <2>4. UpInHand' /\ EofIsLast'
    BY <1>1, <2>1, <2>2 DEF RelayInv, UpInHand, EofIsLast
  <2>5. DownInHand' /\ Begun'
    BY <1>1, <1>3, <2>1 DEF RelayInv, DownInHand, Begun
  <2>6. WatcherIsThrough' /\ DownIsThrough'
    BY <1>1, <1>3, <2>1 DEF RelayInv, WatcherIsThrough, DownIsThrough
  <2> QED BY <2>3, <2>4, <2>5, <2>6 DEF RelayInv
<1>4. CASE main' = "return" /\ error' = TRUE /\ UNCHANGED <<streaming, up, down, watcher>>
  <2>1. RelayTypes'
    BY <1>1, <1>4 DEF RelayTypes
  <2>2. UpInHand' /\ EofIsLast' /\ DownInHand'
    BY <1>1, <1>4 DEF UpInHand, EofIsLast, DownInHand
  <2>3. Begun' /\ WatcherIsThrough' /\ DownIsThrough'
    BY <1>1, <1>4 DEF Begun, WatcherIsThrough, DownIsThrough
  <2> QED BY <2>1, <2>2, <2>3
<1>5. QED
  BY <1>3, <1>4, Zenon DEF handleStream

LEMMA UpStep ==
    ASSUME RelayInv, forwardClientToServer \/ SendToBackend PROVE RelayInv'
<1> USE DEF RelayInv
<1>1. /\ up \in Direction /\ method \in BOOLEAN /\ streaming \in BOOLEAN
      /\ backend \in [got : Nat, sent : Nat, eof : BOOLEAN, status : {"none", "ok", "error"}]
      /\ errChan \in [queue : Nat, closed : BOOLEAN] /\ client.sent \in Nat
  BY DEF RelayTypes
<1>2. /\ UNCHANGED <<method, streaming, client, down, watcher, main, done, error, raced>>
      /\ up.pc \in {"recv", "send"} /\ up'.pc # "idle"
      /\ errChan' = errChan \/ errChan' = [errChan EXCEPT !.queue = @ + 1]
  <2>1. CASE forwardClientToServer
    BY <1>1, <2>1 DEF Direction, forwardClientToServer, Report
  <2>2. CASE SendToBackend
    BY <1>1, <2>2 DEF Direction, SendToBackend, Report
  <2> QED BY <2>1, <2>2
<1>3. errChan' \in [queue : Nat, closed : BOOLEAN] /\ errChan'.closed = errChan.closed
  BY <1>1, <1>2
<1>4. ~backend.eof
  BY <1>2 DEF EofIsLast
<1>5. ASSUME /\ up' \in Direction
             /\ backend' \in [got : Nat, sent : Nat, eof : BOOLEAN, status : {"none", "ok", "error"}]
             /\ backend'.sent = backend.sent /\ backend'.status = backend.status,
             UpInHand', EofIsLast'
      PROVE  RelayInv'
  <2>1. RelayTypes'
    BY <1>2, <1>3, <1>5 DEF RelayTypes
  <2>2. DownInHand' /\ Begun' /\ WatcherIsThrough' /\ DownIsThrough'
    BY <1>2, <1>3, <1>5 DEF DownInHand, Begun, WatcherIsThrough, DownIsThrough, Settled, Gone
  <2> QED BY <1>5, <2>1, <2>2
<1> HIDE DEF RelayInv
<1>6. CASE /\ up.pc = "recv" /\ ~Gone /\ client.sent > up.read
           /\ up' = [pc |-> "send", read |-> up.read + 1] /\ backend' = backend
  <2>1. up' \in Direction /\ up'.pc = "send" /\ up'.read = up.read + 1 /\ up.read \in Nat
    BY <1>1, <1>6 DEF Direction
  <2>2. UpInHand' /\ EofIsLast'
    BY <1>1, <1>2, <1>4, <1>6, <2>1 DEF RelayInv, UpInHand, EofIsLast
  <2> QED BY <1>1, <1>5, <1>6, <2>1, <2>2
<1>7. CASE /\ up.pc = "recv" /\ client.state = "half" /\ client.sent = up.read
           /\ up' = [up EXCEPT !.pc = "done"] /\ backend' = [backend EXCEPT !.eof = TRUE]
  <2>1. /\ up' \in Direction /\ up'.pc = "done" /\ up'.read = up.read
        /\ backend' \in [got : Nat, sent : Nat, eof : BOOLEAN, status : {"none", "ok", "error"}]
        /\ backend'.sent = backend.sent /\ backend'.status = backend.status /\ backend'.got = backend.got
    BY <1>1, <1>7 DEF Direction
  <2>2. UpInHand' /\ EofIsLast'
    BY <1>1, <1>2, <1>4, <1>7, <2>1 DEF RelayInv, UpInHand, EofIsLast
  <2> QED BY <1>1, <1>5, <2>1, <2>2
<1>8. CASE up.pc \in {"recv", "send"} /\ up' = [up EXCEPT !.pc = "done"] /\ backend' = backend
  <2>1. up' \in Direction /\ up'.pc = "done" /\ up'.read = up.read
    BY <1>1, <1>8 DEF Direction
  <2>2. UpInHand' /\ EofIsLast'
    BY <1>1, <1>2, <1>4, <1>8, <2>1 DEF RelayInv, UpInHand, EofIsLast
  <2> QED BY <1>1, <1>5, <1>8, <2>1, <2>2
<1>9. CASE /\ up.pc = "send" /\ backend' = [backend EXCEPT !.got = @ + 1, !.eof = ~streaming]
           /\ up' = [up EXCEPT !.pc = IF streaming THEN "top" ELSE "done"]
  <2>1. /\ up' \in Direction /\ up'.read = up.read
        /\ streaming => up'.pc = "top"
        /\ ~streaming => up'.pc = "done"
    <3>1. /\ streaming => up' = [up EXCEPT !.pc = "top"]
          /\ ~streaming => up' = [up EXCEPT !.pc = "done"]
      BY <1>9
    <3> QED BY <1>1, <3>1 DEF Direction
  <2>2. /\ backend' \in [got : Nat, sent : Nat, eof : BOOLEAN, status : {"none", "ok", "error"}]
        /\ backend'.sent = backend.sent /\ backend'.status = backend.status
        /\ backend'.got = backend.got + 1 /\ backend.got \in Nat
        /\ backend'.eof <=> ~streaming
    <3> DEFINE e == ~streaming
    <3>1. e \in BOOLEAN /\ backend' = [backend EXCEPT !.got = @ + 1, !.eof = e]
      BY <1>9
    <3> HIDE DEF e
    <3>2. /\ backend'.sent = backend.sent /\ backend'.status = backend.status
          /\ backend'.got = backend.got + 1 /\ backend.got \in Nat
      BY <1>1, <3>1
    <3>3. backend'.eof = e
      BY <1>1, <3>1
    <3>4. backend' \in [got : Nat, sent : Nat, eof : BOOLEAN, status : {"none", "ok", "error"}]
      <4>1. /\ backend.sent \in Nat /\ backend.status \in {"none", "ok", "error"}
            /\ backend.got + 1 \in Nat
        BY <1>1
      <4>2. backend' = [got |-> backend.got + 1, sent |-> backend.sent, eof |-> e, status |-> backend.status]
        BY <1>1, <3>1
      <4>3. \A x \in BOOLEAN, g \in Nat, n \in Nat, t \in {"none", "ok", "error"} :
              [got |-> g, sent |-> n, eof |-> x, status |-> t]
                \in [got : Nat, sent : Nat, eof : BOOLEAN, status : {"none", "ok", "error"}]
        OBVIOUS
      <4> QED BY <3>1, <4>1, <4>2, <4>3, Zenon
    <3> QED BY <3>2, <3>3, <3>4 DEF e
  <2>4. UpInHand'
    BY <1>1, <1>2, <1>9, <2>1, <2>2 DEF RelayInv, UpInHand
  <2>5. EofIsLast'
    BY <1>1, <1>2, <1>9, <2>1, <2>2 DEF RelayInv, UpInHand, EofIsLast, Direction
  <2> QED BY <1>5, <2>1, <2>2, <2>4, <2>5
<1>10. QED
  BY <1>6, <1>7, <1>8, <1>9 DEF forwardClientToServer, SendToBackend

LEMMA LoopTopStep ==
    ASSUME RelayInv, LoopTop PROVE RelayInv'
<1> USE DEF RelayInv
<1>1. UNCHANGED <<method, streaming, client, backend, watcher, main, errChan, done, error, raced>>
  BY DEF LoopTop
<1>2. PICK p \in {"recv", "done"} :
        /\ p = "done" => done
        /\ \/ up.pc = "top" /\ up' = [up EXCEPT !.pc = p] /\ down' = down
           \/ down.pc = "top" /\ down' = [down EXCEPT !.pc = p] /\ up' = up
  <2>1. CASE done
    <3>1. \/ up.pc = "top" /\ up' = [up EXCEPT !.pc = "done"] /\ down' = down
          \/ down.pc = "top" /\ down' = [down EXCEPT !.pc = "done"] /\ up' = up
      BY <2>1 DEF LoopTop
    <3> QED BY <2>1, <3>1, Zenon
  <2>2. CASE ~done
    <3>1. \/ up.pc = "top" /\ up' = [up EXCEPT !.pc = "recv"] /\ down' = down
          \/ down.pc = "top" /\ down' = [down EXCEPT !.pc = "recv"] /\ up' = up
      BY <2>2 DEF LoopTop
    <3>2. "recv" # "done" OBVIOUS
    <3> QED BY <3>1, <3>2, Zenon
  <2> QED BY <2>1, <2>2
<1>3. /\ up' \in Direction /\ down' \in Direction
      /\ \/ up.pc = "top" /\ up'.pc = p /\ up'.read = up.read /\ down' = down
         \/ down.pc = "top" /\ down'.pc = p /\ down'.read = down.read /\ up' = up
  BY <1>2 DEF RelayTypes, Direction
<1>4. RelayTypes'
  BY <1>1, <1>3 DEF RelayTypes
<1> HIDE DEF RelayInv
<1>5. UpInHand' /\ EofIsLast'
  BY <1>1, <1>2, <1>3 DEF RelayInv, UpInHand, EofIsLast
<1>6. DownInHand' /\ Begun' /\ WatcherIsThrough'
  BY <1>1, <1>2, <1>3 DEF RelayInv, DownInHand, Begun, WatcherIsThrough, Gone
<1>7. DownIsThrough'
  BY <1>1, <1>2, <1>3 DEF RelayInv, RelayTypes, Begun, WatcherIsThrough, DownIsThrough, Settled, Gone
<1> QED BY <1>4, <1>5, <1>6, <1>7 DEF RelayInv

LEMMA DownStep ==
    ASSUME RelayInv, forwardServerToClient \/ SendToClient PROVE RelayInv'
<1> USE DEF RelayInv
<1>1. RelayTypes'
  BY DEF RelayTypes, Direction, forwardServerToClient, SendToClient, Report
<1>2. /\ UNCHANGED <<method, streaming, backend, up, watcher, main, done, error>>
      /\ errChan'.closed = errChan.closed
      /\ client'.sent = client.sent /\ client'.state = client.state
      /\ down.pc \in {"recv", "send"} /\ down'.pc # "idle"
  BY DEF RelayTypes, Direction, forwardServerToClient, SendToClient, Report
<1>3. down.read \in Nat /\ client.got \in Nat
  BY DEF RelayTypes, Direction
<1>4. \/ down.pc = "recv" /\ down'.pc = "send" /\ down'.read = down.read + 1 /\ client'.got = client.got
      \/ /\ down.pc = "recv" /\ down'.pc = "done" /\ client'.got = client.got
         /\ Gone \/ (backend.sent = down.read /\ backend.status \in {"ok", "error"})
      \/ down.pc = "send" /\ down'.pc = "top" /\ down'.read = down.read /\ client'.got = client.got + 1
      \/ down.pc = "send" /\ down'.pc = "done" /\ client'.got = client.got /\ Gone
  BY DEF RelayTypes, Direction, forwardServerToClient, SendToClient
<1> HIDE DEF RelayInv
<1>5. UpInHand' /\ EofIsLast'
  BY <1>2 DEF RelayInv, UpInHand, EofIsLast
<1>6. DownInHand' /\ Begun' /\ WatcherIsThrough'
  BY <1>2, <1>3, <1>4 DEF RelayInv, DownInHand, Begun, WatcherIsThrough, Gone
<1>7. DownIsThrough'
  BY <1>2, <1>3, <1>4 DEF RelayInv, DownInHand, Begun, DownIsThrough, Settled, Gone
<1> QED BY <1>1, <1>5, <1>6, <1>7 DEF RelayInv

LEMMA WatcherStep ==
    ASSUME RelayInv, Watch \/ WatcherSetError \/ CloseDone PROVE RelayInv'
<1> USE DEF RelayInv
<1>1. RelayTypes'
  <2>1. CASE Watch
    BY <2>1 DEF RelayTypes, Watch
  <2>2. CASE WatcherSetError
    BY <2>2 DEF RelayTypes, WatcherSetError
  <2>3. CASE CloseDone
    BY <2>3 DEF RelayTypes, CloseDone
  <2> QED BY <2>1, <2>2, <2>3
<1>2. UNCHANGED <<method, streaming, client, backend, up, down, main>>
  BY DEF Watch, WatcherSetError, CloseDone
<1>3. errChan'.closed = errChan.closed
  BY DEF RelayTypes, Watch, WatcherSetError, CloseDone
<1>4. UpInHand' /\ EofIsLast' /\ DownInHand'
  BY <1>2 DEF UpInHand, EofIsLast, DownInHand
<1>5. Begun'
  <2>1. watcher # "idle"
    BY DEF Watch, WatcherSetError, CloseDone
  <2> QED BY <1>2, <1>3, <2>1 DEF Begun
<1>6. DownIsThrough'
  <2>1. watcher # "done"
    BY DEF Watch, WatcherSetError, CloseDone
  <2> QED BY <1>2, <2>1 DEF DownIsThrough, Settled, Gone
<1>7. CASE Watch
  <2>1. watcher' \in {"set", "clear", "close"} /\ ~done /\ ~done'
    BY <1>7 DEF Watch, WatcherIsThrough
  <2>2. watcher' = "close" => Gone
    BY <1>7 DEF Watch
  <2>3. watcher' = "clear" => errChan.closed
    BY <1>7 DEF Watch
  <2>4. WatcherIsThrough'
    BY <1>2, <2>1, <2>2, <2>3 DEF WatcherIsThrough, Begun, Gone
  <2> QED BY <1>1, <1>4, <1>5, <1>6, <2>4
<1>8. CASE WatcherSetError
  <2>1. watcher' = "close" /\ ~done /\ ~done'
    BY <1>8 DEF WatcherSetError, WatcherIsThrough
  <2>2. watcher = "clear" \/ error'
    <3>1. watcher \in {"set", "clear"} /\ error' = (watcher = "set")
      BY <1>8, Zenon DEF WatcherSetError
    <3> QED BY <3>1, Zenon
  <2>3. WatcherIsThrough'
    BY <1>2, <2>1, <2>2 DEF WatcherIsThrough
  <2> QED BY <1>1, <1>4, <1>5, <1>6, <2>3
<1>9. CASE CloseDone
  <2>1. WatcherIsThrough'
    BY <1>2, <1>9 DEF CloseDone, WatcherIsThrough, Gone
  <2> QED BY <1>1, <1>4, <1>5, <1>6, <2>1
<1> QED BY <1>7, <1>8, <1>9

LEMMA MainStep ==
    ASSUME RelayInv, Wait \/ Drain \/ OnStreamRPC PROVE RelayInv'
<1> USE DEF RelayInv
<1>1. /\ UNCHANGED <<method, streaming, client, backend, up, down, watcher, done>>
      /\ main \in {"wait", "drain", "return"}
  BY DEF Wait, Drain, OnStreamRPC
<1>2. UpInHand' /\ EofIsLast' /\ DownInHand'
  BY <1>1 DEF UpInHand, EofIsLast, DownInHand
<1>3. CASE Wait
  <2>1. main' = "drain" /\ down.pc = "done" /\ error' = error /\ main = "wait"
    BY <1>3 DEF Wait
  <2>2. RelayTypes'
    BY <1>3 DEF RelayTypes, Wait
  <2>3. Begun' /\ WatcherIsThrough' /\ DownIsThrough'
    BY <1>1, <2>1 DEF Begun, WatcherIsThrough, DownIsThrough, Settled, Gone
  <2> QED BY <1>2, <2>2, <2>3
<1>4. CASE Drain
  <2>1. /\ main = "drain" /\ (main' = "drain" \/ main' = "return")
        /\ error' = error \/ error' = TRUE
        /\ errChan' = errChan \/ (errChan.queue > 0 /\ errChan' = [errChan EXCEPT !.queue = @ - 1])
        /\ raced' = raced
    BY <1>4, Zenon DEF Drain
  <2>2. RelayTypes'
    <3>1. errChan \in [queue : Nat, closed : BOOLEAN] => errChan' \in [queue : Nat, closed : BOOLEAN]
      BY <2>1
    <3>2. error \in BOOLEAN => error' \in BOOLEAN
      BY <2>1
    <3> QED BY <1>1, <2>1, <3>1, <3>2 DEF RelayTypes
  <2>3. Begun' /\ WatcherIsThrough' /\ DownIsThrough'
    BY <1>1, <2>1 DEF Begun, WatcherIsThrough, DownIsThrough, Settled, Gone
  <2> QED BY <1>2, <2>2, <2>3
<1>5. CASE OnStreamRPC
  <2>1. /\ main = "return" /\ UNCHANGED <<errChan, error, raced>>
        /\ main' = "failed" \/ (main' = "ok" /\ ~error)
    BY <1>5 DEF OnStreamRPC
  <2>2. RelayTypes'
    BY <1>1, <2>1 DEF RelayTypes
  <2>3. Begun' /\ WatcherIsThrough' /\ DownIsThrough'
    BY <1>1, <2>1 DEF Begun, WatcherIsThrough, DownIsThrough, Settled, Gone
  <2> QED BY <1>2, <2>2, <2>3
<1> QED BY <1>3, <1>4, <1>5

LEMMA RelayInvStep ==
    ASSUME RelayInv, [RelayNext]_relayVars PROVE RelayInv'
<1>1. CASE UNCHANGED relayVars
  BY <1>1 DEF relayVars, RelayInv, RelayTypes, UpInHand, EofIsLast, DownInHand, Begun,
              WatcherIsThrough, DownIsThrough, Settled, Gone
<1>2. CASE RelayNext
  BY <1>2, ClientStep, BackendStep, handleStreamStep, UpStep, LoopTopStep, DownStep,
     WatcherStep, MainStep DEF RelayNext, Filter
<1> QED BY <1>1, <1>2

\* A failure that ended the downward direction is in the channel, in the hand of
\* the watcher or in the context, and only a watcher that was late takes it out
\* of there.
FailureIsKept ==
    /\ main \in {"start", "wait"} => ~raced
    /\ main \in {"drain", "return", "ok", "failed"} /\ ~raced => watcher \in {"idle", "done"}
    /\ down.pc = "done" /\ ~Gone /\ backend.status # "ok" =>
          \/ raced \/ error
          \/ errChan.queue > 0 /\ main \in {"wait", "drain"}
          \/ watcher = "set" /\ main = "wait"
    /\ main = "ok" => raced \/ ~error

LEMMA FailureIsKeptStep ==
    ASSUME RelayInv, FailureIsKept, [RelayNext]_relayVars PROVE FailureIsKept'
<1> USE DEF RelayInv
<1>1. error \in BOOLEAN /\ raced \in BOOLEAN /\ errChan.queue \in Nat
  BY DEF RelayTypes
<1>2. CASE UNCHANGED relayVars
  BY <1>2 DEF relayVars, FailureIsKept, Gone
<1>3. CASE ClientSend \/ ClientClose
  <2>1. UNCHANGED <<backend, down, watcher, main, errChan, error, raced>> /\ (Gone => Gone')
    BY <1>3 DEF ClientSend, ClientClose, Gone, RelayTypes
  <2> QED BY <2>1 DEF FailureIsKept
<1>4. CASE BackendReply \/ BackendEnd
  <2>1. UNCHANGED <<client, down, watcher, main, errChan, error, raced>> /\ backend.status = "none"
    BY <1>4 DEF BackendReply, BackendEnd
  <2> QED BY <2>1 DEF FailureIsKept, Gone
<1>5. CASE handleStream
  <2>1. /\ UNCHANGED raced
        /\ \/ main' = "wait" /\ down' = [down EXCEPT !.pc = "top"]
           \/ main' = "return" /\ error' = TRUE /\ watcher' = watcher
    BY <1>5 DEF handleStream
  <2>2. main = "start" /\ watcher = "idle"
    BY <1>5 DEF handleStream, Begun
  <2>3. down \in Direction
    BY DEF RelayTypes
  <2> QED BY <2>1, <2>2, <2>3 DEF FailureIsKept, Direction
<1>6. CASE forwardClientToServer \/ SendToBackend
  <2>1. /\ UNCHANGED <<client, down, watcher, main, error, raced>>
        /\ backend'.status = backend.status /\ errChan'.queue >= errChan.queue
    <3>1. /\ errChan \in [queue : Nat, closed : BOOLEAN]
          /\ backend \in [got : Nat, sent : Nat, eof : BOOLEAN, status : {"none", "ok", "error"}]
      BY DEF RelayTypes
    <3>2. CASE forwardClientToServer
      BY <1>1, <3>1, <3>2 DEF forwardClientToServer, Report
    <3>3. CASE SendToBackend
      <4> DEFINE e == ~streaming
      <4>1. \/ backend' = [backend EXCEPT !.got = @ + 1, !.eof = e] /\ errChan' = errChan
            \/ backend' = backend /\ errChan' = [errChan EXCEPT !.queue = @ + 1]
        BY <3>3 DEF SendToBackend, Report
      <4> HIDE DEF e
      <4>2. backend'.status = backend.status
        BY <3>1, <4>1
      <4>3. errChan'.queue >= errChan.queue
        BY <1>1, <3>1, <4>1
      <4> QED BY <3>3, <4>2, <4>3 DEF SendToBackend
    <3> QED BY <1>6, <3>2, <3>3
  <2>2. errChan'.queue >= errChan.queue /\ errChan.queue > 0 => errChan'.queue > 0
    <3>1. errChan'.queue \in Nat
      BY <1>6, RelayInvStep DEF RelayTypes, RelayNext, Filter
    <3> QED BY <1>1, <3>1
  <2> QED BY <2>1, <2>2 DEF FailureIsKept, Gone
<1>7. CASE LoopTop
  <2>1. /\ UNCHANGED <<client, backend, watcher, main, errChan, error, raced>>
        /\ down' = down \/ done \/ down'.pc = "recv"
    <3>1. down \in Direction
      BY DEF RelayTypes
    <3> QED BY <1>7, <3>1 DEF LoopTop, Direction
  <2>2. done => Gone \/ error \/ main \notin {"start", "wait"}
    BY DEF WatcherIsThrough
  <2>3. CASE down' # down
    <3>1. main \notin {"drain", "ok"} /\ (main \in {"return", "failed"} => error)
      BY <1>7, <2>3 DEF LoopTop, Begun
    <3> QED BY <2>1, <2>2, <3>1 DEF FailureIsKept, Gone, RelayTypes
  <2> QED BY <2>1, <2>3 DEF FailureIsKept, Gone
<1>8. CASE forwardServerToClient \/ SendToClient
  <2>1. /\ UNCHANGED <<backend, watcher, main, error, raced>> /\ client'.state = client.state
        /\ down.pc \in {"recv", "send"}
        /\ down'.pc = "done" /\ ~Gone /\ backend.status # "ok" => errChan'.queue > 0
    BY <1>1, <1>8 DEF forwardServerToClient, SendToClient, Report, RelayTypes, Direction
  <2>2. main \notin {"start", "drain", "ok"} /\ (main \in {"return", "failed"} => error)
    BY <2>1 DEF Begun
  <2> QED BY <2>1, <2>2 DEF FailureIsKept, Gone, RelayTypes
<1>9. CASE Watch \/ WatcherSetError \/ CloseDone
  <2>1. UNCHANGED <<client, backend, down, main, raced>> /\ watcher \notin {"idle", "done"}
    BY <1>9 DEF Watch, WatcherSetError, CloseDone
  <2>2. ~raced => main \notin {"drain", "return", "ok", "failed"}
    BY <2>1 DEF FailureIsKept
  <2>3. /\ watcher' = "set" \/ errChan' = errChan
        /\ error' = error \/ error' = TRUE \/ watcher = "clear"
        /\ watcher = "set" => error' = TRUE \/ watcher' = "set"
    BY <1>9 DEF Watch, WatcherSetError, CloseDone
  <2>4. watcher = "clear" => main \notin {"start", "wait"}
    BY DEF WatcherIsThrough
  <2>5. down.pc = "done" => main # "start"
    BY DEF Begun
  <2> QED BY <1>1, <2>1, <2>2, <2>3, <2>4, <2>5 DEF FailureIsKept, Gone, RelayTypes
<1>10. CASE Wait
  <2>1. /\ UNCHANGED <<client, backend, down, watcher, error>> /\ main = "wait" /\ main' = "drain"
        /\ raced' = (watcher # "done") /\ errChan'.queue = errChan.queue
    BY <1>10 DEF Wait, RelayTypes
  <2> QED BY <1>1, <2>1 DEF FailureIsKept, Gone
<1>11. CASE Drain
  <2>1. /\ UNCHANGED <<client, backend, down, watcher, raced>> /\ main = "drain"
        /\ \/ error' = TRUE /\ main' = "drain"
           \/ errChan.queue = 0 /\ error' = error /\ main' = "return"
    BY <1>1, <1>11 DEF Drain
  <2> QED BY <1>1, <2>1 DEF FailureIsKept, Gone
<1>12. CASE OnStreamRPC
  <2>1. /\ UNCHANGED <<client, backend, down, watcher, errChan, error, raced>> /\ main = "return"
        /\ main' = "failed" \/ (main' = "ok" /\ ~error)
    BY <1>12 DEF OnStreamRPC
  <2> QED BY <1>1, <2>1 DEF FailureIsKept, Gone
<1> QED BY <1>2, <1>3, <1>4, <1>5, <1>6, <1>7, <1>8, <1>9, <1>10, <1>11, <1>12 DEF RelayNext, Filter

-----------------------------------------------------------------------------
(***************************************************************************)
(* The pool, for any callers, backends and failures                        *)
(***************************************************************************)
Connection == [address : Address, state : {"good", "bad", "closed"}, broke : BOOLEAN]

PoolRequest == [pc : {"idle", "lock", "dial", "got"}, address : Address \cup {Nothing},
            got : Nat \cup {Nothing}]

PoolTypes ==
    /\ pool \in [Address -> Nat \cup {Nothing}]
    /\ conn \in Seq(Connection)
    /\ monitor \in Seq({"watch", "remove", "done"}) /\ Len(monitor) = Len(conn)
    /\ caller \in [Caller -> PoolRequest]

\* What the pool holds for a backend is a connection to that backend, and every
\* connection that never broke is there: nothing takes it out or replaces it.
Pooled ==
    /\ \A a \in Address : pool[a] # Nothing =>
          pool[a] \in DOMAIN conn /\ conn[pool[a]].address = a
    /\ \A i \in DOMAIN conn : ~conn[i].broke =>
          conn[i].state = "good" /\ pool[conn[i].address] = i /\ monitor[i] # "remove"

\* Who dials holds the mutex, and the pool has no connection for its backend.
DialsAlone ==
    /\ \A c \in Caller : caller[c].pc \in {"lock", "dial"} => caller[c].address \in Address
    /\ \A c \in Caller : caller[c].pc = "dial" => mu = c /\ pool[caller[c].address] = Nothing

PoolInv == PoolTypes /\ Pooled /\ DialsAlone

LEMMA ConnectionTypes ==
    ASSUME PoolTypes
    PROVE  /\ conn \in Seq(Connection) /\ DOMAIN conn = 1..Len(conn) /\ Len(conn) \in Nat
           /\ DOMAIN monitor = DOMAIN conn
           /\ \A i \in DOMAIN conn : conn[i] \in Connection /\ conn[i].address \in Address
<1>1. /\ conn \in Seq(Connection) /\ DOMAIN conn = 1..Len(conn) /\ Len(conn) \in Nat
      /\ DOMAIN monitor = DOMAIN conn
  BY DEF PoolTypes
<1>2. \A i \in DOMAIN conn : conn[i] \in Connection
  BY <1>1
<1>3. \A k \in Connection : k.address \in Address
  BY DEF Connection
<1> QED BY <1>1, <1>2, <1>3

LEMMA PoolInvInit == PoolInit => PoolInv
<1> SUFFICES ASSUME PoolInit PROVE PoolInv
  OBVIOUS
<1>1. conn = <<>> /\ monitor = <<>> /\ DOMAIN conn = {}
  BY DEF PoolInit
<1>2. PoolTypes
  BY <1>1 DEF PoolInit, PoolTypes, PoolRequest
<1>3. Pooled /\ DialsAlone
  BY <1>1 DEF PoolInit, Pooled, DialsAlone
<1> QED BY <1>2, <1>3 DEF PoolInv

LEMMA LookStep ==
    ASSUME PoolInv, NEW c \in Caller, NEW a \in Address, getOrCreateConnection(c, a)
    PROVE  PoolInv'
<1> USE DEF PoolInv
<1>1. UNCHANGED <<pool, conn, mu, monitor>>
  BY DEF getOrCreateConnection
<1>2. PICK r \in PoolRequest : /\ r.pc \in {"got", "lock"} /\ r.address = a
                          /\ caller' = [caller EXCEPT ![c] = r]
  <2>1. pool[a] \in Nat \cup {Nothing}
    BY DEF PoolTypes
  <2>2. /\ [pc |-> "got", address |-> a, got |-> pool[a]] \in PoolRequest
        /\ [pc |-> "lock", address |-> a, got |-> Nothing] \in PoolRequest
    BY <2>1 DEF PoolRequest
  <2>3. CASE Usable(a)
    BY <2>2, <2>3 DEF getOrCreateConnection
  <2>4. CASE ~Usable(a)
    BY <2>2, <2>4 DEF getOrCreateConnection
  <2> QED BY <2>3, <2>4
<1>3. PoolTypes'
  BY <1>1, <1>2 DEF PoolTypes
<1>4. Pooled'
  BY <1>1 DEF Pooled
<1>5. DialsAlone'
  BY <1>1, <1>2 DEF DialsAlone, PoolTypes
<1> QED BY <1>3, <1>4, <1>5

LEMMA ReleaseStep ==
    ASSUME PoolInv, NEW c \in Caller, Release(c) PROVE PoolInv'
<1> USE DEF PoolInv
<1>1. UNCHANGED <<pool, conn, mu, monitor>>
  BY DEF Release
<1>2. PoolTypes'
  BY <1>1 DEF Release, PoolTypes, PoolRequest
<1>3. Pooled'
  BY <1>1 DEF Pooled
<1>4. DialsAlone'
  BY <1>1 DEF Release, DialsAlone, PoolTypes
<1> QED BY <1>2, <1>3, <1>4

LEMMA DoubleCheckStep ==
    ASSUME PoolInv, NEW c \in Caller, DoubleCheck(c) PROVE PoolInv'
<1> USE DEF PoolInv
<1> DEFINE a == caller[c].address
<1>1. /\ a \in Address /\ mu = Nothing /\ UNCHANGED <<conn, monitor>>
      /\ caller \in [Caller -> PoolRequest] /\ caller[c] \in PoolRequest
  BY DEF DoubleCheck, DialsAlone, PoolTypes
<1>2. \A d \in Caller : caller[d].pc # "dial"
  BY <1>1, NobodyAssumption DEF DialsAlone
<1>3. CASE /\ Usable(a) /\ UNCHANGED <<pool, mu>>
           /\ caller' = [caller EXCEPT ![c].pc = "got", ![c].got = pool[a]]
  <2>1. pool[a] \in Nat \cup {Nothing}
    BY <1>1 DEF PoolTypes
  <2>2. /\ caller' \in [Caller -> PoolRequest]
        /\ \A d \in Caller : caller'[d] = caller[d] \/ caller'[d].pc = "got"
    BY <1>1, <1>3, <2>1 DEF PoolRequest
  <2>3. PoolTypes' /\ Pooled'
    BY <1>1, <1>3, <2>2 DEF PoolTypes, Pooled
  <2>4. DialsAlone'
    BY <1>1, <1>3, <2>2 DEF DialsAlone
  <2> QED BY <2>3, <2>4
<1>4. CASE /\ ~Usable(a) /\ pool' = [pool EXCEPT ![a] = Nothing] /\ mu' = c
           /\ caller' = [caller EXCEPT ![c].pc = "dial"]
  <2>1. /\ caller' \in [Caller -> PoolRequest] /\ caller'[c].pc = "dial"
        /\ caller'[c].address = a
        /\ \A d \in Caller \ {c} : caller'[d] = caller[d]
    BY <1>1, <1>4 DEF PoolRequest
  <2>2. /\ pool' \in [Address -> Nat \cup {Nothing}] /\ pool'[a] = Nothing
        /\ \A b \in Address \ {a} : pool'[b] = pool[b]
    BY <1>1, <1>4 DEF PoolTypes
  <2>3. PoolTypes'
    BY <1>1, <2>1, <2>2 DEF PoolTypes
  <2>4. \A i \in DOMAIN conn : ~conn[i].broke => conn[i].address # a
    <3> SUFFICES ASSUME NEW i \in DOMAIN conn, ~conn[i].broke, conn[i].address = a PROVE FALSE
      OBVIOUS
    <3>1. conn[i].state = "good" /\ pool[a] = i
      BY DEF Pooled
    <3>2. i \in Nat
      BY DEF PoolTypes
    <3>3. i # Nothing
      BY <3>2, NobodyAssumption
    <3> QED BY <1>4, <3>1, <3>3 DEF Usable
  <2>5. \A i \in DOMAIN conn : conn[i].address \in Address
    BY ConnectionTypes
  <2>6. Pooled'
    BY <1>1, <2>2, <2>4, <2>5 DEF Pooled
  <2>7. DialsAlone'
    BY <1>1, <1>2, <1>4, <2>1, <2>2 DEF DialsAlone
  <2> QED BY <2>3, <2>6, <2>7
<1> QED BY <1>3, <1>4 DEF DoubleCheck

LEMMA DialStep ==
    ASSUME PoolInv, NEW c \in Caller, createConnection(c) PROVE PoolInv'
<1> USE DEF PoolInv
<1> DEFINE a == caller[c].address
           n == Len(conn) + 1
           idle == [pc |-> "idle", address |-> Nothing, got |-> Nothing]
           fresh == [address |-> a, state |-> "good", broke |-> FALSE]
<1>1. /\ a \in Address /\ pool[a] = Nothing /\ mu = c /\ mu' = Nothing
      /\ caller \in [Caller -> PoolRequest] /\ caller[c] \in PoolRequest
      /\ conn \in Seq(Connection) /\ DOMAIN conn = 1..Len(conn) /\ Len(conn) \in Nat
      /\ monitor \in Seq({"watch", "remove", "done"}) /\ Len(monitor) = Len(conn)
      /\ pool \in [Address -> Nat \cup {Nothing}]
  BY DEF createConnection, DialsAlone, PoolTypes
<1>2. \A d \in Caller \ {c} : caller[d].pc # "dial"
  BY <1>1 DEF DialsAlone
<1>3. CASE UNCHANGED <<conn, pool, monitor>> /\ caller' = [caller EXCEPT ![c] = idle]
  <2>1. /\ caller' \in [Caller -> PoolRequest] /\ caller'[c].pc = "idle"
        /\ \A d \in Caller \ {c} : caller'[d] = caller[d]
    BY <1>1, <1>3 DEF PoolRequest
  <2>2. PoolTypes' /\ Pooled'
    BY <1>1, <1>3, <2>1 DEF PoolTypes, Pooled
  <2>3. DialsAlone'
    BY <1>1, <1>2, <1>3, <2>1 DEF DialsAlone
  <2> QED BY <2>2, <2>3
<1>4. CASE /\ conn' = Append(conn, fresh) /\ monitor' = Append(monitor, "watch")
           /\ pool' = [pool EXCEPT ![a] = Len(conn')]
           /\ caller' = [caller EXCEPT ![c].pc = "got", ![c].got = Len(conn')]
  <2>1. fresh \in Connection /\ fresh.address = a /\ fresh.state = "good" /\ ~fresh.broke
    BY <1>1 DEF Connection
  <2> HIDE DEF fresh
  <2>2. /\ conn' \in Seq(Connection) /\ Len(conn') = n /\ DOMAIN conn' = 1..n /\ conn'[n] = fresh
        /\ \A i \in DOMAIN conn : i \in DOMAIN conn' /\ conn'[i] = conn[i] /\ i # n
        /\ \A i \in DOMAIN conn' : i = n \/ i \in DOMAIN conn
    BY <1>1, <1>4, <2>1
  <2>3. /\ monitor' \in Seq({"watch", "remove", "done"}) /\ Len(monitor') = n /\ monitor'[n] = "watch"
        /\ \A i \in DOMAIN conn : monitor'[i] = monitor[i]
    BY <1>1, <1>4
  <2>4. n \in Nat /\ n # Nothing
    BY <1>1, NobodyAssumption
  <2> HIDE DEF n
  <2>5. /\ pool' \in [Address -> Nat \cup {Nothing}] /\ pool'[a] = n
        /\ \A b \in Address \ {a} : pool'[b] = pool[b]
    BY <1>1, <1>4, <2>2, <2>4
  <2>6. /\ caller' \in [Caller -> PoolRequest] /\ caller'[c].pc = "got"
        /\ \A d \in Caller \ {c} : caller'[d] = caller[d]
    BY <1>1, <1>4, <2>2, <2>4 DEF PoolRequest
  <2>7. PoolTypes'
    BY <2>2, <2>3, <2>5, <2>6 DEF PoolTypes
  <2>8. \A b \in Address : pool'[b] # Nothing => pool'[b] \in DOMAIN conn' /\ conn'[pool'[b]].address = b
    <3> SUFFICES ASSUME NEW b \in Address, pool'[b] # Nothing
                 PROVE  pool'[b] \in DOMAIN conn' /\ conn'[pool'[b]].address = b
      OBVIOUS
    <3>1. CASE b = a
      <4>1. n \in DOMAIN conn'
        BY <1>1, <2>2 DEF n
      <4> QED BY <2>1, <2>2, <2>5, <3>1, <4>1
    <3>2. CASE b # a
      BY <2>2, <2>5, <3>2 DEF Pooled
    <3> QED BY <3>1, <3>2
  <2>9. \A i \in DOMAIN conn' : ~conn'[i].broke =>
          conn'[i].state = "good" /\ pool'[conn'[i].address] = i /\ monitor'[i] # "remove"
    <3> SUFFICES ASSUME NEW i \in DOMAIN conn', ~conn'[i].broke
                 PROVE  conn'[i].state = "good" /\ pool'[conn'[i].address] = i /\ monitor'[i] # "remove"
      OBVIOUS
    <3>1. CASE i = n
      BY <2>1, <2>2, <2>3, <2>5, <3>1
    <3>2. CASE i # n
      <4>1. i \in DOMAIN conn /\ conn'[i] = conn[i] /\ monitor'[i] = monitor[i]
        BY <2>2, <2>3, <3>2
      <4>2. conn[i].state = "good" /\ pool[conn[i].address] = i /\ monitor[i] # "remove"
        BY <4>1 DEF Pooled
      <4>3. i # Nothing
        BY <1>1, <4>1, NobodyAssumption
      <4>4. conn[i].address \in Address
        BY <4>1, ConnectionTypes
      <4> QED BY <1>1, <2>5, <4>1, <4>2, <4>3, <4>4
    <3> QED BY <3>1, <3>2
  <2>10. Pooled'
    BY <2>8, <2>9 DEF Pooled
  <2>11. DialsAlone'
    BY <1>1, <1>2, <2>6 DEF DialsAlone
  <2> QED BY <2>7, <2>10, <2>11
<1> QED BY <1>3, <1>4 DEF createConnection

LEMMA ConnectionStep ==
    ASSUME PoolInv, NEW i \in DOMAIN conn, Breaks(i) \/ Recovers(i) PROVE PoolInv'
<1> USE DEF PoolInv
<1>1. /\ conn \in Seq(Connection) /\ DOMAIN conn = 1..Len(conn) /\ Len(conn) \in Nat
      /\ conn[i] \in Connection /\ UNCHANGED <<pool, caller, mu, monitor>>
  BY DEF PoolTypes, Breaks, Recovers
<1>2. PICK k \in Connection : /\ k.address = conn[i].address /\ k.broke
                             /\ conn' = [conn EXCEPT ![i] = k]
  <2>1. CASE Breaks(i)
    <3> DEFINE k == [conn[i] EXCEPT !.state = "bad", !.broke = TRUE]
    <3>1. k \in Connection /\ k.address = conn[i].address /\ k.broke
      BY <1>1 DEF Connection
    <3>2. conn' = [conn EXCEPT ![i] = k]
      BY <2>1 DEF Breaks
    <3> QED BY <3>1, <3>2
  <2>2. CASE Recovers(i)
    <3> DEFINE k == [conn[i] EXCEPT !.state = "good"]
    <3>1. conn[i].broke
      BY <2>2 DEF Recovers, Pooled
    <3>2. k \in Connection /\ k.address = conn[i].address /\ k.broke
      BY <1>1, <3>1 DEF Connection
    <3>3. conn' = [conn EXCEPT ![i] = k]
      BY <2>2 DEF Recovers
    <3> QED BY <3>2, <3>3
  <2> QED BY <2>1, <2>2
<1>3. /\ conn' \in Seq(Connection) /\ Len(conn') = Len(conn) /\ DOMAIN conn' = DOMAIN conn
      /\ conn'[i] = k /\ \A j \in DOMAIN conn \ {i} : conn'[j] = conn[j]
  BY <1>1, <1>2
<1>4. PoolTypes'
  BY <1>1, <1>3 DEF PoolTypes
<1>5. Pooled'
  BY <1>1, <1>2, <1>3 DEF Pooled
<1>6. DialsAlone'
  BY <1>1 DEF DialsAlone
<1> QED BY <1>4, <1>5, <1>6

LEMMA MonitorStep ==
    ASSUME PoolInv, NEW i \in DOMAIN conn, monitorConnection(i) \/ RemoveBroken(i) PROVE PoolInv'
<1> USE DEF PoolInv
<1>1. /\ conn \in Seq(Connection) /\ DOMAIN conn = 1..Len(conn) /\ Len(conn) \in Nat
      /\ monitor \in Seq({"watch", "remove", "done"}) /\ Len(monitor) = Len(conn)
      /\ DOMAIN monitor = DOMAIN conn
      /\ conn[i].address \in Address /\ UNCHANGED <<conn, caller, mu>>
  BY ConnectionTypes DEF PoolTypes, monitorConnection, RemoveBroken
<1>2. conn[i].broke
  BY <1>1 DEF Pooled, monitorConnection, RemoveBroken
<1>3. /\ monitor' \in Seq({"watch", "remove", "done"}) /\ Len(monitor') = Len(conn)
      /\ \A j \in DOMAIN conn \ {i} : monitor'[j] = monitor[j]
  <2>1. PICK m \in {"remove", "done"} : monitor' = [monitor EXCEPT ![i] = m]
    BY DEF monitorConnection, RemoveBroken
  <2> QED BY <1>1, <2>1
<1>4. /\ pool' \in [Address -> Nat \cup {Nothing}]
      /\ \A b \in Address : pool'[b] = pool[b] \/ (pool[b] = i /\ pool'[b] = Nothing)
  BY <1>1 DEF PoolTypes, monitorConnection, RemoveBroken
<1>5. PoolTypes'
  BY <1>1, <1>3, <1>4 DEF PoolTypes
<1>6. \A j \in DOMAIN conn : conn[j].address \in Address
  BY ConnectionTypes
<1>7. Pooled'
  BY <1>1, <1>2, <1>3, <1>4, <1>6 DEF Pooled
<1>8. DialsAlone'
  BY <1>1, <1>4 DEF DialsAlone
<1> QED BY <1>5, <1>7, <1>8

LEMMA CloseStep == ASSUME PoolInv, ClosePool PROVE PoolInv'
<1> USE DEF PoolInv
<1>1. /\ conn \in Seq(Connection) /\ DOMAIN conn = 1..Len(conn) /\ Len(conn) \in Nat
      /\ UNCHANGED <<pool, caller, mu, monitor>>
  BY ConnectionTypes DEF ClosePool
<1>2. /\ DOMAIN conn' = DOMAIN conn
      /\ \A i \in DOMAIN conn : \/ conn'[i] = conn[i]
                               \/ conn'[i] = [conn[i] EXCEPT !.state = "closed", !.broke = TRUE]
  BY DEF ClosePool
<1>3. \A i \in DOMAIN conn : /\ conn'[i] \in Connection /\ conn'[i].address = conn[i].address
                             /\ conn'[i] = conn[i] \/ conn'[i].broke
  <2> SUFFICES ASSUME NEW i \in DOMAIN conn
               PROVE  /\ conn'[i] \in Connection /\ conn'[i].address = conn[i].address
                      /\ conn'[i] = conn[i] \/ conn'[i].broke
    OBVIOUS
  <2>1. conn[i] \in Connection
    BY <1>1
  <2> QED BY <1>2, <2>1 DEF Connection
<1>4. conn' \in Seq(Connection) /\ Len(conn') = Len(conn)
  <2>1. conn' = [j \in 1..Len(conn) |-> conn'[j]]
    BY <1>1, <1>2 DEF ClosePool
  <2>2. conn' \in Seq(Connection)
    BY <1>1, <1>3, <2>1, IsASeq
  <2>3. Len(conn') \in Nat /\ 1..Len(conn') = 1..Len(conn)
    BY <1>1, <1>2, <2>2, LenProperties
  <2>4. \A m, n \in Nat : 1..m = 1..n => m <= n
    <3> SUFFICES ASSUME NEW m \in Nat, NEW n \in Nat, 1..m = 1..n, m > n PROVE FALSE
      OBVIOUS
    <3>1. m \in 1..m
      OBVIOUS
    <3> QED BY <3>1
  <2> QED BY <1>1, <2>2, <2>3, <2>4
<1>5. PoolTypes'
  BY <1>1, <1>4 DEF PoolTypes
<1>6. Pooled'
  BY <1>1, <1>2, <1>3 DEF Pooled
<1>7. DialsAlone'
  BY <1>1 DEF DialsAlone
<1> QED BY <1>5, <1>6, <1>7

LEMMA PoolInvStep ==
    ASSUME PoolInv, [PoolNext]_poolVars PROVE PoolInv'
<1>1. CASE UNCHANGED poolVars
  BY <1>1 DEF poolVars, PoolInv, PoolTypes, Pooled, DialsAlone
<1>2. CASE PoolNext
  BY <1>2, CloseStep, LookStep, DoubleCheckStep, DialStep, ReleaseStep, ConnectionStep,
     MonitorStep DEF PoolNext
<1> QED BY <1>1, <1>2

\* No caller and no backend is told of a whole where there is a half, no caller of
\* success where the backend failed unless the watcher was late, and no sound
\* connection is dialled twice: for any number of messages, replies, requests,
\* backends and failures, in any order of the goroutines.
THEOREM RelayStaysSound == RelaySpec /\ PoolSpec => []RelayIsSound
<1>1. RelaySpec => [](RelayInv /\ FailureIsKept)
  <2>1. RelayInit => FailureIsKept
    BY DEF RelayInit, FailureIsKept
  <2> QED BY <2>1, RelayInvInit, RelayInvStep, FailureIsKeptStep, PTL DEF RelaySpec
<1>2. PoolSpec => []PoolInv
  BY PoolInvInit, PoolInvStep, PTL DEF PoolSpec
<1>3. RelayInv => EndIsComplete /\ OkIsDelivered
  BY DEF RelayInv, EofIsLast, DownIsThrough, Settled, EndIsComplete, OkIsDelivered, Gone
<1>4. RelayInv /\ FailureIsKept => FailureIsTold
  BY DEF RelayInv, RelayTypes, Begun, FailureIsKept, FailureIsTold
<1>5. PoolInv => OneSoundConnection
  BY DEF PoolInv, Pooled, OneSoundConnection
<1> QED BY <1>1, <1>2, <1>3, <1>4, <1>5, PTL DEF RelayIsSound
-----------------------------------------------------------------------------
(***************************************************************************)
(* The descriptors of the HTTP to gRPC filter, for any number of requests, *)
(* lookups and connections                                                 *)
(***************************************************************************)
Descriptor == [method : Method, early : SUBSET Conn]

Lookup == [pc : {"start", "source", "lookup", "find", "store", "extensions", "lock", "register", "invoke",
                 "done", "fail"},
           conn : Nat, method : Method \cup {Absent}, state : Nat, generation : Nat,
           early : SUBSET Conn]

DescriptorTypes ==
    /\ current \in Conn /\ removed \subseteq Conn /\ closed \in BOOLEAN
    /\ generation \in Seq(Nat) /\ state \in [Conn -> 0..Len(generation)]
    /\ methodDescs \in [Conn -> SUBSET Descriptor]
    /\ req \in [Request -> Lookup]
    /\ \A r \in Request : req[r].pc # "start" => req[r].conn \in Conn /\ req[r].method \in Method

\* A lookup under way compares with a state that was made.  As long as the
\* generation is the one it read, that state is still the state of its connection,
\* and the connection was not removed since the lookup began.
LookupsAreDated ==
    \A r \in Request : req[r].pc \in {"find", "store"} =>
        /\ req[r].state \in 1..Len(generation)
        /\ req[r].generation <= generation[req[r].state]
        /\ ~closed /\ generation[req[r].state] = req[r].generation =>
              /\ state[req[r].conn] = req[r].state
              /\ req[r].conn \in removed => req[r].conn \in req[r].early

\* What is cached for a removed connection was asked for after the removal; a closed
\* filter caches nothing.
CacheIsDated ==
    /\ \A c \in Conn : c \in removed => \A d \in methodDescs[c] : c \in d.early
    /\ closed => \A c \in Conn : methodDescs[c] = {}

\* A message is marked after its extensions are known, and a call goes out after
\* both its messages are marked.
MarkedIsKnown ==
    /\ registered \subseteq extReg
    /\ \A r \in Request : req[r].pc = "invoke" =>
          req[r].method[1] \in registered /\ req[r].method[2] \in registered

DescriptorInv == DescriptorTypes /\ LookupsAreDated /\ CacheIsDated /\ MarkedIsKnown

\* What the invariant says of the cache and of the calls is what the run checks.
LEMMA DescriptorInvEnough == DescriptorInv => DescriptorsAreSound
<1>1. ASSUME DescriptorInv PROVE NoStaleDescriptor
    BY <1>1 DEF DescriptorInv, CacheIsDated, NoStaleDescriptor
<1>2. ASSUME DescriptorInv PROVE ExtensionsAreKnown
    BY <1>2 DEF DescriptorInv, MarkedIsKnown, ExtensionsAreKnown
<1> QED BY <1>1, <1>2 DEF DescriptorsAreSound

\* Nothing is looked up or cached at first.
LEMMA DescriptorInvInit ==
    ASSUME MaxConns \in Nat \ {0}, Init
    PROVE  DescriptorInv
<1> USE DEF Init, Start
<1>1. DescriptorTypes
  <2>1. generation \in Seq(Nat) /\ Len(generation) = 0 OBVIOUS
  <2>2. state \in [Conn -> 0..Len(generation)] BY <2>1
  <2>3. req \in [Request -> Lookup] BY DEF Lookup
  <2>4. \A r \in Request : req[r].pc = "start" OBVIOUS
  <2>5. current \in Conn BY DEF Conn
  <2>6. removed \subseteq Conn /\ closed \in BOOLEAN OBVIOUS
  <2>7. methodDescs \in [Conn -> SUBSET Descriptor] OBVIOUS
  <2> QED BY <2>1, <2>2, <2>3, <2>4, <2>5, <2>6, <2>7 DEF DescriptorTypes
<1>2. LookupsAreDated /\ MarkedIsKnown BY DEF LookupsAreDated, MarkedIsKnown
<1>3. CacheIsDated BY DEF CacheIsDated, Conn
<1> QED BY <1>1, <1>2, <1>3 DEF DescriptorInv

\* A request that only moves on, to no lookup and to no call that is not due,
\* leaves what it leaves alone sound (Go).
LEMMA GoStep ==
    ASSUME DescriptorInv, NEW r \in Request, NEW pc, req[r].pc # "start", Go(r, pc),
           pc \in {"lookup", "store", "extensions", "lock", "register", "invoke", "done", "fail"},
           pc = "store" => req[r].pc = "find",
           pc = "invoke" => req[r].method[1] \in registered /\ req[r].method[2] \in registered,
           UNCHANGED <<current, methodDescs, state, generation, closed, removed, registered, extReg>>
    PROVE  DescriptorInv'
<1> USE DEF DescriptorInv, Go
<1>1. req \in [Request -> Lookup] BY DEF DescriptorTypes
<1>2. /\ req'[r].pc = pc
      /\ \A q \in Request : q # r => req'[q] = req[q]
      /\ \A q \in Request :
            /\ req'[q].conn = req[q].conn /\ req'[q].method = req[q].method
            /\ req'[q].state = req[q].state /\ req'[q].generation = req[q].generation
            /\ req'[q].early = req[q].early
    BY <1>1 DEF Lookup
<1>3. DescriptorTypes' BY <1>2 DEF DescriptorTypes, Lookup, Conn
<1>4. LookupsAreDated' BY <1>2 DEF LookupsAreDated
<1>5. CacheIsDated' BY DEF CacheIsDated, Conn
<1>6. MarkedIsKnown' BY <1>2 DEF MarkedIsKnown
<1> QED BY <1>3, <1>4, <1>5, <1>6

\* A request gets its connection, is looked up and ends.
LEMMA RequestStep ==
    ASSUME DescriptorInv, NEW r \in Request, MaxConns \in Nat,
           \/ Decode(r) \/ getDescriptorSource(r) \/ FindSymbol(r) \/ Finish(r)
           \/ registerExtension(r) \/ LockExtensions(r)
    PROVE  DescriptorInv'
<1>1. CASE Decode(r)
  <2>1. PICK m \in Method :
           req' = [req EXCEPT ![r] = [Start EXCEPT !.pc = "source", !.conn = current, !.method = m]]
      BY <1>1 DEF Decode
  <2>2. req \in [Request -> Lookup] /\ current \in Conn BY DEF DescriptorInv, DescriptorTypes
  <2>3. /\ req'[r] \in Lookup /\ req'[r].pc = "source"
        /\ req'[r].conn = current /\ req'[r].method = m
        /\ \A q \in Request : q # r => req'[q] = req[q]
        /\ req' \in [Request -> Lookup]
    <3> DEFINE new == [Start EXCEPT !.pc = "source", !.conn = current, !.method = m]
    <3>0. Start \in [pc : {"start"}, conn : {0}, method : {Absent}, state : {0},
                     generation : {0}, early : {{}}]
        BY DEF Start
    <3>1. new \in Lookup /\ new.pc = "source" /\ new.conn = current /\ new.method = m
      <4>1. current \in Nat BY <2>2 DEF Conn
      <4>2. new \in [pc : {"source"}, conn : {current}, method : {m}, state : {0},
                     generation : {0}, early : {{}}]
          BY <3>0
      <4> HIDE DEF new
      <4>3. new.pc = "source" /\ new.conn = current /\ new.method = m BY <4>2
      <4>4. new \in Lookup BY <4>1, <4>2 DEF Lookup
      <4> QED BY <4>3, <4>4
    <3>2. req' = [req EXCEPT ![r] = new] BY <2>1
    <3> HIDE DEF new
    <3> QED BY <2>2, <3>1, <3>2
  <2>4. UNCHANGED <<current, methodDescs, state, generation, closed, removed, registered, extReg>>
      BY <1>1 DEF Decode
  <2>5. DescriptorTypes' BY <2>2, <2>3, <2>4 DEF DescriptorInv, DescriptorTypes, Conn
  <2>6. LookupsAreDated' BY <2>3, <2>4 DEF DescriptorInv, LookupsAreDated
  <2>7. CacheIsDated' BY <2>4 DEF DescriptorInv, CacheIsDated, Conn
  <2>8. MarkedIsKnown' BY <2>3, <2>4 DEF DescriptorInv, MarkedIsKnown
  <2> QED BY <2>5, <2>6, <2>7, <2>8 DEF DescriptorInv
<1>6. CASE getDescriptorSource(r)
  <2>1. UNCHANGED <<current, methodDescs, state, generation, closed, removed, registered, extReg>>
        /\ req[r].pc = "source" /\ (Go(r, "lookup") \/ Go(r, "fail"))
      BY <1>6 DEF getDescriptorSource
  <2> QED BY <2>1, GoStep
<1>2. CASE FindSymbol(r)
  <2>1. UNCHANGED <<current, methodDescs, state, generation, closed, removed, registered, extReg>>
        /\ req[r].pc = "find" /\ (Go(r, "store") \/ Go(r, "fail"))
      BY <1>2 DEF FindSymbol
  <2> QED BY <2>1, GoStep
<1>3. CASE Finish(r)
  <2>1. req \in [Request -> Lookup] BY DEF DescriptorInv, DescriptorTypes
  <2>2. /\ req'[r] \in Lookup /\ req'[r].pc = "start"
        /\ \A q \in Request : q # r => req'[q] = req[q]
        /\ req' \in [Request -> Lookup]
      BY <1>3, <2>1 DEF Finish, Start, Lookup
  <2>3. UNCHANGED <<current, methodDescs, state, generation, closed, removed, registered, extReg>>
      BY <1>3 DEF Finish
  <2>4. DescriptorTypes' BY <2>2, <2>3 DEF DescriptorInv, DescriptorTypes, Conn
  <2>5. LookupsAreDated' BY <2>2, <2>3 DEF DescriptorInv, LookupsAreDated
  <2>6. CacheIsDated' BY <2>3 DEF DescriptorInv, CacheIsDated, Conn
  <2>7. MarkedIsKnown' BY <2>2, <2>3 DEF DescriptorInv, MarkedIsKnown
  <2> QED BY <2>4, <2>5, <2>6, <2>7 DEF DescriptorInv
<1>4. CASE registerExtension(r)
  <2> DEFINE known == {req[r].method[1], req[r].method[2]} \subseteq registered
  <2>1. UNCHANGED <<current, methodDescs, state, generation, closed, removed, registered, extReg>>
        /\ req[r].pc = "extensions" /\ Go(r, IF known THEN "invoke" ELSE "lock")
      BY <1>4 DEF registerExtension
  <2>2. CASE known
    <3>1. Go(r, "invoke") BY <2>1, <2>2
    <3>2. req[r].method[1] \in registered /\ req[r].method[2] \in registered BY <2>2
    <3> QED BY <2>1, <3>1, <3>2, GoStep
  <2>3. CASE ~known
    <3>1. Go(r, "lock") BY <2>1, <2>3
    <3> QED BY <2>1, <3>1, GoStep
  <2> QED BY <2>2, <2>3
<1>5. CASE LockExtensions(r)
  <2>1. UNCHANGED <<current, methodDescs, state, generation, closed, removed, registered, extReg>>
        /\ req[r].pc = "lock" /\ Go(r, "register")
      BY <1>5 DEF LockExtensions
  <2> QED BY <2>1, GoStep
<1> QED BY <1>1, <1>2, <1>3, <1>4, <1>5, <1>6

\* A lookup takes the state of its connection, which it makes when there is none: a
\* lookup that is as fresh as before has its state in the map, so its connection has one.
LEMMA LookupStep ==
    ASSUME DescriptorInv, MaxConns \in Nat, NEW r \in Request, getMethodDescriptor(r)
    PROVE  DescriptorInv'
<1> DEFINE c == req[r].conn
           fresh == state[c] = 0
           s == IF fresh THEN Len(generation) + 1 ELSE state[c]
<1>0. /\ UNCHANGED <<current, methodDescs, closed, removed, registered, extReg>>
      /\ req[r].pc = "lookup"
    BY DEF getMethodDescriptor
<1>1. c \in Conn /\ req \in [Request -> Lookup] /\ generation \in Seq(Nat)
      /\ state \in [Conn -> 0..Len(generation)] /\ req[r].method \in Method /\ removed \subseteq Conn
    BY <1>0 DEF DescriptorInv, DescriptorTypes
<1>2. CASE UNCHANGED <<state, generation>> /\ (Go(r, "fail") \/ Go(r, "extensions"))
    BY <1>0, <1>2, GoStep
<1>3. CASE /\ state' = [state EXCEPT ![c] = s]
           /\ generation' = IF fresh THEN Append(generation, 0) ELSE generation
           /\ req' = [req EXCEPT ![r].pc = "find", ![r].state = s,
                         ![r].generation = generation'[s], ![r].early = removed]
  <2>1. /\ generation' \in Seq(Nat) /\ Len(generation) <= Len(generation')
        /\ \A i \in 1..Len(generation) : generation'[i] = generation[i]
        /\ s \in 1..Len(generation')
      BY <1>1, <1>3
  <2>2. generation'[s] \in Nat BY <2>1
  <2>3. /\ req'[r] \in Lookup
        /\ req'[r].pc = "find" /\ req'[r].state = s /\ req'[r].generation = generation'[s]
        /\ req'[r].early = removed /\ req'[r].conn = c /\ req'[r].method = req[r].method
        /\ \A q \in Request : q # r => req'[q] = req[q]
        /\ req' \in [Request -> Lookup]
    <3> DEFINE new == [req[r] EXCEPT !.pc = "find", !.state = s, !.generation = generation'[s],
                                     !.early = removed]
    <3>1. req' = [req EXCEPT ![r] = new] BY <1>1, <1>3 DEF Lookup
    <3>2. s \in Nat BY <2>1
    <3> HIDE DEF s
    <3>3. /\ new \in Lookup /\ new.pc = "find" /\ new.state = s /\ new.generation = generation'[s]
          /\ new.early = removed /\ new.conn = req[r].conn /\ new.method = req[r].method
        BY <1>1, <2>2, <3>2 DEF Lookup
    <3> HIDE DEF new
    <3> QED BY <1>1, <3>1, <3>3
  <2>4. state' \in [Conn -> 0..Len(generation')] /\ state'[c] = s
        /\ \A k \in Conn : k # c => state'[k] = state[k]
      BY <1>1, <1>3, <2>1
  <2>5. DescriptorTypes'
      BY <1>0, <1>1, <2>1, <2>3, <2>4 DEF DescriptorInv, DescriptorTypes, Conn
  <2>6. LookupsAreDated'
    <3> SUFFICES ASSUME NEW q \in Request, req'[q].pc \in {"find", "store"}
                 PROVE  /\ req'[q].state \in 1..Len(generation')
                        /\ req'[q].generation <= generation'[req'[q].state]
                        /\ ~closed' /\ generation'[req'[q].state] = req'[q].generation =>
                              /\ state'[req'[q].conn] = req'[q].state
                              /\ req'[q].conn \in removed' => req'[q].conn \in req'[q].early
        BY DEF LookupsAreDated
    <3>1. CASE q = r BY <3>1, <1>0, <2>1, <2>2, <2>3, <2>4
    <3>2. CASE q # r
      <4>1. req'[q] = req[q] /\ req[q].conn \in Conn
          BY <3>2, <2>3 DEF DescriptorInv, DescriptorTypes
      <4>2. /\ req[q].state \in 1..Len(generation)
            /\ req[q].generation <= generation[req[q].state]
            /\ ~closed /\ generation[req[q].state] = req[q].generation =>
                  /\ state[req[q].conn] = req[q].state
                  /\ req[q].conn \in removed => req[q].conn \in req[q].early
          BY <4>1 DEF DescriptorInv, LookupsAreDated
      <4>3. generation'[req[q].state] = generation[req[q].state] /\ req[q].state \in 1..Len(generation')
          BY <4>2, <2>1, <1>1
      <4>4. state[req[q].conn] = req[q].state => state'[req[q].conn] = req[q].state
          BY <4>1, <4>2, <2>4, <1>1
      <4> QED BY <4>1, <4>2, <4>3, <4>4, <1>0
    <3> QED BY <3>1, <3>2
  <2>7. CacheIsDated' BY <1>0 DEF DescriptorInv, CacheIsDated, Conn
  <2>8. MarkedIsKnown' BY <1>0, <2>3 DEF DescriptorInv, MarkedIsKnown
  <2> QED BY <2>5, <2>6, <2>7, <2>8 DEF DescriptorInv
<1> QED BY <1>2, <1>3 DEF getMethodDescriptor

\* What a lookup that nothing overtook caches is dated as the lookup was.
LEMMA StoreStep ==
    ASSUME DescriptorInv, MaxConns \in Nat, NEW r \in Request, StoreDescriptor(r)
    PROVE  DescriptorInv'
<1> DEFINE c == req[r].conn
           d == [method |-> req[r].method, early |-> req[r].early]
           stale == closed \/ generation[req[r].state] # req[r].generation
<1>0. /\ UNCHANGED <<current, state, generation, closed, removed, registered, extReg>>
      /\ req[r].pc = "store" /\ (Go(r, "fail") \/ Go(r, "extensions"))
      /\ \/ UNCHANGED methodDescs
         \/ ~stale /\ methodDescs' = [methodDescs EXCEPT ![c] = @ \cup {d}]
    BY DEF StoreDescriptor
<1>1. CASE UNCHANGED methodDescs BY <1>0, <1>1, GoStep
<1>2. CASE ~stale /\ methodDescs' = [methodDescs EXCEPT ![c] = @ \cup {d}]
  <2>1. /\ c \in Conn /\ req \in [Request -> Lookup] /\ req[r].method \in Method
        /\ methodDescs \in [Conn -> SUBSET Descriptor]
      BY <1>0 DEF DescriptorInv, DescriptorTypes
  <2>2. d \in Descriptor /\ d.early = req[r].early BY <2>1 DEF Descriptor, Lookup
  <2>3. c \in removed => c \in d.early
      BY <1>0, <1>2, <2>2 DEF DescriptorInv, LookupsAreDated
  <2>4. /\ \A q \in Request : q # r => req'[q] = req[q]
        /\ req' \in [Request -> Lookup] /\ req'[r].pc \in {"fail", "extensions"}
        /\ req'[r].conn = c /\ req'[r].method = req[r].method
      BY <1>0, <2>1 DEF Go, Lookup
  <2>5. /\ methodDescs' \in [Conn -> SUBSET Descriptor]
        /\ \A k \in Conn : methodDescs'[k] = methodDescs[k] \/ (k = c /\ methodDescs'[k] = methodDescs[k] \cup {d})
      BY <1>2, <2>1, <2>2
  <2>6. DescriptorTypes' BY <1>0, <2>1, <2>4, <2>5 DEF DescriptorInv, DescriptorTypes, Conn
  <2>7. LookupsAreDated' BY <1>0, <2>4 DEF DescriptorInv, LookupsAreDated
  <2>8. CacheIsDated' BY <1>0, <1>2, <2>3, <2>5 DEF DescriptorInv, CacheIsDated, Conn
  <2>9. MarkedIsKnown' BY <1>0, <2>4 DEF DescriptorInv, MarkedIsKnown
  <2> QED BY <2>6, <2>7, <2>8, <2>9 DEF DescriptorInv
<1> QED BY <1>0, <1>1, <1>2

\* The extensions are known before the message is marked.
LEMMA RegisterStep ==
    ASSUME DescriptorInv, NEW r \in Request, RegisterExtension(r)
    PROVE  DescriptorInv'
<1> DEFINE todo == {req[r].method[1], req[r].method[2]} \ registered
<1>0. /\ UNCHANGED <<current, methodDescs, state, generation, closed, removed>>
      /\ req[r].pc = "register"
    BY DEF RegisterExtension
<1>1. CASE /\ UNCHANGED req
           /\ \E next : extReg' = extReg \cup {next} /\ registered' = registered \cup {next}
  <2>1. MarkedIsKnown' BY <1>1 DEF DescriptorInv, MarkedIsKnown
  <2>2. DescriptorTypes' BY <1>0, <1>1 DEF DescriptorInv, DescriptorTypes, Conn
  <2>3. LookupsAreDated' BY <1>0, <1>1 DEF DescriptorInv, LookupsAreDated
  <2>4. CacheIsDated' BY <1>0 DEF DescriptorInv, CacheIsDated, Conn
  <2> QED BY <2>1, <2>2, <2>3, <2>4 DEF DescriptorInv
<1>2. CASE Go(r, "fail") /\ UNCHANGED <<extReg, registered>> BY <1>0, <1>2, GoStep
<1>3. CASE todo = {} /\ Go(r, "invoke") /\ UNCHANGED <<extReg, registered>>
  <2>1. req[r].method[1] \in registered /\ req[r].method[2] \in registered BY <1>3
  <2> QED BY <1>0, <1>3, <2>1, GoStep
<1> QED BY <1>1, <1>2, <1>3 DEF RegisterExtension

\* A removal moves the generation of the state that goes: the lookups that hold it
\* are overtaken, and the others are of other connections.
LEMMA RemovalStep ==
    ASSUME DescriptorInv, MaxConns \in Nat, NEW c \in Conn, Removal(c), current' \in Conn,
           UNCHANGED <<closed, registered, extReg>>, req' \in [Request -> Lookup],
           \A q \in Request :
              req'[q] = req[q] \/ (req'[q].pc = "fail" /\ req'[q].conn \in Conn /\ req'[q].method \in Method)
    PROVE  DescriptorInv'
<1>1. /\ req \in [Request -> Lookup] /\ generation \in Seq(Nat)
      /\ state \in [Conn -> 0..Len(generation)] /\ methodDescs \in [Conn -> SUBSET Descriptor]
      /\ \A q \in Request : req[q].pc # "start" => req[q].conn \in Conn
    BY DEF DescriptorInv, DescriptorTypes
<1>2. /\ generation' \in Seq(Nat) /\ Len(generation') = Len(generation)
      /\ \A i \in 1..Len(generation) :
            generation'[i] = IF i = state[c] THEN generation[i] + 1 ELSE generation[i]
    BY <1>1 DEF Removal
<1>3. /\ state' \in [Conn -> 0..Len(generation')] /\ \A k \in Conn : k # c => state'[k] = state[k]
      /\ methodDescs' \in [Conn -> SUBSET Descriptor] /\ methodDescs'[c] = {}
      /\ \A k \in Conn : k # c => methodDescs'[k] = methodDescs[k]
      /\ removed' = removed \cup {c}
    BY <1>1, <1>2 DEF Removal
<1>4. DescriptorTypes' BY <1>1, <1>2, <1>3 DEF DescriptorInv, DescriptorTypes, Conn
<1>5. LookupsAreDated'
  <2> SUFFICES ASSUME NEW q \in Request, req[q].pc \in {"find", "store"}, req'[q] = req[q]
               PROVE  /\ req[q].state \in 1..Len(generation')
                      /\ req[q].generation <= generation'[req[q].state]
                      /\ ~closed /\ generation'[req[q].state] = req[q].generation =>
                            /\ state'[req[q].conn] = req[q].state
                            /\ req[q].conn \in removed' => req[q].conn \in req[q].early
      BY DEF LookupsAreDated
  <2>1. /\ req[q].state \in 1..Len(generation)
        /\ req[q].generation <= generation[req[q].state]
        /\ ~closed /\ generation[req[q].state] = req[q].generation =>
              /\ state[req[q].conn] = req[q].state
              /\ req[q].conn \in removed => req[q].conn \in req[q].early
      BY DEF DescriptorInv, LookupsAreDated
  <2>2. req[q].conn \in Conn /\ req[q].generation \in Nat /\ generation[req[q].state] \in Nat
      BY <1>1, <2>1 DEF Lookup
  <2>3. req[q].generation <= generation'[req[q].state] /\ req[q].state \in 1..Len(generation')
    <3>1. \/ generation'[req[q].state] = generation[req[q].state]
          \/ generation'[req[q].state] = generation[req[q].state] + 1
        BY <1>2, <2>1
    <3>2. req[q].state \in 1..Len(generation') BY <1>2, <2>1
    <3> QED BY <3>1, <3>2, <2>1, <2>2
  <2>4. ASSUME ~closed, generation'[req[q].state] = req[q].generation
        PROVE  /\ state'[req[q].conn] = req[q].state
               /\ req[q].conn \in removed' => req[q].conn \in req[q].early
    <3>1. req[q].state # state[c] /\ generation[req[q].state] = req[q].generation
        BY <2>4, <1>2, <2>1, <2>2
    <3>2. req[q].conn # c BY <2>4, <2>1, <3>1
    <3> QED BY <2>4, <2>1, <2>2, <3>1, <3>2, <1>3
  <2> QED BY <2>3, <2>4
<1>6. CacheIsDated' BY <1>3 DEF DescriptorInv, CacheIsDated, Conn
<1>7. MarkedIsKnown' BY DEF DescriptorInv, MarkedIsKnown
<1> QED BY <1>4, <1>5, <1>6, <1>7 DEF DescriptorInv

\* A call that fails removes its connection, if it is still the current one.
LEMMA InvokeStep ==
    ASSUME DescriptorInv, MaxConns \in Nat, NEW r \in Request, Invoke(r)
    PROVE  DescriptorInv'
<1> DEFINE c == req[r].conn
<1>0. req[r].pc = "invoke" /\ UNCHANGED <<closed, registered, extReg, lock>> BY DEF Invoke
<1>1. CASE (Go(r, "done") \/ Go(r, "fail"))
           /\ UNCHANGED <<current, methodDescs, state, generation, removed>>
    BY <1>0, <1>1, GoStep
<1>2. CASE Go(r, "fail") /\ current < MaxConns /\ current' = current + 1 /\ Removal(c)
  <2>1. /\ c \in Conn /\ req[r].method \in Method /\ req \in [Request -> Lookup]
        /\ current' \in Conn
      BY <1>0, <1>2 DEF DescriptorInv, DescriptorTypes, Conn
  <2>2. /\ req' \in [Request -> Lookup] /\ \A q \in Request : q # r => req'[q] = req[q]
        /\ req'[r].pc = "fail" /\ req'[r].conn = c /\ req'[r].method = req[r].method
      BY <1>2, <2>1 DEF Go, Lookup
  <2> QED BY <1>0, <1>2, <2>1, <2>2, RemovalStep
<1> QED BY <1>1, <1>2 DEF Invoke

\* The endpoint's connection is removed, and the retired filter forgets everything.
LEMMA RetireStep ==
    ASSUME DescriptorInv, MaxConns \in Nat, EndpointRemoved \/ Close
    PROVE  DescriptorInv'
<1>1. CASE EndpointRemoved
  <2>1. /\ current \in Conn /\ current' \in Conn /\ Removal(current)
        /\ UNCHANGED <<closed, registered, extReg>> /\ UNCHANGED req
        /\ req \in [Request -> Lookup]
      BY <1>1 DEF EndpointRemoved, DescriptorInv, DescriptorTypes, Conn
  <2> QED BY <2>1, RemovalStep
<1>2. CASE Close
  <2>1. /\ closed' = TRUE /\ UNCHANGED <<current, generation, removed, registered, extReg, req>>
        /\ methodDescs' = [c \in Conn |-> {}] /\ state' = [c \in Conn |-> 0]
      BY <1>2 DEF Close
  <2>2. Len(generation) \in Nat BY DEF DescriptorInv, DescriptorTypes
  <2>3. DescriptorTypes' BY <2>1, <2>2 DEF DescriptorInv, DescriptorTypes, Conn
  <2>4. LookupsAreDated' BY <2>1 DEF DescriptorInv, LookupsAreDated
  <2>5. CacheIsDated' BY <2>1 DEF CacheIsDated, Conn
  <2>6. MarkedIsKnown' BY <2>1 DEF DescriptorInv, MarkedIsKnown
  <2> QED BY <2>3, <2>4, <2>5, <2>6 DEF DescriptorInv
<1> QED BY <1>1, <1>2

LEMMA DescriptorInvStep ==
    ASSUME DescriptorInv, MaxConns \in Nat \ {0}, [Next]_vars
    PROVE  DescriptorInv'
<1>1. CASE UNCHANGED vars
  BY <1>1 DEF vars, DescriptorInv, DescriptorTypes, LookupsAreDated, CacheIsDated, MarkedIsKnown, Conn
<1>2. CASE Next
  BY <1>2, RequestStep, LookupStep, StoreStep, RegisterStep, InvokeStep, RetireStep DEF Next
<1> QED BY <1>1, <1>2

\* A lookup that a removal or a close overtook leaves nothing in the cache, and a
\* method is only called once the extensions of both its messages are known: for
\* any number of requests, connections, failed calls and endpoints that go, in any
\* order (getMethodDescriptor, removeConnection, Close, registerExtension).
THEOREM DescriptorsStaySound ==
    ASSUME MaxConns \in Nat \ {0}
    PROVE  Spec => []DescriptorsAreSound
<1>1. Spec => []DescriptorInv
  BY DescriptorInvInit, DescriptorInvStep, PTL DEF Spec
<1> QED BY <1>1, DescriptorInvEnough, PTL

=============================================================================

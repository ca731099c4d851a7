--------------------------- MODULE ProxyTransport ---------------------------
(***************************************************************************)
(* One ProxyWebSocket (proxy_transport.py): a relay process, two pumps     *)
(* between its pipes and one end of a socket pair, and a WebSocket client  *)
(* at the other end.  The owner is the task of rpc.py that opens it, and   *)
(* later the one that closes it.  Data is not modelled; that a pump waits, *)
(* for data or for room, is.                                               *)
(***************************************************************************)
EXTENDS Naturals

CONSTANT MaxCancels   \* how often the owner's task may be cancelled

ASSUME CancelAssumption == MaxCancels \in Nat

VARIABLES
  relay,    \* the relay process
  obeys,    \* whether it ends when its input ends, and on SIGTERM
  signal,   \* the last signal it was sent
  stdin,    \* the pipe to it
  pair,     \* the ends of the socket pair: of the pumps, and of the WebSocket
  to,       \* _to_proxy: waits for data, for room in the pipe, or is done
  from,     \* _from_proxy: waits for data, for room in the socket, or is done
  ws,       \* the WebSocket
  owner,    \* where open() or close() is
  cancels   \* cancellations so far

vars == <<relay, obeys, signal, stdin, pair, to, from, ws, owner, cancels>>
process == <<relay, obeys, signal>>

TypeOK ==
  /\ relay \in {"running", "ended"} /\ obeys \in BOOLEAN
  /\ signal \in {"none", "term", "kill"} /\ stdin \in {"open", "closed"}
  /\ pair \in [{"pumps", "ws"} -> {"open", "shut", "closed"}]
  /\ to \in {"data", "room", "done"} /\ from \in {"data", "room", "done"}
  /\ ws \in {"handshake", "open", "closing", "down"}
  /\ owner \in {"opening", "open", "websocket", "pumps", "wait", "reap", "closed", "cut"}
  /\ cancels \in 0 .. MaxCancels
  /\ to = "done" => stdin = "closed"

Init ==
  /\ relay = "running" /\ obeys \in BOOLEAN /\ signal = "none" /\ stdin = "open"
  /\ pair = [pumps |-> "open", ws |-> "open"]
  /\ to = "data" /\ from = "data"
  /\ ws = "handshake" /\ owner = "opening" /\ cancels = 0

-----------------------------------------------------------------------------
(* The pumps. *)

\* _disconnect_socket
Shut(ends) == [ends EXCEPT !.pumps = IF @ = "open" THEN "shut" ELSE @]

\* The socket of the pumps is at its end.
SocketEnds == pair.pumps # "open" \/ pair.ws = "closed"

LeavesInputOpen == stdin

\* The finally of _to_proxy.
InputAfter == "closed"

ToProxy ==
  /\ \/ to = "data" /\ ~SocketEnds /\ to' = "room" /\ UNCHANGED <<stdin, pair>>
     \/ to = "room" /\ relay = "running" /\ to' = "data" /\ UNCHANGED <<stdin, pair>>
     \/ /\ (to = "data" /\ SocketEnds) \/ (to = "room" /\ relay = "ended")
        /\ to' = "done" /\ stdin' = InputAfter /\ pair' = Shut(pair)
  /\ UNCHANGED <<process, from, ws, owner, cancels>>

LeavesSocketOpen(ends) == ends

\* The finally of _from_proxy.
SocketAfter(ends) == Shut(ends)

FromProxy ==
  /\ \/ from = "data" /\ relay = "running" /\ from' = "room" /\ UNCHANGED pair
     \/ from = "room" /\ ~SocketEnds /\ from' = "data" /\ UNCHANGED pair
     \/ /\ (from = "data" /\ relay = "ended") \/ (from = "room" /\ SocketEnds)
        /\ from' = "done" /\ pair' = SocketAfter(pair)
  /\ UNCHANGED <<process, stdin, to, ws, owner, cancels>>

-----------------------------------------------------------------------------
(* The relay and the WebSocket. *)

RelayExits ==
  /\ relay = "running" /\ relay' = "ended"
  /\ UNCHANGED <<obeys, signal, stdin, pair, to, from, ws, owner, cancels>>

RelayMustExit == signal = "kill" \/ (obeys /\ (signal = "term" \/ stdin = "closed"))

\* The library closes its socket when the connection is down.
Down == ws' = "down" /\ pair' = [pair EXCEPT !.ws = "closed"]

WebSocketEnds ==
  /\ ws = "closing" \/ (ws = "open" /\ pair.pumps # "open")
  /\ Down
  /\ UNCHANGED <<process, stdin, to, from, owner, cancels>>

-----------------------------------------------------------------------------
(* The owner. *)

Opened ==
  /\ owner = "opening" /\ ~SocketEnds
  /\ ws' = "open" /\ owner' = "open"
  /\ UNCHANGED <<process, stdin, pair, to, from, cancels>>

\* A timeout, or an answer that is no handshake; close() has no websocket then.
OpenFails ==
  /\ owner = "opening"
  /\ Down /\ owner' = "pumps"
  /\ UNCHANGED <<process, stdin, to, from, cancels>>

\* AppServer.close
Close ==
  /\ owner = "open"
  /\ owner' = "websocket"
  /\ ws' = IF ws = "open" THEN "closing" ELSE ws
  /\ UNCHANGED <<process, stdin, pair, to, from, cancels>>

WebSocketClosed ==
  /\ owner = "websocket" /\ ws = "down"
  /\ owner' = "pumps"
  /\ UNCHANGED <<process, stdin, pair, to, from, ws, cancels>>

\* Both pumps are cancelled and awaited, the sockets closed, the relay terminated.
StopPumps ==
  /\ owner = "pumps"
  /\ to' = "done" /\ from' = "done" /\ stdin' = "closed"
  /\ pair' = [pumps |-> "closed", ws |-> "closed"] /\ ws' = "down"
  /\ IF relay = "ended"
     THEN owner' = "closed" /\ UNCHANGED signal
     ELSE owner' = "wait" /\ signal' = "term"
  /\ UNCHANGED <<relay, obeys, cancels>>

Reaped ==
  /\ owner \in {"wait", "reap"} /\ relay = "ended"
  /\ owner' = "closed"
  /\ UNCHANGED <<process, stdin, pair, to, from, ws, cancels>>

LetsItBe == owner' = "closed" /\ UNCHANGED signal

Kills == owner' = "reap" /\ signal' = "kill"

WaitsForever == FALSE

\* wait_for(process.wait(), 2)
TwoSecondsPassed == owner = "wait"

WaitTimesOut ==
  /\ TwoSecondsPassed
  /\ Kills
  /\ UNCHANGED <<relay, obeys, stdin, pair, to, from, ws, cancels>>

\* CancelledError: open() closes, close() goes on with its finally, the waits for
\* the pumps suppress it; the wait for the relay does not.
Cancel ==
  /\ cancels < MaxCancels /\ cancels' = cancels + 1
  /\ \/ owner = "opening" /\ owner' = "pumps" /\ Down
     \/ owner = "websocket" /\ owner' = "pumps" /\ UNCHANGED <<ws, pair>>
     \/ owner = "pumps" /\ UNCHANGED <<owner, ws, pair>>
     \/ owner \in {"wait", "reap"} /\ owner' = "cut" /\ UNCHANGED <<ws, pair>>
  /\ UNCHANGED <<process, stdin, to, from>>

-----------------------------------------------------------------------------
OwnerStep == OpenFails \/ WebSocketClosed \/ StopPumps \/ Reaped \/ WaitTimesOut

Next ==
  \/ ToProxy \/ FromProxy \/ RelayExits \/ WebSocketEnds
  \/ Opened \/ Close \/ OwnerStep \/ Cancel

Spec == Init /\ [][Next]_vars

\* The event loop runs pumps, WebSocket and owner; data need not come, but there is
\* room for it again; timeouts come; a relay that obeys ends, and one that is killed.
FairSpec ==
  /\ Spec
  /\ WF_vars(ToProxy /\ to' # "room") /\ WF_vars(FromProxy /\ from' # "room")
  /\ WF_vars(WebSocketEnds) /\ WF_vars(OwnerStep)
  /\ WF_vars(RelayMustExit /\ RelayExits)

-----------------------------------------------------------------------------
\* "Own one CLI relay, its socket pair": a close that returns, after cancellations
\* or not, leaves no relay, no pump and no socket.
ClosedLeavesNothing ==
  owner = "closed" =>
    /\ relay = "ended" /\ to = "done" /\ from = "done" /\ ws = "down"
    /\ pair = [pumps |-> "closed", ws |-> "closed"]

\* The end of the relay ends the WebSocket, so that the reader of rpc.py learns of
\* it and fails the requests that wait.
EndReachesReader == relay = "ended" /\ ws = "open" ~> ws = "down"

\* A relay whose WebSocket has ended gets the end of its input, and so ends, even if
\* nobody calls close().
InputEnds == ws = "down" ~> stdin = "closed"

\* A close ends, though the relay ignores the end of its input and SIGTERM.
CloseEnds == owner \in {"websocket", "pumps"} ~> owner \in {"closed", "cut"}
=============================================================================

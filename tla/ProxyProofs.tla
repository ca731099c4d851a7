----------------------------- MODULE ProxyProofs ----------------------------
(***************************************************************************)
(* Proofs about ProxyTransport, for any number of cancellations: what a    *)
(* close leaves, and that the end of either side travels to the other.     *)
(***************************************************************************)
EXTENDS ProxyTransport, TLAPS

\* Once the pumps were stopped there is nothing left but, maybe, the relay.
Stopped == owner \in {"wait", "reap", "closed", "cut"}

StoppedIsDown ==
  Stopped => /\ to = "done" /\ from = "done" /\ ws = "down"
             /\ pair = [pumps |-> "closed", ws |-> "closed"]

Reaping ==
  /\ owner = "closed" => relay = "ended"
  /\ owner = "reap" => signal = "kill"

\* A pump that is done has shut its socket.
DoneShuts == to = "done" \/ from = "done" => pair.pumps # "open"

\* The WebSocket is where the owner takes it to be.
OwnersView ==
  /\ owner = "opening" <=> ws = "handshake"
  /\ owner = "open" => ws \in {"open", "down"}
  /\ owner = "websocket" => ws \in {"closing", "down"}
  /\ owner = "pumps" => ws \in {"closing", "down"}
  /\ ws = "down" <=> pair.ws = "closed"

IndInv == TypeOK /\ StoppedIsDown /\ Reaping /\ DoneShuts /\ OwnersView

LEMMA InitInv == Init => IndInv
BY CancelAssumption
   DEF Init, IndInv, TypeOK, StoppedIsDown, Stopped, Reaping, DoneShuts, OwnersView

LEMMA PumpInv == ASSUME IndInv, ToProxy \/ FromProxy PROVE IndInv'
<1> USE DEF IndInv, TypeOK, StoppedIsDown, Stopped, Reaping, DoneShuts, OwnersView,
            process, Shut, SocketEnds
<1>1. CASE ToProxy
  BY <1>1 DEF ToProxy, InputAfter
<1>2. CASE FromProxy
  BY <1>2 DEF FromProxy, SocketAfter
<1> QED BY <1>1, <1>2

LEMMA OwnerInv == ASSUME IndInv, Opened \/ Close \/ OwnerStep \/ Cancel PROVE IndInv'
<1> USE DEF IndInv, TypeOK, StoppedIsDown, Stopped, Reaping, DoneShuts, OwnersView,
            process, Down
<1>1. CASE Opened
  BY <1>1 DEF Opened
<1>2. CASE Close
  BY <1>2 DEF Close
<1>3. CASE OpenFails
  BY <1>3 DEF OpenFails
<1>4. CASE WebSocketClosed
  BY <1>4 DEF WebSocketClosed
<1>5. CASE StopPumps
  BY <1>5 DEF StopPumps
<1>6. CASE Reaped
  BY <1>6 DEF Reaped
<1>7. CASE WaitTimesOut
  BY <1>7 DEF WaitTimesOut, TwoSecondsPassed, Kills
<1>8. CASE Cancel
  BY <1>8, CancelAssumption DEF Cancel
<1> QED BY <1>1, <1>2, <1>3, <1>4, <1>5, <1>6, <1>7, <1>8 DEF OwnerStep

LEMMA StepInv == IndInv /\ [Next]_vars => IndInv'
<1> SUFFICES ASSUME IndInv, [Next]_vars
             PROVE  IndInv'
  OBVIOUS
<1>1. CASE UNCHANGED vars
  BY <1>1 DEF vars, IndInv, TypeOK, StoppedIsDown, Stopped, Reaping, DoneShuts, OwnersView
<1>2. CASE RelayExits
  BY <1>2
     DEF RelayExits, IndInv, TypeOK, StoppedIsDown, Stopped, Reaping, DoneShuts, OwnersView
<1>3. CASE WebSocketEnds
  BY <1>3 DEF WebSocketEnds, Down, process, IndInv, TypeOK, StoppedIsDown, Stopped, Reaping,
              DoneShuts, OwnersView
<1> QED BY <1>1, <1>2, <1>3, PumpInv, OwnerInv DEF Next

LEMMA Inductive == Spec => []IndInv
BY InitInv, StepInv, PTL DEF Spec

\* Every variable keeps its type, for any number of cancellations.
THEOREM TypeCorrect == Spec => []TypeOK
<1>1. IndInv => TypeOK
  BY DEF IndInv
<1> QED BY <1>1, Inductive, PTL

\* A close that returns leaves no relay, no pump and no socket, however often and
\* wherever open() or close() was cancelled.
THEOREM CloseIsClean == Spec => []ClosedLeavesNothing
<1>1. IndInv => ClosedLeavesNothing
  BY DEF IndInv, StoppedIsDown, Stopped, Reaping, ClosedLeavesNothing
<1> QED BY <1>1, Inductive, PTL

-----------------------------------------------------------------------------
(***************************************************************************)
(* Liveness.  The provers know nothing of ENABLED, so what the guards of   *)
(* the fair steps enable is a hypothesis of the theorems.  Each line of it *)
(* repeats the conditions of one action; TLC finds it an invariant.        *)
(***************************************************************************)
GuardsEnable ==
  /\ to = "room" \/ (to = "data" /\ SocketEnds) => ENABLED <<ToProxy /\ to' # "room">>_vars
  /\ from = "room" \/ (from = "data" /\ relay = "ended")
       => ENABLED <<FromProxy /\ from' # "room">>_vars
  /\ ws = "closing" \/ (ws = "open" /\ pair.pumps # "open") => ENABLED <<WebSocketEnds>>_vars
  /\ owner \in {"pumps", "wait"} \/ (owner = "websocket" /\ ws = "down")
     \/ (owner = "reap" /\ relay = "ended") => ENABLED <<OwnerStep>>_vars
  /\ RelayMustExit /\ relay = "running" => ENABLED <<RelayMustExit /\ RelayExits>>_vars

\* The relay has ended and _from_proxy is at p; the WebSocket does not know.
Unheard(p) == relay = "ended" /\ ws \in {"open", "closing"} /\ from = p

\* Until the WebSocket is down the end of the relay comes nearer: _from_proxy reads
\* no more data, and what it had is written or cannot be.
LEMMA UnheardStep ==
  ASSUME IndInv, [Next]_vars
  PROVE  /\ Unheard("room") =>
              Unheard("room")' \/ Unheard("data")' \/ Unheard("done")' \/ (ws = "down")'
         /\ Unheard("data") => Unheard("data")' \/ Unheard("done")' \/ (ws = "down")'
         /\ Unheard("done") => Unheard("done")' \/ (ws = "down")'
<1> USE DEF Unheard, IndInv, TypeOK, OwnersView, StoppedIsDown, Stopped, process
<1>1. CASE UNCHANGED vars
  BY <1>1 DEF vars
<1>2. CASE ToProxy \/ RelayExits
  BY <1>2 DEF ToProxy, RelayExits
<1>3. CASE FromProxy
  BY <1>3 DEF FromProxy
<1>4. CASE WebSocketEnds
  BY <1>4 DEF WebSocketEnds, Down
<1>5. CASE Opened \/ Close
  BY <1>5 DEF Opened, Close
<1>6. CASE OpenFails \/ WebSocketClosed \/ StopPumps
  BY <1>6 DEF OpenFails, WebSocketClosed, StopPumps, Down
<1>7. CASE Reaped \/ WaitTimesOut \/ Cancel
  BY <1>7 DEF Reaped, WaitTimesOut, TwoSecondsPassed, Cancel, Down
<1> QED BY <1>1, <1>2, <1>3, <1>4, <1>5, <1>6, <1>7 DEF Next, OwnerStep

\* When the relay has ended, the reader of rpc.py learns of it.
THEOREM EndIsHeard == FairSpec /\ []GuardsEnable => EndReachesReader
<1>1. IndInv /\ Unheard("room") /\ [Next]_vars =>
        Unheard("room")' \/ Unheard("data")' \/ Unheard("done")' \/ (ws = "down")'
  BY UnheardStep
<1>2. IndInv /\ Unheard("data") /\ [Next]_vars =>
        Unheard("data")' \/ Unheard("done")' \/ (ws = "down")'
  BY UnheardStep
<1>3. IndInv /\ Unheard("done") /\ [Next]_vars => Unheard("done")' \/ (ws = "down")'
  BY UnheardStep
<1>4. Unheard("room") /\ <<FromProxy /\ from' # "room">>_vars =>
        Unheard("data")' \/ Unheard("done")'
  BY DEF Unheard, FromProxy, process
<1>5. Unheard("data") /\ <<FromProxy /\ from' # "room">>_vars => Unheard("done")'
  BY DEF Unheard, FromProxy, process
<1>6. <<WebSocketEnds>>_vars => (ws = "down")'
  BY DEF WebSocketEnds, Down
<1>7. /\ GuardsEnable /\ (Unheard("room") \/ Unheard("data"))
           => ENABLED <<FromProxy /\ from' # "room">>_vars
      /\ GuardsEnable /\ IndInv /\ Unheard("done") => ENABLED <<WebSocketEnds>>_vars
  BY DEF GuardsEnable, Unheard, IndInv, DoneShuts
<1>8. IndInv /\ relay = "ended" /\ ws = "open" =>
        Unheard("room") \/ Unheard("data") \/ Unheard("done")
  BY DEF IndInv, TypeOK, Unheard
<1> QED BY <1>1, <1>2, <1>3, <1>4, <1>5, <1>6, <1>7, <1>8, Inductive, PTL
           DEF FairSpec, Spec, EndReachesReader

\* The WebSocket has ended and _to_proxy is at p.
Draining(p) == ws = "down" /\ to = p

LEMMA DrainingStep ==
  ASSUME IndInv, [Next]_vars
  PROVE  /\ Draining("room") => Draining("room")' \/ Draining("data")' \/ (to = "done")'
         /\ Draining("data") => Draining("data")' \/ (to = "done")'
<1> USE DEF Draining, IndInv, TypeOK, OwnersView, StoppedIsDown, Stopped, process
<1>1. CASE UNCHANGED vars
  BY <1>1 DEF vars
<1>2. CASE ToProxy
  BY <1>2 DEF ToProxy, SocketEnds
<1>3. CASE FromProxy \/ RelayExits
  BY <1>3 DEF FromProxy, RelayExits
<1>4. CASE WebSocketEnds
  BY <1>4 DEF WebSocketEnds, Down
<1>5. CASE Opened \/ Close
  BY <1>5 DEF Opened, Close
<1>6. CASE OpenFails \/ WebSocketClosed \/ StopPumps
  BY <1>6 DEF OpenFails, WebSocketClosed, StopPumps, Down
<1>7. CASE Reaped \/ WaitTimesOut \/ Cancel
  BY <1>7 DEF Reaped, WaitTimesOut, TwoSecondsPassed, Cancel, Down
<1> QED BY <1>1, <1>2, <1>3, <1>4, <1>5, <1>6, <1>7 DEF Next, OwnerStep

\* When the WebSocket has ended, the relay gets the end of its input.
THEOREM EndIsPassedOn == FairSpec /\ []GuardsEnable => InputEnds
<1>1. IndInv /\ Draining("room") /\ [Next]_vars =>
        Draining("room")' \/ Draining("data")' \/ (to = "done")'
  BY DrainingStep
<1>2. IndInv /\ Draining("data") /\ [Next]_vars => Draining("data")' \/ (to = "done")'
  BY DrainingStep
<1>3. Draining("room") /\ <<ToProxy /\ to' # "room">>_vars =>
        Draining("data")' \/ (to = "done")'
  BY DEF Draining, ToProxy
<1>4. Draining("data") /\ <<ToProxy /\ to' # "room">>_vars => (to = "done")'
  BY DEF Draining, ToProxy
<1>5. GuardsEnable /\ IndInv /\ (Draining("room") \/ Draining("data"))
        => ENABLED <<ToProxy /\ to' # "room">>_vars
  BY DEF GuardsEnable, Draining, SocketEnds, IndInv, OwnersView
<1>6. IndInv /\ ws = "down" => Draining("room") \/ Draining("data") \/ to = "done"
  BY DEF IndInv, TypeOK, Draining
<1>7. IndInv /\ to = "done" => stdin = "closed"
  BY DEF IndInv, TypeOK
<1> QED BY <1>1, <1>2, <1>3, <1>4, <1>5, <1>6, <1>7, Inductive, PTL DEF FairSpec, Spec, InputEnds

\* The owner waits in ws.close(), and the WebSocket is at w.
Closing(w) == owner = "websocket" /\ ws = w

\* The relay was sent SIGKILL, and is at r.
Killed(r) == owner = "reap" /\ relay = r

Over == owner \in {"closed", "cut"}

\* Each wait of a close goes on to a later one, and none of them goes back.
LEMMA ClosingStep ==
  ASSUME IndInv, [Next]_vars
  PROVE  /\ Closing("closing") =>
              Closing("closing")' \/ Closing("down")' \/ (owner = "pumps")'
         /\ Closing("down") => Closing("down")' \/ (owner = "pumps")'
         /\ owner = "pumps" => (owner = "pumps")' \/ (owner = "wait")' \/ Over'
         /\ owner = "wait" => (owner = "wait")' \/ Killed("running")' \/ Killed("ended")' \/ Over'
         /\ Killed("running") => Killed("running")' \/ Killed("ended")' \/ Over'
         /\ Killed("ended") => Killed("ended")' \/ Over'
<1> USE DEF Closing, Killed, Over, IndInv, TypeOK, OwnersView, process
<1>1. CASE UNCHANGED vars
  BY <1>1 DEF vars
<1>2. CASE ToProxy \/ FromProxy
  BY <1>2 DEF ToProxy, FromProxy
<1>3. CASE RelayExits \/ WebSocketEnds
  BY <1>3 DEF RelayExits, WebSocketEnds, Down
<1>4. CASE Opened \/ Close
  BY <1>4 DEF Opened, Close
<1>5. CASE OpenFails \/ WebSocketClosed \/ StopPumps
  BY <1>5 DEF OpenFails, WebSocketClosed, StopPumps
<1>6. CASE Reaped \/ WaitTimesOut
  BY <1>6 DEF Reaped, WaitTimesOut, TwoSecondsPassed, Kills
<1>7. CASE Cancel
  BY <1>7 DEF Cancel, Down
<1> QED BY <1>1, <1>2, <1>3, <1>4, <1>5, <1>6, <1>7 DEF Next, OwnerStep

\* The step of the owner, or of what it waits for, that ends each wait.
LEMMA ClosingProgress ==
  ASSUME IndInv
  PROVE  /\ Closing("closing") /\ <<WebSocketEnds>>_vars => Closing("down")'
         /\ Closing("down") /\ <<OwnerStep>>_vars => (owner = "pumps")'
         /\ owner = "pumps" /\ <<OwnerStep>>_vars => (owner = "wait")' \/ Over'
         /\ owner = "wait" /\ <<OwnerStep>>_vars =>
              Killed("running")' \/ Killed("ended")' \/ Over'
         /\ Killed("running") /\ <<RelayMustExit /\ RelayExits>>_vars => Killed("ended")'
         /\ Killed("ended") /\ <<OwnerStep>>_vars => Over'
<1> USE DEF Closing, Killed, Over, IndInv, TypeOK
<1>1. Closing("closing") /\ <<WebSocketEnds>>_vars => Closing("down")'
  BY DEF WebSocketEnds, Down
<1>2. Killed("running") /\ <<RelayMustExit /\ RelayExits>>_vars => Killed("ended")'
  BY DEF RelayExits
<1>3. CASE OwnerStep
  BY <1>1, <1>2, <1>3 DEF OwnerStep, OpenFails, WebSocketClosed, StopPumps, Reaped,
                          WaitTimesOut, TwoSecondsPassed, Kills, process
<1> QED BY <1>1, <1>2, <1>3

LEMMA ClosingEnabled ==
  ASSUME IndInv, GuardsEnable
  PROVE  /\ Closing("closing") => ENABLED <<WebSocketEnds>>_vars
         /\ Closing("down") \/ owner = "pumps" \/ owner = "wait" \/ Killed("ended")
              => ENABLED <<OwnerStep>>_vars
         /\ Killed("running") => ENABLED <<RelayMustExit /\ RelayExits>>_vars
BY DEF GuardsEnable, Closing, Killed, IndInv, Reaping, RelayMustExit

\* A close ends, though the relay ignores the end of its input and SIGTERM, and
\* however often it is cancelled.
THEOREM ClosesEnd == FairSpec /\ []GuardsEnable => CloseEnds
<1>1. IndInv /\ Closing("closing") /\ [Next]_vars =>
        Closing("closing")' \/ Closing("down")' \/ (owner = "pumps")'
  BY ClosingStep
<1>2. IndInv /\ Closing("down") /\ [Next]_vars => Closing("down")' \/ (owner = "pumps")'
  BY ClosingStep
<1>3. IndInv /\ owner = "pumps" /\ [Next]_vars =>
        (owner = "pumps")' \/ (owner = "wait")' \/ Over'
  BY ClosingStep
<1>4. IndInv /\ owner = "wait" /\ [Next]_vars =>
        (owner = "wait")' \/ Killed("running")' \/ Killed("ended")' \/ Over'
  BY ClosingStep
<1>5. IndInv /\ Killed("running") /\ [Next]_vars =>
        Killed("running")' \/ Killed("ended")' \/ Over'
  BY ClosingStep
<1>6. IndInv /\ Killed("ended") /\ [Next]_vars => Killed("ended")' \/ Over'
  BY ClosingStep
<1>7. /\ IndInv /\ Closing("closing") /\ <<WebSocketEnds>>_vars => Closing("down")'
      /\ IndInv /\ Closing("down") /\ <<OwnerStep>>_vars => (owner = "pumps")'
      /\ IndInv /\ owner = "pumps" /\ <<OwnerStep>>_vars => (owner = "wait")' \/ Over'
      /\ IndInv /\ owner = "wait" /\ <<OwnerStep>>_vars =>
           Killed("running")' \/ Killed("ended")' \/ Over'
      /\ IndInv /\ Killed("running") /\ <<RelayMustExit /\ RelayExits>>_vars => Killed("ended")'
      /\ IndInv /\ Killed("ended") /\ <<OwnerStep>>_vars => Over'
  BY ClosingProgress
<1>8. /\ IndInv /\ GuardsEnable /\ Closing("closing") => ENABLED <<WebSocketEnds>>_vars
      /\ IndInv /\ GuardsEnable
         /\ (Closing("down") \/ owner = "pumps" \/ owner = "wait" \/ Killed("ended"))
           => ENABLED <<OwnerStep>>_vars
      /\ IndInv /\ GuardsEnable /\ Killed("running")
           => ENABLED <<RelayMustExit /\ RelayExits>>_vars
  BY ClosingEnabled
<1>9. IndInv /\ owner \in {"websocket", "pumps"} =>
        Closing("closing") \/ Closing("down") \/ owner = "pumps"
  BY DEF IndInv, OwnersView, Closing
<1>10. Over <=> owner \in {"closed", "cut"}
  BY DEF Over
<1> QED BY <1>1, <1>2, <1>3, <1>4, <1>5, <1>6, <1>7, <1>8, <1>9, <1>10, Inductive, PTL
           DEF FairSpec, Spec, CloseEnds
=============================================================================

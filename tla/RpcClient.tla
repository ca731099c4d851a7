----------------------------- MODULE RpcClient ------------------------------
(***************************************************************************)
(* The connection of one bridge process: AppServer of rpc.py and the       *)
(* transport below it, a Unix WebSocket or the relay of proxy_transport.py.*)
(* Tool calls run as tasks of one event loop.  A task runs from one await  *)
(* to the next while "run" names it; between, any woken task or reader may *)
(* run, and the outside world moves.                                       *)
(***************************************************************************)
EXTENDS Naturals

CONSTANTS Callers,    \* tasks inside AppServer.call
          Closers,    \* tasks that end with AppServer.close: sends, forks
          Exit,       \* the close of the server's lifespan, when all else is over
          MaxConns,   \* bound: connections opened in one behaviour
          Transports, \* the transports a process may be started with
          Junk,       \* TRUE: a message that is not JSON may arrive
          Nobody

Tasks == Callers \union Closers \union {Exit}

Conns == 1 .. MaxConns

ASSUME ClientAssumption ==
  /\ MaxConns \in Nat /\ Transports \subseteq {"unix", "proxy"} /\ Junk \in BOOLEAN
  /\ Nobody \notin Tasks /\ Exit \notin Callers \union Closers

VARIABLES
  transport, \* the transport of the process
  run,       \* the task that is between two awaits, or Nobody
  lock,      \* _connect_lock
  ws,        \* _ws: a connection, or 0
  reader,    \* _reader: the reader task of a connection, or 0
  rstate,    \* the reader task of each connection
  conn,      \* each WebSocket connection
  relay,     \* the connections whose relay process runs
  shut,      \* the connections whose close has been called (ProxyWebSocket._closed)
  greeted,   \* history: the connections that completed initialize
  pc,        \* the await, or the place, each task is at
  at,        \* the connection the task waits for
  after,     \* what a task does when close() has returned
  future     \* the entry of the task's request in _pending

vars ==
  <<transport, run, lock, ws, reader, rstate, conn, relay, shut, greeted, pc, at, after, future>>

Proxy == transport = "proxy"

Labels == {"new", "lock", "connect", "close", "shut", "unset", "drain", "closed",
           "opening", "hello", "request", "await", "done", "failed"}

TypeOK ==
  /\ transport \in Transports
  /\ run \in Tasks \union {Nobody}
  /\ lock \in Tasks \union {Nobody}
  /\ ws \in {0} \union Conns
  /\ reader \in {0} \union Conns
  /\ rstate \in [Conns -> {"none", "running", "cancelling", "done"}]
  /\ conn \in [Conns -> {"unused", "opening", "open", "closing", "down"}]
  /\ relay \in SUBSET Conns
  /\ shut \in SUBSET Conns
  /\ greeted \in SUBSET Conns
  /\ pc \in [Tasks -> Labels]
  /\ at \in [Tasks -> {0} \union Conns]
  /\ after \in [Tasks -> {"end", "open", "fail"}]
  /\ future \in [Tasks -> {"none", "waiting", "answered", "broken"}]

Init ==
  /\ transport \in Transports
  /\ run = Nobody
  /\ lock = Nobody
  /\ ws = 0
  /\ reader = 0
  /\ rstate = [n \in Conns |-> "none"]
  /\ conn = [n \in Conns |-> "unused"]
  /\ relay = {}
  /\ shut = {}
  /\ greeted = {}
  /\ pc = [t \in Tasks |-> "new"]
  /\ at = [t \in Tasks |-> 0]
  /\ after = [t \in Tasks |-> "end"]
  /\ future = [t \in Tasks |-> "none"]

Ended(t) == pc[t] \in {"done", "failed"}

\* Task t was suspended at label l and may be resumed; task t is running at l.
Wakes(t, l) == run = Nobody /\ pc[t] = l
At(t, l) == run = t /\ pc[t] = l

\* Task t goes on to label l without an await, or suspends there.
GoTo(t, l) == pc' = [pc EXCEPT ![t] = l] /\ run' = t
Await(t, l) == pc' = [pc EXCEPT ![t] = l] /\ run' = Nobody

-----------------------------------------------------------------------------
(* connect *)

Start(t) ==
  /\ Wakes(t, "new")
  /\ t = Exit => \A u \in Tasks \ {Exit} : Ended(u)
  /\ IF t \in Callers THEN Await(t, "lock") ELSE GoTo(t, "close")
  /\ UNCHANGED <<transport, lock, ws, reader, rstate, conn, relay, shut, greeted, at, after, future>>

NoLock(t) == TRUE

LockFree(t) == lock = Nobody

Acquire(t) ==
  /\ Wakes(t, "lock")
  /\ LockFree(t)
  /\ lock' = t
  /\ GoTo(t, "connect")
  /\ UNCHANGED <<transport, ws, reader, rstate, conn, relay, shut, greeted, at, after, future>>

\* A tool call is cancelled while it waits for the lock.
GiveUpLock(t) ==
  /\ Wakes(t, "lock")
  /\ Await(t, "failed")
  /\ UNCHANGED <<transport, lock, ws, reader, rstate, conn, relay, shut, greeted, at, after, future>>

\* There is a reader, and it has not ended.
Reading == reader # 0 /\ rstate[reader] # "done"

StayConnected(t) ==
  /\ At(t, "connect")
  /\ Reading
  /\ lock' = Nobody
  /\ GoTo(t, "request")
  /\ UNCHANGED <<transport, ws, reader, rstate, conn, relay, shut, greeted, at, after, future>>

Reconnect(t) ==
  /\ At(t, "connect")
  /\ ~Reading
  /\ after' = [after EXCEPT ![t] = "open"]
  /\ GoTo(t, "close")
  /\ UNCHANGED <<transport, lock, ws, reader, rstate, conn, relay, shut, greeted, at, future>>

\* The transport starts to open the next connection; the proxy spawns a relay.
Open(t) ==
  /\ At(t, "closed") /\ after[t] = "open"
  /\ \E n \in Conns :
       /\ conn[n] = "unused" /\ \A k \in 1 .. n - 1 : conn[k] # "unused"
       /\ conn' = [conn EXCEPT ![n] = "opening"]
       /\ relay' = IF Proxy THEN relay \union {n} ELSE relay
       /\ at' = [at EXCEPT ![t] = n]
  /\ Await(t, "opening")
  /\ UNCHANGED <<transport, lock, ws, reader, rstate, shut, greeted, after, future>>

\* The control socket does not exist; nor can it be opened beyond MaxConns.
NoSocket(t) ==
  /\ At(t, "closed") /\ after[t] = "open"
  /\ after' = [after EXCEPT ![t] = "fail"]
  /\ GoTo(t, "close")
  /\ UNCHANGED <<transport, lock, ws, reader, rstate, conn, relay, shut, greeted, at, future>>

\* A task whose wake-up is already scheduled runs before a handshake, which
\* takes several turns of the event loop, completes.
Woken(u) ==
  \/ pc[u] = "shut" /\ conn[at[u]] = "down" /\ at[u] \notin relay
  \/ pc[u] = "drain" /\ rstate[at[u]] = "done"

\* The connection is open: its reader is created and initialize is sent.
Opened(t) ==
  LET n == at[t] IN
  /\ Wakes(t, "opening")
  /\ \A u \in Tasks : ~Woken(u)
  /\ conn' = [conn EXCEPT ![n] = "open"]
  /\ ws' = n
  /\ reader' = n
  /\ rstate' = [rstate EXCEPT ![n] = "running"]
  /\ future' = [future EXCEPT ![t] = "waiting"]
  /\ Await(t, "hello")
  /\ UNCHANGED <<transport, lock, relay, shut, greeted, at, after>>

\* Opening fails, times out or is cancelled; the proxy reaps its relay, unless its wait
\* for the relay is cancelled.
OpenFails(t) ==
  /\ Wakes(t, "opening")
  /\ conn' = [conn EXCEPT ![at[t]] = "down"]
  /\ relay' \in {relay, relay \ {at[t]}}
  /\ after' = [after EXCEPT ![t] = "fail"]
  /\ GoTo(t, "close")
  /\ UNCHANGED <<transport, lock, ws, reader, rstate, shut, greeted, at, future>>

\* initialize is answered; "initialized" goes out on what _ws is by now.
Greet(t) ==
  /\ Wakes(t, "hello") /\ future[t] = "answered"
  /\ future' = [future EXCEPT ![t] = "none"]
  /\ IF ws # 0 /\ conn[ws] = "open"
     THEN /\ greeted' = greeted \union {ws}
          /\ lock' = Nobody
          /\ GoTo(t, "request")
          /\ UNCHANGED after
     ELSE /\ after' = [after EXCEPT ![t] = "fail"]
          /\ GoTo(t, "close")
          /\ UNCHANGED <<lock, greeted>>
  /\ UNCHANGED <<transport, ws, reader, rstate, conn, relay, shut, at>>

\* initialize is rejected, lost, late or cancelled.
GreetFails(t) ==
  /\ Wakes(t, "hello")
  /\ future' = [future EXCEPT ![t] = "none"]
  /\ after' = [after EXCEPT ![t] = "fail"]
  /\ GoTo(t, "close")
  /\ UNCHANGED <<transport, lock, ws, reader, rstate, conn, relay, shut, greeted, at>>

-----------------------------------------------------------------------------
(* _request *)

CanSend == ws # 0 /\ conn[ws] = "open"

\* The future is in _pending before the request is written.
Request(t) ==
  /\ At(t, "request")
  /\ CanSend
  /\ at' = [at EXCEPT ![t] = ws]
  /\ future' = [future EXCEPT ![t] = "waiting"]
  /\ Await(t, "await")
  /\ UNCHANGED <<transport, lock, ws, reader, rstate, conn, relay, shut, greeted, after>>

NotConnected(t) ==
  /\ At(t, "request")
  /\ ~CanSend
  /\ Await(t, "failed")
  /\ UNCHANGED <<transport, lock, ws, reader, rstate, conn, relay, shut, greeted, at, after, future>>

Answered(t) ==
  /\ Wakes(t, "await") /\ future[t] = "answered"
  /\ future' = [future EXCEPT ![t] = "none"]
  /\ Await(t, "done")
  /\ UNCHANGED <<transport, lock, ws, reader, rstate, conn, relay, shut, greeted, at, after>>

\* The future was failed by the reader.
RequestBroken(t) ==
  /\ Wakes(t, "await") /\ future[t] = "broken"
  /\ future' = [future EXCEPT ![t] = "none"]
  /\ Await(t, "failed")
  /\ UNCHANGED <<transport, lock, ws, reader, rstate, conn, relay, shut, greeted, at, after>>

\* No answer within the timeout, or the tool call is cancelled.
RequestTimeout(t) ==
  /\ Wakes(t, "await") /\ future[t] = "waiting"
  /\ future' = [future EXCEPT ![t] = "none"]
  /\ Await(t, "failed")
  /\ UNCHANGED <<transport, lock, ws, reader, rstate, conn, relay, shut, greeted, at, after>>

-----------------------------------------------------------------------------
(* close *)

\* A connection that is dropped instead of closed.
NeverCloses(n) == TRUE

\* ws.close() returns at once: a relay's second close, a Unix socket that is down.
ClosesAtOnce(n) == IF Proxy THEN n \in shut ELSE conn[n] = "down"

CloseSocket(t) ==
  /\ At(t, "close")
  /\ IF ws = 0 \/ ClosesAtOnce(ws)
     THEN GoTo(t, "unset") /\ UNCHANGED <<shut, conn, at>>
     ELSE /\ shut' = shut \union {ws}
          /\ conn' = [conn EXCEPT ![ws] = IF @ = "open" THEN "closing" ELSE @]
          /\ at' = [at EXCEPT ![t] = ws]
          /\ Await(t, "shut")
  /\ UNCHANGED <<transport, lock, ws, reader, rstate, relay, greeted, after, future>>

\* ws.close() returns when the connection is down and the relay reaped.
SocketClosed(t) ==
  /\ Wakes(t, "shut")
  /\ conn[at[t]] = "down" /\ at[t] \notin relay
  /\ GoTo(t, "unset")
  /\ UNCHANGED <<transport, lock, ws, reader, rstate, conn, relay, shut, greeted, at, after, future>>

\* The task is cancelled inside ws.close(): _ws and _reader stay what they are. The
\* finally of ProxyWebSocket.close runs all the same; whether its wait for the relay
\* is cut short is in ProxyTransport.
CancelClose(t) ==
  /\ Wakes(t, "shut") /\ t # Exit
  /\ Proxy => conn[at[t]] = "down"
  /\ lock' = IF lock = t THEN Nobody ELSE lock
  /\ Await(t, "failed")
  /\ UNCHANGED <<transport, ws, reader, rstate, conn, relay, shut, greeted, at, after, future>>

\* _ws is cleared and the reader cancelled, whichever they are by now.
Unset(t) ==
  /\ At(t, "unset")
  /\ ws' = 0
  /\ IF Reading
     THEN /\ rstate' = [rstate EXCEPT ![reader] = "cancelling"]
          /\ at' = [at EXCEPT ![t] = reader]
          /\ Await(t, "drain")
          /\ UNCHANGED reader
     ELSE /\ reader' = 0
          /\ GoTo(t, "closed")
          /\ UNCHANGED <<rstate, at>>
  /\ UNCHANGED <<transport, lock, conn, relay, shut, greeted, after, future>>

\* A cancellation of the task while it waits for the reader is suppressed.
Drained(t) ==
  /\ Wakes(t, "drain")
  /\ rstate[at[t]] = "done"
  /\ reader' = 0
  /\ GoTo(t, "closed")
  /\ UNCHANGED <<transport, lock, ws, rstate, conn, relay, shut, greeted, at, after, future>>

KeepLock(t) == lock' = lock

\* A connect that failed leaves its async with.
Unlock(t) == lock' = Nobody

\* close() has returned, to the end of a send or to a connect that failed.
Return(t) ==
  /\ At(t, "closed")
  /\ \/ after[t] = "end" /\ Await(t, "done") /\ UNCHANGED lock
     \/ after[t] = "fail" /\ Await(t, "failed") /\ Unlock(t)
  /\ UNCHANGED <<transport, ws, reader, rstate, conn, relay, shut, greeted, at, after, future>>

-----------------------------------------------------------------------------
(* The readers, and the world outside. *)

\* The reader receives the answer to the request of task t.
ReaderGets(t) ==
  /\ run = Nobody
  /\ future[t] = "waiting"
  /\ rstate[at[t]] = "running" /\ conn[at[t]] = "open"
  /\ future' = [future EXCEPT ![t] = "answered"]
  /\ UNCHANGED <<transport, run, lock, ws, reader, rstate, conn, relay, shut, greeted, pc, at, after>>

FailsNone(f) == f

\* The finally of _receive fails every pending future.
FailsAll(f) == IF f = "waiting" THEN "broken" ELSE f

ReaderEnds(n) ==
  /\ run = Nobody
  /\ rstate[n] = "cancelling" \/ (rstate[n] = "running" /\ conn[n] = "down")
  /\ rstate' = [rstate EXCEPT ![n] = "done"]
  /\ future' = [t \in Tasks |-> FailsAll(future[t])]
  /\ UNCHANGED <<transport, run, lock, ws, reader, conn, relay, shut, greeted, pc, at, after>>

\* The server, or the network, ends a connection.
Lost(n) ==
  /\ run = Nobody
  /\ conn[n] = "open"
  /\ conn' = [conn EXCEPT ![n] = "down"]
  /\ UNCHANGED <<transport, run, lock, ws, reader, rstate, relay, shut, greeted, pc, at, after, future>>

\* The reader stops at a message that is not JSON; the connection stays open.
Unreadable(n) ==
  /\ Junk
  /\ run = Nobody
  /\ conn[n] = "open" /\ rstate[n] = "running"
  /\ rstate' = [rstate EXCEPT ![n] = "done"]
  /\ future' = [t \in Tasks |-> FailsAll(future[t])]
  /\ UNCHANGED <<transport, run, lock, ws, reader, conn, relay, shut, greeted, pc, at, after>>

\* A closing handshake ends, at the latest after close_timeout.
ClosingEnds(n) ==
  /\ run = Nobody
  /\ conn[n] = "closing"
  /\ conn' = [conn EXCEPT ![n] = "down"]
  /\ UNCHANGED <<transport, run, lock, ws, reader, rstate, relay, shut, greeted, pc, at, after, future>>

\* A relay may end by itself; what ends the one of a connection that is down is in
\* ProxyTransport.
RelayEnds(n) ==
  /\ run = Nobody
  /\ n \in relay
  /\ relay' = relay \ {n}
  /\ UNCHANGED <<transport, run, lock, ws, reader, rstate, conn, shut, greeted, pc, at, after, future>>

-----------------------------------------------------------------------------
TaskStep(t) ==
  \/ Acquire(t) \/ StayConnected(t) \/ Reconnect(t) \/ Open(t) \/ NoSocket(t)
  \/ Opened(t) \/ OpenFails(t) \/ Greet(t) \/ GreetFails(t)
  \/ Request(t) \/ NotConnected(t) \/ Answered(t) \/ RequestBroken(t) \/ RequestTimeout(t)
  \/ CloseSocket(t) \/ SocketClosed(t) \/ Unset(t) \/ Drained(t) \/ Return(t)

ConnStep(n) == ReaderEnds(n) \/ ClosingEnds(n) \/ RelayEnds(n)

Next ==
  \/ \E t \in Tasks : Start(t) \/ GiveUpLock(t) \/ CancelClose(t) \/ TaskStep(t) \/ ReaderGets(t)
  \/ \E n \in Conns : ConnStep(n) \/ Lost(n) \/ Unreadable(n)

Spec == Init /\ [][Next]_vars

\* The event loop runs every task that can go on; opening, initialize and
\* requests time out; a closing handshake and a relay end within their timeouts.
\* ws.send (rpc.py:125) is under no timeout: the peer keeps reading.
Fairness ==
  /\ \A t \in Tasks : WF_vars(TaskStep(t))
  /\ \A n \in Conns : WF_vars(ReaderEnds(n)) /\ WF_vars(ClosingEnds(n))
                      /\ WF_vars(conn[n] = "down" /\ RelayEnds(n))

FairSpec == Spec /\ Fairness

-----------------------------------------------------------------------------
(* Properties. *)

\* The reader ended between the answer to initialize and the request of the task that
\* opened the connection, which looks at the reader no more.
SentUnread(t) == Junk /\ pc[t] = "await" /\ after[t] = "open"

\* A request in flight has a reader that will resolve its future or fail it: no caller
\* is left to its timeout by a connection that has gone (rpc.py:111-114).  On each
\* connection one request may be, the first, when its reader stopped at a message that
\* is not JSON before that request was sent; one of a call that found the connection
\* never is.
NoneForgotten ==
  LET Unread == {t \in Tasks : future[t] = "waiting"
                                /\ rstate[at[t]] \notin {"running", "cancelling"}}
  IN /\ \A t \in Unread : SentUnread(t)
     /\ \A t, u \in Unread : at[t] = at[u] => t = u

\* No request is sent on a connection before its initialize has completed, however
\* many calls find it opening (rpc.py:49-52).
GreetedFirst == \A t \in Tasks : pc[t] = "await" => at[t] \in greeted

\* Two readers never run at once: a second one would take answers away.
OneReader ==
  \A m, n \in Conns : rstate[m] = "running" /\ rstate[n] = "running" => m = n

\* When the last close has returned no connection is left, and with it no relay
\* process: after "await rpc.close()", "assert relay_processes[0].returncode is
\* not None" (tests/test_proxy_transport.py:114-115).
NothingLeft ==
  pc[Exit] = "done" => \A n \in Conns : conn[n] \in {"unused", "down"}

\* Over the Unix transport that holds: a second close waits for the handshake too.
UnixLeavesNothing == transport = "unix" => NothingLeft

\* Every call and every close ends, whatever the connection does meanwhile.
EveryTaskEnds == \A t \in Tasks : pc[t] # "new" ~> Ended(t)
=============================================================================

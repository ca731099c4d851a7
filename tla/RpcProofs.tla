----------------------------- MODULE RpcProofs -----------------------------
(***************************************************************************)
(* Proofs about RpcClient, for any number of calls, closes and connections *)
(* and any transport.                                                      *)
(***************************************************************************)
EXTENDS RpcClient, TLAPS

\* Inside close().
InClose(t) == pc[t] \in {"close", "shut", "unset", "drain", "closed"}

\* Inside the "async with" of connect.
Inside(t) == pc[t] \in {"connect", "opening", "hello"} \/ (InClose(t) /\ after[t] # "end")

\* On the way to a new connection.
Opening(t) == pc[t] = "opening" \/ (InClose(t) /\ after[t] = "open")

\* One task at a time is inside connect, and what is not an await is run at once.
Tracks ==
  \A t \in Tasks :
    /\ Inside(t) => lock = t
    /\ pc[t] \in {"connect", "request", "close", "unset", "closed"} => run = t
    /\ pc[t] \in {"opening", "hello", "shut", "drain"} => at[t] \in Conns
    /\ future[t] # "none" => pc[t] \in {"hello", "await"} /\ at[t] \in Conns
    /\ IF t \in Callers
       THEN InClose(t) => after[t] # "end"
       ELSE after[t] = "end" /\ (InClose(t) \/ pc[t] \in {"new", "done", "failed"})

\* A connection is opening while a task opens it, and has no reader yet.
Sockets ==
  /\ \A t \in Tasks : pc[t] = "opening" => conn[at[t]] = "opening"
  /\ \A n \in Conns : conn[n] = "opening" => \E t \in Tasks : pc[t] = "opening" /\ at[t] = n
  /\ \A n \in Conns : conn[n] \in {"unused", "opening"} => rstate[n] = "none" /\ n # ws
  /\ \A n \in greeted : conn[n] \notin {"unused", "opening"}
  /\ \A n \in shut : conn[n] \in {"closing", "down"}

\* A reader that has not ended is the one in _reader, and belongs to _ws; nobody
\* opens a connection while there is one.
Readers ==
  /\ \A n \in Conns : rstate[n] \in {"running", "cancelling"} => reader = n
  /\ reader # 0 => rstate[reader] # "none"
  /\ ws # 0 => ws = reader /\ rstate[ws] # "cancelling"
  /\ \A t \in Tasks :
       /\ Opening(t) => ~Reading
       /\ pc[t] \in {"opening", "drain", "closed"} => ws = 0
       /\ pc[t] = "drain" =>
            rstate[at[t]] = "cancelling" \/ (rstate[at[t]] = "done" /\ ~Reading)

\* An open connection that is not greeted yet belongs to the task in connect.
Greetings ==
  /\ \A t \in Tasks : pc[t] = "hello" /\ ws # 0 => ws \notin greeted
  /\ CanSend /\ ws \notin greeted => \E t \in Tasks : lock = t /\ pc[t] \in {"hello", "close"}
  /\ \A t \in Tasks : pc[t] = "request" => (CanSend => ws \in greeted)

\* The task is on the connection that it opened itself.
OnItsOwn(t) == pc[t] \in {"opening", "hello", "request", "await"} /\ after[t] = "open"

\* No two tasks opened the same connection, and initialize is sent on the one that was
\* opened.
Openers ==
  /\ \A t \in Tasks :
       /\ OnItsOwn(t) => at[t] \in Conns /\ conn[at[t]] # "unused"
       /\ pc[t] \in {"opening", "hello"} => after[t] = "open"
       /\ pc[t] \in {"new", "lock", "connect"} => after[t] = "end"
       /\ pc[t] = "hello" \/ (pc[t] = "request" /\ after[t] = "open") => ws \in {0, at[t]}
  /\ \A t, u \in Tasks : OnItsOwn(t) /\ OnItsOwn(u) /\ at[t] = at[u] => t = u

\* A connection whose reader has ended while it is open has received what is not JSON;
\* only the task that opened it may go on to its request then.
Listened ==
  /\ CanSend /\ ~Reading => Junk
  /\ \A t \in Tasks : pc[t] = "request" => Reading \/ after[t] = "open"

\* A request in flight has a reader, or was sent without one by the task that opened
\* the connection.
HaveReaders ==
  \A t \in Tasks :
    future[t] = "waiting" => rstate[at[t]] \in {"running", "cancelling"} \/ SentUnread(t)

\* Over the Unix transport, a connection is dropped only when it is down.
UnixCloses ==
  transport = "unix" =>
    /\ relay = {}
    /\ \A n \in Conns : conn[n] \in {"open", "closing"} => ws = n
    /\ \A t \in Tasks :
         /\ pc[t] = "shut" => ws \in {0, at[t]} /\ conn[at[t]] \in {"closing", "down"}
         /\ pc[t] = "unset" => ws = 0 \/ conn[ws] = "down"

\* The last close runs alone.
LastClose ==
  /\ pc[Exit] # "new" => \A t \in Tasks \ {Exit} : Ended(t)
  /\ pc[Exit] = "done" => ws = 0

IndInv ==
  /\ TypeOK /\ Tracks /\ Sockets /\ Readers /\ Greetings /\ Openers /\ Listened
  /\ UnixCloses /\ LastClose /\ HaveReaders /\ GreetedFirst

LEMMA InitInv == Init => IndInv
<1> SUFFICES ASSUME Init
             PROVE  IndInv
  OBVIOUS
<1> USE ClientAssumption DEF Init, Tasks, Conns
<1>1. TypeOK
  BY DEF TypeOK, Labels
<1>2. Tracks /\ Sockets
  BY DEF Tracks, Sockets, Inside, InClose
<1>3. Readers /\ Greetings
  BY DEF Readers, Greetings, Inside, InClose, Opening, Reading, CanSend
<1>4. UnixCloses /\ LastClose /\ HaveReaders /\ GreetedFirst
  BY DEF UnixCloses, LastClose, HaveReaders, GreetedFirst
<1>5. Openers /\ Listened
  BY DEF Openers, OnItsOwn, Listened, Reading, CanSend
<1> QED BY <1>1, <1>2, <1>3, <1>4, <1>5 DEF IndInv

\* A task is at the lock, or decides whether to connect.
LEMMA ConnectingInv ==
  ASSUME IndInv, NEW t \in Tasks,
         \/ Start(t) \/ Acquire(t) \/ GiveUpLock(t)
         \/ StayConnected(t) \/ Reconnect(t) \/ NoSocket(t)
  PROVE  IndInv'
<1> USE ClientAssumption DEF IndInv, Tasks, Conns
<1>1. UNCHANGED <<transport, ws, reader, rstate, conn, relay, shut, greeted, at, future>>
  BY DEF Start, Acquire, GiveUpLock, StayConnected, Reconnect, NoSocket, Wakes, At, GoTo,
         Await, LockFree, Ended
<1>2. /\ run' \in {t, Nobody} /\ lock' \in {lock, t, Nobody}
      /\ after' \in [Tasks -> {"end", "open", "fail"}]
      /\ pc[t] # "opening"
      /\ \E l \in Labels \ {"opening", "shut", "unset"} : pc' = [pc EXCEPT ![t] = l]
  BY DEF Start, Acquire, GiveUpLock, StayConnected, Reconnect, NoSocket, Wakes, At, GoTo,
         Await, LockFree, Ended, Labels, TypeOK
<1>3. TypeOK'
  BY <1>1, <1>2 DEF TypeOK, Labels, FailsAll
<1>4. Tracks'
  BY DEF Start, Acquire, GiveUpLock, StayConnected, Reconnect, NoSocket, Wakes, At, GoTo,
         Await, LockFree, Ended, TypeOK, Tracks, Inside, InClose, Readers, Reading, CanSend
<1>5. Sockets'
  BY <1>1, <1>2 DEF TypeOK, Tracks, Sockets
<1>6. Readers'
  BY DEF Start, Acquire, GiveUpLock, StayConnected, Reconnect, NoSocket, Wakes, At, GoTo,
         Await, LockFree, Ended, TypeOK, Tracks, Sockets, Readers, Opening, Inside, InClose,
         Reading
<1>7. Greetings'
  BY DEF Start, Acquire, GiveUpLock, StayConnected, Reconnect, NoSocket, Wakes, At, GoTo,
         Await, LockFree, Ended, TypeOK, Tracks, Sockets, Readers, Greetings, Inside,
         InClose, CanSend, Reading
<1>8. Openers'
  BY DEF Start, Acquire, GiveUpLock, StayConnected, Reconnect, NoSocket, Wakes, At,
         GoTo, Await, LockFree, Ended, TypeOK, Tracks, Sockets, Readers, Inside,
         InClose, Openers, OnItsOwn
<1>9. Listened'
  BY DEF Start, Acquire, GiveUpLock, StayConnected, Reconnect, NoSocket, Wakes, At,
         GoTo, Await, LockFree, Ended, TypeOK, Tracks, Sockets, Readers, Inside,
         InClose, Opening, CanSend, Reading, Openers, Listened
<1>10. UnixCloses'
  BY <1>1, <1>2 DEF TypeOK, Tracks, UnixCloses
<1>11. LastClose'
  BY DEF Start, Acquire, GiveUpLock, StayConnected, Reconnect, NoSocket, Wakes, At, GoTo,
         Await, LockFree, Ended, TypeOK, Tracks, Readers, LastClose, Inside, InClose
<1>12. HaveReaders'
  BY DEF Start, Acquire, GiveUpLock, StayConnected, Reconnect, NoSocket, Wakes, At,
         GoTo, Await, LockFree, Ended, TypeOK, Tracks, Readers, HaveReaders, Reading,
         Listened, SentUnread
<1>13. GreetedFirst'
  BY DEF Start, Acquire, GiveUpLock, StayConnected, Reconnect, NoSocket, Wakes, At, GoTo,
         Await, LockFree, Ended, TypeOK, Tracks, Greetings, GreetedFirst, CanSend
<1> QED BY <1>3, <1>4, <1>5, <1>6, <1>7, <1>8, <1>9, <1>10, <1>11, <1>12, <1>13

\* A task begins to open a connection; there is no reader then.
LEMMA OpenInv ==
  ASSUME IndInv, NEW t \in Tasks,
         Open(t)
  PROVE  IndInv'
<1> USE ClientAssumption DEF IndInv, Tasks, Conns, Open, Wakes, At, GoTo, Await, Proxy
<1>1. TypeOK'
  BY DEF TypeOK, Readers, Labels
<1>2. Tracks'
  BY DEF TypeOK, Tracks, Inside, InClose, Readers, Reading, CanSend
<1>3. Sockets'
  BY DEF TypeOK, Tracks, Inside, InClose, Sockets, Readers, Reading
<1>4. Readers'
  BY DEF TypeOK, Tracks, Sockets, Readers, Opening, Inside, InClose, Reading
<1>5. Greetings'
  BY DEF TypeOK, Tracks, Sockets, Readers, Greetings, Inside, InClose, CanSend, Reading
<1>6. Openers'
  BY DEF TypeOK, Tracks, Sockets, Readers, Inside, InClose, Openers, OnItsOwn
<1>7. Listened'
  BY DEF TypeOK, Tracks, Sockets, Readers, Inside, InClose, Opening, CanSend, Reading,
         Openers, Listened
<1>8. UnixCloses'
  BY DEF TypeOK, Tracks, Sockets, Readers, UnixCloses, Proxy
<1>9. LastClose'
  BY DEF TypeOK, Tracks, Readers, LastClose, Ended, Inside, InClose
<1>10. HaveReaders'
  BY DEF TypeOK, Tracks, Readers, HaveReaders, Reading, Listened, SentUnread
<1>11. GreetedFirst'
  BY DEF TypeOK, Tracks, Greetings, GreetedFirst, CanSend
<1> QED BY <1>1, <1>2, <1>3, <1>4, <1>5, <1>6, <1>7, <1>8, <1>9, <1>10, <1>11

\* The connection is open; no other task, and no reader, is in the way.
LEMMA OpenedInv ==
  ASSUME IndInv, NEW t \in Tasks,
         Opened(t)
  PROVE  IndInv'
<1> USE ClientAssumption DEF IndInv, Tasks, Conns, Opened, Wakes, At, GoTo, Await, Woken
<1>1. TypeOK'
  BY DEF TypeOK, Readers, Labels
<1>2. Tracks'
  BY DEF TypeOK, Tracks, Inside, InClose, Readers, Reading, CanSend
<1>3. Sockets'
  BY DEF TypeOK, Tracks, Inside, InClose, Sockets, Readers, Reading
<1>4. Readers'
  BY DEF TypeOK, Tracks, Sockets, Readers, Opening, Inside, InClose, Reading
<1>5. Greetings'
  BY DEF TypeOK, Tracks, Sockets, Readers, Greetings, Inside, InClose, CanSend, Reading
<1>6. Openers'
  BY DEF TypeOK, Tracks, Sockets, Readers, Inside, InClose, Openers, OnItsOwn
<1>7. Listened'
  BY DEF TypeOK, Tracks, Sockets, Readers, Inside, InClose, Opening, CanSend, Reading,
         Openers, Listened
<1>8. UnixCloses'
  BY DEF TypeOK, Tracks, Sockets, Readers, UnixCloses, Proxy
<1>9. LastClose'
  BY DEF TypeOK, Tracks, Readers, LastClose, Ended, Inside, InClose
<1>10. HaveReaders'
  BY DEF TypeOK, Tracks, Readers, HaveReaders, Reading, Listened, SentUnread
<1>11. GreetedFirst'
  BY DEF TypeOK, Tracks, Greetings, GreetedFirst, CanSend
<1> QED BY <1>1, <1>2, <1>3, <1>4, <1>5, <1>6, <1>7, <1>8, <1>9, <1>10, <1>11

\* The connection could not be opened.
LEMMA OpenFailsInv ==
  ASSUME IndInv, NEW t \in Tasks,
         OpenFails(t)
  PROVE  IndInv'
<1> USE ClientAssumption DEF IndInv, Tasks, Conns
<1>1. TypeOK'
  BY DEF OpenFails, Wakes, At, GoTo, Await, TypeOK, Readers, Labels
<1>2. Tracks'
  <2>1. /\ UNCHANGED <<lock, at, future>> /\ run' = t /\ run = Nobody
        /\ pc[t] = "opening" /\ pc' = [pc EXCEPT ![t] = "close"]
        /\ after' = [after EXCEPT ![t] = "fail"]
    BY DEF OpenFails, Wakes, GoTo
  <2> QED BY <2>1 DEF TypeOK, Tracks, Inside, InClose
<1>3. Sockets'
  BY DEF OpenFails, Wakes, At, GoTo, Await, TypeOK, Tracks, Inside, InClose, Sockets,
         Readers, Reading
<1>4. Readers'
  BY DEF OpenFails, Wakes, At, GoTo, Await, TypeOK, Tracks, Sockets, Readers, Opening,
         Inside, InClose, Reading
<1>5. Greetings'
  BY DEF OpenFails, Wakes, At, GoTo, Await, TypeOK, Tracks, Sockets, Readers, Greetings,
         Inside, InClose, CanSend, Reading
<1>6. Openers'
  BY DEF OpenFails, Wakes, At, GoTo, Await, TypeOK, Tracks, Sockets, Readers, Inside,
         InClose, Openers, OnItsOwn
<1>7. Listened'
  BY DEF OpenFails, Wakes, At, GoTo, Await, TypeOK, Tracks, Sockets, Readers, Inside,
         InClose, Opening, CanSend, Reading, Openers, Listened
<1>8. UnixCloses'
  <2>1. conn' = [conn EXCEPT ![at[t]] = "down"] /\ ws' = ws /\ at' = at
        /\ pc' = [pc EXCEPT ![t] = "close"] /\ relay' \subseteq relay /\ transport' = transport
    BY DEF OpenFails, Wakes, At, GoTo, Await
  <2> QED BY <2>1 DEF TypeOK, Tracks, UnixCloses
<1>9. LastClose'
  BY DEF OpenFails, Wakes, At, GoTo, Await, TypeOK, Tracks, Readers, LastClose, Ended,
         Inside, InClose
<1>10. HaveReaders'
  BY DEF OpenFails, Wakes, At, GoTo, Await, TypeOK, Tracks, Readers, HaveReaders,
         Reading, Listened, SentUnread
<1>11. GreetedFirst'
  BY DEF OpenFails, Wakes, At, GoTo, Await, TypeOK, Tracks, Greetings, GreetedFirst, CanSend
<1> QED BY <1>1, <1>2, <1>3, <1>4, <1>5, <1>6, <1>7, <1>8, <1>9, <1>10, <1>11

\* initialize was answered.
LEMMA GreetInv ==
  ASSUME IndInv, NEW t \in Tasks,
         Greet(t)
  PROVE  IndInv'
<1> USE ClientAssumption DEF IndInv, Tasks, Conns
<1>1. TypeOK'
  <2>1. /\ pc' \in [Tasks -> Labels] /\ run' \in Tasks \union {Nobody}
        /\ lock' \in Tasks \union {Nobody} /\ after' \in [Tasks -> {"end", "open", "fail"}]
        /\ future' \in [Tasks -> {"none", "waiting", "answered", "broken"}]
        /\ UNCHANGED <<transport, ws, reader, rstate, conn, relay, shut, at>>
    BY DEF Greet, Wakes, At, GoTo, Await, TypeOK, Labels
  <2>2. greeted' \in {greeted, greeted \union {ws}} /\ (ws = 0 => greeted' = greeted)
    BY DEF Greet, Wakes, At, GoTo, Await
  <2>3. greeted' \in SUBSET Conns
    BY <2>2 DEF TypeOK
  <2> QED BY <2>1, <2>3 DEF TypeOK
<1>2. Tracks'
  BY DEF Greet, Wakes, At, GoTo, Await, TypeOK, Tracks, Inside, InClose, Readers, Reading,
         CanSend
<1>3. Sockets'
  <2>1. /\ UNCHANGED <<ws, conn, rstate, shut, at>> /\ pc[t] = "hello"
        /\ \E l \in {"request", "close"} : pc' = [pc EXCEPT ![t] = l]
        /\ \A m \in greeted' : m \in greeted \/ (m = ws /\ conn[m] = "open")
    BY DEF Greet, Wakes, At, GoTo, Await
  <2>2. \A u \in Tasks : pc'[u] = "opening" <=> pc[u] = "opening"
    BY <2>1 DEF TypeOK
  <2>3. \A m \in greeted' : conn[m] \notin {"unused", "opening"}
    BY <2>1 DEF Sockets
  <2> QED BY <2>1, <2>2, <2>3 DEF Sockets
<1>4. Readers'
  BY DEF Greet, Wakes, At, GoTo, Await, TypeOK, Tracks, Sockets, Readers, Opening, Inside,
         InClose, Reading
<1>5. Greetings'
  BY DEF Greet, Wakes, At, GoTo, Await, TypeOK, Tracks, Sockets, Readers, Greetings, Inside,
         InClose, CanSend, Reading
<1>6. Openers'
  <2>1. /\ UNCHANGED <<ws, conn, at>> /\ pc[t] = "hello"
        /\ \/ pc' = [pc EXCEPT ![t] = "request"] /\ after' = after
           \/ pc' = [pc EXCEPT ![t] = "close"] /\ after' = [after EXCEPT ![t] = "fail"]
    BY DEF Greet, Wakes, GoTo
  <2> QED BY <2>1 DEF TypeOK, Openers, OnItsOwn
<1>7. Listened'
  BY DEF Greet, Wakes, At, GoTo, Await, TypeOK, Tracks, Sockets, Readers, Inside,
         InClose, Opening, CanSend, Reading, Openers, Listened
<1>8. UnixCloses'
  BY DEF Greet, Wakes, At, GoTo, Await, TypeOK, Tracks, Sockets, Readers, UnixCloses, Proxy
<1>9. LastClose'
  BY DEF Greet, Wakes, At, GoTo, Await, TypeOK, Tracks, Readers, LastClose, Ended, Inside,
         InClose
<1>10. HaveReaders'
  BY DEF Greet, Wakes, At, GoTo, Await, TypeOK, Tracks, Readers, HaveReaders, Reading,
         Listened, SentUnread
<1>11. GreetedFirst'
  BY DEF Greet, Wakes, At, GoTo, Await, TypeOK, Tracks, Greetings, GreetedFirst, CanSend
<1> QED BY <1>1, <1>2, <1>3, <1>4, <1>5, <1>6, <1>7, <1>8, <1>9, <1>10, <1>11

\* initialize was not answered, or with an error.
LEMMA GreetFailsInv ==
  ASSUME IndInv, NEW t \in Tasks,
         GreetFails(t)
  PROVE  IndInv'
<1> USE ClientAssumption DEF IndInv, Tasks, Conns, GreetFails, Wakes, At, GoTo, Await
<1>1. TypeOK'
  BY DEF TypeOK, Readers, Labels
<1>2. Tracks'
  BY DEF TypeOK, Tracks, Inside, InClose, Readers, Reading, CanSend
<1>3. Sockets'
  BY DEF TypeOK, Tracks, Inside, InClose, Sockets, Readers, Reading
<1>4. Readers'
  BY DEF TypeOK, Tracks, Sockets, Readers, Opening, Inside, InClose, Reading
<1>5. Greetings'
  BY DEF TypeOK, Tracks, Sockets, Readers, Greetings, Inside, InClose, CanSend, Reading
<1>6. Openers'
  BY DEF TypeOK, Tracks, Sockets, Readers, Inside, InClose, Openers, OnItsOwn
<1>7. Listened'
  BY DEF TypeOK, Tracks, Sockets, Readers, Inside, InClose, Opening, CanSend, Reading,
         Openers, Listened
<1>8. UnixCloses'
  BY DEF TypeOK, Tracks, Sockets, Readers, UnixCloses, Proxy
<1>9. LastClose'
  BY DEF TypeOK, Tracks, Readers, LastClose, Ended, Inside, InClose
<1>10. HaveReaders'
  BY DEF TypeOK, Tracks, Readers, HaveReaders, Reading, Listened, SentUnread
<1>11. GreetedFirst'
  BY DEF TypeOK, Tracks, Greetings, GreetedFirst, CanSend
<1> QED BY <1>1, <1>2, <1>3, <1>4, <1>5, <1>6, <1>7, <1>8, <1>9, <1>10, <1>11

\* A request is sent, on a connection that was greeted.
LEMMA RequestInv ==
  ASSUME IndInv, NEW t \in Tasks,
         Request(t)
  PROVE  IndInv'
<1> USE ClientAssumption DEF IndInv, Tasks, Conns, Request, Wakes, At, GoTo, Await, CanSend
<1>1. TypeOK'
  BY DEF TypeOK, Readers, Labels
<1>2. Tracks'
  BY DEF TypeOK, Tracks, Inside, InClose, Readers, Reading, CanSend
<1>3. Sockets'
  BY DEF TypeOK, Tracks, Inside, InClose, Sockets, Readers, Reading
<1>4. Readers'
  BY DEF TypeOK, Tracks, Sockets, Readers, Opening, Inside, InClose, Reading
<1>5. Greetings'
  BY DEF TypeOK, Tracks, Sockets, Readers, Greetings, Inside, InClose, CanSend, Reading
<1>6. Openers'
  BY DEF TypeOK, Tracks, Sockets, Readers, Inside, InClose, Openers, OnItsOwn
<1>7. Listened'
  BY DEF TypeOK, Tracks, Sockets, Readers, Inside, InClose, Opening, CanSend, Reading,
         Openers, Listened
<1>8. UnixCloses'
  BY DEF TypeOK, Tracks, Sockets, Readers, UnixCloses, Proxy
<1>9. LastClose'
  BY DEF TypeOK, Tracks, Readers, LastClose, Ended, Inside, InClose
<1>10. HaveReaders'
  BY DEF TypeOK, Tracks, Readers, HaveReaders, Reading, Listened, SentUnread
<1>11. GreetedFirst'
  BY DEF TypeOK, Tracks, Greetings, GreetedFirst, CanSend
<1> QED BY <1>1, <1>2, <1>3, <1>4, <1>5, <1>6, <1>7, <1>8, <1>9, <1>10, <1>11

\* A request ends, or is answered.
LEMMA EndingInv ==
  ASSUME IndInv, NEW t \in Tasks,
         NotConnected(t) \/ Answered(t) \/ RequestBroken(t) \/ RequestTimeout(t) \/ ReaderGets(t)
  PROVE  IndInv'
<1> USE ClientAssumption DEF IndInv, Tasks, Conns
<1>1. UNCHANGED <<transport, lock, ws, reader, rstate, conn, relay, shut, greeted, at,
                  after>>
  BY DEF NotConnected, Answered, RequestBroken, RequestTimeout, ReaderGets, Wakes, At, GoTo,
         Await
<1>2. /\ run' \in {run, Nobody} /\ pc' \in [Tasks -> Labels]
      /\ future' \in [Tasks -> {"none", "waiting", "answered", "broken"}]
      /\ \A u \in Tasks : pc'[u] = pc[u] \/ (pc[u] # "opening" /\ pc'[u] \in {"done", "failed"})
  <2>1. /\ run' \in {run, Nobody}
        /\ pc' = pc \/ \E l \in {"done", "failed"} : pc[t] # "opening" /\ pc' = [pc EXCEPT ![t] = l]
        /\ \E f \in {"none", "waiting", "answered", "broken"} :
             future' \in {future, [future EXCEPT ![t] = f]}
    BY DEF NotConnected, Answered, RequestBroken, RequestTimeout, ReaderGets, Wakes, At, GoTo,
           Await, TypeOK
  <2>2. future' \in [Tasks -> {"none", "waiting", "answered", "broken"}]
    BY <2>1 DEF TypeOK
  <2>3. /\ pc' \in [Tasks -> Labels]
        /\ \A u \in Tasks : pc'[u] = pc[u] \/ (pc[u] # "opening" /\ pc'[u] \in {"done", "failed"})
    <3>1. pc \in [Tasks -> Labels] /\ {"done", "failed"} \subseteq Labels
      BY DEF TypeOK, Labels
    <3> QED BY <2>1, <3>1
  <2> QED BY <2>1, <2>2, <2>3
<1>3. TypeOK'
  BY <1>1, <1>2 DEF TypeOK, Labels, FailsAll
<1>4. Tracks'
  BY DEF NotConnected, Answered, RequestBroken, RequestTimeout, ReaderGets, Wakes, At, GoTo,
         Await, TypeOK, Tracks, Inside, InClose, Readers, Reading, CanSend
<1>5. Sockets'
  BY <1>1, <1>2 DEF TypeOK, Tracks, Sockets
<1>6. Readers'
  BY DEF NotConnected, Answered, RequestBroken, RequestTimeout, ReaderGets, Wakes, At, GoTo,
         Await, TypeOK, Tracks, Sockets, Readers, Opening, Inside, InClose, Reading
<1>7. Greetings'
  BY DEF NotConnected, Answered, RequestBroken, RequestTimeout, ReaderGets, Wakes, At, GoTo,
         Await, TypeOK, Tracks, Sockets, Readers, Greetings, Inside, InClose, CanSend,
         Reading
<1>8. Openers'
  BY DEF NotConnected, Answered, RequestBroken, RequestTimeout, ReaderGets, Wakes, At,
         GoTo, Await, TypeOK, Tracks, Sockets, Readers, Inside, InClose, Openers,
         OnItsOwn
<1>9. Listened'
  BY DEF NotConnected, Answered, RequestBroken, RequestTimeout, ReaderGets, Wakes, At,
         GoTo, Await, TypeOK, Tracks, Sockets, Readers, Inside, InClose, Opening,
         CanSend, Reading, Openers, Listened
<1>10. UnixCloses'
  BY <1>1, <1>2 DEF TypeOK, Tracks, UnixCloses
<1>11. LastClose'
  BY DEF NotConnected, Answered, RequestBroken, RequestTimeout, ReaderGets, Wakes, At, GoTo,
         Await, TypeOK, Tracks, Readers, LastClose, Ended, Inside, InClose
<1>12. HaveReaders'
  BY DEF NotConnected, Answered, RequestBroken, RequestTimeout, ReaderGets, Wakes, At,
         GoTo, Await, TypeOK, Tracks, Readers, HaveReaders, Reading, Listened,
         SentUnread
<1>13. GreetedFirst'
  BY DEF NotConnected, Answered, RequestBroken, RequestTimeout, ReaderGets, Wakes, At, GoTo,
         Await, TypeOK, Tracks, Greetings, GreetedFirst, CanSend
<1> QED BY <1>3, <1>4, <1>5, <1>6, <1>7, <1>8, <1>9, <1>10, <1>11, <1>12, <1>13

\* close() closes the socket, if it is not closed.
LEMMA CloseSocketInv ==
  ASSUME IndInv, NEW t \in Tasks,
         CloseSocket(t)
  PROVE  IndInv'
<1> USE ClientAssumption DEF IndInv, Tasks, Conns
<1>1. TypeOK'
  <2>1. CASE ws = 0 \/ ClosesAtOnce(ws)
    <3>1. /\ UNCHANGED <<transport, lock, ws, reader, rstate, conn, relay, shut, greeted, at, after,
                       future>>
          /\ pc' = [pc EXCEPT ![t] = "unset"] /\ run' = t
      BY <2>1 DEF CloseSocket, GoTo
    <3> QED BY <3>1 DEF TypeOK, Labels
  <2>2. CASE ~(ws = 0 \/ ClosesAtOnce(ws))
    <3>1. ws \in Conns
      BY <2>2 DEF TypeOK
    <3>2. shut' = shut \union {ws}
      BY <2>2 DEF CloseSocket
    <3>3. shut' \in SUBSET Conns
      BY <3>1, <3>2 DEF TypeOK
    <3>4. at' \in [Tasks -> {0} \union Conns]
      BY <2>2, <3>1 DEF CloseSocket, Wakes, At, GoTo, Await, ClosesAtOnce, Proxy, TypeOK
    <3>5. conn' \in [Conns -> {"unused", "opening", "open", "closing", "down"}]
      BY <2>2, <3>1 DEF CloseSocket, Wakes, At, GoTo, Await, ClosesAtOnce, Proxy, TypeOK
    <3>6. pc' \in [Tasks -> Labels] /\ run' \in Tasks \union {Nobody}
      BY <2>2 DEF CloseSocket, Wakes, At, GoTo, Await, ClosesAtOnce, Proxy, TypeOK, Labels
    <3>7. UNCHANGED <<transport, lock, ws, reader, rstate, relay, greeted, after, future>>
      BY DEF CloseSocket
    <3> QED BY <3>3, <3>4, <3>5, <3>6, <3>7 DEF TypeOK
  <2> QED BY <2>1, <2>2
<1>2. Tracks'
  BY DEF CloseSocket, Wakes, At, GoTo, Await, ClosesAtOnce, Proxy, TypeOK, Tracks, Inside,
         InClose, Readers, Reading, CanSend
<1>3. Sockets'
  <2>1. /\ UNCHANGED <<ws, rstate, greeted>> /\ pc[t] = "close"
        /\ \E l \in {"unset", "shut"} : pc' = [pc EXCEPT ![t] = l]
        /\ \A u \in Tasks \ {t} : at'[u] = at[u]
    BY DEF CloseSocket, Wakes, At, GoTo, Await, ClosesAtOnce, Proxy, TypeOK
  <2>2. \/ UNCHANGED <<conn, shut>>
        \/ /\ ws \in Conns /\ shut' = shut \union {ws}
           /\ conn' = [conn EXCEPT ![ws] = IF @ = "open" THEN "closing" ELSE @]
    BY DEF CloseSocket, Wakes, At, GoTo, Await, ClosesAtOnce, Proxy, TypeOK
  <2>3. /\ \A m \in Conns : \/ conn'[m] = conn[m]
                            \/ conn[m] = "open" /\ conn'[m] = "closing"
        /\ \A m \in shut' : m \in shut \/ (m = ws /\ conn'[m] # "open")
    BY <2>2 DEF TypeOK
  <2>4. \A m \in shut' : conn'[m] \in {"closing", "down"}
    <3> SUFFICES ASSUME NEW m \in shut' PROVE conn'[m] \in {"closing", "down"}
      OBVIOUS
    <3>1. m \in Conns /\ conn[m] \in {"unused", "opening", "open", "closing", "down"}
      BY <2>2, <1>1 DEF TypeOK
    <3>2. CASE m \in shut
      BY <2>3, <3>1, <3>2 DEF Sockets
    <3>3. CASE m = ws /\ conn'[m] # "open"
      BY <2>3, <3>1, <3>3 DEF Sockets
    <3> QED BY <2>3, <3>2, <3>3
  <2>5. \A u \in Tasks : pc'[u] = "opening" => pc[u] = "opening" /\ at'[u] = at[u]
    BY <2>1 DEF TypeOK
  <2>6. \A u \in Tasks : pc[u] = "opening" => pc'[u] = "opening" /\ at'[u] = at[u]
    BY <2>1 DEF TypeOK
  <2>7. /\ \A u \in Tasks : pc'[u] = "opening" => conn'[at'[u]] = "opening"
        /\ \A m \in Conns : conn'[m] = "opening" =>
                            \E u \in Tasks : pc'[u] = "opening" /\ at'[u] = m
    <3>1. \A u \in Tasks : pc[u] = "opening" => at[u] \in Conns
      BY DEF Tracks, TypeOK, Sockets
    <3> QED BY <2>3, <2>5, <2>6, <3>1 DEF Sockets
  <2>8. greeted \subseteq Conns
    BY DEF TypeOK
  <2> QED BY <2>1, <2>3, <2>4, <2>7, <2>8 DEF Sockets
<1>4. Readers'
  BY DEF CloseSocket, Wakes, At, GoTo, Await, ClosesAtOnce, Proxy, TypeOK, Tracks, Sockets,
         Readers, Opening, Inside, InClose, Reading
<1>5. Greetings'
  BY DEF CloseSocket, Wakes, At, GoTo, Await, ClosesAtOnce, Proxy, TypeOK, Tracks, Sockets,
         Readers, Greetings, Inside, InClose, CanSend, Reading
<1>6. Openers'
  BY DEF CloseSocket, Wakes, At, GoTo, Await, ClosesAtOnce, Proxy, TypeOK, Tracks,
         Sockets, Readers, Inside, InClose, Openers, OnItsOwn
<1>7. Listened'
  BY DEF CloseSocket, Wakes, At, GoTo, Await, ClosesAtOnce, Proxy, TypeOK, Tracks,
         Sockets, Readers, Inside, InClose, Opening, CanSend, Reading, Openers, Listened
<1>8. UnixCloses'
  BY DEF CloseSocket, Wakes, At, GoTo, Await, ClosesAtOnce, Proxy, TypeOK, Tracks, Sockets,
         Readers, UnixCloses
<1>9. LastClose'
  <2>1. /\ pc[t] = "close" /\ ws' = ws
        /\ \E l \in {"unset", "shut"} : pc' = [pc EXCEPT ![t] = l]
    BY DEF CloseSocket, Wakes, At, GoTo, Await
  <2>2. /\ pc'[t] \in {"unset", "shut"}
        /\ \A u \in Tasks \ {t} : pc'[u] = pc[u]
    BY <2>1 DEF TypeOK
  <2> QED BY <2>1, <2>2 DEF LastClose, Ended
<1>10. HaveReaders'
  BY DEF CloseSocket, Wakes, At, GoTo, Await, ClosesAtOnce, Proxy, TypeOK, Tracks,
         Readers, HaveReaders, Reading, Listened, SentUnread
<1>11. GreetedFirst'
  BY DEF CloseSocket, Wakes, At, GoTo, Await, ClosesAtOnce, Proxy, TypeOK, Tracks,
         Greetings, GreetedFirst, CanSend
<1> QED BY <1>1, <1>2, <1>3, <1>4, <1>5, <1>6, <1>7, <1>8, <1>9, <1>10, <1>11

\* close() goes on, is cancelled, or returns.
LEMMA ClosingInv ==
  ASSUME IndInv, NEW t \in Tasks,
         SocketClosed(t) \/ CancelClose(t) \/ Drained(t) \/ Return(t)
  PROVE  IndInv'
<1> USE ClientAssumption DEF IndInv, Tasks, Conns
<1>1. UNCHANGED <<transport, ws, rstate, conn, relay, shut, greeted, at, after, future>>
  BY DEF SocketClosed, CancelClose, Drained, Return, Wakes, At, GoTo, Await, Unlock, Proxy
<1>2. /\ run' \in {t, Nobody} /\ lock' \in {lock, Nobody} /\ reader' \in {reader, 0}
      /\ \E l \in {"unset", "failed", "closed", "done"} : pc' = [pc EXCEPT ![t] = l]
      /\ pc'[t] = "unset" => pc[t] = "shut" /\ conn[at[t]] = "down"
      /\ pc[t] \in {"shut", "drain", "closed"}
  BY DEF SocketClosed, CancelClose, Drained, Return, Wakes, At, GoTo, Await, Unlock, Proxy,
         Labels, TypeOK
<1>3. TypeOK'
  BY <1>1, <1>2 DEF TypeOK, Labels, FailsAll
<1>4. Tracks'
  BY DEF SocketClosed, CancelClose, Drained, Return, Wakes, At, GoTo, Await, Unlock, Proxy,
         TypeOK, Tracks, Inside, InClose, Readers, Reading, CanSend
<1>5. Sockets'
  BY <1>1, <1>2 DEF TypeOK, Tracks, Sockets
<1>6. Readers'
  BY DEF SocketClosed, CancelClose, Drained, Return, Wakes, At, GoTo, Await, Unlock, Proxy,
         TypeOK, Tracks, Sockets, Readers, Opening, Inside, InClose, Reading
<1>7. Greetings'
  BY DEF SocketClosed, CancelClose, Drained, Return, Wakes, At, GoTo, Await, Unlock, Proxy,
         TypeOK, Tracks, Sockets, Readers, Greetings, Inside, InClose, CanSend, Reading
<1>8. Openers'
  BY DEF SocketClosed, CancelClose, Drained, Return, Wakes, At, GoTo, Await, Unlock,
         Proxy, TypeOK, Tracks, Sockets, Readers, Inside, InClose, Openers, OnItsOwn
<1>9. Listened'
  BY DEF SocketClosed, CancelClose, Drained, Return, Wakes, At, GoTo, Await, Unlock,
         Proxy, TypeOK, Tracks, Sockets, Readers, Inside, InClose, Opening, CanSend,
         Reading, Openers, Listened
<1>10. UnixCloses'
  BY <1>1, <1>2 DEF TypeOK, Tracks, UnixCloses
<1>11. LastClose'
  BY DEF SocketClosed, CancelClose, Drained, Return, Wakes, At, GoTo, Await, Unlock, Proxy,
         TypeOK, Tracks, Readers, LastClose, Ended, Inside, InClose
<1>12. HaveReaders'
  BY DEF SocketClosed, CancelClose, Drained, Return, Wakes, At, GoTo, Await, Unlock,
         Proxy, TypeOK, Tracks, Readers, HaveReaders, Reading, Listened, SentUnread
<1>13. GreetedFirst'
  BY DEF SocketClosed, CancelClose, Drained, Return, Wakes, At, GoTo, Await, Unlock, Proxy,
         TypeOK, Tracks, Greetings, GreetedFirst, CanSend
<1> QED BY <1>3, <1>4, <1>5, <1>6, <1>7, <1>8, <1>9, <1>10, <1>11, <1>12, <1>13

\* close() forgets the socket and cancels the reader.
LEMMA UnsetInv ==
  ASSUME IndInv, NEW t \in Tasks,
         Unset(t)
  PROVE  IndInv'
<1> USE ClientAssumption DEF IndInv, Tasks, Conns
<1>1. TypeOK'
  <2>1. CASE Reading
    <3>1. reader \in Conns
      BY <2>1 DEF Reading, TypeOK
    <3>2. rstate' \in [Conns -> {"none", "running", "cancelling", "done"}]
      BY <2>1, <3>1 DEF Unset, TypeOK
    <3>3. at' \in [Tasks -> {0} \union Conns]
      BY <2>1, <3>1 DEF Unset, TypeOK
    <3>4. pc' \in [Tasks -> Labels] /\ run' \in Tasks \union {Nobody}
      BY <2>1 DEF Unset, Await, TypeOK, Labels
    <3>5. /\ ws' = 0
          /\ UNCHANGED <<transport, lock, conn, relay, shut, greeted, after, future, reader>>
      BY <2>1 DEF Unset
    <3> QED BY <2>1, <3>2, <3>3, <3>4, <3>5 DEF TypeOK
  <2>2. CASE ~Reading
    BY <2>2 DEF Unset, Wakes, At, GoTo, Await, Reading, TypeOK, Labels
  <2> QED BY <2>1, <2>2
<1>2. Tracks'
  BY DEF Unset, Wakes, At, GoTo, Await, Reading, TypeOK, Tracks, Inside, InClose, Readers,
         CanSend
<1>3. Sockets'
  <2>1. /\ UNCHANGED <<conn, shut, greeted>> /\ ws' = 0 /\ pc[t] = "unset"
        /\ \E l \in {"drain", "closed"} : pc' = [pc EXCEPT ![t] = l]
        /\ \A u \in Tasks \ {t} : at'[u] = at[u]
    BY DEF Unset, Wakes, At, GoTo, Await, Reading, TypeOK
  <2>2. \A m \in Conns : rstate[m] = "none" => rstate'[m] = "none"
    BY DEF Unset, Wakes, At, GoTo, Await, Reading, TypeOK, Readers
  <2> QED BY <2>1, <2>2 DEF TypeOK, Tracks, Sockets
<1>4. Readers'
  BY DEF Unset, Wakes, At, GoTo, Await, Reading, TypeOK, Tracks, Sockets, Readers, Opening,
         Inside, InClose
<1>5. Greetings'
  BY DEF Unset, Wakes, At, GoTo, Await, Reading, TypeOK, Tracks, Sockets, Readers,
         Greetings, Inside, InClose, CanSend
<1>6. Openers'
  <2>1. /\ UNCHANGED <<conn, after>> /\ ws' = 0 /\ pc[t] = "unset"
        /\ \E l \in {"drain", "closed"} : pc' = [pc EXCEPT ![t] = l]
        /\ \A u \in Tasks \ {t} : at'[u] = at[u]
    BY DEF Unset, At, GoTo, Await, Reading, TypeOK
  <2>2. \A u \in Tasks : OnItsOwn(u)' => OnItsOwn(u) /\ u # t
    BY <2>1 DEF TypeOK, OnItsOwn
  <2> QED BY <2>1, <2>2 DEF TypeOK, Openers
<1>7. Listened'
  BY DEF Unset, Wakes, At, GoTo, Await, TypeOK, Tracks, Sockets, Readers, Inside,
         InClose, Opening, CanSend, Reading, Openers, Listened
<1>8. UnixCloses'
  <2>1. /\ UNCHANGED <<transport, relay, conn>> /\ ws' = 0 /\ pc[t] = "unset"
        /\ \E l \in {"drain", "closed"} : pc' = [pc EXCEPT ![t] = l]
        /\ \A u \in Tasks \ {t} : at'[u] = at[u]
    BY DEF Unset, At, GoTo, Await, Reading, TypeOK
  <2>2. transport = "unix" => \A n \in Conns : conn[n] \notin {"open", "closing"}
    BY <2>1 DEF UnixCloses
  <2> QED BY <2>1, <2>2 DEF TypeOK, UnixCloses
<1>9. LastClose'
  BY DEF Unset, Wakes, At, GoTo, Await, Reading, TypeOK, Tracks, Readers, LastClose, Ended,
         Inside, InClose
<1>10. HaveReaders'
  BY DEF Unset, Wakes, At, GoTo, Await, Reading, TypeOK, Tracks, Readers, HaveReaders,
         Listened, SentUnread
<1>11. GreetedFirst'
  BY DEF Unset, Wakes, At, GoTo, Await, Reading, TypeOK, Tracks, Greetings, GreetedFirst,
         CanSend
<1> QED BY <1>1, <1>2, <1>3, <1>4, <1>5, <1>6, <1>7, <1>8, <1>9, <1>10, <1>11

\* The world outside ends a connection or a relay.
LEMMA WorldInv ==
  ASSUME IndInv, NEW n \in Conns,
         Lost(n) \/ ClosingEnds(n) \/ RelayEnds(n)
  PROVE  IndInv'
<1> USE ClientAssumption DEF IndInv, Tasks, Conns
<1>1. UNCHANGED <<transport, run, lock, ws, reader, rstate, shut, greeted, pc, at, after,
                  future>>
  BY DEF Lost, ClosingEnds, RelayEnds, Wakes, At, GoTo, Await
<1>2. /\ relay' \in {relay, relay \ {n}}
      /\ conn' = conn \/ (conn[n] \in {"open", "closing"} /\ conn' = [conn EXCEPT ![n] = "down"])
  BY DEF Lost, ClosingEnds, RelayEnds, Wakes, At, GoTo, Await, Labels, TypeOK
<1>3. TypeOK'
  BY <1>1, <1>2 DEF TypeOK, Labels, FailsAll
<1>4. Tracks'
  BY DEF Lost, ClosingEnds, RelayEnds, Wakes, At, GoTo, Await, TypeOK, Tracks, Inside,
         InClose, Readers, Reading, CanSend
<1>5. Sockets'
  BY <1>1, <1>2 DEF TypeOK, Tracks, Sockets
<1>6. Readers'
  BY DEF Lost, ClosingEnds, RelayEnds, Wakes, At, GoTo, Await, TypeOK, Tracks, Sockets,
         Readers, Opening, Inside, InClose, Reading
<1>7. Greetings'
  BY DEF Lost, ClosingEnds, RelayEnds, Wakes, At, GoTo, Await, TypeOK, Tracks, Sockets,
         Readers, Greetings, Inside, InClose, CanSend, Reading
<1>8. Openers'
  BY DEF Lost, ClosingEnds, RelayEnds, Wakes, At, GoTo, Await, TypeOK, Tracks, Sockets,
         Readers, Inside, InClose, Openers, OnItsOwn
<1>9. Listened'
  BY DEF Lost, ClosingEnds, RelayEnds, Wakes, At, GoTo, Await, TypeOK, Tracks, Sockets,
         Readers, Inside, InClose, Opening, CanSend, Reading, Openers, Listened
<1>10. UnixCloses'
  BY <1>1, <1>2 DEF TypeOK, Tracks, UnixCloses
<1>11. LastClose'
  BY DEF Lost, ClosingEnds, RelayEnds, Wakes, At, GoTo, Await, TypeOK, Tracks, Readers,
         LastClose, Ended, Inside, InClose
<1>12. HaveReaders'
  BY DEF Lost, ClosingEnds, RelayEnds, Wakes, At, GoTo, Await, TypeOK, Tracks, Readers,
         HaveReaders, Reading, Listened, SentUnread
<1>13. GreetedFirst'
  BY DEF Lost, ClosingEnds, RelayEnds, Wakes, At, GoTo, Await, TypeOK, Tracks, Greetings,
         GreetedFirst, CanSend
<1> QED BY <1>3, <1>4, <1>5, <1>6, <1>7, <1>8, <1>9, <1>10, <1>11, <1>12, <1>13

\* A reader ends, and fails what is pending.
LEMMA ReaderStopsInv ==
  ASSUME IndInv, NEW n \in Conns,
         ReaderEnds(n) \/ Unreadable(n)
  PROVE  IndInv'
<1> USE ClientAssumption DEF IndInv, Tasks, Conns
<1>1. UNCHANGED <<transport, run, lock, ws, reader, conn, relay, shut, greeted, pc, at,
                  after>>
  BY DEF ReaderEnds, Unreadable, Wakes, At, GoTo, Await, FailsAll
<1>2. /\ rstate[n] \in {"running", "cancelling"} /\ rstate' = [rstate EXCEPT ![n] = "done"]
      /\ future' = [t \in Tasks |-> FailsAll(future[t])]
  BY DEF ReaderEnds, Unreadable, Wakes, At, GoTo, Await, FailsAll, Labels, TypeOK
<1>3. TypeOK'
  BY <1>1, <1>2 DEF TypeOK, Labels, FailsAll
<1>4. Tracks'
  BY DEF ReaderEnds, Unreadable, Wakes, At, GoTo, Await, FailsAll, TypeOK, Tracks, Inside,
         InClose, Readers, Reading, CanSend
<1>5. Sockets'
  BY <1>1, <1>2 DEF TypeOK, Tracks, Sockets
<1>6. Readers'
  <2>1. reader = n
    BY <1>2 DEF Readers
  <2>2. ~Reading'
    BY <1>1, <1>2, <2>1 DEF TypeOK, Reading
  <2>3. \A m \in Conns : rstate'[m] # rstate[m] => m = n /\ rstate'[m] = "done"
    BY <1>2 DEF TypeOK
  <2> QED BY <1>1, <2>1, <2>2, <2>3 DEF TypeOK, Tracks, Readers, Opening, InClose
<1>7. Greetings'
  BY DEF ReaderEnds, Unreadable, Wakes, At, GoTo, Await, FailsAll, TypeOK, Tracks, Sockets,
         Readers, Greetings, Inside, InClose, CanSend, Reading
<1>8. Openers'
  BY DEF ReaderEnds, Unreadable, Wakes, At, GoTo, Await, FailsAll, TypeOK, Tracks,
         Sockets, Readers, Inside, InClose, Openers, OnItsOwn
<1>9. Listened'
  BY DEF ReaderEnds, Unreadable, Wakes, At, GoTo, Await, FailsAll, TypeOK, Tracks,
         Sockets, Readers, Inside, InClose, Opening, CanSend, Reading, Openers, Listened
<1>10. UnixCloses'
  BY <1>1, <1>2 DEF TypeOK, Tracks, UnixCloses
<1>11. LastClose'
  BY DEF ReaderEnds, Unreadable, Wakes, At, GoTo, Await, FailsAll, TypeOK, Tracks, Readers,
         LastClose, Ended, Inside, InClose
<1>12. HaveReaders'
  BY DEF ReaderEnds, Unreadable, Wakes, At, GoTo, Await, FailsAll, TypeOK, Tracks,
         Readers, HaveReaders, Reading, Listened, SentUnread
<1>13. GreetedFirst'
  BY DEF ReaderEnds, Unreadable, Wakes, At, GoTo, Await, FailsAll, TypeOK, Tracks,
         Greetings, GreetedFirst, CanSend
<1> QED BY <1>3, <1>4, <1>5, <1>6, <1>7, <1>8, <1>9, <1>10, <1>11, <1>12, <1>13

LEMMA NextInv == IndInv /\ [Next]_vars => IndInv'
<1> SUFFICES ASSUME IndInv, [Next]_vars
             PROVE  IndInv'
  OBVIOUS
<1>1. CASE UNCHANGED vars
  BY <1>1 DEF vars, IndInv, TypeOK, Tracks, Sockets, Readers, Greetings, UnixCloses,
              LastClose, Openers, OnItsOwn, Listened, HaveReaders, SentUnread,
              GreetedFirst, Inside, InClose, Opening, Reading, CanSend, Ended
<1>2. CASE \E t \in Tasks :
             Start(t) \/ GiveUpLock(t) \/ CancelClose(t) \/ TaskStep(t) \/ ReaderGets(t)
  <2> PICK t \in Tasks : Start(t) \/ GiveUpLock(t) \/ CancelClose(t) \/ TaskStep(t) \/ ReaderGets(t)
    BY <1>2
  <2> QED BY ConnectingInv, OpenInv, OpenedInv, OpenFailsInv, GreetInv, GreetFailsInv,
         RequestInv,
             EndingInv, CloseSocketInv, ClosingInv, UnsetInv
          DEF TaskStep
<1>3. CASE \E n \in Conns : ConnStep(n) \/ Lost(n) \/ Unreadable(n)
  BY <1>3, WorldInv, ReaderStopsInv DEF ConnStep
<1> QED BY <1>1, <1>2, <1>3 DEF Next

LEMMA Invariance == Spec => []IndInv
BY InitInv, NextInv, PTL DEF Spec

\* Every variable of RpcClient keeps its type.
THEOREM TypeCorrect == Spec => []TypeOK
BY Invariance, PTL DEF IndInv

\* A request in flight has a reader that will answer or fail it; the only one on a
\* connection that may have none is that of the task which opened it.
THEOREM RequestsHaveReaders == Spec => []NoneForgotten
<1>1. IndInv => NoneForgotten
  <2> SUFFICES ASSUME IndInv
               PROVE  NoneForgotten
    OBVIOUS
  <2> DEFINE Unread == {t \in Tasks : future[t] = "waiting"
                                      /\ rstate[at[t]] \notin {"running", "cancelling"}}
  <2>1. \A t \in Unread : t \in Tasks /\ SentUnread(t)
    BY DEF IndInv, HaveReaders
  <2>2. \A t \in Unread : OnItsOwn(t)
    BY <2>1 DEF SentUnread, OnItsOwn
  <2>3. \A t, u \in Unread : at[t] = at[u] => t = u
    BY <2>1, <2>2 DEF IndInv, Openers
  <2> QED BY <2>1, <2>3 DEF NoneForgotten
<1> QED BY <1>1, Invariance, PTL

\* No request is sent before initialize has completed on its connection.
THEOREM InitializeFirst == Spec => []GreetedFirst
BY Invariance, PTL DEF IndInv

\* Two readers never run at once.
THEOREM ReadersAreAlone == Spec => []OneReader
<1>1. IndInv => OneReader
  BY DEF IndInv, Readers, OneReader
<1> QED BY <1>1, Invariance, PTL

\* Over the Unix transport, the last close leaves no connection.
THEOREM UnixShutsDown == Spec => []UnixLeavesNothing
<1>1. IndInv => UnixLeavesNothing
  <2> SUFFICES ASSUME IndInv, transport = "unix", pc[Exit] = "done", NEW n \in Conns
               PROVE  conn[n] \in {"unused", "down"}
    BY DEF UnixLeavesNothing, NothingLeft
  <2>1. ws = 0 /\ \A t \in Tasks : Ended(t)
    BY DEF IndInv, LastClose, Ended, Tasks
  <2>2. conn[n] # "opening"
    BY <2>1 DEF IndInv, Sockets, Ended
  <2>3. conn[n] \notin {"open", "closing"}
    BY <2>1 DEF IndInv, UnixCloses, Conns
  <2> QED BY <2>2, <2>3 DEF IndInv, TypeOK
<1> QED BY <1>1, Invariance, PTL

-----------------------------------------------------------------------------
(***************************************************************************)
(* Waits.  EveryTaskEnds counts the tasks, which the provers cannot; what  *)
(* it rests on is proved here: a task that waits waits for something that  *)
(* comes, and no task goes back to where it was.                           *)
(***************************************************************************)

\* The lock is held by a task inside connect, the running task is between two awaits,
\* and a task in ws.close() waits for a connection that is closing.
WaitsInv ==
  /\ lock # Nobody => Inside(lock)
  /\ run # Nobody => pc[run] \in {"connect", "request", "close", "unset", "closed"}
  /\ \A t \in Tasks : pc[t] = "shut" => conn[at[t]] \in {"closing", "down"}

LEMMA WaitsInit == Init => WaitsInv
BY DEF Init, WaitsInv

LEMMA TaskWaits ==
  ASSUME IndInv, WaitsInv, NEW t \in Tasks,
         Start(t) \/ GiveUpLock(t) \/ CancelClose(t) \/ TaskStep(t) \/ ReaderGets(t)
  PROVE  WaitsInv'
<1> USE ClientAssumption DEF IndInv, TypeOK, Tracks, WaitsInv, Inside, InClose, GoTo, Await,
        Wakes, At, Tasks
<1>1. CASE Start(t) \/ GiveUpLock(t) \/ CancelClose(t) \/ ReaderGets(t)
  BY <1>1 DEF Start, GiveUpLock, CancelClose, ReaderGets
<1>2. CASE Acquire(t) \/ StayConnected(t) \/ Reconnect(t) \/ NoSocket(t)
  BY <1>2 DEF Acquire, LockFree, StayConnected, Reconnect, NoSocket
<1>3. CASE Open(t)
  BY <1>3 DEF Open
<1>4. CASE Opened(t) \/ OpenFails(t)
  BY <1>4 DEF Opened, OpenFails, Sockets
<1>5. CASE Greet(t) \/ GreetFails(t)
  BY <1>5 DEF Greet, GreetFails
<1>6. CASE \/ Request(t) \/ NotConnected(t)
           \/ Answered(t) \/ RequestBroken(t) \/ RequestTimeout(t)
  BY <1>6 DEF Request, NotConnected, Answered, RequestBroken, RequestTimeout
<1>7. CASE CloseSocket(t)
  BY <1>7 DEF CloseSocket, Sockets
<1>8. CASE SocketClosed(t) \/ Unset(t) \/ Drained(t) \/ Return(t)
  BY <1>8 DEF SocketClosed, Unset, Drained, Return, Unlock
<1> QED BY <1>1, <1>2, <1>3, <1>4, <1>5, <1>6, <1>7, <1>8 DEF TaskStep

LEMMA WaitsStep == IndInv /\ WaitsInv /\ [Next]_vars => WaitsInv'
<1> SUFFICES ASSUME IndInv, WaitsInv, [Next]_vars
             PROVE  WaitsInv'
  OBVIOUS
<1>1. CASE UNCHANGED vars
  BY <1>1 DEF vars, WaitsInv, Inside, InClose
<1>2. ASSUME NEW n \in Conns, ConnStep(n) \/ Lost(n) \/ Unreadable(n)
      PROVE  WaitsInv'
  BY <1>2 DEF ConnStep, ReaderEnds, ClosingEnds, RelayEnds, Lost, Unreadable, WaitsInv,
              Inside, InClose, IndInv, TypeOK, Tracks
<1> QED BY <1>1, <1>2, TaskWaits DEF Next

LEMMA WaitsInvariance == Spec => []WaitsInv
BY WaitsInit, WaitsStep, Invariance, PTL DEF Spec

\* The task can go on, if only because its wait may time out.
Ready(t) ==
  \/ run = t
  \/ run = Nobody /\ pc[t] \in {"opening", "hello", "await"}
  \/ run = Nobody /\ pc[t] = "lock" /\ lock = Nobody
  \/ run = Nobody /\ pc[t] = "shut" /\ conn[at[t]] = "down" /\ at[t] \notin relay
  \/ run = Nobody /\ pc[t] = "drain" /\ rstate[at[t]] = "done"

\* It waits for a closing handshake, a relay or a cancelled reader to end.
Outlasts(t) ==
  \/ pc[t] = "shut" /\ conn[at[t]] = "closing"
  \/ pc[t] = "shut" /\ conn[at[t]] = "down" /\ at[t] \in relay
  \/ pc[t] = "drain" /\ rstate[at[t]] = "cancelling"

\* Between two steps of the event loop, a task that has begun can go on, or waits for
\* the end of something that ends, or for the lock of a task of which one of these is
\* true.
NobodyIsStranded ==
  run = Nobody =>
    \A t \in Tasks :
      pc[t] = "new" \/ Ended(t) \/ Ready(t) \/ Outlasts(t)
        \/ (pc[t] = "lock" /\ lock \in Tasks /\ (Ready(lock) \/ Outlasts(lock)))

\* No connect, request or close waits for another one that waits for it, with any
\* number of tasks, cancellations and lost connections.
THEOREM NoDeadlock == Spec => []NobodyIsStranded
<1>1. IndInv /\ WaitsInv => NobodyIsStranded
  <2> SUFFICES ASSUME IndInv, WaitsInv, run = Nobody
               PROVE  \A t \in Tasks :
                        pc[t] = "new" \/ Ended(t) \/ Ready(t) \/ Outlasts(t)
                          \/ (pc[t] = "lock" /\ lock \in Tasks /\ (Ready(lock) \/ Outlasts(lock)))
    BY DEF NobodyIsStranded
  <2>1. ASSUME NEW t \in Tasks, pc[t] \notin {"new", "lock", "done", "failed"}
        PROVE  Ready(t) \/ Outlasts(t)
    <3>1. pc[t] \in {"opening", "hello", "await", "shut", "drain"}
      BY <2>1, ClientAssumption DEF IndInv, TypeOK, Labels, Tracks
    <3>2. CASE pc[t] = "shut"
      BY <3>2 DEF WaitsInv, Ready, Outlasts
    <3>3. CASE pc[t] = "drain"
      BY <3>3 DEF IndInv, Readers, Ready, Outlasts
    <3> QED BY <3>1, <3>2, <3>3 DEF Ready
  <2>2. ASSUME NEW t \in Tasks, pc[t] = "lock", lock # Nobody
        PROVE  lock \in Tasks /\ (Ready(lock) \/ Outlasts(lock))
    <3>1. lock \in Tasks /\ pc[lock] \notin {"new", "lock", "done", "failed"}
      BY <2>2 DEF IndInv, TypeOK, WaitsInv, Inside, InClose
    <3> QED BY <3>1, <2>1
  <2> QED BY <2>1, <2>2 DEF Ended, Ready
<1> QED BY <1>1, Invariance, WaitsInvariance, PTL

\* How far a task has come.  A close before a connection is opened comes first, one
\* after a connect that failed last.
Place(t) ==
  CASE pc[t] = "new" -> 0
    [] pc[t] = "lock" -> 1
    [] pc[t] = "connect" -> 2
    [] pc[t] = "close" -> IF after[t] = "fail" THEN 10 ELSE 3
    [] pc[t] = "shut" -> IF after[t] = "fail" THEN 11 ELSE 4
    [] pc[t] = "unset" -> IF after[t] = "fail" THEN 12 ELSE 5
    [] pc[t] = "drain" -> IF after[t] = "fail" THEN 13 ELSE 6
    [] pc[t] = "closed" -> IF after[t] = "fail" THEN 14 ELSE 7
    [] pc[t] = "opening" -> 8
    [] pc[t] = "hello" -> 9
    [] pc[t] = "request" -> 15
    [] pc[t] = "await" -> 16
    [] OTHER -> 17

OnlyOnwards ==
  [][\A t \in Tasks : <<pc[t], after[t]>>' # <<pc[t], after[t]>> => Place(t) < Place(t)']_vars

\* Every step of a task takes it onwards: connect, request and close never go round in
\* circles, so that a task takes at most seventeen steps.
THEOREM NoTaskGoesBack == Spec => OnlyOnwards
<1>1. IndInv /\ [Next]_vars =>
        [\A t \in Tasks : <<pc[t], after[t]>>' # <<pc[t], after[t]>> => Place(t) < Place(t)']_vars
  <2> SUFFICES ASSUME IndInv, Next, NEW t \in Tasks,
                      <<pc[t], after[t]>>' # <<pc[t], after[t]>>
               PROVE  Place(t) < Place(t)'
    BY DEF vars
  <2> USE DEF GoTo, Await, Wakes, At, IndInv, TypeOK, Tracks, InClose
  <2>1. ~ \E n \in Conns : ConnStep(n) \/ Lost(n) \/ Unreadable(n)
    BY DEF ConnStep, ReaderEnds, ClosingEnds, RelayEnds, Lost, Unreadable
  <2>2. PICK u \in Tasks :
          Start(u) \/ GiveUpLock(u) \/ CancelClose(u) \/ TaskStep(u) \/ ReaderGets(u)
    BY <2>1 DEF Next
  <2>3. u = t /\ ~ReaderGets(u)
    BY <2>2 DEF TaskStep, Start, GiveUpLock, CancelClose, ReaderGets, Acquire, StayConnected,
                Reconnect, NoSocket, Open, Opened, OpenFails, Greet, GreetFails, Request,
                NotConnected, Answered, RequestBroken, RequestTimeout, CloseSocket,
                SocketClosed, Unset, Drained, Return
  <2>4. CASE Start(t) \/ GiveUpLock(t) \/ CancelClose(t)
    BY <2>4 DEF Start, GiveUpLock, CancelClose, Place
  <2>5. CASE Acquire(t) \/ StayConnected(t) \/ Reconnect(t) \/ NoSocket(t) \/ Open(t)
    BY <2>5 DEF Acquire, StayConnected, Reconnect, NoSocket, Open, Place
  <2>6. CASE Opened(t) \/ OpenFails(t) \/ Greet(t) \/ GreetFails(t)
    BY <2>6 DEF Opened, OpenFails, Greet, GreetFails, Place
  <2>7. CASE \/ Request(t) \/ NotConnected(t)
             \/ Answered(t) \/ RequestBroken(t) \/ RequestTimeout(t)
    BY <2>7 DEF Request, NotConnected, Answered, RequestBroken, RequestTimeout, Place
  <2>8. CASE CloseSocket(t) \/ SocketClosed(t) \/ Unset(t) \/ Drained(t) \/ Return(t)
    BY <2>8 DEF CloseSocket, SocketClosed, Unset, Drained, Return, Place
  <2> QED BY <2>2, <2>3, <2>4, <2>5, <2>6, <2>7, <2>8 DEF TaskStep
<1> QED BY <1>1, Invariance, PTL DEF Spec, OnlyOnwards
=============================================================================

--------------------------- MODULE CodexAppServer ---------------------------
(***************************************************************************)
(* The Codex App Server, as the bridge uses it.  It is not part of the     *)
(* repository: this module says what rpc.py and bridge.py rely on.         *)
(*                                                                         *)
(* A request written to a connection is handled at any later time, or      *)
(* never, also when its sender has given up, lost the connection or died.  *)
(* What the server says is any of the answers the method has: Desktop and  *)
(* other clients act between any two requests, so the status, the Goal and *)
(* the policy of a thread may differ from one answer to the next.          *)
(***************************************************************************)
EXTENDS Operations

CONSTANT Procs    \* bridge server processes, one connection each

VARIABLES
  inbox,      \* requests written and not yet handled
  replies,    \* answers on their way to a bridge
  answers,    \* history: what the server said to each call's request for a method
  attached    \* the threads each bridge connection is subscribed to

serverVars == <<inbox, replies, answers, attached>>

ThreadIds == Threads \union Calls

\* The methods that subscribe the asking connection to the thread.
Subscribing == {"thread/start", "thread/resume", "thread/fork"}

Requests ==
  {r \in [call : Calls, proc : Procs, method : Methods,
          thread : ThreadIds \union {None}, live : BOOLEAN] :
     r.method \in Subscribing => r.thread # None}

Replies == [call : Calls, proc : Procs, method : Methods, says : Answers]

ServerTypeOK ==
  /\ inbox \in SUBSET Requests
  /\ replies \in SUBSET Replies
  /\ answers \in [Calls -> [Methods -> Answers \union {None}]]
  /\ attached \in [Procs -> SUBSET ThreadIds]

ServerInit ==
  /\ inbox = {}
  /\ replies = {}
  /\ answers = [c \in Calls |-> [m \in Methods |-> None]]
  /\ attached = [p \in Procs |-> {}]

\* A request reaches the server's end of the connection of process p.
Accept(c, p, m, t) ==
  inbox' = inbox \union {[call |-> c, proc |-> p, method |-> m, thread |-> t, live |-> TRUE]}

\* The server handles a request: it refuses it, without effect, or performs it.
\* The answer travels back only while the connection it came from is open.
Serve(r, says) ==
  /\ r \in inbox
  /\ says \in {"rejected"} \union Says(r.method)
  /\ inbox' = inbox \ {r}
  /\ answers' = [answers EXCEPT ![r.call][r.method] = says]
  /\ replies' = IF r.live
                THEN replies \union {[call |-> r.call, proc |-> r.proc,
                                      method |-> r.method, says |-> says]}
                ELSE replies
  /\ attached' = IF r.live /\ says # "rejected" /\ r.method \in Subscribing
                 THEN [attached EXCEPT ![r.proc] = @ \union {r.thread}]
                 ELSE attached

\* The connection of process p ends: its subscriptions go with it, no answer
\* reaches p any more, and what it had written may still be handled.
Sever(p) ==
  /\ attached' = [attached EXCEPT ![p] = {}]
  /\ inbox' = {[r EXCEPT !.live = r.live /\ r.proc # p] : r \in inbox}
  /\ replies' = {a \in replies : a.proc # p}
  /\ UNCHANGED answers
=============================================================================

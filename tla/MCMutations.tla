---------------------------- MODULE MCMutations -----------------------------
(* Small instances of Mutations for TLC. *)
EXTENDS MutationsProperties, TLC

CONSTANTS c1, c2, c3, p1, p2, i1, i2, t1, here, there, title, text, other

Blank == [op |-> "set_thread_title", thread |-> None, cwd |-> None, project |-> FALSE,
          title |-> None, text |-> None, archived |-> FALSE]

Create(cwd, ttl, txt) ==
  [Blank EXCEPT !.op = "create_thread", !.cwd = cwd, !.title = ttl, !.text = txt]

Message(txt) ==
  [Blank EXCEPT !.op = "send_message_to_thread", !.thread = t1, !.text = txt]

CallSymmetry == Permutations(Calls) \union Permutations(Procs)

(* create_thread: one request_id raced by retries, and by another request. *)
CreateRequests ==
  {[Create(here, title, text) EXCEPT !.project = TRUE], Create(here, None, other)}

(* One request_id raced by retries of two operations. *)
RacedRequests == CreateRequests \union {Message(text)}

(* send_message_to_thread: two messages for one thread. *)
SendRequests == {Message(text), Message(other)}

(* Every operation, once or twice. *)
EveryRequest ==
  {Message(text),
   [Create(here, title, text) EXCEPT !.project = TRUE],
   [Blank EXCEPT !.op = "fork_thread", !.thread = t1],
   [Blank EXCEPT !.thread = t1, !.title = title],
   [Blank EXCEPT !.op = "set_thread_archived", !.thread = t1, !.archived = TRUE],
   [Blank EXCEPT !.op = "set_thread_archived", !.thread = t1]}

(* create_thread through a symbolic link, and the receipts version 1 left. *)
LinkRequests == {Create(here, None, None), Create(there, None, None)}

LinkOldRows ==
  {[print |-> Create(here, None, None), version |-> 1, owner |-> None,
    receipt |-> WithStatus(FreshReceipt, "accepted")]}
=============================================================================

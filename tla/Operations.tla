----------------------------- MODULE Operations -----------------------------
(***************************************************************************)
(* What each mutating tool of bridge.py asks of the App Server, in order,  *)
(* and what it does with each answer.  An operation is a script of RPC     *)
(* methods; its arguments, and what thread/read said, select the ones that *)
(* are called.  "close" stands for the call of rpc.close that ends an      *)
(* accepted send and an accepted fork.                                     *)
(***************************************************************************)
EXTENDS Naturals, Sequences

CONSTANTS Calls,      \* tool calls; the thread a call creates is named after it
          Threads,    \* threads that exist before any call
          Paths,      \* spellings of a working directory that a client may supply
          Titles,     \* thread titles
          Texts,      \* prompts and messages
          None        \* an absent argument, field, row or owner

CreateScript == <<"project/read", "thread/start", "thread/name/set", "turn/start">>
MessageScript == <<"thread/read", "thread/resume", "turn/start", "close">>
ForkScript == <<"thread/read", "thread/goal/get", "thread/fork", "close">>
TitleScript == <<"thread/name/set">>
ArchiveScript == <<"thread/read", "thread/archive", "thread/unarchive">>

Script == [create_thread          |-> CreateScript,
           send_message_to_thread |-> MessageScript,
           fork_thread            |-> ForkScript,
           set_thread_title       |-> TitleScript,
           set_thread_archived    |-> ArchiveScript]

Ops == DOMAIN Script

\* The methods that change something at the server.
Effects == {"thread/start", "thread/name/set", "turn/start", "thread/resume",
            "thread/fork", "thread/archive", "thread/unarchive"}

Inquiries == {"project/read", "thread/read", "thread/goal/get"}

Methods == Effects \union Inquiries

\* The arguments a request is fingerprinted with, once they are found valid.
\* The fields an operation does not have are None, or FALSE.
Arguments ==
  {a \in [op : Ops, thread : Threads \union {None}, cwd : Paths \union {None},
           project : BOOLEAN, title : Titles \union {None}, text : Texts \union {None},
           archived : BOOLEAN] :
     /\ a.op = "create_thread" <=> a.thread = None
     /\ a.op = "create_thread" <=> a.cwd # None
     /\ a.op = "send_message_to_thread" => a.text # None
     /\ a.op = "set_thread_title" => a.title # None}

\* Positions in a script; Len + 1 is the end of it.
Positions == 1 .. 5

MethodAt(a, i) == Script[a.op][i]

ResumesAlways(mode) == TRUE

\* A thread is resumed unless the message goes to a turn that is under way.
Resumes(mode) == mode # "active_tool_output"

\* The steps of the script that these arguments, and this delivery mode, call for.
Wanted(a, mode, m) ==
  CASE m = "project/read"     -> a.project
    [] m = "thread/name/set"  -> a.title # None
    [] m = "turn/start"       -> a.text # None
    [] m = "thread/resume"    -> Resumes(mode)
    [] m = "thread/read"      -> a.op = "set_thread_archived" => a.archived
    [] m = "thread/archive"   -> a.archived
    [] m = "thread/unarchive" -> ~a.archived
    [] OTHER                  -> TRUE

\* The step after the one at i, counted from i itself.
StepFrom(a, mode, i, j) ==
  /\ i <= j /\ 0 < j /\ j <= Len(Script[a.op]) + 1
  /\ j <= Len(Script[a.op]) => Wanted(a, mode, MethodAt(a, j))

\* After the step at position i (0: from the start), j is the next one.
StepAfter(a, mode, i, j) ==
  /\ i < j /\ j <= Len(Script[a.op]) + 1
  /\ j <= Len(Script[a.op]) => Wanted(a, mode, MethodAt(a, j))
  /\ \A k \in Positions : i < k /\ k < j => ~Wanted(a, mode, MethodAt(a, k))

EndsEarly(a, j) == j >= Len(Script[a.op])

Finished(a, j) == j = Len(Script[a.op]) + 1

\* What the App Server may say to a request, besides an RPC error.
Says(m) ==
  CASE m = "thread/read"     -> {"idle", "active", "ephemeral"}
    [] m = "thread/start"    -> {"as requested", "other environment"}
    [] m = "thread/resume"   -> {"never asks", "asks approval"}
    [] m = "thread/goal/get" -> {"no goal", "has goal", "unrecognized"}
    [] OTHER                 -> {"ok"}

Answers == {"rejected"} \union UNION {Says(m) : m \in Methods}

CreateRefused(m, says) == m = "thread/start" /\ says = "other environment"

MessageRefused(m, says) == m = "thread/resume" /\ says = "asks approval"

ForkRefused(m, says) ==
  \/ m = "thread/read" /\ says \in {"active", "ephemeral"}
  \/ m = "thread/goal/get" /\ says \in {"has goal", "unrecognized"}

ArchiveRefused(m, says) == m = "thread/read" /\ says = "active"

RefusesNothing(op, m, says) == FALSE

\* The answers after which the operation raises an RpcError of its own and
\* withholds the rest of its script.
Refused(op, m, says) ==
  \/ op = "create_thread" /\ CreateRefused(m, says)
  \/ op = "send_message_to_thread" /\ MessageRefused(m, says)
  \/ op = "fork_thread" /\ ForkRefused(m, says)
  \/ op = "set_thread_archived" /\ ArchiveRefused(m, says)

-----------------------------------------------------------------------------
(***************************************************************************)
(* Receipts.  "kept" is the set of methods whose result the receipt holds: *)
(* threadId and creation for thread/start and thread/fork, title for       *)
(* thread/name/set, resumed for thread/resume, turnId for turn/start,      *)
(* archived for thread/archive and thread/unarchive.                       *)
(***************************************************************************)
Modes == {"active_tool_output", "idle_tool_output"}

Statuses == {"in_progress_or_unknown", "accepted", "failed", "outcome_unknown"}

Terminal == Statuses \ {"in_progress_or_unknown"}

Receipts ==
  [status : Statuses, thread : Threads \union Calls \union {None},
   mode : Modes \union {None}, kept : SUBSET Effects]

FreshReceipt ==
  [status |-> "in_progress_or_unknown", thread |-> None, mode |-> None, kept |-> {}]

\* The receipt the action starts from: a send first saves its threadId.
FirstReceipt(a) ==
  [FreshReceipt EXCEPT !.thread = IF a.op = "send_message_to_thread" THEN a.thread ELSE None]

\* The thread a receipt names after the answer to m.
ThreadAfter(c, a, receipt, m) ==
  CASE m \in {"thread/start", "thread/fork"} -> c
    [] m \in {"thread/archive", "thread/unarchive"} -> a.thread
    [] m = "thread/name/set" /\ a.op = "set_thread_title" -> a.thread
    [] OTHER -> receipt.thread

ModeAfter(a, receipt, m, says) ==
  IF a.op = "send_message_to_thread" /\ m = "thread/read"
  THEN IF says = "active" THEN "active_tool_output" ELSE "idle_tool_output"
  ELSE receipt.mode

\* The receipt in memory once call c has read the answer to m.
Noted(c, a, receipt, m, says) ==
  [receipt EXCEPT !.thread = ThreadAfter(c, a, receipt, m),
                  !.mode = ModeAfter(a, receipt, m, says),
                  !.kept = IF m \in Effects THEN @ \union {m} ELSE @]

SavesAtTheEnd(a, mode, m) == FALSE

\* The answers after which the receipt is saved at once.
Checkpoint(a, mode, m) ==
  \/ a.op = "create_thread" /\ m \in {"thread/start", "thread/name/set"}
  \/ a.op = "send_message_to_thread" /\ m \in {"thread/read", "thread/resume"}
  \/ a.op = "send_message_to_thread" /\ m = "turn/start" /\ mode = "active_tool_output"
  \/ a.op = "fork_thread" /\ m = "thread/fork"

WithStatus(receipt, status) == [receipt EXCEPT !.status = status]
=============================================================================

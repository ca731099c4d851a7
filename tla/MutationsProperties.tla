------------------------ MODULE MutationsProperties -------------------------
(***************************************************************************)
(* What the README, the tool descriptions and the comments promise of the  *)
(* mutating tools, stated over the model of Mutations.                     *)
(***************************************************************************)
EXTENDS Mutations

Running(c) == pc[c] \in {"ready", "sent"}

\* A call that has been made has a process, a request_id and arguments.
Invoked == \A c \in Calls : pc[c] # "new" => req[c] # None

\* A running call stands at a step of its script.
OnScript == \A c \in Calls : Running(c) => pos[c] <= Len(Script[Args(c).op])

\* A running call is the one that inserted its row, and the row is unsettled.
OwnsItsRow ==
  \A c \in Calls :
    Running(c) => /\ Row(c) # None
                  /\ Row(c).owner = c
                  /\ Row(c).receipt.status = "in_progress_or_unknown"
                  /\ receipt[c].status = "in_progress_or_unknown"

\* Nothing is sent for a request_id before it is claimed.
ClaimedBeforeSent ==
  \A i \in Ids : ledger[i] = None => \A m \in Methods : sent[i][m] = 0

\* Of the script of a running call, only the steps behind it have been sent,
\* and the one it waits for.
SentIsBehind ==
  \A c \in Calls : Running(c) =>
    \A k \in 1 .. Len(Script[Args(c).op]) :
      (k > pos[c] \/ (k = pos[c] /\ pc[c] = "ready")) =>
        \A m \in Methods : MethodAt(Args(c), k) = m => sent[Id(c)][m] = 0

\* The server has, or has had, a request of call c for method m.
Asked(c, m) ==
  \/ answers[c][m] # None
  \/ \E r \in inbox : r.call = c /\ r.method = m

Performed(c, m) == answers[c][m] \in Says(m)

\* The rows this version of the bridge inserted, by the call that did.
OwnedRows == {i \in Ids : ledger[i] # None /\ ledger[i].owner # None}

\* Reusing a request_id never dispatches a step again (server.py:65 "returns
\* its receipt without resending"): whatever processes, retries, crashes and
\* late answers do, each method is sent at most once for a request_id.
AtMostOnce == \A i \in Ids, m \in Methods : sent[i][m] <= 1

\* What makes AtMostOnce inductive: the call that runs a request_id is the owner
\* of its row, so there is one, and its script has no method twice.
DedupInv ==
  /\ Invoked
  /\ OnScript
  /\ OwnsItsRow
  /\ ClaimedBeforeSent
  /\ SentIsBehind
  /\ AtMostOnce

\* A prompt, a fork or an archive is withheld unless the answers that come
\* before it allow it (bridge.py:172-184, 408, 435-443, 470-507, 553-560).
WithheldUnlessAllowed ==
  \A c \in Calls : \A m \in Effects :
    Asked(c, m) =>
      LET op == Args(c).op
          said == answers[c]
      IN  /\ op = "create_thread" /\ m # "thread/start" =>
               said["thread/start"] = "as requested"
          /\ op = "send_message_to_thread" /\ m = "turn/start" =>
               said["thread/read"] = "active" \/ said["thread/resume"] = "never asks"
          /\ op = "send_message_to_thread" /\ m = "thread/resume" =>
               said["thread/read"] \in {"idle", "ephemeral"}
          /\ op = "fork_thread" =>
               said["thread/read"] = "idle" /\ said["thread/goal/get"] = "no goal"
          /\ m = "thread/archive" => said["thread/read"] \in {"idle", "ephemeral"}

\* What a later step acts on is in the ledger before that step is sent, so that
\* a crash or a lost answer leaves the thread, and how the message went to it,
\* on record (bridge.py:165 "Retain the ID even if naming or the first turn
\* fails").
OnRecordBeforeUse ==
  \A c \in Calls : \A m \in Effects :
    Asked(c, m) =>
      LET r == Row(c).receipt
      IN  /\ Row(c).owner = c
          /\ Args(c).op = "create_thread" /\ m # "thread/start" =>
               r.thread = c /\ "thread/start" \in r.kept
          /\ Args(c).op = "create_thread" /\ m = "turn/start" /\ Args(c).title # None =>
               "thread/name/set" \in r.kept
          /\ Args(c).op = "send_message_to_thread" =>
               r.thread = Args(c).thread /\ r.mode # None
          /\ Args(c).op = "send_message_to_thread" /\ m = "turn/start"
               /\ r.mode = "idle_tool_output" => "thread/resume" \in r.kept

\* A receipt holds only what the server did for its own request, and names only
\* the thread of its request.
ReceiptsAreTrue ==
  \A i \in OwnedRows :
    LET c == ledger[i].owner
        r == ledger[i].receipt
    IN  /\ \A m \in r.kept : Performed(c, m)
        /\ r.thread \in {None, c, Args(c).thread}
        /\ r.thread = c <=> r.kept \intersect {"thread/start", "thread/fork"} # {}

\* "accepted" means that every step the arguments ask for was performed.
AcceptedIsComplete ==
  \A i \in OwnedRows :
    LET c == ledger[i].owner
        a == Args(c)
        did == {m \in Effects : Performed(c, m)}
    IN  ledger[i].receipt.status = "accepted" =>
          /\ ledger[i].receipt.kept = did
          /\ did = CASE a.op = "create_thread" ->
                          {"thread/start"}
                            \union {m \in {"thread/name/set"} : a.title # None}
                            \union {m \in {"turn/start"} : a.text # None}
                     [] a.op = "send_message_to_thread" ->
                          {"turn/start"} \union
                            {m \in {"thread/resume"} : answers[c]["thread/read"] # "active"}
                     [] a.op = "fork_thread" -> {"thread/fork"}
                     [] a.op = "set_thread_title" -> {"thread/name/set"}
                     [] a.op = "set_thread_archived" ->
                          {IF a.archived THEN "thread/archive" ELSE "thread/unarchive"}

\* "failed" is definite: the receipt lists every effect the request had, and
\* none can follow.  Only the unknown outcomes leave something open.
FailedIsDefinite ==
  \A i \in OwnedRows :
    LET c == ledger[i].owner
    IN  ledger[i].receipt.status = "failed" =>
          /\ ledger[i].receipt.kept = {m \in Effects : Performed(c, m)}
          /\ \A r \in inbox : r.call # c

\* A client is told what the ledger holds: a receipt that was returned, or a
\* settled one that was replayed, is the receipt of the row from then on.
ToldIsRetained ==
  \A c \in Calls :
    \/ result[c].receipt = None
    \/ result[c].kind = "replayed" /\ result[c].receipt.status \notin Terminal
    \/ Row(c) # None /\ Row(c).receipt = result[c].receipt

\* Rows are never taken over or removed, settled receipts never change, and an
\* unsettled one never loses what it already holds.
ReceiptsOnlyGrow ==
  [][\A i \in Ids :
       ledger[i] # None =>
         /\ ledger'[i] # None
         /\ [ledger'[i] EXCEPT !.receipt = None] = [ledger[i] EXCEPT !.receipt = None]
         /\ ledger[i].receipt.status \in Terminal => ledger'[i].receipt = ledger[i].receipt
         /\ ledger[i].receipt.kept \subseteq ledger'[i].receipt.kept
         /\ ledger[i].receipt.thread \in {None, ledger'[i].receipt.thread}]_vars

\* A receipt of this version is never replayed to other arguments, wherever
\* the paths in them lead now; one of version 1 only to a request that differs from
\* its own in naming, by a link, a directory that it names itself.
ReplaysItsOwnArguments ==
  \A c \in Calls :
    result[c].kind = "replayed" /\ Row(c).print # Args(c) =>
      LET cwd == Row(c).print.cwd
      IN  /\ Row(c).version = 1
          /\ Args(c).op = "create_thread"
          /\ Row(c).print = [Args(c) EXCEPT !.cwd = cwd]
          /\ link[cwd] = cwd /\ link[Args(c).cwd] # Args(c).cwd

\* Once the row of its own arguments is there, a call that waits for the lock, or
\* comes to its claim, is not refused any more, whatever becomes of its working
\* directory and its link until its turn comes.  (A call that is past its lookup and
\* has not validated yet may be: another process claims, the directory goes.)
RetryIsNeverRefused ==
  \A c \in Calls :
    [](pc[c] \in {"waiting", "begin"} /\ Row(c) # None /\ Row(c).print = Args(c)
         => [](result[c].kind # "refused"))

\* The ledger, seen from outside: the claim of each request_id and its outcome.
StateOf(i) ==
  CASE ledger[i] = None -> "free"
    [] ledger[i] # None /\ ledger[i].receipt.status \notin Terminal -> "open"
    [] OTHER -> ledger[i].receipt.status

Dedup == INSTANCE RequestDedup
           WITH Outcomes <- Terminal, state <- [i \in Ids |-> StateOf(i)]

\* The bridge processes together implement request deduplication: whoever runs a
\* request_id, it is claimed once, its steps are sent at most once, only before
\* its outcome is settled, and the outcome is final.
ImplementsDedup == Dedup!Spec

\* Every tool call ends (unless its process is killed): nobody waits for the
\* mutation lock, for an answer or for a connection forever.
EveryCallEnds ==
  \A c \in Calls : pc[c] = "waiting" ~> pc[c] \in {"done", "dead"}

\* bridge.py:454 "The bridge must not remain a competing Desktop client
\* subscriber": when a send has ended with a definite receipt, accepted or failed,
\* its process is not subscribed to the thread it was sent to.
NoCompetingSubscriber ==
  [][\A c \in Calls :
       /\ pc[c] = "sent" /\ pc'[c] = "done"
       /\ Args(c).op = "send_message_to_thread"
       /\ result'[c].receipt # None /\ result'[c].receipt.status \in {"accepted", "failed"}
       => Args(c).thread \notin attached'[Proc(c)]]_vars
=============================================================================

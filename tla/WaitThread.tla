----------------------------- MODULE WaitThread -----------------------------
(***************************************************************************)
(* Bridge.wait_thread (bridge.py): one call polls the latest turns of a    *)
(* thread until the turn it waits for has ended or its deadline comes.     *)
(* Meanwhile the turns of the thread start and end, and push older ones    *)
(* out of the page that is read; the connection may fail in every poll.    *)
(***************************************************************************)
EXTENDS Naturals, Sequences

CONSTANTS Turns,    \* turn ids
          Target,   \* the turn that is waited for
          Recent,   \* how many turns a page holds: 100 in the code
          None

ASSUME WaitAssumption == Target \in Turns /\ None \notin Turns /\ Recent \in Nat \ {0}

VARIABLES
  order,    \* the turns of the thread, oldest first
  status,   \* what the server says of each turn
  pc,       \* where the call stands
  zero,     \* timeout_seconds is 0
  page,     \* what the server put into its answer
  latest,   \* the turn found by the last poll: its status, or None
  polled,   \* history: a page was received
  settled,  \* history: the turn had ended when the call began
  told      \* the result

server == <<order, status>>
vars == <<server, pc, zero, page, latest, polled, settled, told>>

Running == "inProgress"
Endings == {"completed", "failed", "interrupted"}
Seen == Endings \union {Running, None}

TypeOK ==
  /\ order \in Seq(Turns)
  /\ status \in [Turns -> Endings \union {Running}]
  /\ pc \in {"new", "asking", "answered", "sleeping", "done", "error"}
  /\ zero \in BOOLEAN /\ polled \in BOOLEAN /\ settled \in BOOLEAN
  /\ page \in Seen /\ latest \in Seen
  /\ told \in [timedOut : BOOLEAN, turn : Seen] \union {None}

Init ==
  /\ order = << >> /\ status = [t \in Turns |-> Running]
  /\ pc = "new" /\ zero \in BOOLEAN
  /\ page = None /\ latest = None /\ told = None
  /\ polled = FALSE /\ settled = FALSE

InPage(t) == \E i \in 1 .. Len(order) : i > Len(order) - Recent /\ order[i] = t

Started(t) == \E i \in 1 .. Len(order) : order[i] = t

-----------------------------------------------------------------------------
(* The server. *)

StartTurn(t) ==
  /\ ~Started(t)
  /\ order' = Append(order, t)
  /\ UNCHANGED <<status, pc, zero, page, latest, polled, settled, told>>

EndTurn(t, how) ==
  /\ Started(t) /\ status[t] = Running
  /\ status' = [status EXCEPT ![t] = how]
  /\ UNCHANGED <<order, pc, zero, page, latest, polled, settled, told>>

\* A search that takes the newest turn for the one that was asked for.
FoundNewest == IF order = << >> THEN None ELSE status[order[Len(order)]]

\* The turn with this id among those in the page.
Found == IF InPage(Target) THEN status[Target] ELSE None

\* thread/turns/list is handled; its answer is on the way.
ServerAnswers ==
  /\ pc = "asking"
  /\ page' = Found
  /\ pc' = "answered"
  /\ UNCHANGED <<server, zero, latest, polled, settled, told>>

-----------------------------------------------------------------------------
(* The call. *)

Call ==
  /\ pc = "new"
  /\ settled' = (Started(Target) /\ status[Target] # Running)
  /\ pc' = "asking"
  /\ UNCHANGED <<order, status, zero, page, latest, polled, told>>

\* A poll that knows of one way to end only.
TerminalIfCompleted(seen) == seen = "completed"

Terminal(seen) == seen \in Endings

Tell(seen) ==
  /\ told' = [timedOut |-> ~Terminal(seen), turn |-> seen]
  /\ pc' = "done"

Receive ==
  /\ pc = "answered"
  /\ latest' = page
  /\ polled' = TRUE
  /\ IF zero \/ Terminal(page) THEN Tell(page) ELSE pc' = "sleeping" /\ UNCHANGED told
  /\ UNCHANGED <<server, zero, page, settled>>

PollAgain ==
  /\ pc = "sleeping"
  /\ pc' = "asking"
  /\ UNCHANGED <<server, zero, page, latest, polled, settled, told>>

DeadlineInSleep == pc = "sleeping"

\* The deadline cancels the await the call is in; so ends, too, an opening of the
\* connection that raises TimeoutError.
Deadline == pc \in {"asking", "answered", "sleeping"}

TimeOut ==
  /\ ~zero /\ Deadline
  /\ Tell(latest)
  /\ UNCHANGED <<server, zero, page, latest, polled, settled>>

\* TransportError or RpcError of a poll, or the client cancels the call.
Fail ==
  /\ pc \in {"asking", "answered"}
  /\ pc' = "error"
  /\ UNCHANGED <<server, zero, page, latest, polled, settled, told>>

CallStep == Receive \/ PollAgain

Next ==
  \/ \E t \in Turns : StartTurn(t) \/ \E how \in Endings : EndTurn(t, how)
  \/ Call \/ ServerAnswers \/ CallStep \/ TimeOut \/ Fail

Spec == Init /\ [][Next]_vars

\* The event loop runs the call, its deadline comes, and without one the request
\* times out.  The server need not answer.
FairSpec == Spec /\ WF_vars(CallStep) /\ WF_vars(TimeOut) /\ WF_vars(zero /\ Fail)

-----------------------------------------------------------------------------
\* "The response never substitutes another turn", "Completion can mean failure or
\* interruption" (server.py): what is told of the turn is, or was, true of that very
\* turn; and if it ended, in any way, before the call, and is still in the page, one
\* answer is enough to tell that it ended.
TellsOfTheTurn ==
  pc = "done" =>
    /\ told.turn # None => Started(Target) /\ told.turn \in {Running, status[Target]}
    /\ polled /\ settled /\ InPage(Target) => ~told.timedOut

\* A wait ends, though the server never answers and the turn never ends.
WaitEnds == pc = "asking" ~> pc \in {"done", "error"}
=============================================================================

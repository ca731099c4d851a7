----------------------------- MODULE Mutations ------------------------------
(***************************************************************************)
(* The mutating tools of the bridge (bridge.py), their deduplication       *)
(* ledger (ledger.py) and their RPC requests, in several bridge processes  *)
(* that share one ledger file and one App Server.                          *)
(*                                                                         *)
(* A step is what one process does between two awaits, or one SQLite       *)
(* transaction of it where another process can get in between.             *)
(***************************************************************************)
EXTENDS CodexAppServer, FiniteSets

CONSTANTS Ids,        \* request_id values
          Requested,  \* the arguments clients call with
          OldRows     \* rows an earlier version of the bridge may have left

VARIABLES
  ledger,    \* table operations: request_id -> row, or None
  holder,    \* _mutation_lock of each process: the call inside _mutate, or None
  pc,        \* where each call stands
  req,       \* the process, request_id and arguments of each call
  pos,       \* position in the script of the call's operation
  receipt,   \* the receipt in memory, while a call is inside its action
  result,    \* what the client was told
  sent,      \* history: how often each method was sent on behalf of a request_id
  link,      \* the directory each path resolves to
  dirs       \* the directories that exist

ledgerVars == <<ledger, sent>>
callVars == <<holder, pc, req, pos, receipt, result>>
fileVars == <<link, dirs>>
vars == <<serverVars, ledgerVars, callVars, fileVars>>

Rows == [print : Arguments, version : {1, 2}, owner : Calls \union {None}, receipt : Receipts]

Invocations == [proc : Procs, id : Ids, args : Arguments]

Results == [kind : {"none", "receipt", "replayed", "refused", "error"},
            receipt : Receipts \union {None}]

Told(kind, r) == [kind |-> kind, receipt |-> r]

\* A resolved directory is a path too, and resolves to itself.
Directories(f) == {f[x] : x \in Paths}

ASSUME ConstantsAssumption ==
  /\ None \notin Threads \union Calls \union Paths \union Titles \union Texts
                 \union Procs \union Ids \union Arguments \union Invocations
                 \union Rows \union Modes \union Answers
  /\ Threads \intersect Calls = {}
  /\ Requested \subseteq Arguments
  /\ OldRows \subseteq Rows
  /\ \A row \in OldRows : row.version = 1 /\ row.owner = None

BridgeTypeOK ==
  /\ ledger \in [Ids -> Rows \union {None}]
  /\ holder \in [Procs -> Calls \union {None}]
  /\ pc \in [Calls -> {"new", "waiting", "validate", "begin", "ready", "sent", "done", "dead"}]
  /\ req \in [Calls -> Invocations \union {None}]
  /\ pos \in [Calls -> Positions]
  /\ receipt \in [Calls -> Receipts]
  /\ result \in [Calls -> Results]
  /\ sent \in [Ids -> [Methods -> Nat]]
  /\ link \in [Paths -> Paths]
  /\ dirs \in SUBSET Paths

TypeOK == ServerTypeOK /\ BridgeTypeOK

Init ==
  /\ ServerInit
  /\ ledger \in [Ids -> OldRows \union {None}]
  /\ holder = [p \in Procs |-> None]
  /\ pc = [c \in Calls |-> "new"]
  /\ req = [c \in Calls |-> None]
  /\ pos = [c \in Calls |-> 1]
  /\ receipt = [c \in Calls |-> FreshReceipt]
  /\ result = [c \in Calls |-> Told("none", None)]
  /\ sent = [i \in Ids |-> [m \in Methods |-> 0]]
  /\ link \in [Paths -> Paths]
  /\ \A x \in Paths : link[link[x]] = link[x]
  /\ dirs \in SUBSET Directories(link)

Id(c) == req[c].id
Args(c) == req[c].args
Proc(c) == req[c].proc
Row(c) == ledger[Id(c)]

-----------------------------------------------------------------------------
(* Leaving _mutate, and the ledger's writes. *)

\* A lock that is not released when begin leaves _mutate early.
ReleaseAtEndOnly(c) ==
  holder' = [holder EXCEPT ![Proc(c)] = IF @ = c /\ pc[c] # "begin" THEN None ELSE @]

\* The lock is released when the call that holds it leaves _mutate.
Release(c) == holder' = [holder EXCEPT ![Proc(c)] = IF @ = c THEN None ELSE @]

Leave(c, how) == Release(c) /\ pc' = [pc EXCEPT ![c] = how]

\* begin inserts the row of call c, save updates it.
Put(c, r) ==
  ledger' = [ledger EXCEPT ![Id(c)] =
               [print |-> Args(c), version |-> 2, owner |-> c, receipt |-> r]]

\* A bridge that answers from memory when SQLite refuses the last save.
AnswerAnyway(c, r) == result' = [result EXCEPT ![c] = Told("receipt", r)]

\* The exception of the last save replaces the receipt.
AnswerError(c, r) == result' = [result EXCEPT ![c] = Told("error", None)]

\* The end of _mutate: the receipt r is saved and returned, or the save fails
\* and the row keeps what was saved last.
Conclude(c, last, r) ==
  /\ \/ Put(c, r) /\ result' = [result EXCEPT ![c] = Told("receipt", r)]
     \/ Put(c, last) /\ AnswerError(c, r)
  /\ Leave(c, "done")
  /\ UNCHANGED <<pos, receipt>>

\* The call goes on with the step after position i, or is accepted.
Proceed(c, i, saved, r) ==
  \E j \in Positions :
    /\ StepAfter(Args(c), r.mode, i, j)
    /\ IF Finished(Args(c), j)
       THEN Conclude(c, saved, WithStatus(r, "accepted"))
       ELSE /\ Put(c, saved)
            /\ pc' = [pc EXCEPT ![c] = "ready"]
            /\ pos' = [pos EXCEPT ![c] = j]
            /\ receipt' = [receipt EXCEPT ![c] = r]
            /\ UNCHANGED <<holder, result>>

-----------------------------------------------------------------------------
(* From the tool call to the claim of its request_id. *)

Invoke(c, p, i, a) ==
  /\ pc[c] = "new"
  /\ req' = [req EXCEPT ![c] = [proc |-> p, id |-> i, args |-> a]]
  /\ pc' = [pc EXCEPT ![c] = "waiting"]
  /\ UNCHANGED <<serverVars, ledgerVars, fileVars, holder, pos, receipt, result>>

Resolved(a) == [a EXCEPT !.cwd = link[@]]

\* A lookup that extends the legacy rule to every receipt.
MatchesAnyVersion(row, a) ==
  \/ row.print = a
  \/ a.op = "create_thread" /\ row.print = Resolved(a)

\* The fingerprints agree; a version 1 receipt may hold the resolved cwd.
Matches(row, a) ==
  \/ row.print = a
  \/ row.version = 1 /\ a.op = "create_thread" /\ row.print = Resolved(a)

\* A retained receipt is replayed; a request_id used for something else is refused.
AnswerFrom(c, row) ==
  result' = [result EXCEPT ![c] = IF Matches(row, Args(c))
                                  THEN Told("replayed", row.receipt)
                                  ELSE Told("refused", None)]

AtLock(c) == pc[c] = "waiting" /\ holder[Proc(c)] = None

LookupRetained(c) ==
  /\ AtLock(c)
  /\ Row(c) # None
  /\ AnswerFrom(c, Row(c))
  /\ Leave(c, "done")
  /\ UNCHANGED <<serverVars, ledgerVars, fileVars, req, pos, receipt>>

DirectoryMissing(a) == a.op = "create_thread" /\ link[a.cwd] \notin dirs

\* A create_thread that checks the directory before it looks the request up.
ChecksFirst(c) == Row(c) = None \/ DirectoryMissing(Args(c))

\* lookup returns None.
FindsNothing(c) == Row(c) = None

\* Only create_thread has something to validate before it claims the request_id.
LookupNothing(c) ==
  /\ AtLock(c)
  /\ FindsNothing(c)
  /\ holder' = [holder EXCEPT ![Proc(c)] = c]
  /\ pc' = [pc EXCEPT ![c] = IF Args(c).op = "create_thread" THEN "validate" ELSE "begin"]
  /\ UNCHANGED <<serverVars, ledgerVars, fileVars, req, pos, receipt, result>>

\* validate_fresh does not look whether another process has claimed the request_id
\* since the lookup.
ValidateRefuses(c) ==
  /\ pc[c] = "validate"
  /\ DirectoryMissing(Args(c))
  /\ result' = [result EXCEPT ![c] = Told("refused", None)]
  /\ Leave(c, "done")
  /\ UNCHANGED <<serverVars, ledgerVars, fileVars, req, pos, receipt>>

Validated(c) ==
  /\ pc[c] = "validate"
  /\ ~DirectoryMissing(Args(c))
  /\ pc' = [pc EXCEPT ![c] = "begin"]
  /\ UNCHANGED <<serverVars, ledgerVars, fileVars, holder, req, pos, receipt, result>>

\* INSERT OR REPLACE in the place of INSERT OR IGNORE.
ClaimsAnyway(c) == TRUE

\* INSERT OR IGNORE inserts when no other process has since the lookup.
Claims(c) == Row(c) = None

\* The row is inserted and the action starts; a send saves its threadId first.
BeginFresh(c) ==
  /\ pc[c] = "begin"
  /\ Claims(c)
  /\ \/ Proceed(c, 0, FirstReceipt(Args(c)), FirstReceipt(Args(c)))
     \/ /\ Args(c).op = "send_message_to_thread"
        /\ Conclude(c, FreshReceipt, WithStatus(FirstReceipt(Args(c)), "outcome_unknown"))
  /\ UNCHANGED <<serverVars, fileVars, req, sent>>

\* Another process inserted first: its receipt is replayed, or the request refused.
BeginRetained(c) ==
  /\ pc[c] = "begin"
  /\ Row(c) # None
  /\ AnswerFrom(c, Row(c))
  /\ Leave(c, "done")
  /\ UNCHANGED <<serverVars, ledgerVars, fileVars, req, pos, receipt>>

\* SQLite refuses lookup or begin: the exception reaches the client.
LedgerBusy(c) ==
  /\ AtLock(c) \/ pc[c] = "begin"
  /\ result' = [result EXCEPT ![c] = Told("error", None)]
  /\ Leave(c, "done")
  /\ UNCHANGED <<serverVars, ledgerVars, fileVars, req, pos, receipt>>

-----------------------------------------------------------------------------
(* The action: one request after another. *)

Method(c) == MethodAt(Args(c), pos[c])

\* The thread a request is about.
Target(c) ==
  CASE Method(c) \in {"project/read"} -> None
    [] Args(c).op = "create_thread" \/ Method(c) = "thread/fork" -> c
    [] OTHER -> Args(c).thread

Dispatch(c) ==
  /\ pc[c] = "ready"
  /\ Method(c) # "close"
  /\ Accept(c, Proc(c), Method(c), Target(c))
  /\ sent' = [sent EXCEPT ![Id(c)][Method(c)] = @ + 1]
  /\ pc' = [pc EXCEPT ![c] = "sent"]
  /\ UNCHANGED <<replies, answers, attached, ledger, holder, req, pos, receipt, result, fileVars>>

\* The reader resolves the future of the request that call c waits for, and the
\* action runs to its next await.
Receive(c, a) ==
  LET m == Method(c)
      r == Noted(c, Args(c), receipt[c], m, a.says)
      saved == IF Checkpoint(Args(c), r.mode, m) THEN r ELSE Row(c).receipt
  IN  /\ pc[c] = "sent"
      /\ a \in replies /\ a.call = c /\ a.method = m
      /\ replies' = replies \ {a}
      /\ \/ /\ a.says = "rejected"
            /\ Conclude(c, Row(c).receipt, WithStatus(receipt[c], "failed"))
         \/ /\ a.says # "rejected" /\ Checkpoint(Args(c), r.mode, m)
            /\ Conclude(c, Row(c).receipt, WithStatus(r, "outcome_unknown"))
         \/ /\ a.says # "rejected" /\ Refused(Args(c).op, m, a.says)
            /\ Conclude(c, saved, WithStatus(r, "failed"))
         \/ /\ a.says # "rejected" /\ ~Refused(Args(c).op, m, a.says)
            /\ Proceed(c, pos[c], saved, r)
      /\ UNCHANGED <<inbox, answers, attached, req, sent, fileVars>>

LostAsTimeout(c) == WithStatus(receipt[c], "timed_out")

LostAsFailure(c) == WithStatus(receipt[c], "failed")

LostAsDone(c) ==
  WithStatus(Noted(c, Args(c), receipt[c], Method(c), "ok"), "outcome_unknown")

\* An answer that did not arrive says nothing of what was done.
LostReceipt(c) == WithStatus(receipt[c], "outcome_unknown")

\* No connection, a failed write, a lost connection, a timeout or an answer
\* that cannot be read: TransportError and the like.
Lose(c) ==
  /\ pc[c] \in {"ready", "sent"}
  /\ Method(c) # "close"
  /\ Conclude(c, Row(c).receipt, LostReceipt(c))
  /\ UNCHANGED <<serverVars, req, sent, fileVars>>

\* The App Server answers the initialize of a new connection with an error; the
\* old connection had ended and the new one is closed.
InitializeRejected(c) ==
  /\ pc[c] = "ready"
  /\ Method(c) # "close"
  /\ Sever(Proc(c))
  /\ Conclude(c, Row(c).receipt, WithStatus(receipt[c], "failed"))
  /\ UNCHANGED <<req, sent, fileVars>>

\* rpc.close at the end of an accepted send or fork.
CloseConnection(p) == Sever(p)

Close(c) ==
  /\ pc[c] = "ready"
  /\ Method(c) = "close"
  /\ CloseConnection(Proc(c))
  /\ Proceed(c, pos[c], Row(c).receipt, receipt[c])
  /\ UNCHANGED <<req, sent, fileVars>>

-----------------------------------------------------------------------------
(* What may happen at any time. *)

ForgetfulReceipt(c) == WithStatus(FreshReceipt, "outcome_unknown")

CancelledReceipt(c) == WithStatus(receipt[c], "outcome_unknown")

\* The client cancels the tool call: CancelledError at the await it is in.
Cancel(c) ==
  /\ \/ pc[c] = "waiting" /\ UNCHANGED ledger
     \/ pc[c] \in {"ready", "sent"} /\ Put(c, CancelledReceipt(c))
     \/ pc[c] \in {"ready", "sent"} /\ UNCHANGED ledger
  /\ Leave(c, "dead")
  /\ UNCHANGED <<serverVars, sent, req, pos, receipt, result, fileVars>>

\* Process p is killed and started again: only the ledger file remains.
Crash(p) ==
  /\ pc' = [c \in Calls |-> IF pc[c] \in {"waiting", "validate", "begin", "ready", "sent"}
                               /\ Proc(c) = p
                            THEN "dead" ELSE pc[c]]
  /\ holder' = [holder EXCEPT ![p] = None]
  /\ Sever(p)
  /\ UNCHANGED <<ledgerVars, fileVars, req, pos, receipt, result>>

\* The connection of p is lost, or closed by the server.
Disconnect(p) ==
  /\ Sever(p)
  /\ UNCHANGED <<ledgerVars, callVars, fileVars>>

Handle(r, says) == Serve(r, says) /\ UNCHANGED <<ledgerVars, callVars, fileVars>>

\* A symbolic link is pointed at another directory.
Relink(x, d) ==
  /\ link[x] # x
  /\ d \in Directories(link) /\ link[d] = d
  /\ link' = [link EXCEPT ![x] = d]
  /\ UNCHANGED <<serverVars, ledgerVars, callVars, dirs>>

\* A directory is made or removed.
MakeOrRemove(d) ==
  /\ link[d] = d
  /\ dirs' = IF d \in dirs THEN dirs \ {d} ELSE dirs \union {d}
  /\ UNCHANGED <<serverVars, ledgerVars, callVars, link>>

-----------------------------------------------------------------------------
\* What the event loop of a process does for a call of its own.
BridgeStep(c) ==
  \/ LookupRetained(c) \/ LookupNothing(c) \/ ValidateRefuses(c) \/ Validated(c)
  \/ BeginFresh(c) \/ BeginRetained(c) \/ LedgerBusy(c)
  \/ Dispatch(c) \/ Lose(c) \/ InitializeRejected(c) \/ Close(c)
  \/ \E a \in replies : Receive(c, a)

Environment ==
  \/ \E c \in Calls : Cancel(c)
  \/ \E p \in Procs : Crash(p) \/ Disconnect(p)
  \/ \E r \in inbox, says \in Answers : Handle(r, says)
  \/ \E x \in Paths : MakeOrRemove(x) \/ \E d \in Paths : Relink(x, d)

Next ==
  \/ \E c \in Calls, p \in Procs, i \in Ids, a \in Requested : Invoke(c, p, i, a)
  \/ \E c \in Calls : BridgeStep(c)
  \/ Environment

Spec == Init /\ [][Next]_vars

\* Every wait of a call ends by itself: the answer to a request after
\* AppServer.timeout, a close after the transport's own timeouts, SQLite after its
\* busy timeout; and the lock is handed to the next waiter when its holder leaves.
\* ws.send (rpc.py:125) is under no timeout: the peer is assumed to go on reading.
FairTo(c) == WF_vars(BridgeStep(c))

Fairness == \A c \in Calls : FairTo(c)

FairSpec == Spec /\ Fairness
=============================================================================

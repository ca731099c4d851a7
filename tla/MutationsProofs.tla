-------------------------- MODULE MutationsProofs ---------------------------
(***************************************************************************)
(* Proofs about Mutations, for any sets of calls, processes, request_ids,  *)
(* threads, paths, titles and texts.                                       *)
(***************************************************************************)
EXTENDS MutationsProperties, TLAPS

LEMMA OpsAre ==
  Ops = {"create_thread", "send_message_to_thread", "fork_thread",
         "set_thread_title", "set_thread_archived"}
BY DEF Ops, Script

LEMMA ScriptOf ==
  /\ Script["create_thread"] =
       <<"project/read", "thread/start", "thread/name/set", "turn/start">>
  /\ Script["send_message_to_thread"] =
       <<"thread/read", "thread/resume", "turn/start", "close">>
  /\ Script["fork_thread"] = <<"thread/read", "thread/goal/get", "thread/fork", "close">>
  /\ Script["set_thread_title"] = <<"thread/name/set">>
  /\ Script["set_thread_archived"] = <<"thread/read", "thread/archive", "thread/unarchive">>
BY DEF Script, CreateScript, MessageScript, ForkScript, TitleScript, ArchiveScript

LEMMA ScriptLength ==
  ASSUME NEW op \in Ops
  PROVE  /\ Len(Script[op]) \in {1, 3, 4}
         /\ \A k \in 1 .. Len(Script[op]) : Script[op][k] \in Methods \union {"close"}
<1>1. CASE op = "create_thread"
  BY <1>1, ScriptOf DEF Methods, Effects, Inquiries
<1>2. CASE op = "send_message_to_thread"
  BY <1>2, ScriptOf DEF Methods, Effects, Inquiries
<1>3. CASE op = "fork_thread"
  BY <1>3, ScriptOf DEF Methods, Effects, Inquiries
<1>4. CASE op = "set_thread_title"
  BY <1>4, ScriptOf DEF Methods, Effects, Inquiries
<1>5. CASE op = "set_thread_archived"
  BY <1>5, ScriptOf DEF Methods, Effects, Inquiries
<1> QED BY <1>1, <1>2, <1>3, <1>4, <1>5, OpsAre

\* No script names a method twice.
LEMMA ScriptInjective ==
  ASSUME NEW op \in Ops,
         NEW j \in 1 .. Len(Script[op]), NEW k \in 1 .. Len(Script[op]), j # k
  PROVE  Script[op][j] # Script[op][k]
<1>1. CASE op = "create_thread"
  BY <1>1, ScriptOf
<1>2. CASE op = "send_message_to_thread"
  BY <1>2, ScriptOf
<1>3. CASE op = "fork_thread"
  BY <1>3, ScriptOf
<1>4. CASE op = "set_thread_title"
  BY <1>4, ScriptOf
<1>5. CASE op = "set_thread_archived"
  BY <1>5, ScriptOf
<1> QED BY <1>1, <1>2, <1>3, <1>4, <1>5, OpsAre

\* Arguments and receipts, without the definitions they are built from.
LEMMA ArgumentsOp == ASSUME NEW a \in Arguments PROVE a.op \in Ops
BY DEF Arguments

LEMMA FreshReceiptType == FreshReceipt \in Receipts
BY DEF FreshReceipt, Receipts, Statuses

LEMMA FirstReceiptType ==
  ASSUME NEW a \in Arguments
  PROVE  FirstReceipt(a) \in Receipts
         /\ FirstReceipt(a).status = "in_progress_or_unknown"
BY DEF FirstReceipt, FreshReceipt, Receipts, Statuses, Arguments

LEMMA WithStatusType ==
  ASSUME NEW r \in Receipts, NEW s \in Statuses
  PROVE  WithStatus(r, s) \in Receipts /\ WithStatus(r, s).status = s
BY DEF WithStatus, Receipts

LEMMA NotedType ==
  ASSUME NEW c \in Calls, NEW a \in Arguments, NEW r \in Receipts,
         NEW m \in Methods, NEW says \in Answers
  PROVE  Noted(c, a, r, m, says) \in Receipts
         /\ Noted(c, a, r, m, says).status = r.status
<1>1. ThreadAfter(c, a, r, m) \in Threads \union Calls \union {None}
  BY DEF ThreadAfter, Receipts, Arguments
<1>2. ModeAfter(a, r, m, says) \in Modes \union {None}
  BY DEF ModeAfter, Modes, Receipts
<1> QED BY <1>1, <1>2 DEF Noted, Receipts

-----------------------------------------------------------------------------
(***************************************************************************)
(* The invariant, in the state of the bridge processes alone.  A step of a *)
(* call c does one of three things to it: c stops running, c goes on to a  *)
(* later step of its script, or c sends the request it stands at.          *)
(***************************************************************************)
BridgeInv == BridgeTypeOK /\ DedupInv

\* Call c may write its row: it owns it, or nobody does yet.
MayWrite(c) == Running(c) \/ (pc[c] = "begin" /\ Row(c) = None)

LEMMA InvokedCall ==
  ASSUME BridgeInv, NEW c \in Calls, pc[c] # "new"
  PROVE  /\ req[c] \in Invocations
         /\ Id(c) \in Ids /\ Proc(c) \in Procs /\ Args(c) \in Arguments
         /\ Args(c).op \in Ops
<1>1. req[c] \in Invocations
  BY DEF BridgeInv, DedupInv, Invoked, BridgeTypeOK
<1> QED BY <1>1, ArgumentsOp DEF Invocations, Id, Proc, Args

LEMMA RunningCall ==
  ASSUME BridgeInv, NEW c \in Calls, Running(c)
  PROVE  /\ Row(c) \in Rows /\ Row(c).receipt \in Receipts /\ Row(c).owner = c
         /\ Row(c).receipt.status = "in_progress_or_unknown"
         /\ receipt[c] \in Receipts
         /\ receipt[c].status = "in_progress_or_unknown"
         /\ pos[c] \in 1 .. Len(Script[Args(c).op])
<1>1. pc[c] # "new" /\ Id(c) \in Ids /\ Args(c).op \in Ops
  BY InvokedCall DEF Running
<1>2. Row(c) \in Rows
  BY <1>1 DEF BridgeInv, DedupInv, OwnsItsRow, BridgeTypeOK, Row
<1>3. pos[c] \in 1 .. Len(Script[Args(c).op])
  <2>1. pos[c] \in Positions /\ pos[c] <= Len(Script[Args(c).op])
    BY DEF BridgeInv, DedupInv, OnScript, BridgeTypeOK
  <2>2. Len(Script[Args(c).op]) \in Nat
    BY <1>1, ScriptLength
  <2> QED BY <2>1, <2>2 DEF Positions
<1>4. receipt[c] \in Receipts
  BY DEF BridgeInv, BridgeTypeOK
<1>5. /\ Row(c).owner = c
      /\ Row(c).receipt.status = "in_progress_or_unknown"
      /\ receipt[c].status = "in_progress_or_unknown"
  BY DEF BridgeInv, DedupInv, OwnsItsRow
<1> QED BY <1>2, <1>3, <1>4, <1>5 DEF Rows

\* Two running calls never share a request_id.
LEMMA OneRunner ==
  ASSUME BridgeInv, NEW c \in Calls, NEW d \in Calls, c # d,
         MayWrite(c), Running(d)
  PROVE  Id(c) # Id(d)
<1>1. Row(d) # None /\ Row(d).owner = d
  BY DEF BridgeInv, DedupInv, OwnsItsRow
<1>2. CASE Running(c)
  <2>1. Row(c).owner = c
    BY <1>2 DEF BridgeInv, DedupInv, OwnsItsRow
  <2> QED BY <1>1, <2>1 DEF Row
<1>3. CASE pc[c] = "begin" /\ Row(c) = None
  BY <1>1, <1>3 DEF Row
<1> QED BY <1>2, <1>3 DEF MayWrite

\* Writing the row of c leaves a table of rows.
LEMMA PutType ==
  ASSUME BridgeInv, NEW c \in Calls, pc[c] # "new", NEW r \in Receipts, Put(c, r)
  PROVE  /\ ledger' \in [Ids -> Rows \union {None}]
         /\ \A i \in Ids : i # Id(c) => ledger'[i] = ledger[i]
         /\ ledger'[Id(c)] = [print |-> Args(c), version |-> 2, owner |-> c, receipt |-> r]
         /\ ledger'[Id(c)] # None
<1>1. Id(c) \in Ids /\ Args(c) \in Arguments
  BY InvokedCall
<1> DEFINE row == [print |-> Args(c), version |-> 2, owner |-> c, receipt |-> r]
<1>2. row \in Rows
  BY <1>1 DEF Rows
<1>3. row # None
  BY <1>2, ConstantsAssumption DEF ConstantsAssumption
<1>4. ledger \in [Ids -> Rows \union {None}]
  BY DEF BridgeInv, BridgeTypeOK
<1> QED BY <1>1, <1>2, <1>3, <1>4 DEF Put

\* Call c stops: it returns, dies, or has not started its action yet.
LEMMA StopKeeps ==
  ASSUME BridgeInv, NEW c \in Calls, pc[c] # "new",
         \/ UNCHANGED ledger
         \/ MayWrite(c) /\ \E r \in Receipts : Put(c, r),
         NEW how \in {"validate", "begin", "done", "dead"}, pc' = [pc EXCEPT ![c] = how],
         UNCHANGED <<req, sent, pos, receipt>>
  PROVE  DedupInv'
<1>1. \A d \in Calls : Running(d)' => Running(d) /\ d # c
  BY DEF BridgeInv, BridgeTypeOK, Running
<1>2. \A d \in Calls : /\ Id(d)' = Id(d) /\ Args(d)' = Args(d)
                       /\ pos'[d] = pos[d] /\ receipt'[d] = receipt[d]
                       /\ d # c => pc'[d] = pc[d]
  BY DEF Id, Args, BridgeInv, BridgeTypeOK
<1>3. Invoked'
  BY DEF BridgeInv, DedupInv, Invoked, BridgeTypeOK
<1>4. OnScript'
  BY <1>1, <1>2 DEF BridgeInv, DedupInv, OnScript
<1>5. \A i \in Ids : ledger'[i] = None => ledger[i] = None
  BY PutType
<1>6. \A d \in Calls : Running(d)' => Row(d)' = Row(d)
  <2> SUFFICES ASSUME NEW d \in Calls, Running(d)'
               PROVE  Row(d)' = Row(d)
    OBVIOUS
  <2>1. Running(d) /\ d # c
    BY <1>1
  <2>2. Id(d) \in Ids
    BY <2>1, InvokedCall DEF Running
  <2>3. CASE UNCHANGED ledger
    BY <2>3, <1>2 DEF Row
  <2>4. CASE MayWrite(c) /\ \E r \in Receipts : Put(c, r)
    <3>1. Id(c) # Id(d)
      BY <2>1, <2>4, OneRunner
    <3> QED BY <2>2, <2>4, <3>1, <1>2, PutType DEF Row
  <2> QED BY <2>3, <2>4
<1>7. OwnsItsRow'
  BY <1>1, <1>2, <1>6 DEF BridgeInv, DedupInv, OwnsItsRow
<1>8. ClaimedBeforeSent'
  BY <1>5 DEF BridgeInv, DedupInv, ClaimedBeforeSent
<1>9. SentIsBehind'
  BY <1>1, <1>2 DEF BridgeInv, DedupInv, SentIsBehind
<1>10. AtMostOnce'
  BY DEF BridgeInv, DedupInv, AtMostOnce
<1> QED BY <1>3, <1>4, <1>7, <1>8, <1>9, <1>10 DEF DedupInv

LEMMA ToldType ==
  ASSUME NEW kind \in {"none", "receipt", "replayed", "refused", "error"},
         NEW r \in Receipts \union {None}
  PROVE  Told(kind, r) \in Results
BY DEF Told, Results

LEMMA LeaveKeeps ==
  ASSUME BridgeInv, NEW c \in Calls, pc[c] # "new",
         \/ UNCHANGED ledger
         \/ MayWrite(c) /\ \E r \in Receipts : Put(c, r),
         NEW how \in {"done", "dead"}, Leave(c, how),
         NEW told \in Results,
         result' = result \/ result' = [result EXCEPT ![c] = told],
         UNCHANGED <<req, sent, pos, receipt, fileVars>>
  PROVE  BridgeInv'
<1>1. DedupInv'
  <2>1. pc' = [pc EXCEPT ![c] = how]
    BY DEF Leave
  <2> QED BY <2>1, StopKeeps
<1>2. ledger' \in [Ids -> Rows \union {None}]
  BY PutType DEF BridgeInv, BridgeTypeOK
<1>3. /\ holder' \in [Procs -> Calls \union {None}]
      /\ pc' \in [Calls -> {"new", "waiting", "validate", "begin", "ready", "sent", "done", "dead"}]
      /\ result' \in [Calls -> Results]
  BY DEF Leave, Release, BridgeInv, BridgeTypeOK
<1> QED BY <1>1, <1>2, <1>3 DEF BridgeInv, BridgeTypeOK, fileVars

LEMMA ConcludeKeeps ==
  ASSUME BridgeInv, NEW c \in Calls, MayWrite(c),
         NEW last \in Receipts, NEW r \in Receipts, Conclude(c, last, r),
         UNCHANGED <<req, sent, fileVars>>
  PROVE  BridgeInv'
<1>1. pc[c] # "new"
  BY DEF MayWrite, Running
<1>2. CASE Put(c, r) /\ result' = [result EXCEPT ![c] = Told("receipt", r)]
  BY <1>1, <1>2, LeaveKeeps, ToldType DEF Conclude
<1>3. CASE Put(c, last) /\ AnswerError(c, r)
  BY <1>1, <1>3, LeaveKeeps, ToldType DEF Conclude, AnswerError
<1> QED BY <1>2, <1>3 DEF Conclude

\* Call c, at position i of its script or about to start it, goes on to j.
LEMMA GoOnKeeps ==
  ASSUME BridgeInv, NEW c \in Calls, MayWrite(c), NEW i \in 0 .. 5,
         Running(c) => i = pos[c],
         NEW saved \in Receipts, saved.status = "in_progress_or_unknown",
         NEW r \in Receipts, r.status = "in_progress_or_unknown",
         NEW j \in Positions, StepAfter(Args(c), r.mode, i, j), ~Finished(Args(c), j),
         Put(c, saved),
         pc' = [pc EXCEPT ![c] = "ready"],
         pos' = [pos EXCEPT ![c] = j],
         receipt' = [receipt EXCEPT ![c] = r],
         UNCHANGED <<req, sent, holder, result, fileVars>>
  PROVE  BridgeInv'
<1>1. pc[c] # "new" /\ Id(c) \in Ids /\ Args(c) \in Arguments /\ Args(c).op \in Ops
  BY InvokedCall DEF MayWrite, Running
<1>2. j \in 1 .. Len(Script[Args(c).op]) /\ i < j
  BY <1>1, ScriptLength DEF StepAfter, Finished, Positions
<1>3. /\ pc'[c] = "ready" /\ pos'[c] = j /\ receipt'[c] = r
      /\ Running(c)' /\ Id(c)' = Id(c) /\ Args(c)' = Args(c)
      /\ Row(c)' = [print |-> Args(c), version |-> 2, owner |-> c, receipt |-> saved]
      /\ Row(c)' # None
  BY <1>1, PutType DEF BridgeInv, BridgeTypeOK, Running, Id, Args, Row
<1>4. \A d \in Calls \ {c} : Running(d)' => /\ Running(d) /\ Row(d)' = Row(d)
                                          /\ Id(d)' = Id(d) /\ Args(d)' = Args(d)
                                          /\ pc'[d] = pc[d] /\ pos'[d] = pos[d]
                                          /\ receipt'[d] = receipt[d]
  <2> SUFFICES ASSUME NEW d \in Calls \ {c}, Running(d)'
               PROVE  /\ Running(d) /\ Row(d)' = Row(d)
                      /\ Id(d)' = Id(d) /\ Args(d)' = Args(d)
                      /\ pc'[d] = pc[d] /\ pos'[d] = pos[d]
                      /\ receipt'[d] = receipt[d]
    OBVIOUS
  <2>1. /\ Running(d) /\ Id(d)' = Id(d) /\ Args(d)' = Args(d)
        /\ pc'[d] = pc[d] /\ pos'[d] = pos[d] /\ receipt'[d] = receipt[d]
    BY DEF Running, Id, Args, BridgeInv, BridgeTypeOK
  <2>2. Id(d) \in Ids /\ Id(c) # Id(d)
    BY <2>1, OneRunner, InvokedCall DEF Running
  <2> QED BY <1>1, <2>1, <2>2, PutType DEF Row
<1>5. Invoked'
  BY <1>1 DEF BridgeInv, DedupInv, Invoked, BridgeTypeOK
<1>6. OnScript'
  <2> SUFFICES ASSUME NEW d \in Calls, Running(d)'
               PROVE  pos'[d] <= Len(Script[Args(d)'.op])
    BY DEF OnScript
  <2>1. CASE d = c
    BY <1>1, <1>2, <1>3, <2>1, ScriptLength
  <2>2. CASE d # c
    BY <1>4, <2>2 DEF BridgeInv, DedupInv, OnScript
  <2> QED BY <2>1, <2>2
<1>7. OwnsItsRow'
  BY <1>3, <1>4 DEF BridgeInv, DedupInv, OwnsItsRow
<1>8. ClaimedBeforeSent'
  BY <1>1, PutType DEF BridgeInv, DedupInv, ClaimedBeforeSent
<1>9. SentIsBehind'
  <2> SUFFICES ASSUME NEW d \in Calls, Running(d)',
                      NEW k \in 1 .. Len(Script[Args(d)'.op]),
                      k > pos'[d] \/ (k = pos'[d] /\ pc'[d] = "ready"),
                      NEW m \in Methods, MethodAt(Args(d)', k) = m
               PROVE  sent[Id(d)'][m] = 0
    BY DEF SentIsBehind
  <2>1. CASE d # c
    BY <1>4, <2>1 DEF BridgeInv, DedupInv, SentIsBehind
  <2>2. CASE d = c /\ Running(c)
    <3>1. k > pos[c]
      BY <1>1, <1>2, <1>3, <2>2, ScriptLength
    <3> QED BY <1>3, <2>2, <3>1 DEF BridgeInv, DedupInv, SentIsBehind
  <2>3. CASE d = c /\ Row(c) = None
    BY <1>1, <1>3, <2>3 DEF BridgeInv, DedupInv, ClaimedBeforeSent, Row
  <2> QED BY <2>1, <2>2, <2>3 DEF MayWrite
<1>10. AtMostOnce'
  BY DEF BridgeInv, DedupInv, AtMostOnce
<1>11. BridgeTypeOK'
  BY <1>1, PutType DEF BridgeInv, BridgeTypeOK, fileVars
<1> QED BY <1>5, <1>6, <1>7, <1>8, <1>9, <1>10, <1>11 DEF BridgeInv, DedupInv

LEMMA ProceedKeeps ==
  ASSUME BridgeInv, NEW c \in Calls, MayWrite(c), NEW i \in 0 .. 5,
         Running(c) => i = pos[c],
         NEW saved \in Receipts, saved.status = "in_progress_or_unknown",
         NEW r \in Receipts, r.status = "in_progress_or_unknown",
         Proceed(c, i, saved, r),
         UNCHANGED <<req, sent, fileVars>>
  PROVE  BridgeInv'
<1>1. PICK j \in Positions :
        /\ StepAfter(Args(c), r.mode, i, j)
        /\ IF Finished(Args(c), j)
           THEN Conclude(c, saved, WithStatus(r, "accepted"))
           ELSE /\ Put(c, saved)
                /\ pc' = [pc EXCEPT ![c] = "ready"]
                /\ pos' = [pos EXCEPT ![c] = j]
                /\ receipt' = [receipt EXCEPT ![c] = r]
                /\ UNCHANGED <<holder, result>>
  BY DEF Proceed
<1>2. CASE Finished(Args(c), j)
  BY <1>1, <1>2, ConcludeKeeps, WithStatusType DEF Statuses
<1>3. CASE ~Finished(Args(c), j)
  BY <1>1, <1>3, GoOnKeeps
<1> QED BY <1>2, <1>3

-----------------------------------------------------------------------------
(* The actions. *)

LEMMA NothingKeeps ==
  ASSUME BridgeInv, UNCHANGED <<ledgerVars, callVars, fileVars>>
  PROVE  BridgeInv'
BY DEF BridgeInv, BridgeTypeOK, DedupInv, Invoked, OnScript, OwnsItsRow,
       ClaimedBeforeSent, SentIsBehind, AtMostOnce, Running, Row, Id, Args,
       ledgerVars, callVars, fileVars

LEMMA InvokeKeeps ==
  ASSUME BridgeInv, NEW c \in Calls, NEW p \in Procs, NEW i \in Ids, NEW a \in Requested,
         Invoke(c, p, i, a)
  PROVE  BridgeInv'
<1>1. a \in Arguments
  BY ConstantsAssumption DEF ConstantsAssumption
<1>2. [proc |-> p, id |-> i, args |-> a] \in Invocations
  BY <1>1 DEF Invocations
<1>3. [proc |-> p, id |-> i, args |-> a] # None
  BY <1>2, ConstantsAssumption DEF ConstantsAssumption
<1>4. \A d \in Calls : /\ Running(d)' => Running(d) /\ d # c
                       /\ d # c => pc'[d] = pc[d] /\ req'[d] = req[d]
  BY DEF Invoke, Running, BridgeInv, BridgeTypeOK
<1>5. BridgeTypeOK'
  BY <1>2 DEF Invoke, BridgeInv, BridgeTypeOK, ledgerVars, fileVars
<1>6. Invoked'
  BY <1>2, <1>3 DEF Invoke, BridgeInv, DedupInv, Invoked, BridgeTypeOK
<1>7. OnScript' /\ OwnsItsRow' /\ SentIsBehind'
  BY <1>4 DEF Invoke, BridgeInv, DedupInv, OnScript, OwnsItsRow, SentIsBehind,
              Args, Row, Id, ledgerVars
<1>8. ClaimedBeforeSent' /\ AtMostOnce'
  BY DEF Invoke, BridgeInv, DedupInv, ClaimedBeforeSent, AtMostOnce, ledgerVars
<1> QED BY <1>5, <1>6, <1>7, <1>8 DEF BridgeInv, DedupInv

LEMMA AnswerFromType ==
  ASSUME BridgeInv, NEW c \in Calls, pc[c] # "new", Row(c) # None, AnswerFrom(c, Row(c))
  PROVE  \E told \in Results : result' = [result EXCEPT ![c] = told]
<1>1. Row(c) \in Rows
  BY InvokedCall DEF BridgeInv, BridgeTypeOK, Row
<1>2. Row(c).receipt \in Receipts
  BY <1>1 DEF Rows
<1> QED BY <1>2, ToldType DEF AnswerFrom

LEMMA LookupKeeps ==
  ASSUME BridgeInv, NEW c \in Calls,
         LookupRetained(c) \/ LookupNothing(c) \/ ValidateRefuses(c) \/ Validated(c)
           \/ BeginRetained(c) \/ LedgerBusy(c)
  PROVE  BridgeInv'
<1>1. pc[c] # "new"
  BY DEF LookupRetained, LookupNothing, ValidateRefuses, Validated, BeginRetained, LedgerBusy,
         AtLock
<1>2. CASE LookupRetained(c)
  BY <1>1, <1>2, AnswerFromType, LeaveKeeps DEF LookupRetained, ledgerVars
<1>3. CASE ValidateRefuses(c)
  BY <1>1, <1>3, ToldType, LeaveKeeps DEF ValidateRefuses, ledgerVars
<1>4. CASE LookupNothing(c) \/ Validated(c)
  <2>1. PICK how \in {"validate", "begin"} : pc' = [pc EXCEPT ![c] = how]
    BY <1>4 DEF LookupNothing, Validated
  <2>2. DedupInv'
    BY <1>1, <1>4, <2>1, StopKeeps DEF LookupNothing, Validated, ledgerVars
  <2>3. BridgeTypeOK'
    BY <1>1, <1>4, <2>1, InvokedCall
       DEF LookupNothing, Validated, BridgeInv, BridgeTypeOK, ledgerVars, fileVars
  <2> QED BY <2>2, <2>3 DEF BridgeInv
<1>5. CASE BeginRetained(c)
  BY <1>1, <1>5, AnswerFromType, LeaveKeeps DEF BeginRetained, ledgerVars
<1>6. CASE LedgerBusy(c)
  BY <1>1, <1>6, ToldType, LeaveKeeps DEF LedgerBusy, ledgerVars
<1> QED BY <1>2, <1>3, <1>4, <1>5, <1>6

LEMMA BeginFreshKeeps ==
  ASSUME BridgeInv, NEW c \in Calls, BeginFresh(c)
  PROVE  BridgeInv'
<1>1. MayWrite(c) /\ ~Running(c) /\ pc[c] # "new"
  BY DEF BeginFresh, Claims, MayWrite, Running
<1>2. FirstReceipt(Args(c)) \in Receipts
      /\ FirstReceipt(Args(c)).status = "in_progress_or_unknown"
  BY <1>1, InvokedCall, FirstReceiptType
<1>3. CASE Proceed(c, 0, FirstReceipt(Args(c)), FirstReceipt(Args(c)))
  BY <1>1, <1>2, <1>3, ProceedKeeps DEF BeginFresh
<1>4. CASE Conclude(c, FreshReceipt, WithStatus(FirstReceipt(Args(c)), "outcome_unknown"))
  BY <1>1, <1>2, <1>4, ConcludeKeeps, FreshReceiptType, WithStatusType
     DEF BeginFresh, Statuses
<1> QED BY <1>3, <1>4 DEF BeginFresh

LEMMA DispatchKeeps ==
  ASSUME BridgeInv, NEW c \in Calls, Dispatch(c)
  PROVE  BridgeInv'
<1>1. Running(c) /\ pc[c] = "ready"
  BY DEF Dispatch, Running
<1>2. /\ Id(c) \in Ids /\ Args(c).op \in Ops
      /\ pos[c] \in 1 .. Len(Script[Args(c).op])
  BY <1>1, InvokedCall, RunningCall
<1>3. Method(c) \in Methods
  BY <1>2, ScriptLength DEF Dispatch, Method, MethodAt
<1>4. sent[Id(c)][Method(c)] = 0
  BY <1>1, <1>2, <1>3 DEF BridgeInv, DedupInv, SentIsBehind, Method
<1>5. \A i \in Ids, m \in Methods :
        sent'[i][m] = IF i = Id(c) /\ m = Method(c) THEN 1 ELSE sent[i][m]
  BY <1>2, <1>3, <1>4 DEF Dispatch, BridgeInv, BridgeTypeOK
<1>6. \A d \in Calls : /\ Running(d)' <=> Running(d)
                       /\ Row(d)' = Row(d) /\ Id(d)' = Id(d) /\ Args(d)' = Args(d)
                       /\ pos'[d] = pos[d] /\ receipt'[d] = receipt[d]
                       /\ d # c => pc'[d] = pc[d]
  BY <1>1 DEF Dispatch, Running, Row, Id, Args, BridgeInv, BridgeTypeOK
<1>7. BridgeTypeOK'
  BY <1>2, <1>3, <1>4 DEF Dispatch, BridgeInv, BridgeTypeOK, fileVars
<1>8. Invoked'
  BY <1>1 DEF Dispatch, BridgeInv, DedupInv, Invoked, BridgeTypeOK, Running
<1>9. OnScript' /\ OwnsItsRow'
  BY <1>6 DEF BridgeInv, DedupInv, OnScript, OwnsItsRow
<1>10. ClaimedBeforeSent'
  <2>1. Row(c) # None
    BY <1>1 DEF BridgeInv, DedupInv, OwnsItsRow
  <2> QED BY <1>5, <2>1 DEF Dispatch, BridgeInv, DedupInv, ClaimedBeforeSent, Row
<1>11. SentIsBehind'
  <2> SUFFICES ASSUME NEW d \in Calls, Running(d)',
                      NEW k \in 1 .. Len(Script[Args(d)'.op]),
                      k > pos'[d] \/ (k = pos'[d] /\ pc'[d] = "ready"),
                      NEW m \in Methods, MethodAt(Args(d)', k) = m
               PROVE  sent'[Id(d)'][m] = 0
    BY DEF SentIsBehind
  <2>1. CASE d # c
    <3>1. Id(d) # Id(c) /\ Id(d) \in Ids
      BY <1>1, <1>6, <2>1, OneRunner, InvokedCall DEF MayWrite, Running
    <3>2. sent[Id(d)][m] = 0
      BY <1>6, <2>1 DEF BridgeInv, DedupInv, SentIsBehind
    <3> QED BY <1>5, <1>6, <3>1, <3>2
  <2>2. CASE d = c
    <3>1. pc'[c] = "sent"
      BY DEF Dispatch, BridgeInv, BridgeTypeOK
    <3>2. k > pos[c] /\ k \in 1 .. Len(Script[Args(c).op]) /\ MethodAt(Args(c), k) = m
      BY <1>6, <2>2, <3>1
    <3>3. sent[Id(c)][m] = 0
      BY <1>1, <3>2 DEF BridgeInv, DedupInv, SentIsBehind
    <3>4. k # pos[c]
      BY <1>2, <1>6, <2>2, <3>2, ScriptLength
    <3>5. m # Method(c)
      BY <1>2, <3>2, <3>4, ScriptInjective DEF Method, MethodAt
    <3> QED BY <1>2, <1>5, <1>6, <2>2, <3>3, <3>5
  <2> QED BY <2>1, <2>2
<1>12. AtMostOnce'
  BY <1>5 DEF BridgeInv, DedupInv, AtMostOnce
<1> QED BY <1>7, <1>8, <1>9, <1>10, <1>11, <1>12 DEF BridgeInv, DedupInv

LEMMA ReceiveKeeps ==
  ASSUME BridgeInv, ServerTypeOK, NEW c \in Calls, NEW a \in replies, Receive(c, a)
  PROVE  BridgeInv'
<1> DEFINE m == Method(c)
           r == Noted(c, Args(c), receipt[c], m, a.says)
           saved == IF Checkpoint(Args(c), r.mode, m) THEN r ELSE Row(c).receipt
<1>1. Running(c) /\ MayWrite(c)
  BY DEF Receive, Running, MayWrite
<1>2. /\ Args(c) \in Arguments /\ Row(c).receipt \in Receipts /\ receipt[c] \in Receipts
      /\ Row(c).receipt.status = "in_progress_or_unknown"
      /\ receipt[c].status = "in_progress_or_unknown"
      /\ pos[c] \in 0 .. 5
  BY <1>1, InvokedCall, RunningCall, ScriptLength DEF Running
<1>3. m \in Methods /\ a.says \in Answers
  BY DEF Receive, ServerTypeOK, Replies
<1>4. r \in Receipts /\ r.status = "in_progress_or_unknown"
  BY <1>2, <1>3, NotedType
<1>5. saved \in Receipts /\ saved.status = "in_progress_or_unknown"
  BY <1>2, <1>4
<1>6. \/ Conclude(c, Row(c).receipt, WithStatus(receipt[c], "failed"))
      \/ Conclude(c, Row(c).receipt, WithStatus(r, "outcome_unknown"))
      \/ Conclude(c, saved, WithStatus(r, "failed"))
      \/ Proceed(c, pos[c], saved, r)
  BY DEF Receive
<1>7. UNCHANGED <<req, sent, fileVars>>
  BY DEF Receive
<1>8. CASE Proceed(c, pos[c], saved, r)
  BY <1>1, <1>2, <1>4, <1>5, <1>7, <1>8, ProceedKeeps
<1>9. CASE \/ Conclude(c, Row(c).receipt, WithStatus(receipt[c], "failed"))
           \/ Conclude(c, Row(c).receipt, WithStatus(r, "outcome_unknown"))
           \/ Conclude(c, saved, WithStatus(r, "failed"))
  <2>1. /\ WithStatus(receipt[c], "failed") \in Receipts
        /\ WithStatus(r, "outcome_unknown") \in Receipts
        /\ WithStatus(r, "failed") \in Receipts
    BY <1>2, <1>4, WithStatusType DEF Statuses
  <2> HIDE DEF r, saved
  <2> QED BY <1>1, <1>2, <1>5, <1>7, <1>9, <2>1, ConcludeKeeps
<1> QED BY <1>6, <1>8, <1>9

LEMMA GiveUpKeeps ==
  ASSUME BridgeInv, NEW c \in Calls, Lose(c) \/ InitializeRejected(c)
  PROVE  BridgeInv'
<1>1. Running(c) /\ MayWrite(c)
  BY DEF Lose, InitializeRejected, Running, MayWrite
<1>2. Row(c).receipt \in Receipts /\ receipt[c] \in Receipts
  BY <1>1, RunningCall
<1>3. CASE Lose(c)
  BY <1>1, <1>2, <1>3, ConcludeKeeps, WithStatusType DEF Lose, LostReceipt, Statuses
<1>4. CASE InitializeRejected(c)
  BY <1>1, <1>2, <1>4, ConcludeKeeps, WithStatusType DEF InitializeRejected, Statuses
<1> QED BY <1>3, <1>4

LEMMA CloseKeeps ==
  ASSUME BridgeInv, NEW c \in Calls, Close(c)
  PROVE  BridgeInv'
<1>1. Running(c) /\ MayWrite(c)
  BY DEF Close, Running, MayWrite
<1>2. /\ Row(c).receipt \in Receipts /\ receipt[c] \in Receipts
      /\ Row(c).receipt.status = "in_progress_or_unknown"
      /\ receipt[c].status = "in_progress_or_unknown"
      /\ pos[c] \in 0 .. 5
  BY <1>1, InvokedCall, RunningCall, ScriptLength DEF Running
<1> QED BY <1>1, <1>2, ProceedKeeps DEF Close

LEMMA CancelKeeps ==
  ASSUME BridgeInv, NEW c \in Calls, Cancel(c)
  PROVE  BridgeInv'
<1>1. pc[c] # "new"
  BY DEF Cancel
<1>2. UNCHANGED ledger \/ (MayWrite(c) /\ \E r \in Receipts : Put(c, r))
  <2>1. CASE pc[c] \in {"ready", "sent"} /\ Put(c, CancelledReceipt(c))
    BY <2>1, RunningCall, WithStatusType DEF CancelledReceipt, MayWrite, Running, Statuses
  <2> QED BY <2>1 DEF Cancel
<1>3. Told("error", None) \in Results
  BY ToldType
<1> QED BY <1>1, <1>2, <1>3, LeaveKeeps DEF Cancel

LEMMA CrashKeeps ==
  ASSUME BridgeInv, NEW p \in Procs, Crash(p)
  PROVE  BridgeInv'
<1>1. pc' \in [Calls -> {"new", "waiting", "validate", "begin", "ready", "sent", "done", "dead"}]
  BY DEF Crash, BridgeInv, BridgeTypeOK
<1>2. \A d \in Calls : /\ Running(d)' => Running(d) /\ pc'[d] = pc[d]
                       /\ pc'[d] # "new" => pc[d] # "new"
                       /\ Row(d)' = Row(d) /\ Id(d)' = Id(d) /\ Args(d)' = Args(d)
  BY DEF Crash, Running, Row, Id, Args, ledgerVars
<1>3. BridgeTypeOK'
  BY <1>1 DEF Crash, BridgeInv, BridgeTypeOK, ledgerVars, fileVars
<1>4. Invoked' /\ OnScript' /\ OwnsItsRow' /\ SentIsBehind'
  BY <1>2 DEF Crash, BridgeInv, DedupInv, Invoked, OnScript, OwnsItsRow, SentIsBehind, ledgerVars
<1>5. ClaimedBeforeSent' /\ AtMostOnce'
  BY DEF Crash, BridgeInv, DedupInv, ClaimedBeforeSent, AtMostOnce, ledgerVars
<1> QED BY <1>3, <1>4, <1>5 DEF BridgeInv, DedupInv

LEMMA FilesKeep ==
  ASSUME BridgeInv, NEW x \in Paths, MakeOrRemove(x) \/ \E d \in Paths : Relink(x, d)
  PROVE  BridgeInv'
<1>1. link' \in [Paths -> Paths] /\ dirs' \in SUBSET Paths
  BY DEF MakeOrRemove, Relink, BridgeInv, BridgeTypeOK
<1>2. UNCHANGED <<ledgerVars, callVars>>
  BY DEF MakeOrRemove, Relink
<1> QED BY <1>1, <1>2 DEF BridgeInv, BridgeTypeOK, DedupInv, Invoked, OnScript,
        OwnsItsRow, ClaimedBeforeSent, SentIsBehind, AtMostOnce, Running, Row, Id, Args,
        ledgerVars, callVars

-----------------------------------------------------------------------------
(* The App Server's variables. *)

LEMMA SeverType ==
  ASSUME ServerTypeOK, NEW p \in Procs, Sever(p)
  PROVE  ServerTypeOK'
<1>1. \A r \in Requests : [r EXCEPT !.live = r.live /\ r.proc # p] \in Requests
  BY DEF Requests
<1> QED BY <1>1 DEF Sever, ServerTypeOK

LEMMA ServeType ==
  ASSUME ServerTypeOK, NEW r \in inbox, NEW says \in Answers, Serve(r, says)
  PROVE  ServerTypeOK'
<1>1. r \in Requests
  BY DEF ServerTypeOK
<1>2. [call |-> r.call, proc |-> r.proc, method |-> r.method, says |-> says] \in Replies
  BY <1>1 DEF Requests, Replies
<1>3. inbox' \in SUBSET Requests /\ replies' \in SUBSET Replies
  BY <1>2 DEF Serve, ServerTypeOK
<1>4. answers' \in [Calls -> [Methods -> Answers \union {None}]]
  BY <1>1 DEF Serve, ServerTypeOK, Requests
<1>5. attached' \in [Procs -> SUBSET ThreadIds]
  <2>1. CASE attached' = attached
    BY <2>1 DEF ServerTypeOK
  <2>2. CASE /\ r.method \in Subscribing
             /\ attached' = [attached EXCEPT ![r.proc] = @ \union {r.thread}]
    <3>1. r.thread \in ThreadIds
      BY <1>1, <2>2 DEF Requests
    <3> QED BY <1>1, <2>2, <3>1 DEF ServerTypeOK, Requests
  <2> QED BY <2>1, <2>2 DEF Serve
<1> QED BY <1>3, <1>4, <1>5 DEF ServerTypeOK

LEMMA DispatchType ==
  ASSUME ServerTypeOK, BridgeInv, NEW c \in Calls, Dispatch(c)
  PROVE  ServerTypeOK'
<1>1. Running(c)
  BY DEF Dispatch, Running
<1>2. /\ Proc(c) \in Procs /\ Args(c) \in Arguments /\ Args(c).op \in Ops
      /\ pos[c] \in 1 .. Len(Script[Args(c).op])
  BY <1>1, InvokedCall, RunningCall DEF Running
<1>3. Method(c) \in Methods
  BY <1>2, ScriptLength DEF Dispatch, Method, MethodAt
<1>4. /\ Target(c) \in ThreadIds \union {None}
      /\ Method(c) \in Subscribing => Target(c) # None
  BY <1>2, ConstantsAssumption
     DEF Target, Subscribing, ThreadIds, Arguments, ConstantsAssumption
<1>5. [call |-> c, proc |-> Proc(c), method |-> Method(c), thread |-> Target(c),
       live |-> TRUE] \in Requests
  BY <1>2, <1>3, <1>4 DEF Requests
<1> QED BY <1>5 DEF Dispatch, Accept, ServerTypeOK

LEMMA ReceiveType ==
  ASSUME ServerTypeOK, NEW c \in Calls, NEW a \in replies, Receive(c, a)
  PROVE  ServerTypeOK'
BY DEF Receive, ServerTypeOK

-----------------------------------------------------------------------------
(* The theorems. *)

IndInv == ServerTypeOK /\ BridgeInv

LEMMA InitInd == ASSUME Init PROVE IndInv
<1>1. \A i \in Ids : ledger[i] \in Rows \union {None}
  BY ConstantsAssumption DEF Init, ConstantsAssumption
<1>2. \A c \in Calls : ~Running(c)
  BY DEF Init, Running
<1>3. ServerTypeOK
  BY DEF Init, ServerInit, ServerTypeOK
<1>4. BridgeTypeOK
  <2>1. Told("none", None) \in Results
    BY ToldType
  <2>2. dirs \in SUBSET Paths
    BY DEF Init, Directories
  <2> QED BY <1>1, <2>1, <2>2, FreshReceiptType DEF Init, BridgeTypeOK, Positions
<1>5. DedupInv
  BY <1>2 DEF Init, DedupInv, Invoked, OnScript, OwnsItsRow, ClaimedBeforeSent,
              SentIsBehind, AtMostOnce
<1> QED BY <1>3, <1>4, <1>5 DEF IndInv, BridgeInv

LEMMA NextInd == ASSUME IndInv, [Next]_vars PROVE IndInv'
<1> USE DEF IndInv
<1>1. ASSUME NEW c \in Calls, NEW p \in Procs, NEW i \in Ids, NEW a \in Requested,
             Invoke(c, p, i, a)
      PROVE  IndInv'
  BY <1>1, InvokeKeeps DEF Invoke, ServerTypeOK, serverVars
<1>2. ASSUME NEW c \in Calls, BridgeStep(c)
      PROVE  IndInv'
  <2>1. CASE LookupRetained(c) \/ LookupNothing(c) \/ ValidateRefuses(c) \/ Validated(c)
               \/ BeginRetained(c) \/ LedgerBusy(c)
    <3>1. UNCHANGED serverVars
      BY <2>1 DEF LookupRetained, LookupNothing, ValidateRefuses, Validated, BeginRetained,
                  LedgerBusy
    <3> QED BY <2>1, <3>1, LookupKeeps DEF ServerTypeOK, serverVars
  <2>2. CASE BeginFresh(c)
    BY <2>2, BeginFreshKeeps DEF BeginFresh, ServerTypeOK, serverVars
  <2>3. CASE Dispatch(c)
    BY <2>3, DispatchKeeps, DispatchType
  <2>4. CASE Lose(c) \/ InitializeRejected(c)
    <3>1. CASE Lose(c)
      BY <3>1, GiveUpKeeps DEF Lose, ServerTypeOK, serverVars
    <3>2. CASE InitializeRejected(c)
      <4>1. Proc(c) \in Procs
        BY <3>2, InvokedCall DEF InitializeRejected
      <4> QED BY <3>2, <4>1, GiveUpKeeps, SeverType DEF InitializeRejected
    <3> QED BY <2>4, <3>1, <3>2
  <2>5. CASE Close(c)
    <3>1. Proc(c) \in Procs
      BY <2>5, InvokedCall DEF Close
    <3> QED BY <2>5, <3>1, CloseKeeps, SeverType DEF Close, CloseConnection
  <2>6. CASE \E a \in replies : Receive(c, a)
    BY <2>6, ReceiveKeeps, ReceiveType
  <2> QED BY <1>2, <2>1, <2>2, <2>3, <2>4, <2>5, <2>6 DEF BridgeStep
<1>3. ASSUME Environment
      PROVE  IndInv'
  <2>1. ASSUME NEW c \in Calls, Cancel(c)
        PROVE  IndInv'
    BY <2>1, CancelKeeps DEF Cancel, ServerTypeOK, serverVars
  <2>2. ASSUME NEW p \in Procs, Crash(p)
        PROVE  IndInv'
    BY <2>2, CrashKeeps, SeverType DEF Crash
  <2>3. ASSUME NEW p \in Procs, Disconnect(p)
        PROVE  IndInv'
    BY <2>3, NothingKeeps, SeverType DEF Disconnect
  <2>4. ASSUME NEW r \in inbox, NEW says \in Answers, Handle(r, says)
        PROVE  IndInv'
    BY <2>4, NothingKeeps, ServeType DEF Handle
  <2>5. ASSUME NEW x \in Paths, MakeOrRemove(x) \/ \E d \in Paths : Relink(x, d)
        PROVE  IndInv'
    <3>1. UNCHANGED serverVars
      BY <2>5 DEF MakeOrRemove, Relink
    <3> QED BY <2>5, <3>1, FilesKeep DEF ServerTypeOK, serverVars
  <2> QED BY <1>3, <2>1, <2>2, <2>3, <2>4, <2>5 DEF Environment
<1>4. CASE UNCHANGED vars
  BY <1>4, NothingKeeps DEF vars, ServerTypeOK, serverVars
<1> QED BY <1>1, <1>2, <1>3, <1>4 DEF Next

LEMMA Invariance == Spec => []IndInv
<1>1. Init => IndInv
  BY InitInd
<1>2. IndInv /\ [Next]_vars => IndInv'
  BY NextInd
<1> QED BY <1>1, <1>2, PTL DEF Spec

\* Every variable keeps its type (TypeOK), in every reachable state.
THEOREM TypeCorrect == Spec => []TypeOK
<1>1. IndInv => TypeOK
  BY DEF IndInv, BridgeInv, TypeOK
<1> QED BY <1>1, Invariance, PTL

\* However many processes, retries, crashes and late answers there are, no step
\* of a request is sent twice.
THEOREM SentAtMostOnce == Spec => []AtMostOnce
<1>1. IndInv => AtMostOnce
  BY DEF IndInv, BridgeInv, DedupInv
<1> QED BY <1>1, Invariance, PTL

\* The ownership of rows that AtMostOnce rests on holds too.
THEOREM OwnershipHolds == Spec => []DedupInv
<1>1. IndInv => DedupInv
  BY DEF IndInv, BridgeInv
<1> QED BY <1>1, Invariance, PTL

-----------------------------------------------------------------------------
(***************************************************************************)
(* Refinement of RequestDedup: a step leaves the table and the counters    *)
(* alone, or writes the row of the call that runs the request_id, or sends *)
(* the request that call stands at.                                        *)
(***************************************************************************)
Writes(c) == MayWrite(c) /\ (\E r \in Receipts : Put(c, r)) /\ UNCHANGED sent

LEMMA ConcludeWrites ==
  ASSUME NEW c \in Calls, NEW last \in Receipts, NEW r \in Receipts, Conclude(c, last, r)
  PROVE  \E x \in Receipts : Put(c, x)
BY DEF Conclude

LEMMA ProceedWrites ==
  ASSUME NEW c \in Calls, NEW i, NEW saved \in Receipts, NEW r \in Receipts,
         Proceed(c, i, saved, r)
  PROVE  \E x \in Receipts : Put(c, x)
<1>1. WithStatus(r, "accepted") \in Receipts
  BY WithStatusType DEF Statuses
<1>2. PICK j \in Positions :
        Conclude(c, saved, WithStatus(r, "accepted")) \/ Put(c, saved)
  BY DEF Proceed
<1> QED BY <1>1, <1>2, ConcludeWrites

LEMMA RunWrites ==
  ASSUME IndInv, NEW c \in Calls,
         BeginFresh(c) \/ Lose(c) \/ InitializeRejected(c) \/ Close(c)
           \/ \E a \in replies : Receive(c, a)
  PROVE  Writes(c)
<1>1. MayWrite(c) /\ UNCHANGED sent
  BY DEF BeginFresh, Claims, Lose, InitializeRejected, Close, Receive, MayWrite, Running
<1>2. CASE BeginFresh(c)
  <2>1. /\ FirstReceipt(Args(c)) \in Receipts /\ FreshReceipt \in Receipts
        /\ WithStatus(FirstReceipt(Args(c)), "outcome_unknown") \in Receipts
    BY <1>2, InvokedCall, FirstReceiptType, FreshReceiptType, WithStatusType
       DEF IndInv, BeginFresh, Statuses
  <2>2. CASE Proceed(c, 0, FirstReceipt(Args(c)), FirstReceipt(Args(c)))
    BY <1>1, <2>1, <2>2, ProceedWrites DEF Writes
  <2>3. CASE Conclude(c, FreshReceipt, WithStatus(FirstReceipt(Args(c)), "outcome_unknown"))
    BY <1>1, <2>1, <2>3, ConcludeWrites DEF Writes
  <2> QED BY <1>2, <2>2, <2>3 DEF BeginFresh
<1>3. CASE Lose(c) \/ InitializeRejected(c)
  <2>1. /\ Row(c).receipt \in Receipts
        /\ LostReceipt(c) \in Receipts
        /\ WithStatus(receipt[c], "failed") \in Receipts
    BY <1>3, RunningCall, WithStatusType
       DEF IndInv, Lose, InitializeRejected, Running, LostReceipt, Statuses
  <2> QED BY <1>1, <1>3, <2>1, ConcludeWrites DEF Lose, InitializeRejected, Writes
<1>4. CASE Close(c)
  <2>1. Row(c).receipt \in Receipts /\ receipt[c] \in Receipts
    BY <1>4, RunningCall DEF IndInv, Close, Running
  <2> QED BY <1>1, <1>4, <2>1, ProceedWrites DEF Close, Writes
<1>5. ASSUME NEW a \in replies, Receive(c, a)
      PROVE  Writes(c)
  <2> DEFINE m == Method(c)
             r == Noted(c, Args(c), receipt[c], m, a.says)
             saved == IF Checkpoint(Args(c), r.mode, m) THEN r ELSE Row(c).receipt
  <2>1. Running(c)
    BY <1>5 DEF Receive, Running
  <2>2. /\ Args(c) \in Arguments /\ Row(c).receipt \in Receipts /\ receipt[c] \in Receipts
    BY <2>1, InvokedCall, RunningCall DEF IndInv, Running
  <2>3. m \in Methods /\ a.says \in Answers
    BY <1>5 DEF Receive, IndInv, ServerTypeOK, Replies
  <2>4. r \in Receipts /\ saved \in Receipts
    BY <2>2, <2>3, NotedType
  <2>5. /\ WithStatus(receipt[c], "failed") \in Receipts
        /\ WithStatus(r, "outcome_unknown") \in Receipts
        /\ WithStatus(r, "failed") \in Receipts
    BY <2>2, <2>4, WithStatusType DEF Statuses
  <2>6. \/ Conclude(c, Row(c).receipt, WithStatus(receipt[c], "failed"))
        \/ Conclude(c, Row(c).receipt, WithStatus(r, "outcome_unknown"))
        \/ Conclude(c, saved, WithStatus(r, "failed"))
        \/ Proceed(c, pos[c], saved, r)
    BY <1>5 DEF Receive
  <2> HIDE DEF r, saved
  <2> QED BY <1>1, <2>2, <2>4, <2>5, <2>6, ConcludeWrites, ProceedWrites DEF Writes
<1> QED BY <1>2, <1>3, <1>4, <1>5

LEMMA StepKinds ==
  ASSUME IndInv, [Next]_vars
  PROVE  \/ UNCHANGED <<ledger, sent>>
         \/ \E c \in Calls : Writes(c)
         \/ \E c \in Calls : Dispatch(c)
<1>1. ASSUME NEW c \in Calls, BridgeStep(c)
      PROVE  UNCHANGED <<ledger, sent>> \/ Writes(c) \/ Dispatch(c)
  BY <1>1, RunWrites
     DEF BridgeStep, LookupRetained, LookupNothing, ValidateRefuses, Validated,
         BeginRetained, LedgerBusy, ledgerVars
<1>2. ASSUME NEW c \in Calls, Cancel(c)
      PROVE  UNCHANGED <<ledger, sent>> \/ Writes(c)
  <2>1. CASE Running(c) /\ Put(c, CancelledReceipt(c))
    BY <1>2, <2>1, RunningCall, WithStatusType
       DEF IndInv, Cancel, CancelledReceipt, Writes, MayWrite, Statuses
  <2> QED BY <1>2, <2>1 DEF Cancel, Running
<1>3. CASE Environment
  BY <1>2, <1>3 DEF Environment, Crash, Disconnect, Handle, MakeOrRemove, Relink, ledgerVars
<1> QED BY <1>1, <1>3 DEF Next, Invoke, vars, ledgerVars

\* What writing a receipt does to the state that RequestDedup sees.
LEMMA StateAfterWrite ==
  ASSUME IndInv, NEW c \in Calls, MayWrite(c), NEW r \in Receipts, Put(c, r),
         NEW i \in Ids
  PROVE  /\ i # Id(c) => StateOf(i)' = StateOf(i)
         /\ i = Id(c) /\ r.status \in Terminal => StateOf(i)' = r.status
         /\ i = Id(c) /\ r.status \notin Terminal => StateOf(i)' = "open"
<1>1. pc[c] # "new"
  BY DEF MayWrite, Running
<1> DEFINE row == [print |-> Args(c), version |-> 2, owner |-> c, receipt |-> r]
<1>2. /\ i # Id(c) => ledger'[i] = ledger[i]
      /\ i = Id(c) => ledger'[i] # None /\ ledger'[i].receipt = r
  <2>1. /\ i # Id(c) => ledger'[i] = ledger[i]
        /\ i = Id(c) => ledger'[i] # None /\ ledger'[i] = row
    BY <1>1, PutType DEF IndInv
  <2>2. row.receipt = r
    OBVIOUS
  <2> QED BY <2>1, <2>2
<1>3. CASE i # Id(c)
  BY <1>2, <1>3 DEF StateOf
<1>4. CASE i = Id(c) /\ r.status \in Terminal
  BY <1>2, <1>4 DEF StateOf
<1>5. CASE i = Id(c) /\ r.status \notin Terminal
  BY <1>2, <1>5 DEF StateOf
<1> QED BY <1>3, <1>4, <1>5

\* A request_id that a call runs or is about to claim is free or open.
LEMMA StateOfMine ==
  ASSUME IndInv, NEW c \in Calls, MayWrite(c)
  PROVE  /\ Row(c) = None => StateOf(Id(c)) = "free"
         /\ Row(c) # None => StateOf(Id(c)) = "open"
<1>1. Row(c) # None => Row(c).receipt.status \notin Terminal
  BY DEF MayWrite, IndInv, BridgeInv, DedupInv, OwnsItsRow, Terminal
<1> QED BY <1>1 DEF StateOf, Row

Abstract == [i \in Ids |-> StateOf(i)]

LEMMA WritesRefine ==
  ASSUME IndInv, NEW c \in Calls, Writes(c)
  PROVE  Dedup!Next \/ UNCHANGED Dedup!vars
<1> DEFINE i == Id(c)
<1>1. i \in Ids /\ MayWrite(c) /\ UNCHANGED sent
  BY InvokedCall DEF IndInv, Writes, MayWrite, Running
<1>2. PICK r \in Receipts : Put(c, r)
  BY DEF Writes
<1>3. /\ Row(c) = None => StateOf(i) = "free"
      /\ Row(c) # None => StateOf(i) = "open"
  BY <1>1, StateOfMine
<1>4. ASSUME NEW s, s = IF r.status \in Terminal THEN r.status ELSE "open"
      PROVE  Abstract' = [Abstract EXCEPT ![i] = s]
  BY <1>1, <1>2, <1>4, StateAfterWrite DEF Abstract
<1> HIDE DEF i
<1>5. CASE r.status \in Terminal
  <2>1. Abstract' = [Abstract EXCEPT ![i] = r.status]
    BY <1>4, <1>5
  <2>2. Dedup!Settle(i, r.status)
    BY <1>1, <1>3, <2>1 DEF Dedup!Settle, Abstract
  <2> QED BY <1>1, <1>5, <2>2 DEF Dedup!Next
<1>6. CASE r.status \notin Terminal /\ Row(c) = None
  <2>1. Abstract' = [Abstract EXCEPT ![i] = "open"]
    BY <1>4, <1>6
  <2>2. Dedup!Claim(i)
    BY <1>1, <1>3, <1>6, <2>1 DEF Dedup!Claim, Abstract
  <2> QED BY <1>1, <2>2 DEF Dedup!Next
<1>7. CASE r.status \notin Terminal /\ Row(c) # None
  <2>1. Abstract' = Abstract
    BY <1>1, <1>3, <1>4, <1>7 DEF Abstract
  <2> QED BY <1>1, <2>1 DEF Dedup!vars, Abstract
<1> QED BY <1>5, <1>6, <1>7

LEMMA DispatchRefines ==
  ASSUME IndInv, NEW c \in Calls, Dispatch(c)
  PROVE  Dedup!Next
<1>1. Running(c) /\ pc[c] = "ready"
  BY DEF Dispatch, Running
<1>2. /\ Id(c) \in Ids /\ Args(c).op \in Ops
      /\ pos[c] \in 1 .. Len(Script[Args(c).op])
  BY <1>1, InvokedCall, RunningCall DEF IndInv, Running
<1>3. Method(c) \in Methods
  BY <1>2, ScriptLength DEF Dispatch, Method, MethodAt
<1>4. sent[Id(c)][Method(c)] = 0
  BY <1>1, <1>2, <1>3 DEF IndInv, BridgeInv, DedupInv, SentIsBehind, Method
<1>5. StateOf(Id(c)) = "open"
  BY <1>1, StateOfMine DEF MayWrite, Running, IndInv, BridgeInv, DedupInv, OwnsItsRow
<1>6. sent' = [sent EXCEPT ![Id(c)][Method(c)] = 1]
  BY <1>2, <1>3, <1>4 DEF Dispatch, IndInv, BridgeInv, BridgeTypeOK
<1>7. Abstract' = Abstract
  BY DEF Dispatch, Abstract, StateOf
<1>8. Dedup!Send(Id(c), Method(c))
  BY <1>2, <1>4, <1>5, <1>6, <1>7 DEF Dedup!Send, Abstract
<1> QED BY <1>2, <1>3, <1>8 DEF Dedup!Next

\* The bridge processes, together with their ledger, implement request
\* deduplication: a claim, each step at most once while the request is open, and
\* one final outcome.
THEOREM Refinement == Spec => ImplementsDedup
<1>1. Init => Dedup!Init
  <2> SUFFICES ASSUME Init
               PROVE  Dedup!Init
    OBVIOUS
  <2>1. \A i \in Ids : StateOf(i) \in {"free", "open"} \union Terminal
    BY DEF StateOf
  <2> QED BY <2>1 DEF Init, Dedup!Init, Dedup!States
<1>2. IndInv /\ [Next]_vars => [Dedup!Next]_(Dedup!vars)
  <2> SUFFICES ASSUME IndInv, [Next]_vars
               PROVE  Dedup!Next \/ UNCHANGED Dedup!vars
    OBVIOUS
  <2>1. CASE UNCHANGED <<ledger, sent>>
    BY <2>1 DEF Dedup!vars, StateOf
  <2>2. CASE \E c \in Calls : Writes(c)
    BY <2>2, WritesRefine
  <2>3. CASE \E c \in Calls : Dispatch(c)
    BY <2>3, DispatchRefines
  <2> QED BY <2>1, <2>2, <2>3, StepKinds
<1> QED BY <1>1, <1>2, Invariance, PTL DEF Spec, Dedup!Spec, ImplementsDedup

-----------------------------------------------------------------------------
(***************************************************************************)
(* Receipts and answers.  A running call has read the answers to the steps *)
(* behind it, its receipt in memory tells what they said, and its row does *)
(* not hold more.                                                          *)
(***************************************************************************)
Sends(a) == a.op = "send_message_to_thread"

\* The steps before the one at i that were asked for.
Passed(a, mode, i) ==
  {m \in Methods : /\ Wanted(a, mode, m)
                   /\ \E k \in 1 .. Len(Script[a.op]) : k < i /\ MethodAt(a, k) = m}

\* What the server has done, by what it said.
Did(said) == {m \in Effects : said[m] \in Says(m)}

\* How a message is delivered, by what thread/read said.
ModeSaid(said) ==
  IF said["thread/read"] = "active" THEN "active_tool_output" ELSE "idle_tool_output"

\* The thread that a receipt with these results names.
ThreadKnown(c, a, kept) ==
  CASE Sends(a) -> a.thread
    [] a.op \in {"create_thread", "fork_thread"} ->
         IF kept \intersect {"thread/start", "thread/fork"} # {} THEN c ELSE None
    [] OTHER -> IF kept # {} THEN a.thread ELSE None

\* What the receipt of call c is when it stands before the step at i.
Story(c, a, said, i, r) ==
  /\ \A m \in Passed(a, r.mode, i) : said[m] \in Says(m) /\ ~Refused(a.op, m, said[m])
  /\ r.kept = Passed(a, r.mode, i) \intersect Effects
  /\ r.mode = IF Sends(a) /\ i > 1 THEN ModeSaid(said) ELSE None
  /\ r.thread = ThreadKnown(c, a, r.kept)

\* Receipt r holds results the server gave, and the thread they are about.
Truthful(c, a, said, r) ==
  /\ r.kept \subseteq Did(said)
  /\ r.thread \in {None, c, a.thread}
  /\ r.thread = c <=> r.kept \intersect {"thread/start", "thread/fork"} # {}

\* Receipt s holds all that r does.
Grows(r, s) ==
  r.kept \subseteq s.kept /\ r.thread \in {None, s.thread} /\ r.mode \in {None, s.mode}

\* What the row has of receipt r of a call before the step at i.
Retained(c, a, said, i, r, row) ==
  /\ Truthful(c, a, said, row) /\ Grows(row, r)
  /\ \A m \in Passed(a, r.mode, i) \intersect Effects :
       Checkpoint(a, r.mode, m) => m \in row.kept
  /\ Sends(a) => row.thread = a.thread /\ (i > 1 => row.mode = r.mode)

\* An answer that performs a request is neither a rejection nor missing.
LEMMA SaysAre ==
  /\ \A m \in Methods : Says(m) \subseteq Answers
  /\ \A m \in Methods : "rejected" \notin Says(m) /\ None \notin Says(m)
  /\ None # "rejected"
<1>1. \A m \in Methods : Says(m) \subseteq Answers
  BY DEF Answers
<1>2. \A m \in Methods : "rejected" \notin Says(m)
  BY DEF Says
<1>3. "rejected" \in Answers
  BY DEF Answers
<1> QED BY <1>1, <1>2, <1>3, ConstantsAssumption DEF ConstantsAssumption

\* Only the way a message is delivered depends on the mode.
LEMMA ModeMatters ==
  ASSUME NEW a, NEW x, NEW y, NEW m, m # "thread/resume"
  PROVE  Wanted(a, x, m) = Wanted(a, y, m)
BY DEF Wanted

\* A message is sent after the thread has been read.
LEMMA ReadIsFirst ==
  ASSUME NEW a \in Arguments, Sends(a), NEW k \in 1 .. Len(Script[a.op]),
         MethodAt(a, k) = "thread/read"
  PROVE  k = 1
BY ScriptOf DEF Sends, MethodAt

\* A step of the script that was wanted is passed next.
LEMMA PassedStep ==
  ASSUME NEW a \in Arguments, NEW i \in 1 .. Len(Script[a.op]), NEW x, NEW y,
         x = y \/ (Sends(a) /\ i = 1),
         NEW j \in Positions, StepAfter(a, y, i, j), Wanted(a, x, MethodAt(a, i))
  PROVE  Passed(a, y, j) = Passed(a, x, i) \union ({MethodAt(a, i)} \intersect Methods)
<1> DEFINE n == Len(Script[a.op])
<1>1. a.op \in Ops /\ n \in {1, 3, 4}
  BY ArgumentsOp, ScriptLength
<1>2. \A k \in 1 .. n : k < j => k < i \/ k = i \/ ~Wanted(a, y, MethodAt(a, k))
  BY <1>1 DEF StepAfter, Positions
<1>3. i < j
  BY DEF StepAfter
<1>4. Wanted(a, y, MethodAt(a, i)) /\ (x = y \/ i = 1)
  <2>1. CASE x = y
    BY <2>1
  <2>2. CASE Sends(a) /\ i = 1
    <3>1. MethodAt(a, i) # "thread/resume"
      BY <2>2, ScriptOf DEF Sends, MethodAt
    <3> QED BY <2>2, <3>1, ModeMatters
  <2> QED BY <2>1, <2>2
<1>5. \A m \in Methods : m \in Passed(a, y, j) <=> m \in Passed(a, x, i) \/ m = MethodAt(a, i)
  <2> SUFFICES ASSUME NEW m \in Methods
               PROVE  m \in Passed(a, y, j) <=> m \in Passed(a, x, i) \/ m = MethodAt(a, i)
    OBVIOUS
  <2>1. ASSUME m \in Passed(a, y, j)
        PROVE  m \in Passed(a, x, i) \/ m = MethodAt(a, i)
    <3>1. PICK k \in 1 .. n : k < j /\ MethodAt(a, k) = m /\ Wanted(a, y, m)
      BY <2>1 DEF Passed
    <3>2. k < i \/ k = i
      BY <1>2, <3>1
    <3>3. CASE k < i
      BY <1>1, <1>4, <3>1, <3>3 DEF Passed
    <3> QED BY <3>1, <3>2, <3>3
  <2>2. ASSUME m \in Passed(a, x, i)
        PROVE  m \in Passed(a, y, j)
    <3>1. PICK k \in 1 .. n : k < i /\ MethodAt(a, k) = m /\ Wanted(a, x, m)
      BY <2>2 DEF Passed
    <3>2. x = y /\ k < j
      BY <1>1, <1>3, <1>4, <3>1 DEF Positions
    <3> QED BY <3>1, <3>2 DEF Passed
  <2>3. ASSUME m = MethodAt(a, i)
        PROVE  m \in Passed(a, y, j)
    BY <1>3, <1>4, <2>3 DEF Passed
  <2> QED BY <2>1, <2>2, <2>3
<1> QED BY <1>5 DEF Passed

\* The thread that a receipt names is the one its kept results are about.
LEMMA NotedThread ==
  ASSUME NEW c \in Calls, NEW a \in Arguments, NEW i \in 1 .. Len(Script[a.op]),
         NEW r \in Receipts, r.thread = ThreadKnown(c, a, r.kept),
         NEW kept, kept = IF MethodAt(a, i) \in Effects
                          THEN r.kept \union {MethodAt(a, i)} ELSE r.kept
  PROVE  ThreadAfter(c, a, r, MethodAt(a, i)) = ThreadKnown(c, a, kept)
<1> DEFINE m == MethodAt(a, i)
<1>1. m = Script[a.op][i]
  BY DEF MethodAt
<1> HIDE DEF m
<1>2. kept = IF m \in Effects THEN r.kept \union {m} ELSE r.kept
  BY DEF m
<1>3. CASE a.op = "create_thread"
  <2>1. m \in {"project/read", "thread/start", "thread/name/set", "turn/start"}
    BY <1>1, <1>3, ScriptOf
  <2>2. ThreadAfter(c, a, r, m) = IF m = "thread/start" THEN c ELSE r.thread
    BY <1>3, <2>1 DEF ThreadAfter
  <2> QED BY <1>2, <1>3, <2>1, <2>2 DEF ThreadKnown, Sends, Effects, m
<1>4. CASE a.op = "send_message_to_thread"
  <2>1. m \in {"thread/read", "thread/resume", "turn/start", "close"}
    BY <1>1, <1>4, ScriptOf
  <2>2. ThreadAfter(c, a, r, m) = r.thread
    BY <1>4, <2>1 DEF ThreadAfter
  <2> QED BY <1>4, <2>2 DEF ThreadKnown, Sends, m
<1>5. CASE a.op = "fork_thread"
  <2>1. m \in {"thread/read", "thread/goal/get", "thread/fork", "close"}
    BY <1>1, <1>5, ScriptOf
  <2>2. ThreadAfter(c, a, r, m) = IF m = "thread/fork" THEN c ELSE r.thread
    BY <1>5, <2>1 DEF ThreadAfter
  <2> QED BY <1>2, <1>5, <2>1, <2>2 DEF ThreadKnown, Sends, Effects, m
<1>6. CASE a.op = "set_thread_title"
  <2>1. m = "thread/name/set"
    BY <1>1, <1>6, ScriptOf
  <2>2. ThreadAfter(c, a, r, m) = a.thread
    BY <1>6, <2>1 DEF ThreadAfter
  <2> QED BY <1>2, <1>6, <2>1, <2>2 DEF ThreadKnown, Sends, Effects, m
<1>7. CASE a.op = "set_thread_archived"
  <2>1. m \in {"thread/read", "thread/archive", "thread/unarchive"}
    BY <1>1, <1>7, ScriptOf
  <2>2. ThreadAfter(c, a, r, m) = IF m = "thread/read" THEN r.thread ELSE a.thread
    BY <1>7, <2>1 DEF ThreadAfter
  <2> QED BY <1>2, <1>7, <2>1, <2>2 DEF ThreadKnown, Sends, Effects, m
<1> QED BY <1>3, <1>4, <1>5, <1>6, <1>7, ArgumentsOp, OpsAre

\* A receipt with results of the call's own steps only is truthful.
LEMMA KnownIsTruthful ==
  ASSUME NEW c \in Calls, NEW a \in Arguments, NEW said, NEW r,
         r.kept \subseteq Did(said), r.thread = ThreadKnown(c, a, r.kept),
         \A m \in r.kept : \E k \in 1 .. Len(Script[a.op]) : MethodAt(a, k) = m
  PROVE  Truthful(c, a, said, r)
<1>1. c # None
  BY ConstantsAssumption DEF ConstantsAssumption
<1>2. CASE a.op \in {"create_thread", "fork_thread"}
  BY <1>1, <1>2 DEF Truthful, ThreadKnown, Sends
<1>3. CASE a.op \notin {"create_thread", "fork_thread"}
  <2>1. a.thread # c
    BY <1>1, ConstantsAssumption DEF ConstantsAssumption, Arguments
  <2>2. r.thread \in {None, a.thread}
    BY <1>3 DEF ThreadKnown
  <2>3. \A k \in 1 .. Len(Script[a.op]) : MethodAt(a, k) \notin {"thread/start", "thread/fork"}
    BY <1>3, ArgumentsOp, OpsAre, ScriptOf DEF MethodAt
  <2> QED BY <1>1, <2>1, <2>2, <2>3 DEF Truthful
<1> QED BY <1>2, <1>3

\* What a running call has noted is true.
LEMMA StoryIsTruthful ==
  ASSUME NEW c \in Calls, NEW a \in Arguments, NEW said, NEW i, NEW r,
         Story(c, a, said, i, r)
  PROVE  Truthful(c, a, said, r)
<1>1. r.kept \subseteq Did(said)
  BY DEF Story, Did
<1>2. \A m \in r.kept : \E k \in 1 .. Len(Script[a.op]) : MethodAt(a, k) = m
  BY DEF Story, Passed
<1> QED BY <1>1, <1>2, KnownIsTruthful DEF Story

\* What the answer to a step of the script adds to the receipt.
LEMMA NotedTells ==
  ASSUME NEW c \in Calls, NEW a \in Arguments, NEW said, NEW i \in 1 .. Len(Script[a.op]),
         NEW r \in Receipts, Story(c, a, said, i, r),
         MethodAt(a, i) \in Methods, said[MethodAt(a, i)] \in Says(MethodAt(a, i)),
         NEW n, n = Noted(c, a, r, MethodAt(a, i), said[MethodAt(a, i)])
  PROVE  /\ n.mode = IF Sends(a) THEN ModeSaid(said) ELSE None
         /\ n.mode = r.mode \/ (Sends(a) /\ i = 1 /\ r.mode = None)
         /\ n.thread = ThreadKnown(c, a, n.kept)
         /\ n.kept = r.kept \union ({MethodAt(a, i)} \intersect Effects)
         /\ Truthful(c, a, said, n) /\ Grows(r, n)
<1> DEFINE m == MethodAt(a, i)
<1>1. /\ n.thread = ThreadAfter(c, a, r, m)
      /\ n.mode = ModeAfter(a, r, m, said[m])
      /\ n.kept = IF m \in Effects THEN r.kept \union {m} ELSE r.kept
  BY DEF Noted, Receipts
<1>2. n.kept = r.kept \union ({m} \intersect Effects)
  BY <1>1
<1>3. r.thread = ThreadKnown(c, a, r.kept) /\ r.kept \subseteq Did(said)
  BY DEF Story, Did
<1>4. n.thread = ThreadKnown(c, a, n.kept)
  BY <1>1, <1>3, NotedThread
<1>5. r.mode = IF Sends(a) /\ i > 1 THEN ModeSaid(said) ELSE None
  BY DEF Story
<1>6. /\ n.mode = IF Sends(a) THEN ModeSaid(said) ELSE None
      /\ n.mode = r.mode \/ (Sends(a) /\ i = 1 /\ r.mode = None)
  <2>1. CASE ~Sends(a)
    BY <1>1, <1>5, <2>1 DEF ModeAfter, Sends
  <2>2. CASE Sends(a) /\ i = 1
    <3>1. m = "thread/read"
      BY <2>2, ScriptOf DEF Sends, MethodAt
    <3> QED BY <1>1, <1>5, <2>2, <3>1 DEF ModeAfter, ModeSaid, Sends
  <2>3. CASE Sends(a) /\ i # 1
    <3>1. m # "thread/read" /\ i > 1
      BY <2>3, ReadIsFirst, ArgumentsOp, ScriptLength
    <3> QED BY <1>1, <1>5, <2>3, <3>1 DEF ModeAfter
  <2> QED BY <2>1, <2>2, <2>3
<1>7. n.kept \subseteq Did(said)
  BY <1>2, <1>3 DEF Did
<1>8. \A x \in n.kept : \E k \in 1 .. Len(Script[a.op]) : MethodAt(a, k) = x
  <2>1. \A x \in r.kept : \E k \in 1 .. Len(Script[a.op]) : MethodAt(a, k) = x
    BY DEF Story, Passed
  <2> QED BY <1>2, <2>1
<1>9. Truthful(c, a, said, n)
  BY <1>4, <1>7, <1>8, KnownIsTruthful
<1>10. r.thread \in {None, n.thread}
  BY <1>2, <1>3, <1>4 DEF ThreadKnown
<1> HIDE DEF m
<1>11. Grows(r, n)
  BY <1>2, <1>6, <1>10 DEF Grows
<1> QED BY <1>2, <1>4, <1>6, <1>9, <1>11 DEF m

\* After an answer that lets the call go on, the story goes on.
LEMMA StoryStep ==
  ASSUME NEW c \in Calls, NEW a \in Arguments, NEW said, NEW i \in 1 .. Len(Script[a.op]),
         NEW r \in Receipts, Story(c, a, said, i, r), Wanted(a, r.mode, MethodAt(a, i)),
         MethodAt(a, i) \in Methods, said[MethodAt(a, i)] \in Says(MethodAt(a, i)),
         ~Refused(a.op, MethodAt(a, i), said[MethodAt(a, i)]),
         NEW n, n = Noted(c, a, r, MethodAt(a, i), said[MethodAt(a, i)]),
         NEW j \in Positions, StepAfter(a, n.mode, i, j)
  PROVE  Story(c, a, said, j, n)
<1>1. /\ n.mode = IF Sends(a) THEN ModeSaid(said) ELSE None
      /\ n.mode = r.mode \/ (Sends(a) /\ i = 1)
      /\ n.thread = ThreadKnown(c, a, n.kept)
      /\ n.kept = r.kept \union ({MethodAt(a, i)} \intersect Effects)
  BY NotedTells
<1>2. Passed(a, n.mode, j) = Passed(a, r.mode, i) \union {MethodAt(a, i)}
  <2>1. Passed(a, n.mode, j) = Passed(a, r.mode, i) \union ({MethodAt(a, i)} \intersect Methods)
    BY <1>1, PassedStep
  <2> QED BY <2>1
<1>3. j > 1
  BY ArgumentsOp, ScriptLength DEF StepAfter, Positions
<1>4. \A m \in Passed(a, n.mode, j) : said[m] \in Says(m) /\ ~Refused(a.op, m, said[m])
  BY <1>2 DEF Story
<1>5. n.kept = Passed(a, n.mode, j) \intersect Effects
  BY <1>1, <1>2 DEF Story
<1> QED BY <1>1, <1>2, <1>3, <1>4, <1>5 DEF Story

\* close is the last step, and says nothing.
LEMMA StoryClose ==
  ASSUME NEW c \in Calls, NEW a \in Arguments, NEW said, NEW i \in 1 .. Len(Script[a.op]),
         NEW r, Story(c, a, said, i, r), Wanted(a, r.mode, MethodAt(a, i)),
         MethodAt(a, i) = "close", NEW j \in Positions, StepAfter(a, r.mode, i, j)
  PROVE  /\ Story(c, a, said, j, r) /\ Finished(a, j)
         /\ Passed(a, r.mode, j) = Passed(a, r.mode, i)
<1>1. MethodAt(a, i) \notin Methods
  BY DEF Methods, Effects, Inquiries
<1>2. Passed(a, r.mode, j) = Passed(a, r.mode, i)
  <2>1. Passed(a, r.mode, j) = Passed(a, r.mode, i) \union ({MethodAt(a, i)} \intersect Methods)
    BY PassedStep
  <2> QED BY <1>1, <2>1
<1>3. i = 4 /\ Len(Script[a.op]) = 4
  <2>1. Script[a.op][i] = "close" /\ a.op \in Ops
    BY ArgumentsOp DEF MethodAt
  <2>2. CASE a.op = "create_thread"
    BY <2>1, <2>2, ScriptOf
  <2>3. CASE a.op = "send_message_to_thread"
    BY <2>1, <2>3, ScriptOf
  <2>4. CASE a.op = "fork_thread"
    BY <2>1, <2>4, ScriptOf
  <2>5. CASE a.op = "set_thread_title"
    BY <2>1, <2>5, ScriptOf
  <2>6. CASE a.op = "set_thread_archived"
    BY <2>1, <2>6, ScriptOf
  <2> QED BY <2>1, <2>2, <2>3, <2>4, <2>5, <2>6, OpsAre
<1>4. j = 5
  BY <1>3 DEF StepAfter, Positions
<1>5. Finished(a, j) /\ i > 1 /\ j > 1
  BY <1>3, <1>4 DEF Finished
<1> QED BY <1>2, <1>5 DEF Story

\* Before its first request a call has nothing to tell but its thread.
LEMMA StoryBegins ==
  ASSUME NEW c \in Calls, NEW a \in Arguments, NEW said,
         NEW j \in Positions, StepAfter(a, None, 0, j)
  PROVE  Story(c, a, said, j, FirstReceipt(a)) /\ Passed(a, None, j) = {}
<1>1. \A k \in Positions : k < j => ~Wanted(a, None, MethodAt(a, k))
  BY DEF StepAfter, Positions
<1>2. Passed(a, None, j) = {}
  <2>1. Len(Script[a.op]) \in {1, 3, 4}
    BY ArgumentsOp, ScriptLength
  <2> QED BY <1>1, <2>1 DEF Passed, Positions
<1>3. Sends(a) => j = 1
  <2> SUFFICES ASSUME Sends(a), j # 1
               PROVE  FALSE
    OBVIOUS
  <2>1. MethodAt(a, 1) = "thread/read"
    BY ScriptOf DEF Sends, MethodAt
  <2>2. Wanted(a, None, "thread/read")
    BY DEF Wanted, Sends
  <2> QED BY <1>1, <2>1, <2>2 DEF Positions
<1>4. /\ FirstReceipt(a).mode = None /\ FirstReceipt(a).kept = {}
      /\ FirstReceipt(a).thread = ThreadKnown(c, a, {})
  BY DEF FirstReceipt, FreshReceipt, ThreadKnown, Sends
<1> QED BY <1>2, <1>3, <1>4 DEF Story

\* What the arguments ask for, given what the thread was found to be.
Due(a, said) ==
  CASE a.op = "create_thread" ->
         {"thread/start"}
           \union {m \in {"thread/name/set"} : a.title # None}
           \union {m \in {"turn/start"} : a.text # None}
    [] a.op = "send_message_to_thread" ->
         {"turn/start"} \union {m \in {"thread/resume"} : said["thread/read"] # "active"}
    [] a.op = "fork_thread" -> {"thread/fork"}
    [] a.op = "set_thread_title" -> {"thread/name/set"}
    [] a.op = "set_thread_archived" ->
         {IF a.archived THEN "thread/archive" ELSE "thread/unarchive"}

\* A method of the script is passed when the script ends, if it is wanted.
LEMMA PassedAtEnd ==
  ASSUME NEW a \in Arguments, NEW mode, NEW m \in Methods
  PROVE  m \in Passed(a, mode, Len(Script[a.op]) + 1) <=>
           Wanted(a, mode, m) /\ \E k \in 1 .. Len(Script[a.op]) : Script[a.op][k] = m
<1>1. Len(Script[a.op]) \in {1, 3, 4}
  BY ArgumentsOp, ScriptLength
<1> QED BY <1>1 DEF Passed, MethodAt

\* The effects that are passed at the end are the ones asked for.
LEMMA DueAtEnd ==
  ASSUME NEW a \in Arguments, NEW said, NEW mode,
         mode = IF Sends(a) THEN ModeSaid(said) ELSE None
  PROVE  Passed(a, mode, Len(Script[a.op]) + 1) \intersect Effects = Due(a, said)
<1> DEFINE all == {Script[a.op][k] : k \in 1 .. Len(Script[a.op])}
           passed == Passed(a, mode, Len(Script[a.op]) + 1)
<1>1. passed \intersect Effects = {m \in all \intersect Effects : Wanted(a, mode, m)}
  BY PassedAtEnd DEF Passed, Methods, MethodAt
<1> HIDE DEF passed
<1>2. CASE a.op = "create_thread"
  <2>1. all = {"project/read", "thread/start", "thread/name/set", "turn/start"}
    BY <1>2, ScriptOf
  <2>2. all \intersect Effects = {"thread/start", "thread/name/set", "turn/start"}
    BY <2>1 DEF Effects
  <2>3. /\ Wanted(a, mode, "thread/start")
        /\ Wanted(a, mode, "thread/name/set") <=> a.title # None
        /\ Wanted(a, mode, "turn/start") <=> a.text # None
    BY DEF Wanted
  <2>4. Due(a, said) = {"thread/start"} \union {m \in {"thread/name/set"} : a.title # None}
                         \union {m \in {"turn/start"} : a.text # None}
    BY <1>2 DEF Due
  <2> HIDE DEF all
  <2> QED BY <1>1, <2>2, <2>3, <2>4 DEF passed
<1>3. CASE a.op = "send_message_to_thread"
  <2>1. all = {"thread/read", "thread/resume", "turn/start", "close"}
    BY <1>3, ScriptOf
  <2>2. all \intersect Effects = {"thread/resume", "turn/start"}
    BY <2>1 DEF Effects
  <2>3. a.text # None
    BY <1>3 DEF Arguments
  <2>4. /\ Wanted(a, mode, "turn/start")
        /\ Wanted(a, mode, "thread/resume") <=> said["thread/read"] # "active"
    BY <1>3, <2>3 DEF Wanted, Resumes, ModeSaid, Sends
  <2>5. Due(a, said) =
          {"turn/start"} \union {m \in {"thread/resume"} : said["thread/read"] # "active"}
    BY <1>3 DEF Due
  <2> HIDE DEF all
  <2> QED BY <1>1, <2>2, <2>4, <2>5 DEF passed
<1>4. CASE a.op = "fork_thread"
  <2>1. all = {"thread/read", "thread/goal/get", "thread/fork", "close"}
    BY <1>4, ScriptOf
  <2>2. all \intersect Effects = {"thread/fork"}
    BY <2>1 DEF Effects
  <2>3. Wanted(a, mode, "thread/fork") /\ Due(a, said) = {"thread/fork"}
    BY <1>4 DEF Wanted, Due
  <2> HIDE DEF all
  <2> QED BY <1>1, <2>2, <2>3 DEF passed
<1>5. CASE a.op = "set_thread_title"
  <2>1. all = {"thread/name/set"}
    BY <1>5, ScriptOf
  <2>2. all \intersect Effects = {"thread/name/set"} /\ a.title # None
    BY <1>5, <2>1 DEF Effects, Arguments
  <2>3. Wanted(a, mode, "thread/name/set") /\ Due(a, said) = {"thread/name/set"}
    BY <1>5, <2>2 DEF Wanted, Due
  <2> HIDE DEF all
  <2> QED BY <1>1, <2>2, <2>3 DEF passed
<1>6. CASE a.op = "set_thread_archived"
  <2>1. all = {"thread/read", "thread/archive", "thread/unarchive"}
    BY <1>6, ScriptOf
  <2>2. all \intersect Effects = {"thread/archive", "thread/unarchive"}
    BY <2>1 DEF Effects
  <2>3. /\ Wanted(a, mode, "thread/archive") <=> a.archived
        /\ Wanted(a, mode, "thread/unarchive") <=> ~a.archived
    BY DEF Wanted
  <2>4. Due(a, said) = {IF a.archived THEN "thread/archive" ELSE "thread/unarchive"}
    BY <1>6 DEF Due
  <2>5. a.archived \in BOOLEAN
    BY DEF Arguments
  <2> HIDE DEF all
  <2> QED BY <1>1, <2>2, <2>3, <2>4, <2>5 DEF passed
<1> QED BY <1>2, <1>3, <1>4, <1>5, <1>6, ArgumentsOp, OpsAre DEF passed

\* At its end the story tells all that was done, and that it is what was asked for.
LEMMA StoryEnds ==
  ASSUME NEW c \in Calls, NEW a \in Arguments, NEW said, NEW r, NEW j \in Positions,
         Finished(a, j),
         Story(c, a, said, j, r),
         \A m \in Methods : said[m] # None => m \in Passed(a, r.mode, j)
  PROVE  r.kept = Did(said) /\ Did(said) = Due(a, said)
<1>1. j = Len(Script[a.op]) + 1 /\ j > 1
  <2>1. Len(Script[a.op]) \in {1, 3, 4}
    BY ArgumentsOp, ScriptLength
  <2>2. PICK n \in {1, 3, 4} : Len(Script[a.op]) = n
    BY <2>1
  <2>3. j = Len(Script[a.op]) + 1
    BY DEF Finished
  <2>4. j = n + 1
    BY <2>2, <2>3
  <2> QED BY <2>3, <2>4
<1>2. r.mode = IF Sends(a) THEN ModeSaid(said) ELSE None
  BY <1>1 DEF Story
<1>3. r.kept = Due(a, said)
  BY <1>1, <1>2, DueAtEnd DEF Story
<1>4. Did(said) = Passed(a, r.mode, j) \intersect Effects
  <2>1. \A m \in Effects : said[m] \in Says(m) => m \in Passed(a, r.mode, j)
    BY SaysAre DEF Methods
  <2> QED BY <2>1 DEF Did, Story
<1> QED BY <1>3, <1>4 DEF Story

-----------------------------------------------------------------------------
(* The invariants of the history and of the running calls. *)

\* Where a call stands before its action.
Early == {"new", "waiting", "validate", "begin"}

\* Nothing of call c is with the server.
Quiet(c) == \A q \in inbox : q.call # c

\* A method is asked once for a call, is answered once, and an answer on its way
\* is the one that was given.
AnswersInv ==
  /\ \A q \in inbox : answers[q.call][q.method] = None
  /\ \A p, q \in inbox : p.call = q.call /\ p.method = q.method => p = q
  /\ \A a \in replies : answers[a.call][a.method] = a.says
  /\ \A c \in Calls, m \in Methods :
       answers[c][m] # None => answers[c][m] \in {"rejected"} \union Says(m)

\* Only for a call whose action has begun, and once it was sent, is a method asked.
AskedInv ==
  \A c \in Calls, m \in Methods :
    Asked(c, m) => pc[c] \notin Early /\ sent[Id(c)][m] # 0

HistoryInv == AnswersInv /\ AskedInv

\* What is true of each running call, its answers, its receipt and its row.
StoryInv ==
  \A c \in Calls :
    Running(c) =>
      /\ Row(c).print = Args(c) /\ Row(c).version = 2
      /\ Story(c, Args(c), answers[c], pos[c], receipt[c])
      /\ Wanted(Args(c), receipt[c].mode, Method(c))
      /\ \A m \in Methods :
           Asked(c, m) => \/ m \in Passed(Args(c), receipt[c].mode, pos[c])
                          \/ pc[c] = "sent" /\ m = Method(c)
      /\ Retained(c, Args(c), answers[c], pos[c], receipt[c], Row(c).receipt)

\* What is said of call c by a receipt r that its row may have.
Stands(c, r) ==
  /\ Truthful(c, Args(c), answers[c], r)
  /\ r.status \in {"accepted", "failed"} => r.kept = Did(answers[c]) /\ Quiet(c)
  /\ r.status = "accepted" => Did(answers[c]) = Due(Args(c), answers[c])

\* Call c may write receipt r: it stands, and forgets nothing of the row.
Fit(c, r) == Stands(c, r) /\ (Row(c) # None => Grows(Row(c).receipt, r))

\* Call c goes on to the step at j with receipt r and has written row.
GoesOn(c, row, j, r) ==
  /\ j \in 1 .. Len(Script[Args(c).op])
  /\ Story(c, Args(c), answers[c], j, r)
  /\ Wanted(Args(c), r.mode, MethodAt(Args(c), j))
  /\ \A m \in Methods : Asked(c, m) => m \in Passed(Args(c), r.mode, j)
  /\ Retained(c, Args(c), answers[c], j, r, row)

\* What the server has been asked is as it was, but for connections that ended.
AsksNothing ==
  /\ answers' = answers
  /\ \A d \in Calls, m \in Methods : Asked(d, m)' <=> Asked(d, m)
  /\ \A d \in Calls : Quiet(d)' <=> Quiet(d)

\* Call c writes receipt r and goes on, is told of it, fails or dies.
WritesReceipt(c, r) ==
  /\ MayWrite(c) /\ Put(c, r) /\ Fit(c, r)
  /\ UNCHANGED <<req, sent>> /\ AsksNothing
  /\ \A d \in Calls \ {c} : /\ pc'[d] = pc[d] /\ pos'[d] = pos[d]
                            /\ receipt'[d] = receipt[d] /\ result'[d] = result[d]
  /\ \/ pc'[c] = "ready" /\ result'[c] = result[c] /\ GoesOn(c, r, pos'[c], receipt'[c])
     \/ pc'[c] = "done" /\ result'[c] = Told("receipt", r) /\ r.status \in Terminal
     \/ pc'[c] = "done" /\ result'[c] = Told("error", None)
     \/ pc'[c] = "dead" /\ result'[c] = result[c]

\* Call c is told of the row it finds, or that its arguments are not valid, or fails.
AnswersFound(c) ==
  \/ result'[c] = Told("error", None)
  \/ pc[c] = "validate" /\ result'[c] = Told("refused", None)
  \/ /\ Row(c) # None
     /\ result'[c] = IF Matches(Row(c), Args(c)) THEN Told("replayed", Row(c).receipt)
                                                 ELSE Told("refused", None)

\* The server may be asked by a running call, or answer.
GoesOnAsking ==
  /\ \A i \in Ids, m \in Methods : sent[i][m] # 0 => sent'[i][m] # 0
  /\ \A d \in Calls, m \in Methods :
       /\ answers[d][m] # None => answers'[d][m] = answers[d][m]
       /\ Asked(d, m)' => \/ Asked(d, m)
                          \/ /\ Running(d) /\ pc'[d] = "sent" /\ pos'[d] = pos[d]
                             /\ m = Method(d) /\ sent'[Id(d)][m] # 0
  /\ \A d \in Calls : Quiet(d) /\ ~Running(d) => Quiet(d)' /\ answers'[d] = answers[d]

\* No row is written, and calls go on as they were, stop or are answered.
WritesNothing ==
  /\ UNCHANGED ledger /\ GoesOnAsking
  /\ \A d \in Calls :
       /\ pc[d] # "new" => pc'[d] # "new" /\ req'[d] = req[d]
       /\ pc[d] \notin Early => pc'[d] \notin Early
       /\ Running(d)' => /\ Running(d) /\ receipt'[d] = receipt[d] /\ pos'[d] = pos[d]
                         /\ pc[d] = "sent" => pc'[d] = "sent"
       /\ \/ result'[d] = result[d] /\ (pc'[d] = "done" <=> pc[d] = "done")
          \/ /\ pc[d] \in {"waiting", "validate", "begin"} /\ pc'[d] = "done"
             /\ AnswersFound(d)

\* The row of a running call may be written again.
LEMMA RowFit ==
  ASSUME IndInv, StoryInv, NEW c \in Calls, Running(c)
  PROVE  Fit(c, Row(c).receipt)
<1>1. Row(c).receipt.status = "in_progress_or_unknown"
  BY RunningCall DEF IndInv
<1>2. Truthful(c, Args(c), answers[c], Row(c).receipt)
  BY DEF StoryInv, Retained
<1>3. Grows(Row(c).receipt, Row(c).receipt)
  BY DEF Grows
<1> QED BY <1>1, <1>2, <1>3 DEF Fit, Stands

\* A status says nothing of the rest of a receipt.
LEMMA WithStatusSame ==
  ASSUME NEW r \in Receipts, NEW s \in Statuses
  PROVE  /\ WithStatus(r, s) \in Receipts
         /\ WithStatus(r, s).status = s
         /\ WithStatus(r, s).kept = r.kept /\ WithStatus(r, s).thread = r.thread
         /\ WithStatus(r, s).mode = r.mode
BY DEF WithStatus, Receipts

\* Growth is transitive.
LEMMA GrowsFurther ==
  ASSUME NEW q, NEW r, NEW s, Grows(q, r), Grows(r, s)
  PROVE  Grows(q, s)
BY DEF Grows

\* A receipt with the outcome left open is fit when it is truthful.
LEMMA UnknownFit ==
  ASSUME NEW c \in Calls, NEW r \in Receipts, Truthful(c, Args(c), answers[c], r),
         Row(c) # None => Grows(Row(c).receipt, r)
  PROVE  /\ WithStatus(r, "outcome_unknown") \in Receipts
         /\ WithStatus(r, "outcome_unknown").status \in Terminal
         /\ Fit(c, WithStatus(r, "outcome_unknown"))
<1>1. "outcome_unknown" \in Statuses /\ "outcome_unknown" \in Terminal
  BY DEF Statuses, Terminal
<1> QED BY <1>1, WithStatusSame DEF Fit, Stands, Truthful, Grows

\* A failed receipt has all effects there were, and none is to come.
LEMMA FailedFit ==
  ASSUME NEW c \in Calls, NEW r \in Receipts, Truthful(c, Args(c), answers[c], r),
         Row(c) # None => Grows(Row(c).receipt, r), r.kept = Did(answers[c]), Quiet(c)
  PROVE  /\ WithStatus(r, "failed") \in Receipts
         /\ WithStatus(r, "failed").status \in Terminal
         /\ Fit(c, WithStatus(r, "failed"))
<1>1. "failed" \in Statuses /\ "failed" \in Terminal
  BY DEF Statuses, Terminal
<1> QED BY <1>1, WithStatusSame DEF Fit, Stands, Truthful, Grows

\* An accepted receipt has all effects that were asked for.
LEMMA AcceptedFit ==
  ASSUME NEW c \in Calls, NEW r \in Receipts, Truthful(c, Args(c), answers[c], r),
         Row(c) # None => Grows(Row(c).receipt, r), r.kept = Did(answers[c]), Quiet(c),
         Did(answers[c]) = Due(Args(c), answers[c])
  PROVE  /\ WithStatus(r, "accepted") \in Receipts
         /\ WithStatus(r, "accepted").status \in Terminal
         /\ Fit(c, WithStatus(r, "accepted"))
<1>1. "accepted" \in Statuses /\ "accepted" \in Terminal
  BY DEF Statuses, Terminal
<1> QED BY <1>1, WithStatusSame DEF Fit, Stands, Truthful, Grows

\* A call that leaves _mutate with receipt r, or fails to save it.
LEMMA ConcludeWritesReceipt ==
  ASSUME IndInv, NEW c \in Calls, MayWrite(c), NEW last \in Receipts, NEW r \in Receipts,
         Fit(c, last), Fit(c, r), r.status \in Terminal,
         Conclude(c, last, r), UNCHANGED <<req, sent>>, AsksNothing
  PROVE  \E x \in Receipts : WritesReceipt(c, x)
<1>1. /\ pc' = [pc EXCEPT ![c] = "done"] /\ UNCHANGED <<pos, receipt>>
      /\ \/ Put(c, r) /\ result' = [result EXCEPT ![c] = Told("receipt", r)]
         \/ Put(c, last) /\ result' = [result EXCEPT ![c] = Told("error", None)]
  BY DEF Conclude, Leave, AnswerError
<1>2. \A d \in Calls \ {c} : /\ pc'[d] = pc[d] /\ pos'[d] = pos[d]
                             /\ receipt'[d] = receipt[d] /\ result'[d] = result[d]
  BY <1>1 DEF IndInv, BridgeInv, BridgeTypeOK
<1>3. pc'[c] = "done"
  BY <1>1 DEF IndInv, BridgeInv, BridgeTypeOK
<1>4. CASE Put(c, r) /\ result' = [result EXCEPT ![c] = Told("receipt", r)]
  <2>1. result'[c] = Told("receipt", r)
    BY <1>4 DEF IndInv, BridgeInv, BridgeTypeOK
  <2> QED BY <1>2, <1>3, <1>4, <2>1 DEF WritesReceipt
<1>5. CASE Put(c, last) /\ result' = [result EXCEPT ![c] = Told("error", None)]
  <2>1. result'[c] = Told("error", None)
    BY <1>5 DEF IndInv, BridgeInv, BridgeTypeOK
  <2> QED BY <1>2, <1>3, <1>5, <2>1 DEF WritesReceipt
<1> QED BY <1>1, <1>4, <1>5

\* A call whose story has come to the step at j with receipt r.
LEMMA ProceedWritesReceipt ==
  ASSUME IndInv, HistoryInv, NEW c \in Calls, MayWrite(c), NEW i,
         NEW saved \in Receipts, NEW r \in Receipts,
         Fit(c, saved), Row(c) # None => Grows(Row(c).receipt, r), Quiet(c),
         \A j \in Positions :
           StepAfter(Args(c), r.mode, i, j) =>
             /\ Story(c, Args(c), answers[c], j, r)
             /\ \A m \in Methods : Asked(c, m) => m \in Passed(Args(c), r.mode, j)
             /\ ~Finished(Args(c), j) => Retained(c, Args(c), answers[c], j, r, saved),
         Proceed(c, i, saved, r), UNCHANGED <<req, sent>>, AsksNothing
  PROVE  \E x \in Receipts : WritesReceipt(c, x)
<1>1. PICK j \in Positions :
        /\ StepAfter(Args(c), r.mode, i, j)
        /\ IF Finished(Args(c), j)
           THEN Conclude(c, saved, WithStatus(r, "accepted"))
           ELSE /\ Put(c, saved)
                /\ pc' = [pc EXCEPT ![c] = "ready"]
                /\ pos' = [pos EXCEPT ![c] = j]
                /\ receipt' = [receipt EXCEPT ![c] = r]
                /\ UNCHANGED result
  BY DEF Proceed
<1>2. Args(c) \in Arguments /\ Args(c).op \in Ops
  BY InvokedCall DEF IndInv, MayWrite, Running
<1>3. /\ Story(c, Args(c), answers[c], j, r)
      /\ \A m \in Methods : Asked(c, m) => m \in Passed(Args(c), r.mode, j)
      /\ ~Finished(Args(c), j) => Retained(c, Args(c), answers[c], j, r, saved)
  BY <1>1
<1>4. CASE Finished(Args(c), j)
  <2>1. \A m \in Methods : answers[c][m] # None => m \in Passed(Args(c), r.mode, j)
    BY <1>3 DEF Asked
  <2>2. r.kept = Did(answers[c]) /\ Did(answers[c]) = Due(Args(c), answers[c])
    BY <1>2, <1>3, <1>4, <2>1, StoryEnds
  <2>3. Truthful(c, Args(c), answers[c], r)
    BY <1>2, <1>3, StoryIsTruthful
  <2>4. /\ WithStatus(r, "accepted") \in Receipts
        /\ WithStatus(r, "accepted").status \in Terminal
        /\ Fit(c, WithStatus(r, "accepted"))
    BY <2>2, <2>3, AcceptedFit
  <2> QED BY <1>1, <1>4, <2>4, ConcludeWritesReceipt
<1>5. CASE ~Finished(Args(c), j)
  <2>1. /\ Put(c, saved) /\ result' = result
        /\ pc'[c] = "ready" /\ receipt'[c] = r /\ pos'[c] = j
        /\ \A d \in Calls \ {c} :
             pc'[d] = pc[d] /\ receipt'[d] = receipt[d] /\ pos'[d] = pos[d]
    BY <1>1, <1>5 DEF IndInv, BridgeInv, BridgeTypeOK
  <2>2. j \in 1 .. Len(Script[Args(c).op])
    BY <1>1, <1>2, <1>5, ScriptLength DEF StepAfter, Finished, Positions
  <2>3. Wanted(Args(c), r.mode, MethodAt(Args(c), j))
    BY <1>1, <2>2 DEF StepAfter
  <2>4. GoesOn(c, saved, j, r)
    BY <1>3, <1>5, <2>2, <2>3 DEF GoesOn
  <2> QED BY <2>1, <2>4 DEF WritesReceipt
<1> QED BY <1>4, <1>5

\* What is kept of a call that stands at a step is all that was done, unless the
\* request of that step was performed; and once it is answered none is left.
LEMMA RunningTells ==
  ASSUME IndInv, HistoryInv, StoryInv, NEW c \in Calls, Running(c),
         pc[c] = "ready" \/ answers[c][Method(c)] # None
  PROVE  /\ Quiet(c)
         /\ Did(answers[c]) =
              receipt[c].kept \union {m \in Effects : /\ pc[c] = "sent" /\ m = Method(c)
                                                      /\ answers[c][m] \in Says(m)}
<1>1. \A m \in Methods :
        Asked(c, m) => \/ m \in Passed(Args(c), receipt[c].mode, pos[c])
                       \/ pc[c] = "sent" /\ m = Method(c)
  BY DEF StoryInv
<1>2. \A m \in Passed(Args(c), receipt[c].mode, pos[c]) :
        answers[c][m] \in Says(m) /\ m \in Methods
  BY DEF StoryInv, Story, Passed
<1>3. receipt[c].kept = Passed(Args(c), receipt[c].mode, pos[c]) \intersect Effects
  BY DEF StoryInv, Story
<1>4. Quiet(c)
  <2> SUFFICES ASSUME NEW q \in inbox, q.call = c
               PROVE  FALSE
    BY DEF Quiet
  <2>1. q.method \in Methods /\ answers[c][q.method] = None
    BY DEF IndInv, ServerTypeOK, Requests, HistoryInv, AnswersInv
  <2>2. Asked(c, q.method)
    BY DEF Asked
  <2> QED BY <1>1, <1>2, <2>1, <2>2, SaysAre
<1>5. \A m \in Effects : answers[c][m] \in Says(m) => Asked(c, m)
  BY SaysAre DEF Asked, Methods
<1>6. Effects \subseteq Methods
  BY DEF Methods
<1>7. \A m \in Effects : m \in Did(answers[c]) <=>
        m \in receipt[c].kept \/ (pc[c] = "sent" /\ m = Method(c) /\ answers[c][m] \in Says(m))
  BY <1>1, <1>2, <1>3, <1>5, <1>6 DEF Did
<1>8. receipt[c].kept \subseteq Effects
  BY <1>3
<1> QED BY <1>4, <1>7, <1>8 DEF Did

\* The end of a connection changes nothing of what was asked and answered.
LEMMA SeverAsks ==
  ASSUME ServerTypeOK, AnswersInv, NEW p, Sever(p)
  PROVE  AsksNothing /\ AnswersInv'
<1> DEFINE Cut(q) == [q EXCEPT !.live = q.live /\ q.proc # p]
<1>1. inbox' = {Cut(q) : q \in inbox} /\ answers' = answers /\ replies' \subseteq replies
  BY DEF Sever
<1>2. \A q \in inbox : Cut(q).call = q.call /\ Cut(q).method = q.method
  BY DEF ServerTypeOK, Requests
<1> HIDE DEF Cut
<1>3. \A q \in inbox' : \E r \in inbox : q = Cut(r) /\ r.call = q.call /\ r.method = q.method
  BY <1>1, <1>2
<1>4. \A r \in inbox : \E q \in inbox' : r.call = q.call /\ r.method = q.method
  BY <1>1, <1>2
<1>5. ASSUME NEW d \in Calls, NEW m \in Methods
      PROVE  Asked(d, m)' <=> Asked(d, m)
  BY <1>1, <1>3, <1>4 DEF Asked
<1>6. ASSUME NEW d \in Calls
      PROVE  Quiet(d)' <=> Quiet(d)
  BY <1>3, <1>4 DEF Quiet
<1>7. \A q \in inbox' : answers'[q.call][q.method] = None
  BY <1>1, <1>3 DEF AnswersInv
<1>8. ASSUME NEW x \in inbox', NEW y \in inbox', x.call = y.call, x.method = y.method
      PROVE  x = y
  <2>1. PICK r \in inbox : x = Cut(r) /\ r.call = x.call /\ r.method = x.method
    BY <1>3, <1>8
  <2>2. PICK s \in inbox : y = Cut(s) /\ s.call = y.call /\ s.method = y.method
    BY <1>3, <1>8
  <2>3. r = s
    BY <1>8, <2>1, <2>2 DEF AnswersInv
  <2> QED BY <2>1, <2>2, <2>3
<1>9. AnswersInv'
  BY <1>1, <1>7, <1>8 DEF AnswersInv
<1> QED BY <1>1, <1>5, <1>6, <1>9 DEF AsksNothing

\* An answer that is read was given before.
LEMMA ReadAsks ==
  ASSUME AnswersInv, UNCHANGED <<inbox, answers>>, replies' \subseteq replies
  PROVE  AsksNothing /\ AnswersInv'
BY DEF AsksNothing, AnswersInv, Asked, Quiet

\* A request is written once for a call and a method.
LEMMA AcceptAsks ==
  ASSUME ServerTypeOK, AnswersInv, NEW c \in Calls, NEW m \in Methods, ~Asked(c, m),
         NEW p \in Procs, NEW t, Accept(c, p, m, t), UNCHANGED <<replies, answers>>
  PROVE  /\ AnswersInv'
         /\ \A d \in Calls : d # c => (Quiet(d)' <=> Quiet(d))
         /\ \A d \in Calls, n \in Methods :
              Asked(d, n)' <=> Asked(d, n) \/ (d = c /\ n = m)
<1> DEFINE r == [call |-> c, proc |-> p, method |-> m, thread |-> t, live |-> TRUE]
<1>1. r.call = c /\ r.method = m /\ inbox' = inbox \union {r}
  BY DEF Accept
<1> HIDE DEF r
<1>2. answers[c][m] = None /\ \A q \in inbox : ~(q.call = c /\ q.method = m)
  BY DEF Asked
<1>3. AnswersInv'
  BY <1>1, <1>2 DEF AnswersInv
<1>4. ASSUME NEW d \in Calls, d # c
      PROVE  Quiet(d)' <=> Quiet(d)
  BY <1>1, <1>4 DEF Quiet
<1>5. ASSUME NEW d \in Calls, NEW n \in Methods
      PROVE  Asked(d, n)' <=> Asked(d, n) \/ (d = c /\ n = m)
  BY <1>1, <1>2 DEF Asked
<1> QED BY <1>3, <1>4, <1>5

\* The server answers what it was asked.
LEMMA ServeAsks ==
  ASSUME ServerTypeOK, AnswersInv, NEW r \in inbox, NEW says \in Answers, Serve(r, says)
  PROVE  /\ AnswersInv'
         /\ \A d \in Calls, n \in Methods :
              /\ Asked(d, n)' <=> Asked(d, n)
              /\ answers[d][n] # None => answers'[d][n] = answers[d][n]
         /\ \A d \in Calls : Quiet(d) => Quiet(d)' /\ answers'[d] = answers[d]
<1>1. r.call \in Calls /\ r.method \in Methods /\ answers[r.call][r.method] = None
  BY DEF ServerTypeOK, Requests, AnswersInv
<1>2. /\ inbox' = inbox \ {r} /\ says # None
      /\ \A d \in Calls, n \in Methods :
           answers'[d][n] = IF d = r.call /\ n = r.method THEN says ELSE answers[d][n]
      /\ \A d \in Calls : d # r.call => answers'[d] = answers[d]
  <2>1. says # None
    BY ConstantsAssumption DEF ConstantsAssumption
  <2>2. answers' = [answers EXCEPT ![r.call][r.method] = says] /\ inbox' = inbox \ {r}
    BY DEF Serve
  <2> QED BY <1>1, <2>1, <2>2 DEF ServerTypeOK
<1>3. \A a \in replies' : answers'[a.call][a.method] = a.says
  <2>1. \A a \in replies : a.call \in Calls /\ a.method \in Methods
    BY DEF ServerTypeOK, Replies
  <2> DEFINE b == [call |-> r.call, proc |-> r.proc, method |-> r.method, says |-> says]
  <2>2. b.call = r.call /\ b.method = r.method /\ b.says = says
        /\ replies' \subseteq replies \union {b}
    BY DEF Serve
  <2> HIDE DEF b
  <2>3. answers'[b.call][b.method] = b.says
    BY <1>1, <1>2, <2>2
  <2>4. \A a \in replies : ~(a.call = r.call /\ a.method = r.method) \/ a.says = None
    BY <1>1 DEF AnswersInv
  <2>5. \A a \in replies : a.says # None
    BY ConstantsAssumption DEF ServerTypeOK, Replies, ConstantsAssumption
  <2> QED BY <1>2, <2>1, <2>2, <2>3, <2>4, <2>5 DEF AnswersInv
<1>4. \A q \in inbox' : answers'[q.call][q.method] = None
  <2>1. \A q \in inbox : q.call \in Calls /\ q.method \in Methods
    BY DEF ServerTypeOK, Requests
  <2> QED BY <1>2, <2>1 DEF AnswersInv
<1>5. \A d \in Calls, n \in Methods :
        answers'[d][n] # None => answers'[d][n] \in {"rejected"} \union Says(n)
  BY <1>1, <1>2 DEF AnswersInv, Serve
<1>6. AnswersInv'
  BY <1>2, <1>3, <1>4, <1>5 DEF AnswersInv
<1>7. ASSUME NEW d \in Calls, NEW n \in Methods
      PROVE  /\ Asked(d, n)' <=> Asked(d, n)
             /\ answers[d][n] # None => answers'[d][n] = answers[d][n]
  <2>1. answers[d][n] # None => answers'[d][n] = answers[d][n]
    BY <1>1, <1>2
  <2>2. CASE d = r.call /\ n = r.method
    <3>1. Asked(d, n)
      BY <2>2 DEF Asked
    <3>2. answers'[d][n] # None
      BY <1>2, <2>2
    <3> QED BY <2>1, <3>1, <3>2 DEF Asked
  <2>3. CASE ~(d = r.call /\ n = r.method)
    BY <1>2, <2>3 DEF Asked
  <2> QED BY <2>1, <2>2, <2>3
<1>8. ASSUME NEW d \in Calls, Quiet(d)
      PROVE  Quiet(d)' /\ answers'[d] = answers[d]
  BY <1>2, <1>8 DEF Quiet
<1> QED BY <1>6, <1>7, <1>8

\* What the row has of the receipt, after an answer that lets the call go on.
LEMMA RetainedStep ==
  ASSUME NEW c \in Calls, NEW a \in Arguments, NEW said, NEW i \in 1 .. Len(Script[a.op]),
         NEW r \in Receipts, Story(c, a, said, i, r), Wanted(a, r.mode, MethodAt(a, i)),
         MethodAt(a, i) \in Methods, said[MethodAt(a, i)] \in Says(MethodAt(a, i)),
         ~Refused(a.op, MethodAt(a, i), said[MethodAt(a, i)]),
         NEW n, n = Noted(c, a, r, MethodAt(a, i), said[MethodAt(a, i)]),
         NEW row, Retained(c, a, said, i, r, row),
         NEW saved, saved = IF Checkpoint(a, n.mode, MethodAt(a, i)) THEN n ELSE row,
         NEW j \in Positions, StepAfter(a, n.mode, i, j)
  PROVE  Retained(c, a, said, j, n, saved)
<1> DEFINE m == MethodAt(a, i)
<1>1. /\ n.mode = r.mode \/ (Sends(a) /\ i = 1 /\ r.mode = None)
      /\ n.thread = ThreadKnown(c, a, n.kept)
      /\ Truthful(c, a, said, n) /\ Grows(r, n)
  BY NotedTells
<1>2. /\ Story(c, a, said, j, n)
      /\ \A x \in Passed(a, n.mode, j) : x \in Passed(a, r.mode, i) \/ x = m
  <2> HIDE DEF m
  <2>1. n = Noted(c, a, r, MethodAt(a, i), said[MethodAt(a, i)])
    OBVIOUS
  <2>2. Story(c, a, said, j, n)
    BY StoryStep, ZenonT(20)
  <2>3. \A x \in Passed(a, n.mode, j) : x \in Passed(a, r.mode, i) \/ x = MethodAt(a, i)
    BY <1>1, PassedStep
  <2> QED BY <2>2, <2>3 DEF m
<1>3. CASE Checkpoint(a, n.mode, m)
  <2>1. saved = n
    BY <1>3
  <2>2. Sends(a) => n.thread = a.thread
    BY <1>1 DEF ThreadKnown, Sends
  <2>3. \A x \in Passed(a, n.mode, j) \intersect Effects : x \in n.kept
    BY <1>2 DEF Story
  <2>4. Grows(n, n)
    BY DEF Grows
  <2> QED BY <1>1, <2>1, <2>2, <2>3, <2>4 DEF Retained
<1>4. CASE ~Checkpoint(a, n.mode, m)
  <2>1. saved = row /\ Truthful(c, a, said, row) /\ Grows(row, r)
    BY <1>4 DEF Retained
  <2>2. Grows(row, n)
    BY <1>1, <2>1, GrowsFurther
  <2>3. ~(Sends(a) /\ i = 1)
    <3> SUFFICES ASSUME Sends(a), i = 1
                 PROVE  FALSE
      OBVIOUS
    <3>1. m = "thread/read"
      BY ScriptOf DEF Sends, MethodAt
    <3> QED BY <1>4, <3>1 DEF Checkpoint, Sends
  <2>4. n.mode = r.mode
    BY <1>1, <2>3
  <2> HIDE DEF m
  <2>5. \A x \in Passed(a, n.mode, j) \intersect Effects :
          Checkpoint(a, n.mode, x) => x \in row.kept
    BY <1>2, <1>4, <2>4 DEF Retained
  <2>6. Sends(a) => row.thread = a.thread /\ row.mode = n.mode
    <3>1. i # 1 => i > 1
      BY ArgumentsOp, ScriptLength
    <3> QED BY <2>3, <2>4, <3>1 DEF Retained
  <2> QED BY <2>1, <2>2, <2>5, <2>6 DEF Retained
<1> QED BY <1>3, <1>4

\* The reader's answer: every way _mutate goes on after it writes a fit receipt.
LEMMA ReceiveWritesReceipt ==
  ASSUME IndInv, HistoryInv, StoryInv, NEW c \in Calls, NEW a \in replies, Receive(c, a)
  PROVE  \E x \in Receipts : WritesReceipt(c, x)
<1> DEFINE m == Method(c)
           said == answers[c]
           r == Noted(c, Args(c), receipt[c], m, said[m])
           saved == IF Checkpoint(Args(c), r.mode, m) THEN r ELSE Row(c).receipt
<1>1. Running(c) /\ MayWrite(c) /\ pc[c] = "sent"
  BY DEF Receive, Running, MayWrite
<1>2. UNCHANGED <<req, sent>> /\ AsksNothing
  BY ReadAsks DEF Receive, HistoryInv
<1>3. /\ Args(c) \in Arguments /\ Row(c).receipt \in Receipts /\ receipt[c] \in Receipts
      /\ pos[c] \in 1 .. Len(Script[Args(c).op])
      /\ receipt[c].status = "in_progress_or_unknown"
  BY <1>1, InvokedCall, RunningCall DEF IndInv, Running
<1>4. /\ m \in Methods /\ m = MethodAt(Args(c), pos[c]) /\ said[m] = a.says
      /\ said[m] \in Answers /\ said[m] # None
      /\ said[m] \in {"rejected"} \union Says(m)
  <2>1. a.call = c /\ a.method = m
    BY DEF Receive
  <2>2. m \in Methods /\ a.says \in Answers /\ said[m] = a.says
    BY <2>1 DEF IndInv, ServerTypeOK, Replies, HistoryInv, AnswersInv
  <2>3. a.says # None
    BY <2>2, ConstantsAssumption DEF ConstantsAssumption
  <2> QED BY <2>2, <2>3 DEF HistoryInv, AnswersInv, Method
<1>5. /\ Story(c, Args(c), said, pos[c], receipt[c])
      /\ Wanted(Args(c), receipt[c].mode, m)
      /\ \A x \in Methods :
           Asked(c, x) => x \in Passed(Args(c), receipt[c].mode, pos[c]) \/ x = m
      /\ Retained(c, Args(c), said, pos[c], receipt[c], Row(c).receipt)
  BY <1>1 DEF StoryInv
<1>6. Quiet(c) /\ Did(said) = receipt[c].kept \union {x \in Effects : x = m /\ said[x] \in Says(x)}
  BY <1>1, <1>4, RunningTells
<1>7. Truthful(c, Args(c), said, receipt[c]) /\ Grows(Row(c).receipt, receipt[c])
  BY <1>3, <1>5, StoryIsTruthful DEF Retained
<1>8. Fit(c, Row(c).receipt)
  BY <1>1, RowFit
<1>9. \/ a.says = "rejected" /\ Conclude(c, Row(c).receipt, WithStatus(receipt[c], "failed"))
      \/ /\ a.says # "rejected"
         /\ \/ Conclude(c, Row(c).receipt, WithStatus(r, "outcome_unknown"))
            \/ Conclude(c, saved, WithStatus(r, "failed"))
            \/ ~Refused(Args(c).op, m, a.says) /\ Proceed(c, pos[c], saved, r)
  <2>1. r = Noted(c, Args(c), receipt[c], m, a.says)
    BY <1>4
  <2> QED BY <2>1 DEF Receive
<1> HIDE DEF m, said, r, saved
<1>10. CASE said[m] = "rejected"
  <2>1. Did(said) = receipt[c].kept
    BY <1>4, <1>6, <1>10, SaysAre
  <2>2. /\ WithStatus(receipt[c], "failed") \in Receipts
        /\ WithStatus(receipt[c], "failed").status \in Terminal
        /\ Fit(c, WithStatus(receipt[c], "failed"))
    BY <1>3, <1>6, <1>7, <2>1, FailedFit DEF said
  <2>3. Conclude(c, Row(c).receipt, WithStatus(receipt[c], "failed"))
    BY <1>4, <1>9, <1>10
  <2> QED BY <1>1, <1>2, <1>3, <1>8, <2>2, <2>3, ConcludeWritesReceipt
<1>11. CASE said[m] # "rejected"
  <2>1. said[m] \in Says(m)
    BY <1>4, <1>11
  <2>2. r \in Receipts /\ r.status = "in_progress_or_unknown"
    BY <1>3, <1>4, NotedType DEF r
  <2>3. /\ r.kept = receipt[c].kept \union ({m} \intersect Effects)
        /\ r.mode = receipt[c].mode \/ (Sends(Args(c)) /\ pos[c] = 1)
        /\ Truthful(c, Args(c), said, r) /\ Grows(receipt[c], r)
    BY <1>3, <1>4, <1>5, <2>1, NotedTells DEF r
  <2>4. r.kept = Did(said)
    BY <1>6, <2>1, <2>3
  <2>5. Grows(Row(c).receipt, r)
    BY <1>7, <2>3, GrowsFurther
  <2>6. saved \in Receipts /\ Fit(c, saved)
    <3>1. Fit(c, r)
      BY <2>2, <2>3, <2>5 DEF Fit, Stands, said
    <3> QED BY <1>3, <1>8, <2>2, <3>1 DEF saved
  <2>7. CASE Conclude(c, Row(c).receipt, WithStatus(r, "outcome_unknown"))
    <3>1. /\ WithStatus(r, "outcome_unknown") \in Receipts
          /\ WithStatus(r, "outcome_unknown").status \in Terminal
          /\ Fit(c, WithStatus(r, "outcome_unknown"))
      BY <2>2, <2>3, <2>5, UnknownFit DEF said
    <3> QED BY <1>1, <1>2, <1>3, <1>8, <2>7, <3>1, ConcludeWritesReceipt
  <2>8. CASE Conclude(c, saved, WithStatus(r, "failed"))
    <3>1. /\ WithStatus(r, "failed") \in Receipts
          /\ WithStatus(r, "failed").status \in Terminal
          /\ Fit(c, WithStatus(r, "failed"))
      BY <1>6, <2>2, <2>3, <2>4, <2>5, FailedFit DEF said
    <3> QED BY <1>1, <1>2, <2>6, <2>8, <3>1, ConcludeWritesReceipt
  <2>9. CASE ~Refused(Args(c).op, m, a.says) /\ Proceed(c, pos[c], saved, r)
    <3>1. ASSUME NEW j \in Positions, StepAfter(Args(c), r.mode, pos[c], j)
          PROVE  /\ Story(c, Args(c), said, j, r)
                 /\ \A x \in Methods : Asked(c, x) => x \in Passed(Args(c), r.mode, j)
                 /\ Retained(c, Args(c), said, j, r, saved)
      <4>1. ~Refused(Args(c).op, m, said[m])
        BY <1>4, <2>9
      <4>2. /\ Story(c, Args(c), said, j, r)
            /\ \A x \in Passed(Args(c), receipt[c].mode, pos[c]) : x \in Passed(Args(c), r.mode, j)
            /\ m \in Passed(Args(c), r.mode, j)
        <5> DEFINE i == pos[c]
        <5>1. MethodAt(Args(c), i) = m
          BY <1>4
        <5>2. r = Noted(c, Args(c), receipt[c], MethodAt(Args(c), i), said[MethodAt(Args(c), i)])
          BY <5>1 DEF r
        <5>3. /\ i \in 1 .. Len(Script[Args(c).op]) /\ MethodAt(Args(c), i) \in Methods
              /\ said[MethodAt(Args(c), i)] \in Says(MethodAt(Args(c), i))
              /\ ~Refused(Args(c).op, MethodAt(Args(c), i), said[MethodAt(Args(c), i)])
              /\ Wanted(Args(c), receipt[c].mode, MethodAt(Args(c), i))
              /\ Story(c, Args(c), said, i, receipt[c]) /\ StepAfter(Args(c), r.mode, i, j)
          BY <1>3, <1>4, <1>5, <2>1, <3>1, <4>1, <5>1
        <5> HIDE DEF i
        <5>4. Story(c, Args(c), said, j, r)
          BY <1>3, <5>2, <5>3, StoryStep, ZenonT(20)
        <5>5. r.mode = receipt[c].mode \/ (Sends(Args(c)) /\ i = 1)
          BY <2>3 DEF i
        <5>6. Passed(Args(c), r.mode, j) = Passed(Args(c), receipt[c].mode, i)
                                             \union ({MethodAt(Args(c), i)} \intersect Methods)
          BY <1>3, <5>3, <5>5, PassedStep
        <5> QED BY <5>1, <5>3, <5>4, <5>6 DEF i
      <4>3. Retained(c, Args(c), said, j, r, saved)
        BY <1>3, <1>4, <1>5, <2>1, <3>1, <4>1, RetainedStep DEF r, saved
      <4> QED BY <1>5, <4>2, <4>3
    <3> QED BY <1>1, <1>2, <1>6, <2>2, <2>5, <2>6, <2>9, <3>1, ProceedWritesReceipt DEF said
  <2> QED BY <1>4, <1>9, <1>11, <2>7, <2>8, <2>9
<1> QED BY <1>10, <1>11

\* Of a call that has not started its action the server knows nothing.
LEMMA EarlyIsQuiet ==
  ASSUME IndInv, HistoryInv, NEW c \in Calls, pc[c] \in Early
  PROVE  /\ \A m \in Methods : ~Asked(c, m) /\ answers[c][m] = None
         /\ Quiet(c) /\ Did(answers[c]) = {}
<1>1. \A m \in Methods : ~Asked(c, m)
  BY DEF HistoryInv, AskedInv
<1>2. \A m \in Methods : answers[c][m] = None
  BY <1>1 DEF Asked
<1>3. Quiet(c)
  <2>1. \A q \in inbox : q.method \in Methods
    BY DEF IndInv, ServerTypeOK, Requests
  <2> QED BY <1>1, <2>1 DEF Asked, Quiet
<1>4. Did(answers[c]) = {}
  BY <1>2, SaysAre DEF Did, Methods
<1> QED BY <1>1, <1>2, <1>3, <1>4

\* The first receipt of a request_id.
LEMMA BeginWritesReceipt ==
  ASSUME IndInv, HistoryInv, NEW c \in Calls, BeginFresh(c)
  PROVE  \E x \in Receipts : WritesReceipt(c, x)
<1> DEFINE a == Args(c)
           said == answers[c]
           r == FirstReceipt(a)
<1>1. /\ MayWrite(c) /\ Row(c) = None /\ pc[c] \in Early
      /\ UNCHANGED <<req, sent>> /\ UNCHANGED <<inbox, answers, replies>>
  BY DEF BeginFresh, Claims, MayWrite, Early, serverVars
<1>2. AsksNothing
  BY <1>1, ReadAsks DEF HistoryInv
<1>3. a \in Arguments /\ r \in Receipts /\ FreshReceipt \in Receipts
  BY <1>1, InvokedCall, FirstReceiptType, FreshReceiptType DEF IndInv, Early, BeginFresh
<1>4. (\A m \in Methods : ~Asked(c, m)) /\ Quiet(c)
  BY <1>1, EarlyIsQuiet
<1>5. /\ r.kept = {} /\ r.mode = None /\ r.status = "in_progress_or_unknown"
      /\ r.thread = ThreadKnown(c, a, {}) /\ (Sends(a) => r.thread = a.thread)
      /\ FreshReceipt.kept = {} /\ FreshReceipt.thread = None
      /\ FreshReceipt.status = "in_progress_or_unknown"
  BY DEF FirstReceipt, FreshReceipt, ThreadKnown, Sends
<1> HIDE DEF a, said, r
<1>6. Truthful(c, a, said, r)
  BY <1>3, <1>5, KnownIsTruthful
<1>7. Truthful(c, a, said, FreshReceipt)
  BY <1>5, ConstantsAssumption DEF Truthful, ConstantsAssumption
<1>8. Fit(c, r) /\ Fit(c, FreshReceipt)
  BY <1>1, <1>5, <1>6, <1>7 DEF Fit, Stands, a, said
<1>9. CASE Proceed(c, 0, r, r)
  <2>1. ASSUME NEW j \in Positions, StepAfter(a, r.mode, 0, j)
        PROVE  Story(c, a, said, j, r) /\ Retained(c, a, said, j, r, r)
    <3>1. Story(c, a, said, j, r) /\ Passed(a, r.mode, j) = {}
      BY <1>3, <1>5, <2>1, StoryBegins DEF r
    <3>2. Grows(r, r)
      BY DEF Grows
    <3> QED BY <1>5, <1>6, <3>1, <3>2 DEF Retained
  <2> QED BY <1>1, <1>2, <1>3, <1>4, <1>8, <1>9, <2>1, ProceedWritesReceipt DEF a, said
<1>10. CASE Conclude(c, FreshReceipt, WithStatus(r, "outcome_unknown"))
  <2>1. /\ WithStatus(r, "outcome_unknown") \in Receipts
        /\ WithStatus(r, "outcome_unknown").status \in Terminal
        /\ Fit(c, WithStatus(r, "outcome_unknown"))
    BY <1>1, <1>3, <1>6, UnknownFit DEF a, said
  <2> QED BY <1>1, <1>2, <1>3, <1>8, <1>10, <2>1, ConcludeWritesReceipt
<1> QED BY <1>9, <1>10 DEF BeginFresh, r, a

\* A request without an answer, a connection refused, and the close.
LEMMA RunWritesReceipt ==
  ASSUME IndInv, HistoryInv, StoryInv, NEW c \in Calls,
         Lose(c) \/ InitializeRejected(c) \/ Close(c)
  PROVE  \E x \in Receipts : WritesReceipt(c, x)
<1> DEFINE r == receipt[c]
<1>1. Running(c) /\ MayWrite(c) /\ UNCHANGED <<req, sent>>
  BY DEF Lose, InitializeRejected, Close, Running, MayWrite
<1>2. AsksNothing
  BY ReadAsks, SeverAsks
     DEF Lose, InitializeRejected, Close, CloseConnection, HistoryInv, IndInv, serverVars
<1>3. /\ Args(c) \in Arguments /\ Row(c).receipt \in Receipts /\ r \in Receipts
      /\ pos[c] \in 1 .. Len(Script[Args(c).op])
  BY <1>1, InvokedCall, RunningCall DEF IndInv, Running
<1>4. /\ Story(c, Args(c), answers[c], pos[c], r)
      /\ Wanted(Args(c), r.mode, Method(c))
      /\ \A m \in Methods : Asked(c, m) => \/ m \in Passed(Args(c), r.mode, pos[c])
                                           \/ pc[c] = "sent" /\ m = Method(c)
      /\ Grows(Row(c).receipt, r)
  BY <1>1 DEF StoryInv, Retained
<1>5. Truthful(c, Args(c), answers[c], r) /\ Fit(c, Row(c).receipt)
  BY <1>1, <1>3, <1>4, StoryIsTruthful, RowFit
<1>6. pc[c] = "ready" => Quiet(c) /\ Did(answers[c]) = r.kept
  BY <1>1, RunningTells
<1> HIDE DEF r
<1>7. CASE Lose(c)
  <2>1. /\ WithStatus(r, "outcome_unknown") \in Receipts
        /\ WithStatus(r, "outcome_unknown").status \in Terminal
        /\ Fit(c, WithStatus(r, "outcome_unknown"))
    BY <1>3, <1>4, <1>5, UnknownFit
  <2>2. Conclude(c, Row(c).receipt, WithStatus(r, "outcome_unknown"))
    BY <1>7 DEF Lose, LostReceipt, r
  <2> QED BY <1>1, <1>2, <1>3, <1>5, <2>1, <2>2, ConcludeWritesReceipt
<1>8. CASE InitializeRejected(c)
  <2>1. /\ WithStatus(r, "failed") \in Receipts
        /\ WithStatus(r, "failed").status \in Terminal
        /\ Fit(c, WithStatus(r, "failed"))
    BY <1>3, <1>4, <1>5, <1>6, <1>8, FailedFit DEF InitializeRejected
  <2>2. Conclude(c, Row(c).receipt, WithStatus(r, "failed"))
    BY <1>8 DEF InitializeRejected, r
  <2> QED BY <1>1, <1>2, <1>3, <1>5, <2>1, <2>2, ConcludeWritesReceipt
<1>9. CASE Close(c)
  <2>1. /\ pc[c] = "ready" /\ MethodAt(Args(c), pos[c]) = "close"
        /\ Proceed(c, pos[c], Row(c).receipt, r)
    BY <1>9 DEF Close, Method, r
  <2>2. ASSUME NEW j \in Positions, StepAfter(Args(c), r.mode, pos[c], j)
        PROVE  /\ Story(c, Args(c), answers[c], j, r) /\ Finished(Args(c), j)
               /\ \A m \in Methods : Asked(c, m) => m \in Passed(Args(c), r.mode, j)
    <3>1. /\ Story(c, Args(c), answers[c], j, r) /\ Finished(Args(c), j)
          /\ Passed(Args(c), r.mode, j) = Passed(Args(c), r.mode, pos[c])
      BY <1>3, <1>4, <2>1, <2>2, StoryClose DEF Method
    <3> QED BY <1>4, <2>1, <3>1
  <2> QED BY <1>1, <1>2, <1>3, <1>4, <1>5, <1>6, <2>1, <2>2, ProceedWritesReceipt
<1> QED BY <1>7, <1>8, <1>9

\* What the server knows goes on when it is not asked.
LEMMA AsksNothingGoesOn ==
  ASSUME AsksNothing, UNCHANGED sent
  PROVE  GoesOnAsking
BY DEF AsksNothing, GoesOnAsking

\* A call that has not started its action is answered, or goes to validate or begin.
LEMMA LookupWritesNothing ==
  ASSUME IndInv, HistoryInv, NEW c \in Calls,
         LookupRetained(c) \/ LookupNothing(c) \/ ValidateRefuses(c) \/ Validated(c)
           \/ BeginRetained(c) \/ LedgerBusy(c)
  PROVE  WritesNothing
<1>1. /\ UNCHANGED <<ledger, req, receipt>> /\ pc[c] \in {"waiting", "validate", "begin"}
      /\ UNCHANGED <<inbox, answers, replies, sent, pos>>
  BY DEF LookupRetained, LookupNothing, ValidateRefuses, Validated, BeginRetained, LedgerBusy,
         AtLock, ledgerVars, serverVars
<1>2. GoesOnAsking
  BY <1>1, ReadAsks, AsksNothingGoesOn DEF HistoryInv
<1>3. CASE LookupNothing(c) \/ Validated(c)
  <2>1. PICK how \in {"validate", "begin"} : pc' = [pc EXCEPT ![c] = how]
    BY <1>3 DEF LookupNothing, Validated
  <2>2. \A d \in Calls : pc'[d] = IF d = c THEN how ELSE pc[d]
    BY <2>1 DEF IndInv, BridgeInv, BridgeTypeOK
  <2>3. result' = result
    BY <1>3 DEF LookupNothing, Validated
  <2> QED BY <1>1, <1>2, <2>2, <2>3 DEF WritesNothing, Running, Early
<1>4. CASE LookupRetained(c) \/ ValidateRefuses(c) \/ BeginRetained(c) \/ LedgerBusy(c)
  <2>1. pc' = [pc EXCEPT ![c] = "done"]
    BY <1>4 DEF LookupRetained, ValidateRefuses, BeginRetained, LedgerBusy, Leave
  <2>2. \A d \in Calls : pc'[d] = IF d = c THEN "done" ELSE pc[d]
    BY <2>1 DEF IndInv, BridgeInv, BridgeTypeOK
  <2>3. \/ result' = [result EXCEPT ![c] = Told("error", None)]
        \/ pc[c] = "validate" /\ result' = [result EXCEPT ![c] = Told("refused", None)]
        \/ Row(c) # None /\ AnswerFrom(c, Row(c))
    BY <1>4 DEF LookupRetained, ValidateRefuses, BeginRetained, LedgerBusy
  <2>4. AnswersFound(c) /\ \A d \in Calls \ {c} : result'[d] = result[d]
    BY <2>3 DEF AnswersFound, AnswerFrom, IndInv, BridgeInv, BridgeTypeOK
  <2> QED BY <1>1, <1>2, <2>2, <2>4 DEF WritesNothing, Running, Early
<1> QED BY <1>3, <1>4

\* A cancelled call writes a receipt that leaves its outcome open, or nothing.
LEMMA CancelWrites ==
  ASSUME IndInv, HistoryInv, StoryInv, NEW c \in Calls, Cancel(c)
  PROVE  WritesNothing \/ \E x \in Receipts : WritesReceipt(c, x)
<1>1. /\ pc' = [pc EXCEPT ![c] = "dead"] /\ UNCHANGED <<req, receipt, result>>
      /\ UNCHANGED <<inbox, answers, replies, sent, pos>> /\ pc[c] # "done"
  BY DEF Cancel, Leave, serverVars
<1>2. \A d \in Calls : pc'[d] = IF d = c THEN "dead" ELSE pc[d]
  BY <1>1 DEF IndInv, BridgeInv, BridgeTypeOK
<1>3. AsksNothing /\ GoesOnAsking
  BY <1>1, ReadAsks, AsksNothingGoesOn DEF HistoryInv
<1>4. CASE UNCHANGED ledger
  BY <1>1, <1>2, <1>3, <1>4 DEF WritesNothing, Running, Early
<1>5. CASE Running(c) /\ Put(c, CancelledReceipt(c))
  <2>1. receipt[c] \in Receipts /\ Args(c) \in Arguments
    BY <1>5, RunningCall, InvokedCall DEF IndInv, Running
  <2>2. Truthful(c, Args(c), answers[c], receipt[c]) /\ Grows(Row(c).receipt, receipt[c])
    BY <1>5, <2>1, StoryIsTruthful DEF StoryInv, Retained
  <2>3. CancelledReceipt(c) \in Receipts /\ Fit(c, CancelledReceipt(c))
    BY <2>1, <2>2, UnknownFit DEF CancelledReceipt
  <2> QED BY <1>1, <1>2, <1>3, <1>5, <2>3 DEF WritesReceipt, MayWrite
<1> QED BY <1>4, <1>5 DEF Cancel, Running

\* A running call asks for the step it stands at.
LEMMA DispatchAsks ==
  ASSUME IndInv, HistoryInv, NEW c \in Calls, Dispatch(c)
  PROVE  WritesNothing /\ AnswersInv'
<1>1. /\ UNCHANGED <<ledger, req, pos, receipt, result, replies, answers>> /\ Running(c)
      /\ pc' = [pc EXCEPT ![c] = "sent"] /\ pc[c] = "ready" /\ Method(c) # "close"
  BY DEF Dispatch, Running
<1>2. \A d \in Calls : pc'[d] = IF d = c THEN "sent" ELSE pc[d]
  BY <1>1 DEF IndInv, BridgeInv, BridgeTypeOK
<1>3. Id(c) \in Ids /\ Proc(c) \in Procs /\ Method(c) \in Methods
      /\ pos[c] \in 1 .. Len(Script[Args(c).op])
  BY <1>1, InvokedCall, RunningCall, ScriptLength DEF IndInv, Running, Method, MethodAt
<1>4. sent[Id(c)][Method(c)] = 0
  BY <1>1, <1>3 DEF IndInv, BridgeInv, DedupInv, SentIsBehind, Method
<1>5. \A i \in Ids, m \in Methods :
        sent'[i][m] = IF i = Id(c) /\ m = Method(c) THEN 1 ELSE sent[i][m]
  BY <1>3, <1>4 DEF Dispatch, IndInv, BridgeInv, BridgeTypeOK
<1>6. /\ AnswersInv'
      /\ \A d \in Calls : d # c => (Quiet(d)' <=> Quiet(d))
      /\ \A d \in Calls, n \in Methods :
           Asked(d, n)' <=> Asked(d, n) \/ (d = c /\ n = Method(c))
  <2>1. ~Asked(c, Method(c))
    BY <1>3, <1>4 DEF HistoryInv, AskedInv
  <2>2. Accept(c, Proc(c), Method(c), Target(c))
    BY DEF Dispatch
  <2> QED BY <1>1, <1>3, <2>1, <2>2, AcceptAsks DEF IndInv, HistoryInv
<1>7. GoesOnAsking
  <2>1. \A i \in Ids, m \in Methods : sent[i][m] # 0 => sent'[i][m] # 0
    BY <1>5
  <2>2. sent'[Id(c)][Method(c)] # 0
    BY <1>3, <1>5
  <2> QED BY <1>1, <1>2, <1>6, <2>1, <2>2 DEF GoesOnAsking
<1>8. WritesNothing
  BY <1>1, <1>2, <1>7 DEF WritesNothing, Running, Early
<1> QED BY <1>6, <1>8

\* Calls stop where they are when their process does.
LEMMA EnvironmentAsks ==
  ASSUME IndInv, HistoryInv, UNCHANGED <<ledger, req, pos, receipt, result, sent>>,
         \A d \in Calls : pc'[d] = pc[d] \/ (pc'[d] = "dead" /\ pc[d] # "done" /\ pc[d] # "new"),
         GoesOnAsking
  PROVE  WritesNothing
BY DEF WritesNothing, Running, Early

\* Every step writes no row, or one receipt that is fit for its row.
LEMMA EveryStep ==
  ASSUME IndInv, HistoryInv, StoryInv, [Next]_vars
  PROVE  /\ AnswersInv'
         /\ WritesNothing \/ \E c \in Calls, r \in Receipts : WritesReceipt(c, r)
<1>1. ASSUME NEW c \in Calls, NEW p \in Procs, NEW i \in Ids, NEW a \in Requested,
             Invoke(c, p, i, a)
      PROVE  WritesNothing /\ AnswersInv'
  <2>1. /\ UNCHANGED <<ledger, receipt, result, inbox, replies, answers, sent, pos>>
        /\ pc' = [pc EXCEPT ![c] = "waiting"] /\ pc[c] = "new"
        /\ \A d \in Calls \ {c} : req'[d] = req[d]
    BY <1>1 DEF Invoke, ledgerVars, serverVars, IndInv, BridgeInv, BridgeTypeOK
  <2>2. \A d \in Calls : pc'[d] = IF d = c THEN "waiting" ELSE pc[d]
    BY <2>1 DEF IndInv, BridgeInv, BridgeTypeOK
  <2>3. GoesOnAsking /\ AnswersInv'
    BY <2>1, ReadAsks, AsksNothingGoesOn DEF HistoryInv
  <2> QED BY <2>1, <2>2, <2>3 DEF WritesNothing, Running, Early
<1>2. ASSUME NEW c \in Calls, BridgeStep(c), ~Dispatch(c)
      PROVE  AnswersInv' /\ (WritesNothing \/ \E r \in Receipts : WritesReceipt(c, r))
  <2>1. WritesNothing \/ \E r \in Receipts : WritesReceipt(c, r)
    BY <1>2, LookupWritesNothing, BeginWritesReceipt, RunWritesReceipt, ReceiveWritesReceipt
       DEF BridgeStep
  <2>2. CASE InitializeRejected(c) \/ Close(c)
    BY <2>1, <2>2, SeverAsks
       DEF InitializeRejected, Close, CloseConnection, HistoryInv, IndInv
  <2>3. CASE ~(InitializeRejected(c) \/ Close(c))
    <3>1. UNCHANGED <<inbox, answers>> /\ replies' \subseteq replies
      BY <1>2, <2>3 DEF BridgeStep, LookupRetained, LookupNothing, ValidateRefuses, Validated,
         BeginFresh, BeginRetained, LedgerBusy, Lose, Receive, serverVars
    <3> QED BY <2>1, <3>1, ReadAsks DEF HistoryInv
  <2> QED BY <2>2, <2>3
<1>3. ASSUME NEW p \in Procs, Crash(p) \/ Disconnect(p)
      PROVE  WritesNothing /\ AnswersInv'
  <2>1. AnswersInv' /\ GoesOnAsking
    BY <1>3, SeverAsks, AsksNothingGoesOn DEF Crash, Disconnect, HistoryInv, IndInv, ledgerVars
  <2>2. /\ UNCHANGED <<ledger, req, pos, receipt, result, sent>>
        /\ \A d \in Calls :
             pc'[d] = pc[d] \/ (pc'[d] = "dead" /\ pc[d] # "done" /\ pc[d] # "new")
    BY <1>3 DEF Crash, Disconnect, ledgerVars, callVars
  <2> QED BY <2>1, <2>2, EnvironmentAsks
<1>4. ASSUME NEW r \in inbox, NEW says \in Answers, Handle(r, says)
      PROVE  WritesNothing /\ AnswersInv'
  <2>1. UNCHANGED <<ledger, req, pc, pos, receipt, result, sent>> /\ Serve(r, says)
    BY <1>4 DEF Handle, ledgerVars, callVars
  <2>2. /\ AnswersInv'
        /\ \A d \in Calls, n \in Methods :
             /\ Asked(d, n)' <=> Asked(d, n)
             /\ answers[d][n] # None => answers'[d][n] = answers[d][n]
        /\ \A d \in Calls : Quiet(d) => Quiet(d)' /\ answers'[d] = answers[d]
    BY <2>1, ServeAsks DEF IndInv, HistoryInv
  <2>3. GoesOnAsking
    BY <2>1, <2>2 DEF GoesOnAsking
  <2> QED BY <2>1, <2>2, <2>3, EnvironmentAsks
<1>5. ASSUME UNCHANGED <<serverVars, ledgerVars, callVars>>
      PROVE  WritesNothing /\ AnswersInv'
  <2>1. /\ UNCHANGED <<ledger, req, pc, pos, receipt, result, sent>>
        /\ UNCHANGED <<inbox, answers, replies>>
    BY <1>5 DEF serverVars, ledgerVars, callVars
  <2>2. GoesOnAsking /\ AnswersInv'
    BY <2>1, ReadAsks, AsksNothingGoesOn DEF HistoryInv
  <2> QED BY <2>1, <2>2, EnvironmentAsks
<1>6. ASSUME NEW c \in Calls, Cancel(c)
      PROVE  AnswersInv' /\ (WritesNothing \/ \E r \in Receipts : WritesReceipt(c, r))
  <2>1. AnswersInv'
    BY <1>6, ReadAsks DEF Cancel, serverVars, HistoryInv
  <2> QED BY <1>6, <2>1, CancelWrites
<1>7. CASE Environment
  BY <1>3, <1>4, <1>5, <1>6, <1>7 DEF Environment, MakeOrRemove, Relink
<1> QED BY <1>1, <1>2, <1>5, <1>7, DispatchAsks DEF Next, vars

\* What a written receipt does to the rows and to the calls.
LEMMA RowWritten ==
  ASSUME IndInv, StoryInv, NEW c \in Calls, NEW r \in Receipts, WritesReceipt(c, r)
  PROVE  /\ \A d \in Calls : Id(d)' = Id(d) /\ Args(d)' = Args(d)
         /\ Id(c) \in Ids /\ Row(c)' = ledger'[Id(c)] /\ ledger'[Id(c)] # None
         /\ Row(c)'.print = Args(c) /\ Row(c)'.version = 2 /\ Row(c)'.owner = c
         /\ Row(c)'.receipt = r
         /\ \A i \in Ids : i # Id(c) => ledger'[i] = ledger[i]
         /\ Row(c) # None => /\ Row(c).print = Args(c) /\ Row(c).version = 2 /\ Row(c).owner = c
                             /\ Row(c).receipt.status \notin Terminal
<1>1. pc[c] # "new" /\ Put(c, r) /\ UNCHANGED req
  BY DEF WritesReceipt, MayWrite, Running
<1>2. \A d \in Calls : Id(d)' = Id(d) /\ Args(d)' = Args(d)
  BY <1>1 DEF Id, Args
<1> DEFINE row == [print |-> Args(c), version |-> 2, owner |-> c, receipt |-> r]
<1>3. /\ Id(c) \in Ids /\ ledger'[Id(c)] # None /\ ledger'[Id(c)] = row
      /\ \A i \in Ids : i # Id(c) => ledger'[i] = ledger[i]
  BY <1>1, PutType, InvokedCall DEF IndInv
<1>4. row.print = Args(c) /\ row.version = 2 /\ row.owner = c /\ row.receipt = r
  OBVIOUS
<1> HIDE DEF row
<1>5. Row(c)' = ledger'[Id(c)]
  BY <1>2 DEF Row
<1>6. ASSUME Row(c) # None
      PROVE  /\ Row(c).print = Args(c) /\ Row(c).version = 2 /\ Row(c).owner = c
             /\ Row(c).receipt.status \notin Terminal
  <2>1. Running(c)
    BY <1>6 DEF WritesReceipt, MayWrite
  <2> QED BY <2>1 DEF StoryInv, IndInv, BridgeInv, DedupInv, OwnsItsRow, Terminal
<1> QED BY <1>2, <1>3, <1>4, <1>5, <1>6

\* AskedInv is inductive.
LEMMA AskedInvKept ==
  ASSUME IndInv, HistoryInv,
         WritesNothing \/ \E c \in Calls, r \in Receipts : WritesReceipt(c, r)
  PROVE  AskedInv'
<1> SUFFICES ASSUME NEW d \in Calls, NEW m \in Methods, Asked(d, m)'
             PROVE  pc'[d] \notin Early /\ sent'[Id(d)'][m] # 0
  BY DEF AskedInv
<1>1. CASE WritesNothing
  <2>1. pc[d] \notin Early /\ pc'[d] \notin Early /\ sent'[Id(d)][m] # 0
    <3>1. CASE Asked(d, m)
      <4>1. pc[d] \notin Early /\ sent[Id(d)][m] # 0
        BY <3>1 DEF HistoryInv, AskedInv
      <4>2. Id(d) \in Ids
        BY <4>1, InvokedCall DEF IndInv, Early
      <4> QED BY <1>1, <4>1, <4>2 DEF WritesNothing, GoesOnAsking
    <3>2. CASE ~Asked(d, m)
      BY <1>1, <3>2 DEF WritesNothing, GoesOnAsking, Running, Early
    <3> QED BY <3>1, <3>2
  <2>2. Id(d)' = Id(d)
    BY <1>1, <2>1 DEF WritesNothing, Early, Id
  <2> QED BY <2>1, <2>2
<1>2. ASSUME NEW c \in Calls, NEW r \in Receipts, WritesReceipt(c, r)
      PROVE  pc'[d] \notin Early /\ sent'[Id(d)'][m] # 0
  <2>1. Asked(d, m) /\ UNCHANGED <<req, sent>>
    BY <1>2 DEF WritesReceipt, AsksNothing
  <2>2. pc[d] \notin Early /\ sent'[Id(d)'][m] # 0
    BY <2>1 DEF HistoryInv, AskedInv, Id
  <2>3. pc'[d] \notin Early
    BY <1>2, <2>2 DEF WritesReceipt, Early
  <2> QED BY <2>2, <2>3
<1> QED BY <1>1, <1>2

\* What a receipt tells stays true while the server goes on answering.
LEMMA StoryStands ==
  ASSUME NEW c \in Calls, NEW a \in Arguments, NEW said, NEW told,
         \A m \in Methods : said[m] # None => told[m] = said[m],
         NEW i \in 1 .. Len(Script[a.op]), NEW r, Story(c, a, said, i, r)
  PROVE  Story(c, a, told, i, r)
<1>1. \A m \in Passed(a, r.mode, i) : told[m] = said[m]
  BY SaysAre DEF Story, Passed
<1>2. ASSUME Sends(a), i > 1
      PROVE  ModeSaid(told) = ModeSaid(said)
  <2>1. MethodAt(a, 1) = "thread/read" /\ Wanted(a, r.mode, "thread/read")
    BY <1>2, ScriptOf DEF Sends, MethodAt, Wanted
  <2>2. "thread/read" \in Methods
    BY DEF Methods, Inquiries
  <2>3. 1 \in 1 .. Len(Script[a.op])
    BY <1>2, ScriptOf DEF Sends
  <2>4. "thread/read" \in Passed(a, r.mode, i)
    BY <1>2, <2>1, <2>2, <2>3 DEF Passed
  <2> QED BY <1>1, <2>4 DEF ModeSaid
<1> QED BY <1>1, <1>2 DEF Story

\* What is true of the answers stays true when there are more.
LEMMA TruthStands ==
  ASSUME NEW c, NEW a, NEW said, NEW told, NEW r, Truthful(c, a, said, r),
         \A m \in Methods : said[m] # None => told[m] = said[m]
  PROVE  Truthful(c, a, told, r)
<1>1. Did(said) \subseteq Did(told)
  BY SaysAre DEF Did, Methods
<1> QED BY <1>1 DEF Truthful

\* StoryInv is inductive, with HistoryInv.
LEMMA StoryInvKept ==
  ASSUME IndInv, HistoryInv, StoryInv,
         WritesNothing \/ \E c \in Calls, r \in Receipts : WritesReceipt(c, r)
  PROVE  StoryInv'
<1> SUFFICES ASSUME NEW d \in Calls, Running(d)'
             PROVE  /\ Row(d)'.print = Args(d)' /\ Row(d)'.version = 2
                    /\ Story(d, Args(d)', answers'[d], pos'[d], receipt'[d])
                    /\ Wanted(Args(d)', receipt'[d].mode, Method(d)')
                    /\ \A m \in Methods :
                         Asked(d, m)' => \/ m \in Passed(Args(d)', receipt'[d].mode, pos'[d])
                                         \/ pc'[d] = "sent" /\ m = Method(d)'
                    /\ Retained(d, Args(d)', answers'[d], pos'[d], receipt'[d], Row(d)'.receipt)
  BY DEF StoryInv
<1>1. CASE WritesNothing
  <2>1. /\ Running(d) /\ receipt'[d] = receipt[d] /\ pos'[d] = pos[d] /\ req'[d] = req[d]
        /\ ledger' = ledger /\ (pc[d] = "sent" => pc'[d] = "sent")
    BY <1>1 DEF WritesNothing, Running
  <2>2. Args(d)' = Args(d) /\ Row(d)' = Row(d) /\ Method(d)' = Method(d)
    BY <2>1 DEF Args, Row, Id, Method, MethodAt
  <2>3. Args(d) \in Arguments /\ pos[d] \in 1 .. Len(Script[Args(d).op])
    BY <2>1, InvokedCall, RunningCall DEF IndInv, Running
  <2>4. /\ Row(d).print = Args(d) /\ Row(d).version = 2
        /\ Story(d, Args(d), answers[d], pos[d], receipt[d])
        /\ Wanted(Args(d), receipt[d].mode, Method(d))
        /\ \A m \in Methods :
             Asked(d, m) => \/ m \in Passed(Args(d), receipt[d].mode, pos[d])
                            \/ pc[d] = "sent" /\ m = Method(d)
        /\ Retained(d, Args(d), answers[d], pos[d], receipt[d], Row(d).receipt)
    BY <2>1 DEF StoryInv
  <2>5. \A m \in Methods : answers[d][m] # None => answers'[d][m] = answers[d][m]
    BY <1>1 DEF WritesNothing, GoesOnAsking
  <2>6. Story(d, Args(d), answers'[d], pos[d], receipt[d])
    BY <2>3, <2>4, <2>5, StoryStands
  <2>7. Retained(d, Args(d), answers'[d], pos[d], receipt[d], Row(d).receipt)
    BY <2>4, <2>5, TruthStands DEF Retained
  <2>8. \A m \in Methods :
          Asked(d, m)' => \/ m \in Passed(Args(d), receipt[d].mode, pos[d])
                          \/ pc'[d] = "sent" /\ m = Method(d)
    BY <1>1, <2>1, <2>4 DEF WritesNothing, GoesOnAsking
  <2> QED BY <2>1, <2>2, <2>4, <2>6, <2>7, <2>8
<1>2. ASSUME NEW c \in Calls, NEW r \in Receipts, WritesReceipt(c, r), d = c
      PROVE  /\ Row(d)'.print = Args(d)' /\ Row(d)'.version = 2
             /\ Story(d, Args(d)', answers'[d], pos'[d], receipt'[d])
             /\ Wanted(Args(d)', receipt'[d].mode, Method(d)')
             /\ \A m \in Methods :
                  Asked(d, m)' => \/ m \in Passed(Args(d)', receipt'[d].mode, pos'[d])
                                  \/ pc'[d] = "sent" /\ m = Method(d)'
             /\ Retained(d, Args(d)', answers'[d], pos'[d], receipt'[d], Row(d)'.receipt)
  <2>1. GoesOn(c, r, pos'[c], receipt'[c]) /\ AsksNothing
    BY <1>2 DEF WritesReceipt, Running
  <2>2. /\ Args(c)' = Args(c) /\ Row(c)'.print = Args(c) /\ Row(c)'.version = 2
        /\ Row(c)'.receipt = r
    BY <1>2, RowWritten
  <2>3. Method(c)' = MethodAt(Args(c), pos'[c])
    BY <2>2 DEF Method, MethodAt
  <2>4. answers' = answers /\ \A m \in Methods : Asked(c, m)' => Asked(c, m)
    BY <2>1 DEF AsksNothing
  <2> QED BY <1>2, <2>1, <2>2, <2>3, <2>4 DEF GoesOn
<1>3. ASSUME NEW c \in Calls, NEW r \in Receipts, WritesReceipt(c, r), d # c
      PROVE  /\ Row(d)'.print = Args(d)' /\ Row(d)'.version = 2
             /\ Story(d, Args(d)', answers'[d], pos'[d], receipt'[d])
             /\ Wanted(Args(d)', receipt'[d].mode, Method(d)')
             /\ \A m \in Methods :
                  Asked(d, m)' => \/ m \in Passed(Args(d)', receipt'[d].mode, pos'[d])
                                  \/ pc'[d] = "sent" /\ m = Method(d)'
             /\ Retained(d, Args(d)', answers'[d], pos'[d], receipt'[d], Row(d)'.receipt)
  <2>1. /\ pc'[d] = pc[d] /\ pos'[d] = pos[d] /\ receipt'[d] = receipt[d] /\ Running(d)
        /\ MayWrite(c) /\ answers' = answers
        /\ \A m \in Methods : Asked(d, m)' => Asked(d, m)
    BY <1>3 DEF WritesReceipt, AsksNothing, Running
  <2>2. Id(d) # Id(c) /\ Id(d) \in Ids
    BY <1>3, <2>1, OneRunner, InvokedCall DEF IndInv, Running
  <2>3. Args(d)' = Args(d) /\ Row(d)' = Row(d)
    BY <1>3, <2>2, RowWritten DEF Row
  <2>4. Method(d)' = Method(d)
    BY <2>1, <2>3 DEF Method, MethodAt
  <2>5. /\ Row(d).print = Args(d) /\ Row(d).version = 2
        /\ Story(d, Args(d), answers[d], pos[d], receipt[d])
        /\ Wanted(Args(d), receipt[d].mode, Method(d))
        /\ \A m \in Methods :
             Asked(d, m) => \/ m \in Passed(Args(d), receipt[d].mode, pos[d])
                            \/ pc[d] = "sent" /\ m = Method(d)
        /\ Retained(d, Args(d), answers[d], pos[d], receipt[d], Row(d).receipt)
    BY <2>1 DEF StoryInv
  <2> QED BY <2>1, <2>3, <2>4, <2>5
<1> QED BY <1>1, <1>2, <1>3

LEMMA HistoryInvariance == Spec => [](HistoryInv /\ StoryInv)
<1>1. Init => HistoryInv /\ StoryInv
  <2> SUFFICES ASSUME Init
               PROVE  HistoryInv /\ StoryInv
    OBVIOUS
  <2>1. inbox = {} /\ replies = {} /\ \A c \in Calls, m \in Methods : answers[c][m] = None
    BY DEF Init, ServerInit
  <2>2. \A c \in Calls : ~Running(c)
    BY DEF Init, Running
  <2> QED BY <2>1, <2>2 DEF HistoryInv, AnswersInv, AskedInv, Asked, StoryInv
<1>2. IndInv /\ HistoryInv /\ StoryInv /\ [Next]_vars => HistoryInv' /\ StoryInv'
  BY EveryStep, AskedInvKept, StoryInvKept DEF HistoryInv
<1> QED BY <1>1, <1>2, Invariance, PTL DEF Spec

-----------------------------------------------------------------------------
(* The rows, and what they say of the calls that own them. *)

\* The row of a call stands, whatever became of the call.
RowsInv ==
  \A i \in OwnedRows :
    LET c == ledger[i].owner
    IN  /\ c \in Calls /\ pc[c] \notin Early /\ Id(c) = i
        /\ Stands(c, ledger[i].receipt)

\* RowsInv is inductive, with HistoryInv and StoryInv.
LEMMA RowsInvKept ==
  ASSUME IndInv, HistoryInv, StoryInv, RowsInv, [Next]_vars
  PROVE  RowsInv'
<1> SUFFICES ASSUME NEW i \in Ids, ledger'[i] # None, ledger'[i].owner # None,
                    NEW c, c = ledger'[i].owner
             PROVE  /\ c \in Calls /\ pc'[c] \notin Early /\ Id(c)' = i
                    /\ Stands(c, ledger[i].receipt)'
  BY DEF RowsInv, OwnedRows
<1>1. CASE WritesNothing
  <2>1. ledger' = ledger /\ i \in OwnedRows
    BY <1>1 DEF WritesNothing, OwnedRows
  <2>2. /\ c \in Calls /\ pc[c] \notin Early /\ Id(c) = i
        /\ Stands(c, ledger[i].receipt)
    BY <2>1 DEF RowsInv
  <2>3. pc'[c] \notin Early /\ req'[c] = req[c]
    BY <1>1, <2>2 DEF WritesNothing, Early
  <2>4. Id(c)' = Id(c) /\ Args(c)' = Args(c)
    BY <2>3 DEF Id, Args
  <2>5. Truthful(c, Args(c), answers'[c], ledger[i].receipt)
    BY <1>1, <2>2, TruthStands DEF WritesNothing, GoesOnAsking, Stands
  <2>6. ASSUME ledger[i].receipt.status \in {"accepted", "failed"}
        PROVE  Quiet(c)' /\ answers'[c] = answers[c]
    <3>1. ~Running(c)
      BY <2>2, <2>6 DEF IndInv, BridgeInv, DedupInv, OwnsItsRow, Row
    <3> QED BY <1>1, <2>2, <2>6, <3>1 DEF WritesNothing, GoesOnAsking, Stands
  <2> QED BY <2>1, <2>2, <2>3, <2>4, <2>5, <2>6 DEF Stands
<1>2. ASSUME NEW d \in Calls, NEW r \in Receipts, WritesReceipt(d, r)
      PROVE  /\ c \in Calls /\ pc'[c] \notin Early /\ Id(c)' = i
             /\ Stands(c, ledger[i].receipt)'
  <2>1. /\ Id(d) \in Ids /\ ledger'[Id(d)].owner = d /\ ledger'[Id(d)].receipt = r
        /\ \A e \in Calls : Id(e)' = Id(e) /\ Args(e)' = Args(e)
        /\ \A j \in Ids : j # Id(d) => ledger'[j] = ledger[j]
    BY <1>2, RowWritten
  <2>2. answers' = answers /\ \A e \in Calls : Quiet(e)' <=> Quiet(e)
    BY <1>2 DEF WritesReceipt, AsksNothing
  <2>3. CASE i = Id(d)
    <3>1. c = d /\ Stands(c, r) /\ ledger'[i].receipt = r
      BY <1>2, <2>1, <2>3 DEF WritesReceipt, Fit
    <3>2. pc'[c] \notin Early
      BY <1>2, <3>1 DEF WritesReceipt, Early
    <3> QED BY <2>1, <2>2, <2>3, <3>1, <3>2 DEF Stands
  <2>4. CASE i # Id(d)
    <3>1. ledger'[i] = ledger[i] /\ i \in OwnedRows
      BY <2>1, <2>4 DEF OwnedRows
    <3>2. /\ c \in Calls /\ pc[c] \notin Early /\ Id(c) = i
          /\ Stands(c, ledger[i].receipt)
      BY <3>1 DEF RowsInv
    <3>3. pc'[c] = pc[c]
      BY <1>2, <2>4, <3>2 DEF WritesReceipt
    <3> QED BY <2>1, <2>2, <3>1, <3>2, <3>3 DEF Stands
  <2> QED BY <2>3, <2>4
<1> QED BY <1>1, <1>2, EveryStep

LEMMA RowsInvariance == Spec => []RowsInv
<1>1. Init => RowsInv
  <2> SUFFICES ASSUME Init, NEW i \in OwnedRows
               PROVE  FALSE
    BY DEF RowsInv
  <2>1. ledger[i] \in OldRows /\ ledger[i].owner # None
    BY DEF Init, OwnedRows
  <2> QED BY <2>1, ConstantsAssumption DEF ConstantsAssumption
<1>2. IndInv /\ HistoryInv /\ StoryInv /\ RowsInv /\ [Next]_vars => RowsInv'
  BY RowsInvKept
<1> QED BY <1>1, <1>2, Invariance, HistoryInvariance, PTL DEF Spec

\* A receipt holds only what the server did for its own request.
THEOREM ReceiptsTellTheTruth == Spec => []ReceiptsAreTrue
<1>1. RowsInv => ReceiptsAreTrue
  <2> SUFFICES ASSUME RowsInv, NEW i \in OwnedRows, NEW c, c = ledger[i].owner,
                      NEW r, r = ledger[i].receipt
               PROVE  /\ \A m \in r.kept : Performed(c, m)
                      /\ r.thread \in {None, c, Args(c).thread}
                      /\ r.thread = c <=> r.kept \intersect {"thread/start", "thread/fork"} # {}
    BY DEF ReceiptsAreTrue
  <2>1. Truthful(c, Args(c), answers[c], r)
    BY DEF RowsInv, Stands
  <2> QED BY <2>1 DEF Truthful, Did, Performed
<1> QED BY <1>1, RowsInvariance, PTL

\* A failed request has had the effects its receipt lists, and will have no other.
THEOREM FailureIsDefinite == Spec => []FailedIsDefinite
<1>1. RowsInv => FailedIsDefinite
  <2> SUFFICES ASSUME RowsInv, NEW i \in OwnedRows, NEW c, c = ledger[i].owner,
                      ledger[i].receipt.status = "failed"
               PROVE  /\ ledger[i].receipt.kept = {m \in Effects : Performed(c, m)}
                      /\ \A r \in inbox : r.call # c
    BY DEF FailedIsDefinite
  <2>1. ledger[i].receipt.kept = Did(answers[c]) /\ Quiet(c)
    BY DEF RowsInv, Stands
  <2> QED BY <2>1 DEF Did, Performed, Quiet
<1> QED BY <1>1, RowsInvariance, PTL

\* An accepted request has had every effect that its arguments ask for, and no other.
THEOREM AcceptanceIsComplete == Spec => []AcceptedIsComplete
<1>1. RowsInv => AcceptedIsComplete
  <2> SUFFICES ASSUME RowsInv, NEW i \in OwnedRows, ledger[i].receipt.status = "accepted"
               PROVE  LET c == ledger[i].owner
                          did == {m \in Effects : Performed(c, m)}
                      IN  ledger[i].receipt.kept = did /\ did = Due(Args(c), answers[c])
    BY Zenon DEF AcceptedIsComplete, Due
  <2> DEFINE c == ledger[i].owner
  <2>1. ledger[i].receipt.kept = Did(answers[c]) /\ Did(answers[c]) = Due(Args(c), answers[c])
    BY DEF RowsInv, Stands
  <2>2. {m \in Effects : Performed(c, m)} = Did(answers[c])
    BY DEF Did, Performed
  <2> QED BY <2>1, <2>2
<1> QED BY <1>1, RowsInvariance, PTL

-----------------------------------------------------------------------------
(* The requests, and what was said and written before them. *)

\* What the answers said before a request of operation op for method m.
Allowed(op, m, said) ==
  /\ op = "create_thread" /\ m # "thread/start" => said["thread/start"] = "as requested"
  /\ op = "send_message_to_thread" /\ m = "turn/start" =>
       said["thread/read"] = "active" \/ said["thread/resume"] = "never asks"
  /\ op = "send_message_to_thread" /\ m = "thread/resume" =>
       said["thread/read"] \in {"idle", "ephemeral"}
  /\ op = "fork_thread" =>
       said["thread/read"] = "idle" /\ said["thread/goal/get"] = "no goal"
  /\ m = "thread/archive" => said["thread/read"] \in {"idle", "ephemeral"}

\* What the receipt r of a row holds before call c asks for m.
Recorded(c, a, m, r) ==
  /\ a.op = "create_thread" /\ m # "thread/start" => r.thread = c /\ "thread/start" \in r.kept
  /\ a.op = "create_thread" /\ m = "turn/start" /\ a.title # None => "thread/name/set" \in r.kept
  /\ a.op = "send_message_to_thread" => r.thread = a.thread /\ r.mode # None
  /\ a.op = "send_message_to_thread" /\ m = "turn/start" /\ r.mode = "idle_tool_output" =>
       "thread/resume" \in r.kept

\* A step of the script that comes before another is passed, if it is wanted.
LEMMA PassedBefore ==
  ASSUME NEW a \in Arguments, NEW mode, NEW i \in 1 .. Len(Script[a.op]),
         NEW k \in 1 .. Len(Script[a.op]), k < i, NEW m \in Methods,
         m = Script[a.op][k], Wanted(a, mode, m)
  PROVE  m \in Passed(a, mode, i)
BY DEF Passed, MethodAt

\* The answers behind a running call allow its next request.
LEMMA StoryAllows ==
  ASSUME NEW c \in Calls, NEW a \in Arguments, NEW said, NEW i \in 1 .. Len(Script[a.op]),
         NEW r, Story(c, a, said, i, r), NEW m \in Effects, m = MethodAt(a, i),
         Wanted(a, r.mode, m)
  PROVE  Allowed(a.op, m, said)
<1>1. m = Script[a.op][i]
  BY DEF MethodAt
<1>2. \A n \in Passed(a, r.mode, i) : said[n] \in Says(n) /\ ~Refused(a.op, n, said[n])
  BY DEF Story
<1>3. {"thread/read", "thread/start", "thread/resume", "thread/goal/get"} \subseteq Methods
  BY DEF Methods, Effects, Inquiries
<1>4. CASE a.op = "create_thread"
  <2>1. m # "thread/archive"
    BY <1>1, <1>4, ScriptOf
  <2>2. ASSUME m # "thread/start"
        PROVE  said["thread/start"] = "as requested"
    <3>1. i \in {3, 4} /\ Script[a.op][2] = "thread/start" /\ 2 \in 1 .. Len(Script[a.op])
      BY <1>1, <1>4, <2>2, ScriptOf DEF Effects
    <3>2. Wanted(a, r.mode, "thread/start")
      BY DEF Wanted
    <3>3. "thread/start" \in Passed(a, r.mode, i)
      BY <1>3, <3>1, <3>2, PassedBefore
    <3> QED BY <1>2, <1>4, <3>3 DEF Says, Refused, CreateRefused
  <2> QED BY <1>4, <2>1, <2>2 DEF Allowed
<1>5. CASE a.op = "send_message_to_thread"
  <2>1. m # "thread/archive" /\ i \in {2, 3} /\ (i = 2 <=> m = "thread/resume")
    BY <1>1, <1>5, ScriptOf DEF Effects
  <2>2. Script[a.op][1] = "thread/read" /\ 1 \in 1 .. Len(Script[a.op])
        /\ Wanted(a, r.mode, "thread/read")
    BY <1>5, ScriptOf DEF Wanted
  <2>3. "thread/read" \in Passed(a, r.mode, i)
    BY <1>3, <2>1, <2>2, PassedBefore
  <2>4. said["thread/read"] \in {"idle", "active", "ephemeral"}
    BY <1>2, <2>3 DEF Says
  <2>5. r.mode = ModeSaid(said)
    BY <1>5, <2>1 DEF Story, Sends
  <2>6. Wanted(a, r.mode, "thread/resume") <=> said["thread/read"] # "active"
    BY <2>5 DEF Wanted, Resumes, ModeSaid
  <2>7. ASSUME m = "turn/start", said["thread/read"] # "active"
        PROVE  said["thread/resume"] = "never asks"
    <3>1. i = 3 /\ Script[a.op][2] = "thread/resume" /\ 2 \in 1 .. Len(Script[a.op])
      BY <1>5, <2>1, <2>7, ScriptOf
    <3>2. "thread/resume" \in Passed(a, r.mode, i)
      BY <1>3, <2>6, <2>7, <3>1, PassedBefore
    <3> QED BY <1>2, <1>5, <3>2 DEF Says, Refused, MessageRefused
  <2> QED BY <1>5, <2>1, <2>4, <2>6, <2>7 DEF Allowed
<1>6. CASE a.op = "fork_thread"
  <2>1. i = 3 /\ m = "thread/fork" /\ Script[a.op][1] = "thread/read"
        /\ Script[a.op][2] = "thread/goal/get" /\ {1, 2} \subseteq 1 .. Len(Script[a.op])
    BY <1>1, <1>6, ScriptOf DEF Effects
  <2>2. Wanted(a, r.mode, "thread/read") /\ Wanted(a, r.mode, "thread/goal/get")
    BY <1>6 DEF Wanted
  <2>3. {"thread/read", "thread/goal/get"} \subseteq Passed(a, r.mode, i)
    BY <1>3, <2>1, <2>2, PassedBefore
  <2>4. said["thread/read"] = "idle"
    BY <1>2, <1>6, <2>3 DEF Says, Refused, ForkRefused
  <2>5. said["thread/goal/get"] = "no goal"
    BY <1>2, <1>6, <2>3 DEF Says, Refused, ForkRefused
  <2> QED BY <1>6, <2>1, <2>4, <2>5 DEF Allowed
<1>7. CASE a.op = "set_thread_title"
  <2>1. m # "thread/archive"
    BY <1>1, <1>7, ScriptOf
  <2> QED BY <1>7, <2>1 DEF Allowed
<1>8. CASE a.op = "set_thread_archived"
  <2>1. ASSUME m = "thread/archive"
        PROVE  said["thread/read"] \in {"idle", "ephemeral"}
    <3>1. i = 2 /\ Script[a.op][1] = "thread/read" /\ 1 \in 1 .. Len(Script[a.op])
      <4>1. Script[a.op] = <<"thread/read", "thread/archive", "thread/unarchive">>
        BY <1>8, ScriptOf
      <4>2. i \in {1, 2, 3}
        BY <4>1
      <4>3. Script[a.op][i] = "thread/archive"
        BY <1>1, <2>1
      <4> QED BY <4>1, <4>2, <4>3
    <3>2. Wanted(a, r.mode, "thread/read")
      BY <2>1 DEF Wanted
    <3>3. "thread/read" \in Passed(a, r.mode, i)
      BY <1>3, <3>1, <3>2, PassedBefore
    <3> QED BY <1>2, <1>8, <3>3 DEF Says, Refused, ArchiveRefused
  <2> QED BY <1>8, <2>1 DEF Allowed
<1> QED BY <1>4, <1>5, <1>6, <1>7, <1>8, ArgumentsOp, OpsAre

\* The row of a running call has what its next request acts on.
LEMMA RetainedRecords ==
  ASSUME NEW c \in Calls, NEW a \in Arguments, NEW said, NEW i \in 1 .. Len(Script[a.op]),
         NEW r, Story(c, a, said, i, r), NEW m \in Effects, m = MethodAt(a, i),
         NEW row, Retained(c, a, said, i, r, row)
  PROVE  Recorded(c, a, m, row)
<1>1. m = Script[a.op][i]
  BY DEF MethodAt
<1>2. \A n \in Passed(a, r.mode, i) \intersect Effects :
        Checkpoint(a, r.mode, n) => n \in row.kept
  BY DEF Retained
<1>3. {"thread/start", "thread/resume", "thread/name/set"} \subseteq Methods \intersect Effects
  BY DEF Methods, Effects
<1>4. CASE a.op = "create_thread"
  <2>1. ASSUME m # "thread/start"
        PROVE  row.thread = c /\ "thread/start" \in row.kept
    <3>1. i \in {3, 4} /\ Script[a.op][2] = "thread/start" /\ 2 \in 1 .. Len(Script[a.op])
      BY <1>1, <1>4, <2>1, ScriptOf DEF Effects
    <3>2. Wanted(a, r.mode, "thread/start") /\ Checkpoint(a, r.mode, "thread/start")
      BY <1>4 DEF Wanted, Checkpoint
    <3>3. "thread/start" \in Passed(a, r.mode, i)
      BY <1>3, <3>1, <3>2, PassedBefore
    <3>4. "thread/start" \in row.kept
      BY <1>2, <1>3, <3>2, <3>3
    <3> QED BY <3>4 DEF Retained, Truthful
  <2>2. ASSUME m = "turn/start", a.title # None
        PROVE  "thread/name/set" \in row.kept
    <3>1. i = 4 /\ Script[a.op][3] = "thread/name/set" /\ 3 \in 1 .. Len(Script[a.op])
      <4>1. Script[a.op] = <<"project/read", "thread/start", "thread/name/set", "turn/start">>
        BY <1>4, ScriptOf
      <4>2. i \in {1, 2, 3, 4}
        BY <4>1
      <4>3. Script[a.op][i] = "turn/start"
        BY <1>1, <2>2
      <4> QED BY <4>1, <4>2, <4>3
    <3>2. Wanted(a, r.mode, "thread/name/set") /\ Checkpoint(a, r.mode, "thread/name/set")
      BY <1>4, <2>2 DEF Wanted, Checkpoint
    <3>3. "thread/name/set" \in Passed(a, r.mode, i)
      BY <1>3, <3>1, <3>2, PassedBefore
    <3> QED BY <1>2, <1>3, <3>2, <3>3
  <2> QED BY <1>4, <2>1, <2>2 DEF Recorded
<1>5. CASE a.op = "send_message_to_thread"
  <2>1. i \in {2, 3} /\ (i = 2 <=> m = "thread/resume")
    BY <1>1, <1>5, ScriptOf DEF Effects
  <2>2. row.thread = a.thread /\ row.mode = r.mode /\ r.mode = ModeSaid(said)
    BY <1>5, <2>1 DEF Retained, Story, Sends
  <2>3. r.mode \in Modes /\ r.mode # None
    BY <2>2, ConstantsAssumption DEF ModeSaid, Modes, ConstantsAssumption
  <2>4. ASSUME m = "turn/start", row.mode = "idle_tool_output"
        PROVE  "thread/resume" \in row.kept
    <3>1. i = 3 /\ Script[a.op][2] = "thread/resume" /\ 2 \in 1 .. Len(Script[a.op])
      BY <1>5, <2>1, <2>4, ScriptOf
    <3>2. Wanted(a, r.mode, "thread/resume") /\ Checkpoint(a, r.mode, "thread/resume")
      BY <1>5, <2>2, <2>4 DEF Wanted, Resumes, Checkpoint
    <3>3. "thread/resume" \in Passed(a, r.mode, i)
      BY <1>3, <3>1, <3>2, PassedBefore
    <3> QED BY <1>2, <1>3, <3>2, <3>3
  <2> QED BY <1>5, <2>2, <2>3, <2>4 DEF Recorded
<1>6. CASE a.op \notin {"create_thread", "send_message_to_thread"}
  BY <1>6 DEF Recorded
<1> QED BY <1>4, <1>5, <1>6

\* What was said and recorded before each request that changes something.
AskedFor ==
  \A c \in Calls, m \in Effects :
    Asked(c, m) => /\ Allowed(Args(c).op, m, answers[c])
                   /\ Row(c).owner = c
                   /\ Recorded(c, Args(c), m, Row(c).receipt)

\* What has been said stays said, and what has been recorded stays recorded.
LEMMA AllowedStands ==
  ASSUME NEW op, NEW m, NEW said, NEW told, Allowed(op, m, said),
         \A n \in Methods : said[n] # None => told[n] = said[n]
  PROVE  Allowed(op, m, told)
<1>1. {"thread/read", "thread/start", "thread/resume", "thread/goal/get"} \subseteq Methods
  BY DEF Methods, Effects, Inquiries
<1>2. None \notin {"as requested", "active", "never asks", "idle", "ephemeral", "no goal"}
  <2>1. {"as requested", "active", "never asks", "idle", "ephemeral", "no goal"} \subseteq Answers
    <3>1. /\ Says("thread/read") = {"idle", "active", "ephemeral"}
          /\ Says("thread/start") = {"as requested", "other environment"}
          /\ Says("thread/resume") = {"never asks", "asks approval"}
          /\ Says("thread/goal/get") = {"no goal", "has goal", "unrecognized"}
      BY DEF Says
    <3> QED BY <1>1, <3>1, SaysAre
  <2> QED BY <2>1, ConstantsAssumption DEF ConstantsAssumption
<1> QED BY <1>1, <1>2 DEF Allowed

\* AskedFor is inductive, with HistoryInv and StoryInv.
LEMMA AskedForKept ==
  ASSUME IndInv, HistoryInv, StoryInv, AskedFor, [Next]_vars
  PROVE  AskedFor'
<1> SUFFICES ASSUME NEW d \in Calls, NEW m \in Effects, Asked(d, m)'
             PROVE  /\ Allowed(Args(d)'.op, m, answers'[d])
                    /\ Row(d)'.owner = d
                    /\ Recorded(d, Args(d)', m, Row(d)'.receipt)
  BY DEF AskedFor
<1>1. m \in Methods
  BY DEF Methods
<1>2. CASE WritesNothing
  <2>1. Asked(d, m) \/ (Running(d) /\ m = Method(d))
    BY <1>1, <1>2 DEF WritesNothing, GoesOnAsking
  <2>2. pc[d] # "new" /\ ledger' = ledger
    BY <1>1, <1>2, <2>1 DEF HistoryInv, AskedInv, Running, Early, WritesNothing
  <2>3. Args(d)' = Args(d) /\ Row(d)' = Row(d)
    BY <1>2, <2>2 DEF WritesNothing, Args, Row, Id
  <2>4. /\ Allowed(Args(d).op, m, answers[d]) /\ Row(d).owner = d
        /\ Recorded(d, Args(d), m, Row(d).receipt)
    <3>1. CASE Asked(d, m)
      BY <3>1 DEF AskedFor
    <3>2. CASE Running(d) /\ m = Method(d)
      <4>1. /\ Args(d) \in Arguments /\ pos[d] \in 1 .. Len(Script[Args(d).op])
            /\ Row(d).owner = d /\ m = MethodAt(Args(d), pos[d])
        BY <2>2, <3>2, InvokedCall, RunningCall DEF IndInv, Method
      <4>2. /\ Story(d, Args(d), answers[d], pos[d], receipt[d])
            /\ Wanted(Args(d), receipt[d].mode, m)
            /\ Retained(d, Args(d), answers[d], pos[d], receipt[d], Row(d).receipt)
        BY <3>2 DEF StoryInv
      <4>3. Allowed(Args(d).op, m, answers[d])
        BY <4>1, <4>2, StoryAllows
      <4>4. Recorded(d, Args(d), m, Row(d).receipt)
        BY <4>1, <4>2, RetainedRecords
      <4> QED BY <4>1, <4>3, <4>4
    <3> QED BY <2>1, <3>1, <3>2
  <2>5. Allowed(Args(d).op, m, answers'[d])
    BY <1>2, <2>4, AllowedStands DEF WritesNothing, GoesOnAsking
  <2> QED BY <2>3, <2>4, <2>5
<1>3. ASSUME NEW c \in Calls, NEW r \in Receipts, WritesReceipt(c, r)
      PROVE  /\ Allowed(Args(d)'.op, m, answers'[d])
             /\ Row(d)'.owner = d
             /\ Recorded(d, Args(d)', m, Row(d)'.receipt)
  <2>1. Asked(d, m) /\ answers' = answers
    BY <1>1, <1>3 DEF WritesReceipt, AsksNothing
  <2>2. /\ Allowed(Args(d).op, m, answers[d]) /\ Row(d).owner = d
        /\ Recorded(d, Args(d), m, Row(d).receipt)
    BY <2>1 DEF AskedFor
  <2>3. pc[d] \notin Early /\ Id(d) \in Ids /\ Args(d) \in Arguments
    BY <1>1, <2>1, InvokedCall DEF HistoryInv, AskedInv, IndInv, Early
  <2>4. CASE Id(d) = Id(c)
    <3>1. Row(d) = Row(c) /\ Row(d)' = Row(c)' /\ Args(d)' = Args(d)
      BY <1>3, <2>4, RowWritten DEF Row
    <3>2. Row(c) # None
      <4>1. sent[Id(d)][m] # 0
        BY <1>1, <2>1 DEF HistoryInv, AskedInv
      <4> QED BY <1>1, <2>3, <3>1, <4>1
              DEF IndInv, BridgeInv, DedupInv, ClaimedBeforeSent, Row
    <3>3. d = c /\ Row(c)'.owner = c /\ Row(c)'.receipt = r
      BY <1>3, <2>2, <3>1, <3>2, RowWritten
    <3>4. Grows(Row(c).receipt, r)
      BY <1>3, <3>2 DEF WritesReceipt, Fit
    <3>5. Recorded(d, Args(d), m, r)
      <4>1. Args(d).op = "send_message_to_thread" => Args(d).thread # None
        BY <2>3 DEF Arguments
      <4>2. d # None
        BY ConstantsAssumption DEF ConstantsAssumption
      <4> QED BY <2>2, <3>1, <3>3, <3>4, <4>1, <4>2 DEF Recorded, Grows
    <3> QED BY <2>1, <2>2, <3>1, <3>3, <3>5
  <2>5. CASE Id(d) # Id(c)
    <3>1. Row(d)' = Row(d) /\ Args(d)' = Args(d)
      BY <1>3, <2>3, <2>5, RowWritten DEF Row
    <3> QED BY <2>1, <2>2, <3>1
  <2> QED BY <2>4, <2>5
<1> QED BY <1>2, <1>3, EveryStep

LEMMA AskedForInvariance == Spec => []AskedFor
<1>1. Init => AskedFor
  <2> SUFFICES ASSUME Init, NEW c \in Calls, NEW m \in Effects
               PROVE  ~Asked(c, m)
    BY DEF AskedFor
  <2> QED BY DEF Init, ServerInit, Asked, Methods
<1>2. IndInv /\ HistoryInv /\ StoryInv /\ AskedFor /\ [Next]_vars => AskedFor'
  BY AskedForKept
<1> QED BY <1>1, <1>2, Invariance, HistoryInvariance, PTL DEF Spec

\* Nothing is sent that the answers before it do not allow.
THEOREM EffectsAreAllowed == Spec => []WithheldUnlessAllowed
<1>1. AskedFor => WithheldUnlessAllowed
  <2> SUFFICES ASSUME AskedFor, NEW c \in Calls, NEW m \in Effects, Asked(c, m)
               PROVE  LET op == Args(c).op
                          said == answers[c]
                      IN  /\ op = "create_thread" /\ m # "thread/start" =>
                               said["thread/start"] = "as requested"
                          /\ op = "send_message_to_thread" /\ m = "turn/start" =>
                               said["thread/read"] = "active"
                                 \/ said["thread/resume"] = "never asks"
                          /\ op = "send_message_to_thread" /\ m = "thread/resume" =>
                               said["thread/read"] \in {"idle", "ephemeral"}
                          /\ op = "fork_thread" =>
                               said["thread/read"] = "idle" /\ said["thread/goal/get"] = "no goal"
                          /\ m = "thread/archive" => said["thread/read"] \in {"idle", "ephemeral"}
    BY Zenon DEF WithheldUnlessAllowed
  <2>1. Allowed(Args(c).op, m, answers[c])
    BY DEF AskedFor
  <2> QED BY <2>1 DEF Allowed
<1> QED BY <1>1, AskedForInvariance, PTL

\* Nothing is sent before what it acts on is in the ledger.
THEOREM EffectsAreOnRecord == Spec => []OnRecordBeforeUse
<1>1. AskedFor => OnRecordBeforeUse
  BY DEF AskedFor, Recorded, OnRecordBeforeUse
<1> QED BY <1>1, AskedForInvariance, PTL

\* Receipts are final once settled and never forget anything, whoever writes.
THEOREM NothingIsForgotten == Spec => ReceiptsOnlyGrow
<1>1. IndInv /\ HistoryInv /\ StoryInv /\ [Next]_vars =>
        [\A i \in Ids :
           ledger[i] # None =>
             /\ ledger'[i] # None
             /\ [ledger'[i] EXCEPT !.receipt = None] = [ledger[i] EXCEPT !.receipt = None]
             /\ ledger[i].receipt.status \in Terminal => ledger'[i].receipt = ledger[i].receipt
             /\ ledger[i].receipt.kept \subseteq ledger'[i].receipt.kept
             /\ ledger[i].receipt.thread \in {None, ledger'[i].receipt.thread}]_vars
  <2> SUFFICES ASSUME IndInv, HistoryInv, StoryInv, [Next]_vars, NEW i \in Ids, ledger[i] # None
               PROVE  /\ ledger'[i] # None
                      /\ [ledger'[i] EXCEPT !.receipt = None] = [ledger[i] EXCEPT !.receipt = None]
                      /\ ledger[i].receipt.status \in Terminal =>
                           ledger'[i].receipt = ledger[i].receipt
                      /\ ledger[i].receipt.kept \subseteq ledger'[i].receipt.kept
                      /\ ledger[i].receipt.thread \in {None, ledger'[i].receipt.thread}
    OBVIOUS
  <2>1. CASE ledger'[i] = ledger[i]
    BY <2>1
  <2>2. CASE ledger'[i] # ledger[i]
    <3>1. PICK c \in Calls, r \in Receipts : WritesReceipt(c, r)
      BY <2>2, EveryStep DEF WritesNothing
    <3>2. i = Id(c) /\ Row(c) = ledger[i] /\ Row(c)' = ledger'[i]
      BY <2>2, <3>1, RowWritten DEF Row
    <3>3. Grows(ledger[i].receipt, r) /\ ledger'[i].receipt = r /\ ledger'[i] # None
          /\ ledger[i].receipt.status \notin Terminal
      BY <3>1, <3>2, RowWritten DEF WritesReceipt, Fit
    <3>4. /\ ledger[i] \in Rows /\ ledger'[i] \in Rows
          /\ ledger[i].print = ledger'[i].print /\ ledger[i].version = ledger'[i].version
          /\ ledger[i].owner = ledger'[i].owner
      <4>1. IndInv'
        BY NextInd
      <4> QED BY <3>1, <3>2, <3>3, <4>1, RowWritten DEF IndInv, BridgeInv, BridgeTypeOK
    <3>5. [ledger'[i] EXCEPT !.receipt = None] = [ledger[i] EXCEPT !.receipt = None]
      BY <3>4 DEF Rows
    <3> QED BY <3>3, <3>5 DEF Grows
  <2> QED BY <2>1, <2>2
<1> QED BY <1>1, Invariance, HistoryInvariance, PTL DEF ReceiptsOnlyGrow, Spec

-----------------------------------------------------------------------------
(* What clients are told. *)

\* A call is told something when it is done.  What it is told is settled, or it
\* is replayed from a row that has its arguments, if this version wrote it.
Answered ==
  \A c \in Calls :
    /\ pc[c] # "done" => result[c] = Told("none", None)
    /\ result[c].kind \in {"none", "refused", "error"} => result[c].receipt = None
    /\ result[c].kind = "receipt" => result[c].receipt.status \in Terminal
    /\ result[c].kind = "replayed" => Row(c) # None

\* What clients were told, and the rows it came from.
ToldInv == Answered /\ ToldIsRetained /\ ReplaysItsOwnArguments

\* What a path resolves to resolves to itself.
LinksInv == link \in [Paths -> Paths] /\ \A x \in Paths : link[link[x]] = link[x]

\* A directory stays a directory and a link a link, wherever it leads.
LinksStay == \A x \in Paths : link'[x] = x <=> link[x] = x

LEMMA LinksKept ==
  ASSUME IndInv, LinksInv, [Next]_vars
  PROVE  LinksInv' /\ LinksStay
<1>1. CASE UNCHANGED link
  BY <1>1 DEF LinksInv, LinksStay
<1>2. ASSUME NEW x \in Paths, NEW d \in Paths, Relink(x, d)
      PROVE  LinksInv' /\ LinksStay
  <2>1. link[x] # x /\ link[d] = d /\ link' = [link EXCEPT ![x] = d]
    BY <1>2 DEF Relink
  <2> QED BY <2>1 DEF LinksInv, LinksStay
<1>3. UNCHANGED link \/ \E x, d \in Paths : Relink(x, d)
  <2>1. ASSUME NEW c \in Calls, BridgeStep(c)
        PROVE  UNCHANGED link
    BY <2>1 DEF BridgeStep, LookupRetained, LookupNothing, ValidateRefuses, Validated,
                BeginFresh, BeginRetained, LedgerBusy, Dispatch, Lose, InitializeRejected,
                Close, Receive, fileVars
  <2>2. ASSUME NEW c \in Calls, NEW p \in Procs, NEW i \in Ids, NEW a \in Requested,
               Invoke(c, p, i, a)
        PROVE  UNCHANGED link
    BY <2>2 DEF Invoke, fileVars
  <2>3. CASE Environment
    BY <2>3 DEF Environment, Cancel, Crash, Disconnect, Handle, MakeOrRemove, fileVars
  <2> QED BY <2>1, <2>2, <2>3 DEF Next, vars, fileVars
<1> QED BY <1>1, <1>2, <1>3

LEMMA LinksInvariance == Spec => []LinksInv
<1>1. Init => LinksInv
  BY DEF Init, LinksInv
<1>2. IndInv /\ LinksInv /\ [Next]_vars => LinksInv'
  BY LinksKept
<1> QED BY <1>1, <1>2, Invariance, PTL DEF Spec

\* With the links in f, the arguments of row differ from a by a link only, if at all.
Alike(f, row, a) ==
  row.print # a =>
    /\ row.version = 1 /\ a.op = "create_thread"
    /\ row.print = [a EXCEPT !.cwd = row.print.cwd]
    /\ f[row.print.cwd] = row.print.cwd /\ f[a.cwd] # a.cwd

\* They stay alike while links are led elsewhere.
LEMMA AlikeStays ==
  ASSUME LinksStay, NEW row \in Rows, NEW a \in Arguments, Alike(link, row, a)
  PROVE  Alike(link', row, a)
<1>1. CASE row.print = a
  BY <1>1 DEF Alike
<1>2. CASE row.print # a
  <2>1. /\ row.print = [a EXCEPT !.cwd = row.print.cwd] /\ a.op = "create_thread"
        /\ row.print \in Arguments
    BY <1>2 DEF Alike, Rows
  <2>2. row.print.op = "create_thread"
    BY <2>1 DEF Arguments
  <2>3. row.print.cwd \in Paths /\ a.cwd \in Paths
    BY <2>1, <2>2 DEF Arguments
  <2> QED BY <1>2, <2>3 DEF Alike, LinksStay
<1> QED BY <1>1, <1>2

\* What lookup matches is the request's own arguments, or has the directory that the
\* request leads to.
LEMMA MatchesAlike ==
  ASSUME LinksInv, NEW row \in Rows, NEW a \in Arguments, Matches(row, a)
  PROVE  Alike(link, row, a)
<1> SUFFICES ASSUME row.print # a
             PROVE  Alike(link, row, a)
  BY DEF Alike
<1>1. row.version = 1 /\ a.op = "create_thread" /\ row.print = [a EXCEPT !.cwd = link[a.cwd]]
  BY DEF Matches, Resolved
<1>2. a.cwd \in Paths
  BY <1>1 DEF Arguments
<1>3. row.print.cwd = link[a.cwd]
  BY <1>1 DEF Arguments
<1>4. link[a.cwd] # a.cwd
  BY <1>1 DEF Arguments
<1> QED BY <1>1, <1>2, <1>3, <1>4 DEF Alike, LinksInv

LEMMA OwnArguments ==
  ReplaysItsOwnArguments <=>
    \A c \in Calls : result[c].kind = "replayed" => Alike(link, Row(c), Args(c))
BY DEF ReplaysItsOwnArguments, Alike

\* A call that has a row has it in Rows.
LEMMA RowOfCall ==
  ASSUME IndInv, NEW d \in Calls, pc[d] # "new", Row(d) # None
  PROVE  Row(d) \in Rows
BY InvokedCall DEF IndInv, BridgeInv, BridgeTypeOK, Row

LEMMA ToldParts ==
  ASSUME NEW kind, NEW r
  PROVE  Told(kind, r).kind = kind /\ Told(kind, r).receipt = r
BY DEF Told

\* A call that is told nothing new keeps what it was told, when a row is written.
LEMMA OthersAreToldRight ==
  ASSUME IndInv, HistoryInv, StoryInv, ToldInv, LinksStay, NEW c \in Calls, NEW r \in Receipts,
         WritesReceipt(c, r), NEW d \in Calls, result'[d] = result[d]
  PROVE  /\ \/ result'[d].receipt = None
            \/ result'[d].kind = "replayed" /\ result'[d].receipt.status \notin Terminal
            \/ Row(d)' # None /\ Row(d)'.receipt = result'[d].receipt
         /\ result'[d].kind = "replayed" => Row(d)' # None /\ Alike(link', Row(d)', Args(d)')
<1>1. CASE result[d].kind = "none"
  BY <1>1 DEF ToldInv, Answered
<1>2. CASE result[d].kind # "none"
  <2>1. pc[d] # "new"
    BY <1>2, ToldParts DEF ToldInv, Answered
  <2>2. Id(d) \in Ids
    BY <2>1, InvokedCall DEF IndInv
  <2>3. CASE Id(d) # Id(c)
    <3>1. Row(d)' = Row(d) /\ Args(d)' = Args(d)
      BY <2>2, <2>3, RowWritten DEF Row
    <3>2. result[d].kind = "replayed" => Row(d) # None /\ Alike(link', Row(d), Args(d))
      BY <2>1, RowOfCall, InvokedCall, OwnArguments, AlikeStays DEF IndInv, ToldInv, Answered
    <3> QED BY <3>1, <3>2 DEF ToldInv, Answered, ToldIsRetained
  <2>4. CASE Id(d) = Id(c)
    <3>1. Row(d) = Row(c) /\ Row(d)' = Row(c)' /\ Args(d)' = Args(d)
      BY <2>4, RowWritten DEF Row
    <3>2. /\ Row(d)' # None /\ Row(c)'.print = Args(c)
          /\ Row(c) # None => Row(c).print = Args(c) /\ Row(c).version = 2
                              /\ Row(c).receipt.status \notin Terminal
      BY <3>1, RowWritten
    <3>3. CASE Row(c) = None
      BY <3>1, <3>3 DEF ToldInv, Answered, ToldIsRetained
    <3>4. CASE Row(c) # None
      <4>1. \/ result[d].receipt = None
            \/ result[d].kind = "replayed" /\ result[d].receipt.status \notin Terminal
            \/ Row(d).receipt = result[d].receipt
        BY DEF ToldInv, ToldIsRetained
      <4>2. result[d].kind \in {"none", "receipt", "replayed", "refused", "error"}
        BY DEF IndInv, BridgeInv, BridgeTypeOK, Results
      <4>3. \/ result[d].receipt = None
            \/ result[d].kind = "replayed" /\ result[d].receipt.status \notin Terminal
        BY <3>1, <3>2, <3>4, <4>1, <4>2 DEF ToldInv, Answered
      <4>4. result[d].kind = "replayed" => Args(d) = Args(c)
        <5>1. SUFFICES ASSUME result[d].kind = "replayed"
                       PROVE  Args(d) = Args(c)
          OBVIOUS
        <5>2. Alike(link, Row(d), Args(d))
          BY <5>1, OwnArguments DEF ToldInv
        <5>3. Row(d).print = Args(c) /\ Row(d).version = 2
          BY <3>1, <3>2, <3>4
        <5> QED BY <5>2, <5>3 DEF Alike
      <4> QED BY <3>1, <3>2, <4>3, <4>4 DEF Alike
    <3> QED BY <3>3, <3>4
  <2> QED BY <2>3, <2>4
<1> QED BY <1>1, <1>2

\* ToldInv is inductive, with HistoryInv and StoryInv.
LEMMA ToldInvKept ==
  ASSUME IndInv, HistoryInv, StoryInv, ToldInv, LinksInv, [Next]_vars
  PROVE  ToldInv'
<1>0. LinksStay
  BY LinksKept
<1>1. CASE WritesNothing
  <2> SUFFICES ASSUME NEW d \in Calls
               PROVE  /\ pc'[d] # "done" => result'[d] = Told("none", None)
                      /\ result'[d].kind \in {"none", "refused", "error"} =>
                           result'[d].receipt = None
                      /\ result'[d].kind = "receipt" => result'[d].receipt.status \in Terminal
                      /\ result'[d].kind = "replayed" => Row(d)' # None
                      /\ \/ result'[d].receipt = None
                         \/ /\ result'[d].kind = "replayed"
                            /\ result'[d].receipt.status \notin Terminal
                         \/ Row(d)' # None /\ Row(d)'.receipt = result'[d].receipt
                      /\ result'[d].kind = "replayed" => Alike(link', Row(d)', Args(d)')
    BY DEF ToldInv, Answered, ToldIsRetained, ReplaysItsOwnArguments, Alike
  <2>1. CASE pc[d] = "new"
    <3>1. result[d] = Told("none", None)
      BY <2>1 DEF ToldInv, Answered
    <3>2. result'[d] = result[d] /\ pc'[d] # "done"
      BY <1>1, <2>1 DEF WritesNothing
    <3> QED BY <3>1, <3>2, ToldParts
  <2>2. CASE pc[d] # "new"
    <3>1. Args(d)' = Args(d) /\ Row(d)' = Row(d)
      BY <1>1, <2>2 DEF WritesNothing, Args, Row, Id
    <3>2. CASE result'[d] = result[d] /\ (pc'[d] = "done" <=> pc[d] = "done")
      <4>1. result[d].kind = "replayed" => Row(d) # None /\ Alike(link', Row(d), Args(d))
        BY <1>0, <2>2, RowOfCall, InvokedCall, OwnArguments, AlikeStays
           DEF IndInv, ToldInv, Answered
      <4> QED BY <3>1, <3>2, <4>1 DEF ToldInv, Answered, ToldIsRetained
    <3>3. CASE pc'[d] = "done" /\ AnswersFound(d)
      <4>1. CASE result'[d] \in {Told("error", None), Told("refused", None)}
        BY <3>3, <4>1, ToldParts
      <4>2. CASE Row(d) # None /\ Matches(Row(d), Args(d))
                 /\ result'[d] = Told("replayed", Row(d).receipt)
        <5>1. result'[d].kind = "replayed" /\ result'[d].receipt = Row(d).receipt
          BY <4>2, ToldParts
        <5>2. Alike(link', Row(d), Args(d))
          BY <1>0, <2>2, <4>2, RowOfCall, InvokedCall, MatchesAlike, AlikeStays DEF IndInv
        <5> QED BY <3>1, <3>3, <4>2, <5>1, <5>2
      <4> QED BY <3>3, <4>1, <4>2 DEF AnswersFound
    <3> QED BY <1>1, <3>2, <3>3 DEF WritesNothing
  <2> QED BY <2>1, <2>2
<1>2. ASSUME NEW c \in Calls, NEW r \in Receipts, WritesReceipt(c, r)
      PROVE  ToldInv'
  <2> SUFFICES ASSUME NEW d \in Calls
               PROVE  /\ pc'[d] # "done" => result'[d] = Told("none", None)
                      /\ result'[d].kind \in {"none", "refused", "error"} =>
                           result'[d].receipt = None
                      /\ result'[d].kind = "receipt" => result'[d].receipt.status \in Terminal
                      /\ result'[d].kind = "replayed" => Row(d)' # None
                      /\ \/ result'[d].receipt = None
                         \/ /\ result'[d].kind = "replayed"
                            /\ result'[d].receipt.status \notin Terminal
                         \/ Row(d)' # None /\ Row(d)'.receipt = result'[d].receipt
                      /\ result'[d].kind = "replayed" => Alike(link', Row(d)', Args(d)')
    BY DEF ToldInv, Answered, ToldIsRetained, ReplaysItsOwnArguments, Alike
  <2>1. CASE result'[d] = result[d]
    <3>1. pc[d] # "done" \/ d # c
      BY <1>2 DEF WritesReceipt, MayWrite, Running
    <3>2. pc'[d] # "done" => result[d] = Told("none", None)
      BY <1>2, <3>1 DEF WritesReceipt, MayWrite, Running, ToldInv, Answered
    <3>3. /\ result[d].kind \in {"none", "refused", "error"} => result[d].receipt = None
          /\ result[d].kind = "receipt" => result[d].receipt.status \in Terminal
      BY DEF ToldInv, Answered
    <3>4. /\ \/ result'[d].receipt = None
             \/ result'[d].kind = "replayed" /\ result'[d].receipt.status \notin Terminal
             \/ Row(d)' # None /\ Row(d)'.receipt = result'[d].receipt
          /\ result'[d].kind = "replayed" => Row(d)' # None /\ Alike(link', Row(d)', Args(d)')
      BY <1>0, <1>2, <2>1, OthersAreToldRight
    <3> QED BY <2>1, <3>2, <3>3, <3>4
  <2>2. CASE d = c /\ pc'[c] = "done" /\ result'[c] = Told("error", None)
    BY <2>2, ToldParts
  <2>3. CASE /\ d = c /\ pc'[c] = "done"
             /\ result'[c] = Told("receipt", r) /\ r.status \in Terminal
    <3>1. result'[d].kind = "receipt" /\ result'[d].receipt = r
      BY <2>3, ToldParts
    <3>2. Row(c)' # None /\ Row(c)'.receipt = r
      BY <1>2, RowWritten
    <3> QED BY <2>3, <3>1, <3>2
  <2> QED BY <1>2, <2>1, <2>2, <2>3 DEF WritesReceipt
<1> QED BY <1>1, <1>2, EveryStep

LEMMA ToldInvariance == Spec => []ToldInv
<1>1. Init => ToldInv
  <2> SUFFICES ASSUME Init, NEW c \in Calls
               PROVE  result[c] = Told("none", None)
    BY ToldParts DEF ToldInv, Answered, ToldIsRetained, ReplaysItsOwnArguments
  <2> QED BY DEF Init
<1>2. IndInv /\ HistoryInv /\ StoryInv /\ ToldInv /\ LinksInv /\ [Next]_vars => ToldInv'
  BY ToldInvKept
<1> QED BY <1>1, <1>2, Invariance, HistoryInvariance, LinksInvariance, PTL DEF Spec

\* What a client has been told stays what the ledger holds.
THEOREM ToldStands == Spec => []ToldIsRetained
BY ToldInvariance, PTL DEF ToldInv

\* A receipt is replayed to its own arguments; one of version 1 also to a path that led
\* to its directory.
THEOREM ReplaysAreOwn == Spec => []ReplaysItsOwnArguments
BY ToldInvariance, PTL DEF ToldInv

-----------------------------------------------------------------------------
(***************************************************************************)
(* The mutation lock.  It is held by the one call of its process that is   *)
(* inside _mutate, and every step of that call brings it nearer to the end *)
(* of its script, where it returns the lock.                               *)
(***************************************************************************)
Inside == {"validate", "begin", "ready", "sent"}

LockInv ==
  \A c \in Calls, p \in Procs :
    holder[p] = c <=> pc[c] \in Inside /\ Proc(c) = p

\* How many steps a call inside _mutate can still take.
StepsLeft(c) ==
  CASE pc[c] = "validate" -> 12
    [] pc[c] = "begin"    -> 11
    [] pc[c] = "ready"    -> 12 - 2 * pos[c]
    [] pc[c] = "sent"     -> 11 - 2 * pos[c]
    [] OTHER              -> 0

\* The call goes on inside _mutate.
Advances(c) ==
  /\ pc[c] \in Inside
  /\ UNCHANGED holder
  /\ \/ pc[c] = "validate" /\ pc' = [pc EXCEPT ![c] = "begin"] /\ UNCHANGED pos
     \/ pc[c] = "ready" /\ pc' = [pc EXCEPT ![c] = "sent"] /\ UNCHANGED pos
     \/ \E j \in Positions :
          /\ pc[c] = "begin" \/ pos[c] < j
          /\ pc' = [pc EXCEPT ![c] = "ready"]
          /\ pos' = [pos EXCEPT ![c] = j]

\* The call takes the lock.
Enters(c) ==
  /\ AtLock(c)
  /\ holder' = [holder EXCEPT ![Proc(c)] = c]
  /\ \E how \in {"validate", "begin"} : pc' = [pc EXCEPT ![c] = how]
  /\ UNCHANGED pos

Leaves(c) ==
  /\ pc[c] \in Inside \union {"waiting"}
  /\ \E how \in {"done", "dead"} : Leave(c, how)
  /\ UNCHANGED pos

LEMMA ProceedMoves ==
  ASSUME IndInv, NEW c \in Calls, NEW i \in 0 .. 5, NEW saved, NEW r,
         pc[c] \in Inside, pc[c] = "begin" \/ i = pos[c],
         Proceed(c, i, saved, r)
  PROVE  Advances(c) \/ Leaves(c)
<1>1. PICK j \in Positions :
        /\ StepAfter(Args(c), r.mode, i, j)
        /\ IF Finished(Args(c), j)
           THEN Conclude(c, saved, WithStatus(r, "accepted"))
           ELSE /\ Put(c, saved)
                /\ pc' = [pc EXCEPT ![c] = "ready"]
                /\ pos' = [pos EXCEPT ![c] = j]
                /\ receipt' = [receipt EXCEPT ![c] = r]
                /\ UNCHANGED <<holder, result>>
  BY DEF Proceed
<1>2. CASE Finished(Args(c), j)
  BY <1>1, <1>2 DEF Conclude, Leaves
<1>3. CASE ~Finished(Args(c), j)
  BY <1>1, <1>3 DEF StepAfter, Advances, Positions
<1> QED BY <1>2, <1>3

\* What a step of a call does to the lock.
LEMMA CallMoves ==
  ASSUME IndInv, NEW c \in Calls, BridgeStep(c)
  PROVE  /\ UNCHANGED req
         /\ Enters(c) \/ Advances(c) \/ Leaves(c)
<1>1. CASE LookupRetained(c) \/ ValidateRefuses(c) \/ BeginRetained(c) \/ LedgerBusy(c)
  BY <1>1 DEF LookupRetained, ValidateRefuses, BeginRetained, LedgerBusy, AtLock, Leaves, Inside
<1>2. CASE LookupNothing(c) \/ Validated(c)
  BY <1>2 DEF LookupNothing, Validated, Enters, Advances, Inside
<1>3. CASE BeginFresh(c)
  <2>1. CASE Proceed(c, 0, FirstReceipt(Args(c)), FirstReceipt(Args(c)))
    BY <1>3, <2>1, ProceedMoves DEF BeginFresh, Inside
  <2>2. CASE Conclude(c, FreshReceipt, WithStatus(FirstReceipt(Args(c)), "outcome_unknown"))
    BY <1>3, <2>2 DEF BeginFresh, Conclude, Leaves, Inside
  <2> QED BY <1>3, <2>1, <2>2 DEF BeginFresh
<1>4. CASE Dispatch(c)
  BY <1>4 DEF Dispatch, Advances, Inside
<1>5. CASE Lose(c) \/ InitializeRejected(c)
  BY <1>5 DEF Lose, InitializeRejected, Conclude, Leaves, Inside
<1>6. pos[c] \in 0 .. 5
  BY DEF IndInv, BridgeInv, BridgeTypeOK, Positions
<1>7. CASE Close(c)
  BY <1>6, <1>7, ProceedMoves DEF Close, Inside
<1>8. CASE \E a \in replies : Receive(c, a)
  <2>1. PICK a \in replies : Receive(c, a)
    BY <1>8
  <2>2. pc[c] \in Inside /\ UNCHANGED req
    BY <2>1 DEF Receive, Inside
  <2>3. \/ \E last, r : Conclude(c, last, r)
        \/ \E saved, r : Proceed(c, pos[c], saved, r)
    BY <2>1 DEF Receive
  <2>4. CASE \E last, r : Conclude(c, last, r)
    BY <2>2, <2>4 DEF Conclude, Leaves
  <2>5. CASE \E saved, r : Proceed(c, pos[c], saved, r)
    BY <1>6, <2>2, <2>5, ProceedMoves
  <2> QED BY <2>2, <2>3, <2>4, <2>5
<1> QED BY <1>1, <1>2, <1>3, <1>4, <1>5, <1>7, <1>8 DEF BridgeStep

LEMMA MovesKeepLock ==
  ASSUME IndInv, LockInv, NEW c \in Calls, UNCHANGED req,
         Enters(c) \/ Advances(c) \/ Leaves(c)
  PROVE  LockInv'
<1> USE DEF IndInv, BridgeInv, BridgeTypeOK, DedupInv, Invoked
<1>0. None \notin Calls /\ Proc(c) \in Procs
  BY ConstantsAssumption, InvokedCall DEF Enters, Advances, Leaves, AtLock, Inside, Proc
<1>1. CASE Enters(c)
  BY <1>0, <1>1 DEF LockInv, Enters, AtLock, Inside, Proc
<1>2. CASE Advances(c)
  BY <1>2 DEF LockInv, Advances, Inside, Proc
<1>3. CASE Leaves(c)
  BY <1>0, <1>3 DEF LockInv, Leaves, Leave, Release, Inside, Proc
<1> QED BY <1>1, <1>2, <1>3

LEMMA LockInit == ASSUME Init PROVE LockInv
<1>1. None \notin Calls
  BY ConstantsAssumption
<1> QED BY <1>1 DEF Init, LockInv, Inside

LEMMA LockStep == ASSUME IndInv, LockInv, [Next]_vars PROVE LockInv'
<1> USE DEF IndInv, BridgeInv, BridgeTypeOK
<1>0. None \notin Calls
  BY ConstantsAssumption
<1>1. ASSUME NEW c \in Calls, NEW p \in Procs, NEW i \in Ids, NEW a \in Requested,
             Invoke(c, p, i, a)
      PROVE  LockInv'
  BY <1>1 DEF Invoke, LockInv, Inside, Proc
<1>2. ASSUME NEW c \in Calls, BridgeStep(c)
      PROVE  LockInv'
  BY <1>2, CallMoves, MovesKeepLock
<1>3. ASSUME NEW c \in Calls, Cancel(c)
      PROVE  LockInv'
  BY <1>3, MovesKeepLock DEF Cancel, Leaves, Inside
<1>4. ASSUME NEW p \in Procs, Crash(p)
      PROVE  LockInv'
  BY <1>0, <1>4 DEF Crash, LockInv, Inside, Proc
<1>5. CASE UNCHANGED callVars
  BY <1>5 DEF callVars, LockInv, Inside, Proc
<1>6. CASE UNCHANGED vars
  BY <1>5, <1>6 DEF vars
<1>7. CASE \/ \E p \in Procs : Disconnect(p)
           \/ \E r \in inbox, says \in Answers : Handle(r, says)
           \/ \E x \in Paths : MakeOrRemove(x) \/ \E d \in Paths : Relink(x, d)
  BY <1>5, <1>7 DEF Disconnect, Handle, MakeOrRemove, Relink
<1> QED BY <1>1, <1>2, <1>3, <1>4, <1>6, <1>7 DEF Next, Environment

LEMMA LockInvariance == Spec => []LockInv
<1>1. Init => LockInv
  BY LockInit
<1>2. IndInv /\ LockInv /\ [Next]_vars => LockInv'
  BY LockStep
<1> QED BY <1>1, <1>2, Invariance, PTL DEF Spec

\* The row of its arguments is there, and call c comes to its lookup or claim or has
\* been answered.
Sure(c) ==
  \/ /\ pc[c] \in {"waiting", "begin"} /\ Row(c) # None /\ Row(c).print = Args(c)
     /\ result[c].kind = "none"
  \/ pc[c] \in {"done", "dead"} /\ result[c].kind # "refused"

\* A call that comes to a row that is there is answered at once, or dies.
LEMMA ClaimedMoves ==
  ASSUME IndInv, [Next]_vars, NEW c \in Calls, pc[c] \in {"waiting", "begin"}, Row(c) # None
  PROVE  pc'[c] \in {pc[c], "done", "dead"}
<1> USE DEF IndInv, BridgeInv, BridgeTypeOK
<1>1. ASSUME BridgeStep(c)
      PROVE  pc'[c] \in {pc[c], "done", "dead"}
  BY <1>1 DEF BridgeStep, LookupRetained, LookupNothing, FindsNothing, ValidateRefuses,
              Validated, BeginFresh, Claims, BeginRetained, LedgerBusy, Dispatch, Lose,
              InitializeRejected, Close, Receive, AtLock, Leave
<1>2. ASSUME NEW d \in Calls \ {c}, BridgeStep(d)
      PROVE  pc'[c] = pc[c]
  BY <1>2, CallMoves DEF Enters, Advances, Leaves, Leave
<1>3. ASSUME NEW d \in Calls, NEW p \in Procs, NEW i \in Ids, NEW a \in Requested,
             Invoke(d, p, i, a)
      PROVE  pc'[c] = pc[c]
  BY <1>3 DEF Invoke
<1>4. CASE Environment
  BY <1>4 DEF Environment, Cancel, Leave, Crash, Disconnect, Handle, MakeOrRemove, Relink,
              callVars
<1> QED BY <1>1, <1>2, <1>3, <1>4 DEF Next, vars, callVars

LEMMA SureStays ==
  ASSUME IndInv, HistoryInv, StoryInv, ToldInv, [Next]_vars, NEW c \in Calls, Sure(c)
  PROVE  Sure(c)'
<1>1. pc[c] \notin {"new", "validate", "ready", "sent"}
  BY DEF Sure
<1>2. CASE WritesNothing
  <2>1. Args(c)' = Args(c) /\ Row(c)' = Row(c)
    BY <1>1, <1>2 DEF WritesNothing, Args, Row, Id
  <2>2. CASE pc[c] \in {"done", "dead"}
    <3>1. pc'[c] \notin Early /\ ~Running(c)' /\ result'[c] = result[c]
      BY <1>2, <2>2 DEF WritesNothing, Early, Running
    <3>2. pc'[c] \in {"done", "dead"}
      BY <3>1, NextInd DEF IndInv, BridgeInv, BridgeTypeOK, Early, Running
    <3> QED BY <2>2, <3>1, <3>2 DEF Sure
  <2>3. CASE pc[c] \in {"waiting", "begin"}
    <3>1. /\ Row(c) # None /\ Row(c).print = Args(c) /\ result[c].kind = "none"
          /\ pc'[c] \in {pc[c], "done", "dead"}
      BY <2>3, ClaimedMoves DEF Sure
    <3>2. CASE result'[c] = result[c]
      BY <2>1, <2>3, <3>1, <3>2 DEF Sure
    <3>3. CASE pc'[c] = "done" /\ AnswersFound(c)
      BY <2>3, <3>1, <3>3, ToldParts DEF AnswersFound, Matches, Sure
    <3> QED BY <1>2, <3>2, <3>3 DEF WritesNothing
  <2> QED BY <1>1, <2>2, <2>3 DEF Sure
<1>3. ASSUME NEW d \in Calls, NEW r \in Receipts, WritesReceipt(d, r)
      PROVE  Sure(c)'
  <2>1. d # c
    BY <1>3 DEF WritesReceipt, MayWrite, Running, Sure
  <2>2. pc'[c] = pc[c] /\ result'[c] = result[c] /\ Args(c)' = Args(c) /\ Id(c)' = Id(c)
    BY <1>3, <2>1, RowWritten DEF WritesReceipt
  <2>3. CASE pc[c] \in {"waiting", "begin"}
    <3>1. Id(c) \in Ids /\ Row(c) # None /\ Row(c).print = Args(c)
      BY <2>3, InvokedCall DEF IndInv, Sure
    <3>2. Row(c)' # None /\ Row(c)'.print = Args(c)
      <4>1. CASE Id(c) # Id(d)
        BY <1>3, <2>2, <3>1, <4>1, RowWritten DEF Row
      <4>2. CASE Id(c) = Id(d)
        BY <1>3, <2>2, <3>1, <4>2, RowWritten DEF Row
      <4> QED BY <4>1, <4>2
    <3> QED BY <2>2, <2>3, <3>2 DEF Sure
  <2> QED BY <2>2, <2>3 DEF Sure
<1> QED BY <1>2, <1>3, EveryStep

\* Whoever comes to its lookup or its claim when the row of its own arguments is there
\* is not refused, whatever becomes of its directory, of links and of other processes.
THEOREM RetriesAreAnswered == Spec => RetryIsNeverRefused
<1> DEFINE Comes(c) == pc[c] \in {"waiting", "begin"} /\ Row(c) # None /\ Row(c).print = Args(c)
           Spared(c) == result[c].kind # "refused"
<1> SUFFICES ASSUME NEW c \in Calls
             PROVE  Spec => [](Comes(c) => []Spared(c))
  BY DEF RetryIsNeverRefused
<1>1. ToldInv /\ Comes(c) => Sure(c)
  BY ToldParts DEF ToldInv, Answered, Sure
<1>2. IndInv /\ HistoryInv /\ StoryInv /\ ToldInv /\ Sure(c) /\ [Next]_vars => Sure(c)'
  BY SureStays
<1>3. Sure(c) => Spared(c)
  BY DEF Sure
<1> QED BY <1>1, <1>2, <1>3, Invariance, HistoryInvariance, ToldInvariance, PTL DEF Spec

\* No two calls of a process are inside _mutate at once (bridge.py, _mutation_lock).
OneInside ==
  \A c, d \in Calls : pc[c] \in Inside /\ pc[d] \in Inside /\ Proc(c) = Proc(d) => c = d

\* The lock serialises what the calls of one process do to the ledger and to the
\* App Server, whatever is cancelled and however often the process is restarted.
THEOREM LockSerialises == Spec => []OneInside
<1>1. IndInv /\ LockInv => OneInside
  <2> SUFFICES ASSUME IndInv, LockInv, NEW c \in Calls, NEW d \in Calls,
                      pc[c] \in Inside, pc[d] \in Inside, Proc(c) = Proc(d)
               PROVE  c = d
    BY DEF OneInside
  <2>1. Proc(c) \in Procs
    BY InvokedCall DEF IndInv, Inside
  <2> QED BY <2>1 DEF LockInv
<1> QED BY <1>1, Invariance, LockInvariance, PTL

-----------------------------------------------------------------------------
(***************************************************************************)
(* Liveness.  The provers know nothing of ENABLED: that a call inside      *)
(* _mutate can always take a step, if only to give up a request that is    *)
(* not answered, is a hypothesis.  TLC finds it an invariant.              *)
(***************************************************************************)
GuardsEnable == \A c \in Calls : pc[c] \in Inside => ENABLED <<BridgeStep(c)>>_vars

Served == FairSpec /\ []GuardsEnable

Over(c) == pc[c] \in {"done", "dead"}

\* Call c is inside _mutate and can take at most k steps there.
Within(c, k) == pc[c] \in Inside /\ StepsLeft(c) <= k

LEMMA StepsLeftType ==
  ASSUME IndInv, NEW c \in Calls
  PROVE  StepsLeft(c) \in 0 .. 12 /\ (pc[c] \in Inside => StepsLeft(c) > 0)
BY DEF IndInv, BridgeInv, BridgeTypeOK, Positions, StepsLeft, Inside

\* Nothing that others do moves a call; its own steps take it onwards.
LEMMA Onward ==
  ASSUME IndInv, NEW c \in Calls, NEW k \in 1 .. 12, Within(c, k), [Next]_vars
  PROVE  /\ Within(c, k)' \/ Over(c)'
         /\ BridgeStep(c) => Within(c, k - 1)' \/ Over(c)'
<1> USE DEF IndInv, BridgeInv, BridgeTypeOK
<1>0. StepsLeft(c) \in 1 .. 12
  BY StepsLeftType DEF Within
<1>1. ASSUME BridgeStep(c)
      PROVE  Within(c, k - 1)' \/ Over(c)'
  <2>1. CASE Advances(c)
    BY <1>0, <2>1 DEF Advances, Within, StepsLeft, Inside, Positions
  <2>2. CASE Leaves(c)
    BY <2>2 DEF Leaves, Leave, Over
  <2>3. ~Enters(c)
    BY DEF Enters, AtLock, Within, Inside
  <2> QED BY <1>1, <2>1, <2>2, <2>3, CallMoves
<1>2. Within(c, k - 1)' => Within(c, k)'
  <2> SUFFICES ASSUME Within(c, k - 1)'
               PROVE  StepsLeft(c)' <= k
    BY DEF Within
  <2>1. pos' \in [Calls -> Positions] /\ pc'[c] \in Inside
    BY NextInd DEF Within
  <2>2. StepsLeft(c)' \in Nat
    BY <2>1 DEF StepsLeft, Positions, Inside
  <2> QED BY <2>2 DEF Within
<1>3. ASSUME UNCHANGED <<pc[c], pos[c]>>
      PROVE  Within(c, k)'
  BY <1>3 DEF Within, StepsLeft
<1>4. ASSUME NEW d \in Calls, d # c, BridgeStep(d)
      PROVE  UNCHANGED <<pc[c], pos[c]>>
  BY <1>4, CallMoves DEF Enters, Advances, Leaves, Leave
<1>5. ASSUME NEW d \in Calls, NEW p \in Procs, NEW i \in Ids, NEW a \in Requested,
             Invoke(d, p, i, a)
      PROVE  UNCHANGED <<pc[c], pos[c]>>
  BY <1>5 DEF Invoke, Within, Inside
<1>6. ASSUME NEW d \in Calls, Cancel(d)
      PROVE  UNCHANGED <<pc[c], pos[c]>> \/ Over(c)'
  BY <1>6 DEF Cancel, Leave, Over
<1>7. ASSUME NEW p \in Procs, Crash(p)
      PROVE  UNCHANGED <<pc[c], pos[c]>> \/ Over(c)'
  BY <1>7 DEF Crash, Over
<1>8. ASSUME UNCHANGED callVars \/ UNCHANGED vars
      PROVE  UNCHANGED <<pc[c], pos[c]>>
  BY <1>8 DEF callVars, vars
<1>9. ASSUME \/ \E p \in Procs : Disconnect(p)
             \/ \E r \in inbox, says \in Answers : Handle(r, says)
             \/ \E x \in Paths : MakeOrRemove(x) \/ \E d \in Paths : Relink(x, d)
      PROVE  UNCHANGED <<pc[c], pos[c]>>
  BY <1>8, <1>9 DEF Disconnect, Handle, MakeOrRemove, Relink
<1>10. Within(c, k)' \/ Over(c)'
  BY <1>1, <1>2, <1>3, <1>4, <1>5, <1>6, <1>7, <1>8, <1>9 DEF Next, Environment
<1> QED BY <1>1, <1>10

\* A call with k steps left takes one of them, or is over.
Nears(c, k) == Within(c, k) ~> Within(c, k - 1) \/ Over(c)

LEMMA CallProgress ==
  ASSUME NEW c \in Calls, NEW k \in 1 .. 12
  PROVE  Served => Nears(c, k)
<1>1. Fairness => FairTo(c)
  BY DEF Fairness
<1>2. IndInv /\ Within(c, k) /\ [Next]_vars => Within(c, k)' \/ Over(c)'
  BY Onward
<1>3. IndInv /\ Within(c, k) /\ <<BridgeStep(c)>>_vars => Within(c, k - 1)' \/ Over(c)'
  <2>1. BridgeStep(c) => Next
    BY DEF Next
  <2> QED BY <2>1, Onward
<1>4. GuardsEnable /\ Within(c, k) => ENABLED <<BridgeStep(c)>>_vars
  BY DEF GuardsEnable, Within
<1> QED BY <1>1, <1>2, <1>3, <1>4, Invariance, PTL DEF Served, FairSpec, Spec, FairTo, Nears

\* A call that is inside _mutate leaves it.
InsideEnds == \A c \in Calls : pc[c] \in Inside ~> pc[c] \in {"done", "dead"}

\* Once it has the lock a call ends, whatever the server does or fails to do and
\* whatever other calls and processes do: no request is waited for forever.
THEOREM CallsInsideEnd == FairSpec /\ []GuardsEnable => InsideEnds
<1> DEFINE At(c) == pc[c] \in Inside
           Ended(c) == pc[c] \in {"done", "dead"}
<1> SUFFICES ASSUME NEW c \in Calls
             PROVE  FairSpec /\ []GuardsEnable => (At(c) ~> Ended(c))
  BY DEF InsideEnds
<1>0. {1, 2, 3, 4, 5, 6, 7, 8, 9, 10, 11, 12} \subseteq 1 .. 12
  OBVIOUS
<1>1. /\ Served => Nears(c, 1)
      /\ Served => Nears(c, 2)
      /\ Served => Nears(c, 3)
      /\ Served => Nears(c, 4)
      /\ Served => Nears(c, 5)
      /\ Served => Nears(c, 6)
      /\ Served => Nears(c, 7)
      /\ Served => Nears(c, 8)
      /\ Served => Nears(c, 9)
      /\ Served => Nears(c, 10)
      /\ Served => Nears(c, 11)
      /\ Served => Nears(c, 12)
  BY <1>0, CallProgress, Zenon
<1>2. /\ IndInv => ~Within(c, 1 - 1)
      /\ Within(c, 2 - 1) => Within(c, 1)
      /\ Within(c, 3 - 1) => Within(c, 2)
      /\ Within(c, 4 - 1) => Within(c, 3)
      /\ Within(c, 5 - 1) => Within(c, 4)
      /\ Within(c, 6 - 1) => Within(c, 5)
      /\ Within(c, 7 - 1) => Within(c, 6)
      /\ Within(c, 8 - 1) => Within(c, 7)
      /\ Within(c, 9 - 1) => Within(c, 8)
      /\ Within(c, 10 - 1) => Within(c, 9)
      /\ Within(c, 11 - 1) => Within(c, 10)
      /\ Within(c, 12 - 1) => Within(c, 11)
      /\ IndInv /\ At(c) => Within(c, 12)
      /\ Over(c) => Ended(c)
  BY StepsLeftType DEF Within, Over
<1> QED BY <1>1, <1>2, Invariance, PTL DEF Served, FairSpec, Nears

\* No call keeps the mutation lock of its process.
LockComesBack == \A c \in Calls, p \in Procs : holder[p] = c ~> holder[p] # c

\* Whoever holds the lock hands it back, so no call waits behind one that hangs.
THEOREM LockIsReturned == FairSpec /\ []GuardsEnable => LockComesBack
<1> DEFINE Held(c, p) == holder[p] = c
           Free(c, p) == holder[p] # c
           At(c) == pc[c] \in Inside
           Ended(c) == pc[c] \in {"done", "dead"}
<1> SUFFICES ASSUME NEW c \in Calls, NEW p \in Procs
             PROVE  FairSpec /\ []GuardsEnable => (Held(c, p) ~> Free(c, p))
  BY DEF LockComesBack
<1>1. LockInv => (Held(c, p) => At(c))
  BY DEF LockInv
<1>2. LockInv /\ Ended(c) => Free(c, p)
  BY DEF LockInv, Inside
<1>3. InsideEnds => (At(c) ~> Ended(c))
  BY DEF InsideEnds
<1> QED BY <1>1, <1>2, <1>3, CallsInsideEnd, LockInvariance, PTL DEF FairSpec
=============================================================================

--------------------------- MODULE WorktreeLaunch ---------------------------
(***************************************************************************)
(* create_worktree_thread (bridge.py) and Worktree (worktrees.py): one     *)
(* launch validates a destination, reserves it, has git make and check out *)
(* a worktree there, has the App Server start a thread in it, and sends    *)
(* the initial prompt once it has looked at the checkout again.            *)
(*                                                                         *)
(* Each launch here is a request_id that was claimed; how a request_id is  *)
(* claimed is in Mutations.  A step is what the bridge does between two    *)
(* awaits, or up to the next save of the receipt.  Work that others do     *)
(* meanwhile, git's child processes and the App Server, is a set of tasks. *)
(***************************************************************************)
CONSTANTS Launches,   \* request_ids that were claimed for a launch
          Procs,      \* bridge processes that share a ledger and an App Server
          Dests,      \* destinations
          Inside,     \* pairs <<d, e>>: destination d lies inside destination e
          Requested   \* arguments the launches may have

VARIABLES
  args,      \* the process, destination and wishes of each launch
  at,        \* what each launch does next, or waits for
  out,       \* the answer a launch has to what it waits for
  memory,    \* the receipt in memory
  row,       \* the receipt in the ledger
  todo,      \* tasks <<launch, work>> of git children and of the App Server
  tree,      \* what is at each destination
  changed,   \* destinations a user has written to
  thread,    \* the thread the App Server started for each launch
  made,      \* history: the launches that made the directory at their destination
  asked,     \* history: the tasks ever given
  early      \* history: launches whose destination changed before the last look

files == <<tree, changed, made>>
vars == <<args, at, out, memory, row, todo, files, thread, asked, early>>

GitWork == {"list", "add", "checkout", "inspect", "reinspect"}
ServerWork == {"thread/start", "thread/name/set", "turn/start"}
Work == GitWork \union ServerWork

\* Where a launch awaits something; at the other steps it saves and goes on.
Awaits == Work \union {"check path", "reserve"}
Steps == Awaits \union {"new", "begin", "mkdir", "compare", "environment",
                        "recompare", "finish", "accept", "done", "dead"}
Alive == Steps \ {"new", "done", "dead"}

Phases == {"none", "validating", "reserving_destination", "creating_worktree",
           "checking_out_worktree", "checking_worktree", "worktree_checked",
           "creating_thread", "checking_environment", "naming_thread", "thread_named",
           "checking_before_dispatch", "dispatching_initial_prompt",
           "initial_prompt_accepted", "complete"}

Receipts ==
  [status : {"none", "in_progress_or_unknown", "accepted", "failed", "outcome_unknown"},
   phase : Phases,
   state : {"planned", "reserved", "registered", "created"},
   thread : BOOLEAN,
   prompt : {"not_requested", "not_sent", "outcome_unknown", "accepted"},
   recovery : BOOLEAN]

Blank == [status |-> "none", phase |-> "none", state |-> "planned", thread |-> FALSE,
          prompt |-> "not_requested", recovery |-> FALSE]

Arguments == [proc : Procs, dest : Dests, title : BOOLEAN, prompt : BOOLEAN]

ASSUME LaunchAssumption == Requested \subseteq Arguments /\ Inside \subseteq Dests \X Dests

TypeOK ==
  /\ args \in [Launches -> Arguments]
  /\ at \in [Launches -> Steps]
  /\ out \in [Launches -> {"none", "ok", "differs", "rejected"}]
  /\ memory \in [Launches -> Receipts]
  /\ row \in [Launches -> Receipts]
  /\ todo \subseteq asked /\ asked \subseteq Launches \X Work
  /\ tree \in [Dests -> {"absent", "directory", "bare", "full"}]
  /\ changed \subseteq Dests
  /\ thread \in [Launches -> {"none", "ok", "differs"}]
  /\ made \subseteq Launches /\ early \subseteq Launches

Init ==
  /\ args \in [Launches -> Requested]
  /\ at = [l \in Launches |-> "new"]
  /\ out = [l \in Launches |-> "none"]
  /\ memory = [l \in Launches |-> Blank]
  /\ row = [l \in Launches |-> Blank]
  /\ todo = {} /\ asked = {} /\ made = {} /\ early = {} /\ changed = {}
  /\ tree = [d \in Dests |-> "absent"]
  /\ thread = [l \in Launches |-> "none"]

Dest(l) == args[l].dest
Around(d) == {e \in Dests : <<d, e>> \in Inside}
Within(d) == {e \in Dests : <<e, d>> \in Inside}
IsWorktree(d) == tree[d] \in {"bare", "full"}

\* git status sees a worktree, or a user's files, inside the checkout.
Matches(d) ==
  /\ tree[d] = "full"
  /\ d \notin changed
  /\ \A e \in Within(d) : ~IsWorktree(e) /\ e \notin changed

-----------------------------------------------------------------------------
(* Saving a receipt, and leaving _mutate. *)

\* The end of _mutate: the last save succeeds, or the row stays as it is.
End(l, r, status) ==
  /\ at' = [at EXCEPT ![l] = "done"]
  /\ memory' = [memory EXCEPT ![l] = [r EXCEPT !.status = status]]
  /\ row' \in {row, [row EXCEPT ![l] = memory'[l]]}
  /\ UNCHANGED <<out, asked, todo>>

\* WorktreeError and RpcError.
Fail(l) == End(l, memory[l], "failed")

\* The launch goes on with the next step; a task is given when it awaits one.
GoOn(l, step) ==
  LET task == {<<l, step>>} \intersect (Launches \X Work)
  IN  /\ at' = [at EXCEPT ![l] = step]
      /\ out' = [out EXCEPT ![l] = IF task = {} THEN @ ELSE "none"]
      /\ asked' = asked \union task
      /\ todo' = todo \union task

Continue(l, step) == GoOn(l, step) /\ UNCHANGED <<memory, row>>

\* A receipt that is kept in memory until the task it announces has been given.
SavesAfterwards(l, r, step) ==
  \/ GoOn(l, step) /\ memory' = [memory EXCEPT ![l] = r] /\ UNCHANGED row
  \/ End(l, r, "outcome_unknown")

\* checkpoint(): the receipt is saved before what it announces is done; an
\* OperationalError of SQLite ends the launch instead.
Checkpoint(l, r, step) ==
  \/ GoOn(l, step) /\ memory' = [memory EXCEPT ![l] = r] /\ row' = [row EXCEPT ![l] = r]
  \/ End(l, r, "outcome_unknown")

\* checkpoint(phase) with nothing else to say.
Enter(l, phase, step) == Checkpoint(l, [memory[l] EXCEPT !.phase = phase], step)

others == <<args, files, thread, early>>

-----------------------------------------------------------------------------
(* The launch, one phase after another. *)

\* The row is inserted; _mutation_lock admits one launch of a process at a time.
Begin(l) ==
  /\ at[l] = "new"
  /\ \A m \in Launches : args[m].proc = args[l].proc => at[m] \notin Alive
  /\ at' = [at EXCEPT ![l] = "begin"]
  /\ memory' = [memory EXCEPT ![l].status = "in_progress_or_unknown"]
  /\ row' = [row EXCEPT ![l] = memory'[l]]
  /\ UNCHANGED <<others, out, todo, asked>>

Announce(l) ==
  /\ at[l] = "begin"
  /\ Checkpoint(l, [memory[l] EXCEPT !.phase = "validating", !.recovery = TRUE,
                      !.prompt = IF args[l].prompt THEN "not_sent" ELSE "not_requested"],
                "check path")

\* The destination is absent, its parent is a directory, no parent has a .git.
PathFree(d) ==
  /\ tree[d] = "absent"
  /\ \A e \in Around(d) : tree[e] # "absent" /\ ~IsWorktree(e)

\* The last of the checks of validate is a list of the worktrees.
CheckPath(l) ==
  /\ at[l] = "check path"
  /\ (PathFree(Dest(l)) /\ Continue(l, "list")) \/ Fail(l)

\* to_thread and project/read follow; project/read may be rejected.
CheckList(l) == at[l] = "list" /\ out[l] = "ok" /\ Continue(l, "reserve")

Reserve(l) ==
  /\ at[l] = "reserve"
  /\ Enter(l, "reserving_destination", "mkdir") \/ Fail(l)

\* mkdir with exist_ok.
MkdirAdopts(d) == tree[d] \in {"absent", "directory"}

MkdirSucceeds(d) == tree[d] = "absent"

\* The exclusive mkdir and, without an await, the next checkpoint.
MakeDirectory(l) ==
  /\ at[l] = "mkdir"
  /\ MkdirSucceeds(Dest(l))
  /\ tree' = [tree EXCEPT ![Dest(l)] = "directory"]
  /\ made' = made \union {l}
  /\ Checkpoint(l, [memory[l] EXCEPT !.state = "reserved", !.phase = "creating_worktree"], "add")
  /\ UNCHANGED <<args, changed, thread, early>>

\* FileExistsError is not one of the failures _mutate knows.
DirectoryExists(l) ==
  /\ at[l] = "mkdir" /\ ~MkdirSucceeds(Dest(l))
  /\ End(l, memory[l], "outcome_unknown")

Added(l) ==
  /\ at[l] = "add" /\ out[l] = "ok"
  /\ Checkpoint(l, [memory[l] EXCEPT !.state = "registered", !.phase = "checking_out_worktree"],
                "checkout")

CheckedOut(l) ==
  /\ at[l] = "checkout" /\ out[l] = "ok"
  /\ Checkpoint(l, [memory[l] EXCEPT !.state = "created", !.phase = "checking_worktree"], "inspect")

Inspected(l) ==
  /\ at[l] = "inspect" /\ out[l] \in {"ok", "differs"}
  /\ Enter(l, "worktree_checked", "compare")

\* Placement and base are as requested, or no thread is started.
Compare(l) ==
  /\ at[l] = "compare"
  /\ IF out[l] = "ok" THEN Enter(l, "creating_thread", "thread/start") ELSE Fail(l)

ThreadStarted(l) ==
  /\ at[l] = "thread/start" /\ out[l] \in {"ok", "differs"}
  /\ Checkpoint(l, [memory[l] EXCEPT !.thread = TRUE, !.phase = "checking_environment"],
                "environment")

CheckEnvironment(l) ==
  /\ at[l] = "environment"
  /\ \/ out[l] = "differs" /\ Fail(l)
     \/ out[l] = "ok" /\ args[l].title /\ Enter(l, "naming_thread", "thread/name/set")
     \/ out[l] = "ok" /\ ~args[l].title /\ Continue(l, "reinspect")

Named(l) ==
  /\ at[l] = "thread/name/set" /\ out[l] = "ok"
  /\ Enter(l, "thread_named", "reinspect")

Reinspected(l) ==
  /\ at[l] = "reinspect" /\ out[l] \in {"ok", "differs"}
  /\ Enter(l, "checking_before_dispatch", "recompare")

DispatchesRegardless(l) == TRUE

\* The checkout must still match before the prompt is sent.
StillMatches(l) == out[l] = "ok"

Recompare(l) ==
  /\ at[l] = "recompare"
  /\ \/ ~StillMatches(l) /\ Fail(l)
     \/ StillMatches(l) /\ ~args[l].prompt /\ Continue(l, "finish")
     \/ /\ StillMatches(l) /\ args[l].prompt
        /\ Checkpoint(l, [memory[l] EXCEPT !.phase = "dispatching_initial_prompt",
                                           !.prompt = "outcome_unknown"], "turn/start")

\* A prompt that is sent without waiting for the answer.
SentUnheard(l) == at[l] = "turn/start"

PromptTaken(l) == at[l] = "turn/start" /\ out[l] = "ok"

PromptAccepted(l) ==
  /\ PromptTaken(l)
  /\ Checkpoint(l, [memory[l] EXCEPT !.phase = "initial_prompt_accepted", !.prompt = "accepted"],
                "finish")

Finish(l) ==
  /\ at[l] = "finish"
  /\ Checkpoint(l, [memory[l] EXCEPT !.phase = "complete", !.recovery = FALSE], "accept")

Accept(l) == at[l] = "accept" /\ End(l, memory[l], "accepted")

\* git's exit status, or the server's answer, was an error.
Rejected(l) == at[l] \in Work /\ out[l] = "rejected" /\ Fail(l)

-----------------------------------------------------------------------------
(* Launches that are stopped. *)

\* git() that leaves its child running.
LeavesChild(l) == {}

\* git() kills its child before it lets the exception go on; a request to the
\* App Server cannot be taken back.
Killed(l) == {l} \X GitWork

LostAsFailed == "failed"

\* The status after TimeoutError, TransportError, OSError and CancelledError.
LostStatus == "outcome_unknown"

TimesOutOnServer(l) == at[l] \in Awaits \ GitWork

\* 30 seconds for a git command, AppServer.timeout for a request; or the client
\* cancels the call.
TimesOut(l) == at[l] \in Awaits

Lose(l) ==
  /\ TimesOut(l)
  /\ at' = [at EXCEPT ![l] = "done"]
  /\ memory' = [memory EXCEPT ![l].status = LostStatus]
  /\ row' \in {row, [row EXCEPT ![l] = memory'[l]]}
  /\ todo' = todo \ Killed(l)
  /\ UNCHANGED <<others, out, asked>>

\* A process is killed; its git children run on.
Crash(p) ==
  /\ \E l \in Launches : args[l].proc = p /\ at[l] \in Alive
  /\ at' = [l \in Launches |-> IF args[l].proc = p /\ at[l] \in Alive THEN "dead" ELSE at[l]]
  /\ UNCHANGED <<others, out, memory, row, todo, asked>>

-----------------------------------------------------------------------------
(* git, the App Server and the user. *)

\* A task ends with an outcome; its launch may no longer be there to see it.
Outcome(l, work, answer) ==
  /\ <<l, work>> \in todo
  /\ todo' = todo \ {<<l, work>>}
  /\ out' = [out EXCEPT ![l] = IF at[l] = work THEN answer ELSE @]
  /\ UNCHANGED <<args, at, memory, row, changed, asked, early>>

\* A destination inside a listed worktree is refused.
GitLists(l) ==
  /\ Outcome(l, "list", IF \E e \in Around(Dest(l)) : IsWorktree(e) THEN "rejected" ELSE "ok")
  /\ UNCHANGED <<tree, thread, made>>

Empty(d) ==
  tree[d] = "directory" /\ d \notin changed /\ \A e \in Within(d) : tree[e] = "absent"

\* git worktree add wants a directory with nothing in it.
GitAdds(l) ==
  /\ Empty(Dest(l))
  /\ Outcome(l, "add", "ok")
  /\ tree' = [tree EXCEPT ![Dest(l)] = "bare"]
  /\ UNCHANGED <<thread, made>>

\* git worktree add that fails midway removes what it made, and the directory.
GitUndoes(l) ==
  /\ Empty(Dest(l))
  /\ Outcome(l, "add", "rejected")
  /\ tree' = [tree EXCEPT ![Dest(l)] = "absent"]
  /\ made' = made \ {l}
  /\ UNCHANGED thread

GitChecksOut(l) ==
  /\ Outcome(l, "checkout", "ok")
  /\ tree' = [tree EXCEPT ![Dest(l)] = "full"]
  /\ UNCHANGED <<thread, made>>

GitInspects(l) ==
  /\ \E work \in {"inspect", "reinspect"} :
       Outcome(l, work, IF Matches(Dest(l)) THEN "ok" ELSE "differs")
  /\ UNCHANGED <<tree, thread, made>>

\* No disk space, a lock, a file in the way.
GitFails(l) ==
  /\ \E work \in GitWork : Outcome(l, work, "rejected")
  /\ UNCHANGED <<tree, thread, made>>

ServerStarts(l) ==
  /\ \E says \in {"ok", "differs"} :
       /\ Outcome(l, "thread/start", says)
       /\ thread' = [thread EXCEPT ![l] = says]
  /\ UNCHANGED <<tree, made>>

ServerDoes(l) ==
  /\ \E work \in {"thread/name/set", "turn/start"} : Outcome(l, work, "ok")
  /\ UNCHANGED <<tree, thread, made>>

ServerRejects(l) ==
  /\ \E work \in ServerWork : Outcome(l, work, "rejected")
  /\ UNCHANGED <<tree, thread, made>>

\* The launches whose last look at their destination is still to come.
YetToLook ==
  {l \in Launches : at[l] \notin {"recompare", "turn/start", "finish", "accept", "done", "dead"}
                    /\ ~(at[l] = "reinspect" /\ out[l] # "none")}

\* A user makes a directory, or writes to what is there.
Change(d) ==
  /\ d \notin changed
  /\ \A e \in Around(d) : tree[e] # "absent"
  /\ changed' = changed \union {d}
  /\ tree' = [tree EXCEPT ![d] = IF @ = "absent" THEN "directory" ELSE @]
  /\ early' = early \union {l \in YetToLook : Dest(l) = d}
  /\ UNCHANGED <<args, at, out, memory, row, todo, thread, made, asked>>

-----------------------------------------------------------------------------
\* The steps that touch nothing but the launch's own receipt and tasks.
Progress(l) ==
  \/ Announce(l) \/ CheckPath(l) \/ CheckList(l) \/ Reserve(l) \/ DirectoryExists(l)
  \/ Added(l) \/ CheckedOut(l) \/ Inspected(l) \/ Compare(l) \/ ThreadStarted(l)
  \/ CheckEnvironment(l) \/ Named(l) \/ Reinspected(l) \/ Recompare(l)
  \/ PromptAccepted(l) \/ Finish(l) \/ Accept(l) \/ Rejected(l)

LaunchStep(l) == MakeDirectory(l) \/ Lose(l) \/ (Progress(l) /\ UNCHANGED others)

Outside(l) ==
  \/ GitLists(l) \/ GitAdds(l) \/ GitUndoes(l) \/ GitChecksOut(l) \/ GitInspects(l)
  \/ GitFails(l) \/ ServerStarts(l) \/ ServerDoes(l) \/ ServerRejects(l)

Next ==
  \/ \E l \in Launches : Begin(l) \/ LaunchStep(l) \/ Outside(l)
  \/ \E p \in Procs : Crash(p)
  \/ \E d \in Dests : Change(d)

Spec == Init /\ [][Next]_vars

\* The event loop runs every launch whose await is over, and every await of a
\* launch has a timeout: nothing is asked of git, the server or the user.
\* ws.send (rpc.py:125) has none: the peer is assumed to go on reading.
FairTo(l) == WF_vars(LaunchStep(l))

Fairness == \A l \in Launches : FairTo(l)

FairSpec == Spec /\ Fairness

-----------------------------------------------------------------------------
(* Properties. *)

\* Worktree.reserve, "Exclusive mkdir": no two launches ever have one destination,
\* whichever processes they run in, wherever these are killed and whatever git
\* children of a dead one still do to it, so that no launch adopts, checks out or
\* starts a thread in what another one made.
ExclusiveDestination ==
  \A l, m \in made : l # m => Dest(l) # Dest(m)

\* checkpoint(): whatever a launch has had done, the row in the ledger said so
\* before, at every moment and wherever the process is killed: the directory,
\* the worktree, the thread and the prompt are never ahead of the phase saved.
ArtifactsOnRecord ==
  \A l \in Launches :
    /\ l \in made => row[l].phase \notin {"none", "validating"}
    /\ <<l, "add">> \in asked => row[l].state # "planned"
    /\ <<l, "thread/start">> \in asked => row[l].state = "created"
    /\ <<l, "turn/start">> \in asked =>
         row[l].thread /\ row[l].prompt \in {"outcome_unknown", "accepted"}

\* recoveryRequired of the receipt: it is withdrawn only when all that was asked
\* for is done, and it is never missing from a launch that left something behind.
RecoveryUntilComplete ==
  \A l \in Launches :
    /\ row[l].phase = "complete" \/ row[l].status = "accepted" =>
         /\ thread[l] = "ok" /\ IsWorktree(Dest(l)) /\ l \in made
         /\ args[l].prompt <=> row[l].prompt = "accepted"
         /\ \A work \in Work : <<l, work>> \notin todo
    /\ l \in made /\ ~row[l].recovery => row[l].phase = "complete"

\* "Recheck placement just before dispatch": no prompt is sent to a launch whose
\* thread was started in another environment, or whose checkout was written to
\* before the last look at it.
ChangeWithholdsPrompt ==
  \A l \in Launches :
    <<l, "turn/start">> \in asked => l \notin early /\ thread[l] = "ok"

\* git(), "except BaseException": a launch that ended in its process, cancelled or
\* timed out as well, leaves no git child that goes on changing its destination.
NoChildLeft ==
  \A l \in Launches : at[l] = "done" => \A work \in GitWork : <<l, work>> \notin todo

\* status "failed" is definite: no git child and no request of the launch is still
\* at work, the thread in the receipt is the thread there is, and no directory
\* was made that the receipt does not say was reserved.
FailedIsDefinite ==
  \A l \in Launches :
    row[l].status = "failed" =>
      /\ \A work \in Work : <<l, work>> \notin todo
      /\ row[l].thread <=> thread[l] # "none"
      /\ l \in made => row[l].state # "planned"

\* Every launch that begins ends, whatever git and the server do: it holds
\* _mutation_lock, and every other mutation of its process waits for it.
EveryLaunchEnds == \A l \in Launches : at[l] = "begin" ~> at[l] \in {"done", "dead"}

\* "destination must be outside existing worktrees and Git metadata"
\* (worktrees.py), "destination must be outside existing repositories".
OutsideWorktrees ==
  \A l, m \in Launches :
    row[l].status = "accepted" /\ row[m].status = "accepted"
      => <<Dest(l), Dest(m)>> \notin Inside
=============================================================================

--------------------------- MODULE WorktreeProofs ---------------------------
(***************************************************************************)
(* Proofs about WorktreeLaunch, for any number of launches, processes and  *)
(* destinations.  The invariant says, for each launch, what its receipt,   *)
(* its directory, its requests and its tasks are at every one of its       *)
(* steps; where a launch was stopped only what its receipt must never miss *)
(* remains.  Launches touch each other in one place, the destination, and  *)
(* there Places and ExclusiveDestination are all that is needed.           *)
(***************************************************************************)
EXTENDS WorktreeLaunch, TLAPS

\* Nothing of launch l is at work.
Quiet(l) == \A work \in Work : <<l, work>> \notin todo

\* The receipt r of launch l is not behind what the launch has had done.
Known(l, r) ==
  /\ l \in made => r.phase \notin {"none", "validating"}
  /\ <<l, "add">> \in asked => r.state # "planned"
  /\ <<l, "thread/start">> \in asked => r.state = "created"
  /\ <<l, "turn/start">> \in asked => r.thread /\ r.prompt \in {"outcome_unknown", "accepted"}
  /\ l \in made /\ ~r.recovery => r.phase = "complete"
  /\ r.phase = "complete" \/ r.status = "accepted" =>
       /\ thread[l] = "ok" /\ IsWorktree(Dest(l)) /\ l \in made
       /\ args[l].prompt <=> r.prompt = "accepted"
       /\ Quiet(l)

Promised(l) == IF args[l].prompt THEN "not_sent" ELSE "not_requested"

BeforeMkdir == {"new", "begin", "check path", "list", "reserve", "mkdir"}
BeforeThread == BeforeMkdir \union {"add", "checkout", "inspect", "compare"}
AfterThread == {"thread/name/set", "reinspect", "recompare", "turn/start", "finish", "accept"}
AfterPrompt == {"turn/start", "finish", "accept"}

\* The task of a launch is the one it awaits, unless the launch was stopped.
TasksFit(l) ==
  \A work \in Work :
    <<l, work>> \in todo =>
      \/ at[l] = work /\ out[l] = "none"
      \/ at[l] = "dead"
      \/ at[l] = "done" /\ work \in ServerWork

\* What is known of a running launch at each of its steps: its receipt,
ReceiptFits(l) ==
  /\ at[l] = "new" => row[l] = Blank /\ memory[l] = Blank
  /\ at[l] \in Alive => row[l] = memory[l] /\ row[l].status = "in_progress_or_unknown"
  /\ at[l] = "begin" => row[l].phase = "none" /\ row[l].prompt = "not_requested"
  /\ at[l] \in BeforeMkdir => row[l].state = "planned"
  /\ at[l] \in BeforeMkdir \ {"new", "begin"} => row[l].recovery
  /\ at[l] = "mkdir" => row[l].phase = "reserving_destination"
  /\ at[l] \in Alive \ BeforeMkdir =>
       /\ row[l].phase \notin {"none", "validating"} /\ row[l].state # "planned"
       /\ at[l] # "accept" => row[l].recovery /\ row[l].phase # "complete"
       /\ at[l] = "accept" => row[l].phase = "complete"
  /\ at[l] \in BeforeMkdir => row[l].phase \in {"none", "validating", "reserving_destination"}
  /\ at[l] \in Alive \ (BeforeMkdir \union {"add", "checkout"}) => row[l].state = "created"
  /\ at[l] \in Alive \ (AfterPrompt \union {"begin"}) => row[l].prompt = Promised(l)
  /\ at[l] = "turn/start" => args[l].prompt /\ row[l].prompt = "outcome_unknown"
  /\ at[l] \in {"finish", "accept"} =>
       row[l].prompt = IF args[l].prompt THEN "accepted" ELSE "not_requested"
  /\ at[l] \in BeforeThread \union {"thread/start"} => ~row[l].thread
  /\ at[l] \in AfterThread \union {"environment"} => row[l].thread

\* its directory,
DirectoryFits(l) ==
  /\ at[l] \in BeforeMkdir => l \notin made
  /\ at[l] \in Alive \ BeforeMkdir =>
       /\ l \in made \/ (at[l] = "add" /\ out[l] = "rejected")
       /\ at[l] # "add" \/ out[l] = "ok" => IsWorktree(Dest(l))

\* what it has asked for, its thread, and its last look at the checkout.
RequestsFit(l) ==
  /\ at[l] \in BeforeMkdir => <<l, "add">> \notin asked
  /\ at[l] \in BeforeThread => <<l, "thread/start">> \notin asked /\ thread[l] = "none"
  /\ at[l] \in Steps \ (AfterPrompt \union {"done", "dead"}) => <<l, "turn/start">> \notin asked
  /\ at[l] = "thread/start" => thread[l] = IF out[l] \in {"ok", "differs"} THEN out[l] ELSE "none"
  /\ at[l] = "environment" => out[l] \in {"ok", "differs"} /\ thread[l] = out[l]
  /\ at[l] \in AfterThread => thread[l] = "ok"
  /\ <<l, "turn/start">> \in asked =>
       l \notin early /\ thread[l] = "ok" /\ <<l, "thread/start">> \notin todo
  /\ at[l] \in {"reinspect", "recompare"} /\ out[l] = "ok" => l \notin early
  /\ at[l] = "recompare" => out[l] # "none"
  /\ at[l] \in AfterPrompt => l \notin early
  /\ l \in early => Dest(l) \in changed

\* A failed launch has nothing at work, and its receipt is exact.
FailureFits(l) ==
  row[l].status = "failed" =>
    /\ at[l] = "done" /\ Quiet(l)
    /\ row[l].thread <=> thread[l] # "none"
    /\ l \in made => row[l].state # "planned"

Sound(l) ==
  /\ Known(l, row[l]) /\ TasksFit(l) /\ ReceiptFits(l) /\ DirectoryFits(l)
  /\ RequestsFit(l) /\ FailureFits(l)

\* A directory that a launch made is there until git undoes it.
Places ==
  \A l \in Launches :
    /\ l \in made => tree[Dest(l)] # "absent"
    /\ <<l, "add">> \in todo => l \in made

IndInv == TypeOK /\ Places /\ ExclusiveDestination /\ \A l \in Launches : Sound(l)

\* The sets of steps.
USE DEF GitWork, ServerWork, Work, Awaits, Steps, Alive, BeforeMkdir, BeforeThread, AfterThread,
        AfterPrompt

-----------------------------------------------------------------------------
(* What a step does to a launch, and to the others. *)

LEMMA GoOnEffect ==
  ASSUME TypeOK, NEW l \in Launches, NEW step \in Steps, GoOn(l, step)
  PROVE  /\ at' \in [Launches -> Steps] /\ at' = [at EXCEPT ![l] = step]
         /\ out' \in [Launches -> {"none", "ok", "differs", "rejected"}]
         /\ out'[l] = IF step \in Work THEN "none" ELSE out[l]
         /\ \A m \in Launches \ {l} : out'[m] = out[m]
         /\ todo' \subseteq asked' /\ asked' \subseteq Launches \X Work
         /\ \A m \in Launches, work \in Work :
              /\ <<m, work>> \in todo' <=> <<m, work>> \in todo \/ (m = l /\ work = step)
              /\ <<m, work>> \in asked' <=> <<m, work>> \in asked \/ (m = l /\ work = step)
<1> DEFINE task == {<<l, step>>} \intersect (Launches \X Work)
<1>1. /\ at' = [at EXCEPT ![l] = step]
      /\ out' = [out EXCEPT ![l] = IF task = {} THEN @ ELSE "none"]
      /\ asked' = asked \union task /\ todo' = todo \union task
  BY DEF GoOn
<1>2. task = IF step \in Work THEN {<<l, step>>} ELSE {}
  <2> HIDE DEF Work, Steps
  <2>1. <<l, step>> \in Launches \X Work <=> step \in Work
    OBVIOUS
  <2> QED BY <2>1
<1>3. /\ task = {} <=> step \notin Work
      /\ \A m \in Launches, work \in Work : <<m, work>> \in task <=> (m = l /\ work = step)
  BY <1>2
<1> HIDE DEF task
<1>4. /\ todo' \subseteq asked' /\ asked' \subseteq Launches \X Work
      /\ \A m \in Launches, work \in Work :
           /\ <<m, work>> \in todo' <=> <<m, work>> \in todo \/ (m = l /\ work = step)
           /\ <<m, work>> \in asked' <=> <<m, work>> \in asked \/ (m = l /\ work = step)
  <2>1. task \subseteq Launches \X Work
    BY DEF task
  <2> QED BY <1>1, <1>3, <2>1 DEF TypeOK
<1> QED BY <1>1, <1>3, <1>4 DEF TypeOK

\* Nothing that launch m is, or has, changes; its directory may be checked out.
LEMMA Undisturbed ==
  ASSUME NEW m \in Launches, TypeOK, Sound(m), args' = args,
         at'[m] = at[m], out'[m] = out[m], memory'[m] = memory[m], row'[m] = row[m],
         thread'[m] = thread[m], m \in made' <=> m \in made, m \in early' <=> m \in early,
         \A work \in Work : /\ <<m, work>> \in todo' <=> <<m, work>> \in todo
                            /\ <<m, work>> \in asked' <=> <<m, work>> \in asked,
         changed \subseteq changed', IsWorktree(Dest(m)) => IsWorktree(Dest(m))'
  PROVE  Sound(m)'
<1> USE DEF Sound, Dest
<1>1. Known(m, row[m])'
  BY DEF Known, Quiet
<1>2. TasksFit(m)' /\ ReceiptFits(m)'
  <2>1. TasksFit(m)'
    BY DEF TasksFit
  <2>2. ReceiptFits(m)'
    <3> HIDE DEF GitWork, ServerWork, Work, Awaits, Steps, Alive, BeforeMkdir, BeforeThread,
                 AfterThread, AfterPrompt
    <3> QED BY DEF ReceiptFits, Promised
  <2> QED BY <2>1, <2>2
<1>3. DirectoryFits(m)'
  BY DEF DirectoryFits
<1>4. RequestsFit(m)' /\ FailureFits(m)'
  BY DEF RequestsFit, FailureFits, Quiet
<1> QED BY <1>1, <1>2, <1>3, <1>4

\* One launch moves, and touches no file and no thread.
LEMMA OneMoves ==
  ASSUME IndInv, NEW l \in Launches, UNCHANGED others, TypeOK', Sound(l)',
         \A m \in Launches \ {l} :
           /\ at'[m] = at[m] /\ out'[m] = out[m] /\ memory'[m] = memory[m] /\ row'[m] = row[m]
           /\ \A work \in Work : /\ <<m, work>> \in todo' <=> <<m, work>> \in todo
                                 /\ <<m, work>> \in asked' <=> <<m, work>> \in asked,
         <<l, "add">> \in todo' => <<l, "add">> \in todo
  PROVE  IndInv'
<1> USE DEF IndInv
<1>1. UNCHANGED <<args, tree, changed, made, thread, early>>
  BY DEF others, files
<1>2. Places' /\ ExclusiveDestination'
  BY <1>1 DEF Places, ExclusiveDestination, Dest
<1>3. \A m \in Launches \ {l} : Sound(m)'
  BY <1>1, Undisturbed DEF IsWorktree, Dest
<1> QED BY <1>2, <1>3

\* A launch that awaits nothing, or whose await is over, has no task at work.
LEMMA AwakeIsQuiet ==
  ASSUME IndInv, NEW l \in Launches, at[l] \in Alive, at[l] \notin Work \/ out[l] # "none"
  PROVE  Quiet(l)
BY DEF IndInv, Sound, TasksFit, Quiet

LEMMA EndInv ==
  ASSUME IndInv, NEW l \in Launches, at[l] \in Alive, Quiet(l), UNCHANGED others,
         NEW r \in Receipts, NEW status \in {"accepted", "failed", "outcome_unknown"},
         End(l, r, status), Known(l, r), status = "accepted" => r.phase = "complete",
         status = "failed" => /\ r.thread <=> thread[l] # "none"
                              /\ l \in made => r.state # "planned"
  PROVE  IndInv'
<1> DEFINE ended == [r EXCEPT !.status = status]
<1>1. /\ UNCHANGED <<args, tree, changed, made, thread, early, out, asked, todo>>
      /\ at' = [at EXCEPT ![l] = "done"]
      /\ memory' = [memory EXCEPT ![l] = ended] /\ row' \in {row, [row EXCEPT ![l] = ended]}
  BY DEF End, others, files, IndInv, TypeOK
<1>2. /\ ended \in Receipts /\ ended.status = status
      /\ ended.phase = r.phase /\ ended.state = r.state /\ ended.thread = r.thread
      /\ ended.prompt = r.prompt /\ ended.recovery = r.recovery
  BY DEF Receipts
<1> HIDE DEF ended
<1>3. TypeOK'
  BY <1>1, <1>2 DEF IndInv, TypeOK
<1>4. row'[l] \in {row[l], ended} /\ at'[l] = "done"
      /\ \A m \in Launches \ {l} : at'[m] = at[m] /\ memory'[m] = memory[m] /\ row'[m] = row[m]
  BY <1>1 DEF IndInv, TypeOK
<1>5. Known(l, row[l]) /\ row[l].status = "in_progress_or_unknown"
  BY DEF IndInv, Sound, ReceiptFits
<1>6. Known(l, row[l])'
  <2>1. CASE row'[l] = row[l]
    BY <1>1, <1>5, <2>1 DEF Known, Quiet, Dest, IsWorktree
  <2>2. CASE row'[l] = ended
    BY <1>1, <1>2, <2>2 DEF Known, Quiet, Dest, IsWorktree
  <2> QED BY <1>4, <2>1, <2>2
<1>7. TasksFit(l)' /\ FailureFits(l)'
  <2>1. Quiet(l)'
    BY <1>1 DEF Quiet
  <2>2. TasksFit(l)'
    BY <2>1 DEF Quiet, TasksFit
  <2>3. row'[l].status = "failed" => row'[l] = ended /\ status = "failed"
    BY <1>2, <1>4, <1>5
  <2>4. FailureFits(l)'
    <3> SUFFICES ASSUME row'[l].status = "failed"
                 PROVE  /\ at'[l] = "done" /\ Quiet(l)'
                        /\ row'[l].thread <=> thread'[l] # "none"
                        /\ l \in made' => row'[l].state # "planned"
      BY DEF FailureFits
    <3>1. row'[l] = ended /\ ended.status = "failed" /\ status = "failed"
      BY <1>2, <2>3
    <3>2. row'[l].thread = r.thread /\ row'[l].state = r.state
      BY <1>2, <3>1
    <3> QED BY <1>1, <1>4, <2>1, <3>1, <3>2
  <2> QED BY <2>2, <2>4
<1>8. ReceiptFits(l)' /\ DirectoryFits(l)'
  BY <1>4 DEF ReceiptFits, DirectoryFits
<1>9. RequestsFit(l)'
  BY <1>1, <1>4 DEF RequestsFit, IndInv, Sound, Dest
<1> QED BY <1>1, <1>3, <1>4, <1>6, <1>7, <1>8, <1>9, OneMoves DEF Sound, others, files

\* WorktreeError and RpcError: what the launch has is in its receipt.
LEMMA FailInv ==
  ASSUME IndInv, NEW l \in Launches, at[l] \in Alive, Quiet(l), UNCHANGED others, Fail(l),
         at[l] = "thread/start" => out[l] = "rejected"
  PROVE  IndInv'
<1>1. memory[l] \in Receipts /\ Known(l, memory[l])
  BY DEF IndInv, TypeOK, Sound, ReceiptFits
<1>2. memory[l] = row[l] /\ at[l] \in Steps
  BY DEF IndInv, TypeOK, Sound, ReceiptFits
<1>3. memory[l].thread <=> thread[l] # "none"
  <2>1. at[l] \in BeforeThread \union {"thread/start"} =>
          ~row[l].thread /\ (at[l] # "thread/start" => thread[l] = "none")
    BY DEF IndInv, Sound, ReceiptFits, RequestsFit
  <2>2. at[l] \in AfterThread \union {"environment"} => row[l].thread /\ thread[l] # "none"
    BY DEF IndInv, Sound, ReceiptFits, RequestsFit
  <2>3. at[l] = "thread/start" => thread[l] = "none"
    BY DEF IndInv, Sound, RequestsFit
  <2> QED BY <1>2, <2>1, <2>2, <2>3
<1>4. l \in made => memory[l].state # "planned"
  <2>1. l \in made => at[l] \notin BeforeMkdir
    BY DEF IndInv, Sound, DirectoryFits
  <2>2. at[l] \in Alive \ BeforeMkdir => row[l].state # "planned"
    BY DEF IndInv, Sound, ReceiptFits
  <2> QED BY <1>2, <2>1, <2>2
<1> QED BY <1>1, <1>3, <1>4, EndInv DEF Fail

\* Launch l has gone on to a step, with receipt r saved, and touched no file and no thread.
Reached(l, step, r) ==
  /\ UNCHANGED <<args, tree, changed, made, thread, early>>
  /\ at'[l] = step /\ out'[l] = IF step \in Work THEN "none" ELSE out[l]
  /\ row'[l] = r /\ memory'[l] = r
  /\ <<l, "add">> \in asked' => <<l, "add">> \in asked \/ step = "add"
  /\ <<l, "thread/start">> \in asked' =>
       <<l, "thread/start">> \in asked \/ step = "thread/start"
  /\ <<l, "turn/start">> \in asked' => <<l, "turn/start">> \in asked \/ step = "turn/start"
  /\ \A work \in Work : <<l, work>> \in todo' => work = step

LEMMA GoOnReaches ==
  ASSUME IndInv, NEW l \in Launches, Quiet(l), UNCHANGED others, NEW step \in Alive,
         GoOn(l, step), NEW r, row'[l] = r, memory'[l] = r
  PROVE  Reached(l, step, r)
<1>1. UNCHANGED <<args, tree, changed, made, thread, early>>
  BY DEF others, files
<1>2. step \in Steps /\ TypeOK /\ {"add", "thread/start", "turn/start"} \subseteq Work
  BY DEF IndInv
<1> HIDE DEF GitWork, ServerWork, Work, Awaits, Steps, Alive
<1>3. /\ out'[l] = IF step \in Work THEN "none" ELSE out[l]
      /\ \A work \in Work :
           /\ <<l, work>> \in todo' <=> <<l, work>> \in todo \/ work = step
           /\ <<l, work>> \in asked' <=> <<l, work>> \in asked \/ work = step
      /\ at' = [at EXCEPT ![l] = step]
  BY <1>2, GoOnEffect
<1>4. at'[l] = step
  BY <1>2, <1>3 DEF TypeOK
<1>5. /\ <<l, "add">> \in asked' => <<l, "add">> \in asked \/ step = "add"
      /\ <<l, "thread/start">> \in asked' =>
           <<l, "thread/start">> \in asked \/ step = "thread/start"
      /\ <<l, "turn/start">> \in asked' => <<l, "turn/start">> \in asked \/ step = "turn/start"
  BY <1>2, <1>3
<1>6. \A work \in Work : <<l, work>> \in todo' => work = step
  BY <1>3 DEF Quiet
<1> QED BY <1>1, <1>3, <1>4, <1>5, <1>6 DEF Reached

\* What a launch has asked for is in the receipt saved before.
LEMMA ReachedIsKnown ==
  ASSUME NEW l \in Launches, Quiet(l), NEW r \in Receipts, NEW step \in Alive \ {"add"},
         Known(l, r), Reached(l, step, r),
         r.status = "in_progress_or_unknown", r.phase = "complete" => step \notin Work,
         step = "thread/start" => r.state = "created",
         step = "turn/start" => r.thread /\ r.prompt = "outcome_unknown"
  PROVE  Known(l, row[l])' /\ TasksFit(l)' /\ FailureFits(l)'
<1>1. r.phase = "complete" => Quiet(l)'
  BY DEF Reached, Quiet
<1>2. Known(l, row[l])'
  BY <1>1 DEF Reached, Known, Dest, IsWorktree
<1>3. TasksFit(l)' /\ FailureFits(l)'
  BY DEF Reached, TasksFit, FailureFits
<1> QED BY <1>2, <1>3

\* A checkpoint: what holds at the next step must be shown for the case it is saved.
LEMMA CheckpointInv ==
  ASSUME IndInv, NEW l \in Launches, at[l] \in Alive, Quiet(l), UNCHANGED others,
         NEW r \in Receipts, NEW step \in Alive \ {"add"}, Known(l, r), Checkpoint(l, r, step),
         r.status = "in_progress_or_unknown", r.phase = "complete" => step \notin Work,
         step = "thread/start" => r.state = "created",
         step = "turn/start" => r.thread /\ r.prompt = "outcome_unknown",
         Reached(l, step, r) => ReceiptFits(l)' /\ DirectoryFits(l)' /\ RequestsFit(l)'
  PROVE  IndInv'
<1>1. CASE End(l, r, "outcome_unknown")
  BY <1>1, EndInv
<1>2. CASE /\ GoOn(l, step)
           /\ memory' = [memory EXCEPT ![l] = r] /\ row' = [row EXCEPT ![l] = r]
  <2>0. step \in Steps /\ step # "add"
    OBVIOUS
  <2> HIDE DEF GitWork, ServerWork, Work, Awaits, Steps, Alive
  <2>1. /\ memory' \in [Launches -> Receipts] /\ row' \in [Launches -> Receipts]
        /\ row'[l] = r /\ memory'[l] = r
        /\ \A m \in Launches \ {l} : memory'[m] = memory[m] /\ row'[m] = row[m]
    BY <1>2 DEF IndInv, TypeOK
  <2>2. TypeOK'
    BY <1>2, <2>0, <2>1, GoOnEffect DEF IndInv, TypeOK, others, files
  <2>3. \A m \in Launches \ {l} :
          /\ at'[m] = at[m] /\ out'[m] = out[m]
          /\ \A work \in Work : /\ <<m, work>> \in todo' <=> <<m, work>> \in todo
                                /\ <<m, work>> \in asked' <=> <<m, work>> \in asked
    BY <1>2, <2>0, GoOnEffect DEF IndInv, TypeOK
  <2>4. <<l, "add">> \in todo' => <<l, "add">> \in todo
    <3>1. "add" \in Work
      BY DEF Work, GitWork
    <3> QED BY <3>1, <1>2, <2>0, GoOnEffect DEF IndInv
  <2>5. Reached(l, step, r)
    BY <1>2, <2>1, GoOnReaches
  <2>6. Sound(l)'
    BY <2>5, ReachedIsKnown DEF Sound
  <2> QED BY <2>1, <2>2, <2>3, <2>4, <2>6, OneMoves
<1> QED BY <1>1, <1>2 DEF Checkpoint

\* The next step without a save is one with a receipt that does not change.
LEMMA ContinueSaves ==
  ASSUME IndInv, NEW l \in Launches, at[l] \in Alive, NEW step, Continue(l, step)
  PROVE  Checkpoint(l, row[l], step)
<1>1. memory \in [Launches -> Receipts] /\ row \in [Launches -> Receipts] /\ memory[l] = row[l]
  BY DEF IndInv, TypeOK, Sound, ReceiptFits
<1> QED BY <1>1 DEF Continue, Checkpoint

\* What is known of a launch that runs.
Runs(l) ==
  /\ row[l] \in Receipts /\ memory[l] = row[l] /\ Known(l, row[l])
  /\ row[l].status = "in_progress_or_unknown"
  /\ ReceiptFits(l) /\ DirectoryFits(l) /\ RequestsFit(l)

LEMMA Running ==
  ASSUME IndInv, NEW l \in Launches, at[l] \in Alive
  PROVE  Runs(l)
BY DEF Runs, IndInv, TypeOK, Sound, ReceiptFits

-----------------------------------------------------------------------------
(* The launch, one phase after another. *)

LEMMA AnnounceInv ==
  ASSUME IndInv, NEW l \in Launches, Announce(l), UNCHANGED others
  PROVE  IndInv'
<1> DEFINE r == [row[l] EXCEPT !.phase = "validating", !.recovery = TRUE, !.prompt = Promised(l)]
<1>1. /\ at[l] = "begin" /\ Runs(l) /\ Quiet(l)
      /\ Checkpoint(l, r, "check path")
  BY Running, AwakeIsQuiet DEF Runs, Announce, Promised
<1>2. /\ r \in Receipts /\ r.phase = "validating" /\ r.recovery /\ r.prompt = Promised(l)
      /\ r.status = row[l].status /\ r.state = row[l].state /\ r.thread = row[l].thread
  BY <1>1 DEF Runs, Receipts, Phases, Promised
<1> HIDE DEF r
<1>3. Known(l, r)
  BY <1>1, <1>2 DEF Runs, Known, ReceiptFits, DirectoryFits, RequestsFit
<1>4. ASSUME Reached(l, "check path", r)
      PROVE  ReceiptFits(l)' /\ DirectoryFits(l)' /\ RequestsFit(l)'
  <2>1. ReceiptFits(l)'
    <3>1. Promised(l)' = Promised(l) /\ Promised(l) \in {"not_sent", "not_requested"}
      BY <1>4 DEF Reached, Promised
    <3> QED BY <1>1, <1>2, <1>4, <3>1 DEF Runs, Reached, ReceiptFits
  <2>2. DirectoryFits(l)'
    BY <1>1, <1>4 DEF Runs, Reached, DirectoryFits, IsWorktree, Dest
  <2>3. RequestsFit(l)'
    BY <1>1, <1>4 DEF Runs, Reached, RequestsFit, Dest
  <2> QED BY <2>1, <2>2, <2>3
<1> QED BY <1>1, <1>2, <1>3, <1>4, CheckpointInv DEF Runs

LEMMA CheckPathInv ==
  ASSUME IndInv, NEW l \in Launches, CheckPath(l), UNCHANGED others
  PROVE  IndInv'
<1>1. /\ at[l] = "check path" /\ Runs(l) /\ Quiet(l)
      /\ Continue(l, "list") \/ Fail(l)
  BY Running, AwakeIsQuiet DEF CheckPath
<1>2. CASE Continue(l, "list")
  <2>1. Checkpoint(l, row[l], "list")
    BY <1>1, <1>2, ContinueSaves
  <2>2. ASSUME Reached(l, "list", row[l])
        PROVE  ReceiptFits(l)' /\ DirectoryFits(l)' /\ RequestsFit(l)'
    BY <1>1, <2>2
    DEF Runs, Reached, ReceiptFits, DirectoryFits, RequestsFit, Promised, IsWorktree, Dest
  <2> QED BY <1>1, <2>1, <2>2, CheckpointInv DEF Runs, ReceiptFits
<1> QED BY <1>1, <1>2, FailInv

LEMMA CheckListInv ==
  ASSUME IndInv, NEW l \in Launches, CheckList(l), UNCHANGED others
  PROVE  IndInv'
<1>1. /\ at[l] = "list" /\ Runs(l) /\ Quiet(l) /\ out[l] = "ok"
      /\ Continue(l, "reserve")
  BY Running, AwakeIsQuiet DEF CheckList
<1>2. CASE Continue(l, "reserve")
  <2>1. Checkpoint(l, row[l], "reserve")
    BY <1>1, <1>2, ContinueSaves
  <2>2. ASSUME Reached(l, "reserve", row[l])
        PROVE  ReceiptFits(l)' /\ DirectoryFits(l)' /\ RequestsFit(l)'
    BY <1>1, <2>2
    DEF Runs, Reached, ReceiptFits, DirectoryFits, RequestsFit, Promised, IsWorktree, Dest
  <2> QED BY <1>1, <2>1, <2>2, CheckpointInv DEF Runs, ReceiptFits
<1> QED BY <1>1, <1>2

LEMMA ReserveInv ==
  ASSUME IndInv, NEW l \in Launches, Reserve(l), UNCHANGED others
  PROVE  IndInv'
<1> DEFINE r == [row[l] EXCEPT !.phase = "reserving_destination"]
<1>1. /\ at[l] = "reserve" /\ Runs(l) /\ Quiet(l)
      /\ Checkpoint(l, r, "mkdir") \/ Fail(l)
  BY Running, AwakeIsQuiet DEF Runs, Reserve, Enter
<1>2. /\ r \in Receipts /\ r.phase = "reserving_destination"
      /\ r.status = row[l].status /\ r.state = row[l].state /\ r.thread = row[l].thread
      /\ r.prompt = row[l].prompt /\ r.recovery = row[l].recovery
  BY <1>1 DEF Runs, Receipts, Phases
<1> HIDE DEF r
<1>3. Known(l, r)
  BY <1>1, <1>2 DEF Runs, Known, ReceiptFits, DirectoryFits, RequestsFit
<1>4. ASSUME Reached(l, "mkdir", r)
      PROVE  ReceiptFits(l)' /\ DirectoryFits(l)' /\ RequestsFit(l)'
  <2>1. ReceiptFits(l)'
    BY <1>1, <1>2, <1>4 DEF Runs, Reached, ReceiptFits, Promised
  <2>2. DirectoryFits(l)'
    BY <1>1, <1>4 DEF Runs, Reached, DirectoryFits, IsWorktree, Dest
  <2>3. RequestsFit(l)'
    BY <1>1, <1>4 DEF Runs, Reached, RequestsFit, Dest
  <2> QED BY <2>1, <2>2, <2>3
<1>5. CASE Checkpoint(l, r, "mkdir")
  BY <1>1, <1>2, <1>3, <1>4, <1>5, CheckpointInv DEF Runs
<1>6. CASE Fail(l)
  BY <1>1, <1>6, FailInv
<1> QED BY <1>1, <1>5, <1>6

LEMMA AddedInv ==
  ASSUME IndInv, NEW l \in Launches, Added(l), UNCHANGED others
  PROVE  IndInv'
<1> DEFINE r == [row[l] EXCEPT !.state = "registered", !.phase = "checking_out_worktree"]
<1>1. /\ at[l] = "add" /\ Runs(l) /\ Quiet(l) /\ out[l] = "ok"
      /\ Checkpoint(l, r, "checkout")
  BY Running, AwakeIsQuiet DEF Runs, Added
<1>2. /\ r \in Receipts /\ r.state = "registered" /\ r.phase = "checking_out_worktree"
      /\ r.status = row[l].status /\ r.thread = row[l].thread /\ r.prompt = row[l].prompt
      /\ r.recovery = row[l].recovery
  BY <1>1 DEF Runs, Receipts, Phases
<1> HIDE DEF r
<1>3. Known(l, r)
  BY <1>1, <1>2 DEF Runs, Known, ReceiptFits, DirectoryFits, RequestsFit
<1>4. ASSUME Reached(l, "checkout", r)
      PROVE  ReceiptFits(l)' /\ DirectoryFits(l)' /\ RequestsFit(l)'
  <2>1. ReceiptFits(l)'
    BY <1>1, <1>2, <1>4 DEF Runs, Reached, ReceiptFits, Promised
  <2>2. DirectoryFits(l)'
    BY <1>1, <1>4 DEF Runs, Reached, DirectoryFits, IsWorktree, Dest
  <2>3. RequestsFit(l)'
    BY <1>1, <1>4 DEF Runs, Reached, RequestsFit, Dest
  <2> QED BY <2>1, <2>2, <2>3
<1> QED BY <1>1, <1>2, <1>3, <1>4, CheckpointInv DEF Runs

LEMMA CheckedOutInv ==
  ASSUME IndInv, NEW l \in Launches, CheckedOut(l), UNCHANGED others
  PROVE  IndInv'
<1> DEFINE r == [row[l] EXCEPT !.state = "created", !.phase = "checking_worktree"]
<1>1. /\ at[l] = "checkout" /\ Runs(l) /\ Quiet(l) /\ out[l] = "ok"
      /\ Checkpoint(l, r, "inspect")
  BY Running, AwakeIsQuiet DEF Runs, CheckedOut
<1>2. /\ r \in Receipts /\ r.state = "created" /\ r.phase = "checking_worktree"
      /\ r.status = row[l].status /\ r.thread = row[l].thread /\ r.prompt = row[l].prompt
      /\ r.recovery = row[l].recovery
  BY <1>1 DEF Runs, Receipts, Phases
<1> HIDE DEF r
<1>3. Known(l, r)
  BY <1>1, <1>2 DEF Runs, Known, ReceiptFits, DirectoryFits, RequestsFit
<1>4. ASSUME Reached(l, "inspect", r)
      PROVE  ReceiptFits(l)' /\ DirectoryFits(l)' /\ RequestsFit(l)'
  <2>1. ReceiptFits(l)'
    BY <1>1, <1>2, <1>4 DEF Runs, Reached, ReceiptFits, Promised
  <2>2. DirectoryFits(l)'
    BY <1>1, <1>4 DEF Runs, Reached, DirectoryFits, IsWorktree, Dest
  <2>3. RequestsFit(l)'
    BY <1>1, <1>4 DEF Runs, Reached, RequestsFit, Dest
  <2> QED BY <2>1, <2>2, <2>3
<1> QED BY <1>1, <1>2, <1>3, <1>4, CheckpointInv DEF Runs

LEMMA InspectedInv ==
  ASSUME IndInv, NEW l \in Launches, Inspected(l), UNCHANGED others
  PROVE  IndInv'
<1> DEFINE r == [row[l] EXCEPT !.phase = "worktree_checked"]
<1>1. /\ at[l] = "inspect" /\ Runs(l) /\ Quiet(l) /\ out[l] \in {"ok", "differs"}
      /\ Checkpoint(l, r, "compare")
  BY Running, AwakeIsQuiet DEF Runs, Inspected, Enter
<1>2. /\ r \in Receipts /\ r.phase = "worktree_checked"
      /\ r.status = row[l].status /\ r.state = row[l].state /\ r.thread = row[l].thread
      /\ r.prompt = row[l].prompt /\ r.recovery = row[l].recovery
  BY <1>1 DEF Runs, Receipts, Phases
<1> HIDE DEF r
<1>3. Known(l, r)
  BY <1>1, <1>2 DEF Runs, Known, ReceiptFits, DirectoryFits, RequestsFit
<1>4. ASSUME Reached(l, "compare", r)
      PROVE  ReceiptFits(l)' /\ DirectoryFits(l)' /\ RequestsFit(l)'
  <2>1. ReceiptFits(l)'
    BY <1>1, <1>2, <1>4 DEF Runs, Reached, ReceiptFits, Promised
  <2>2. DirectoryFits(l)'
    BY <1>1, <1>4 DEF Runs, Reached, DirectoryFits, IsWorktree, Dest
  <2>3. RequestsFit(l)'
    BY <1>1, <1>4 DEF Runs, Reached, RequestsFit, Dest
  <2> QED BY <2>1, <2>2, <2>3
<1> QED BY <1>1, <1>2, <1>3, <1>4, CheckpointInv DEF Runs

LEMMA CompareInv ==
  ASSUME IndInv, NEW l \in Launches, Compare(l), UNCHANGED others
  PROVE  IndInv'
<1> DEFINE r == [row[l] EXCEPT !.phase = "creating_thread"]
<1>1. /\ at[l] = "compare" /\ Runs(l) /\ Quiet(l)
      /\ Checkpoint(l, r, "thread/start") \/ Fail(l)
  BY Running, AwakeIsQuiet DEF Runs, Compare, Enter
<1>2. /\ r \in Receipts /\ r.phase = "creating_thread"
      /\ r.status = row[l].status /\ r.state = row[l].state /\ r.thread = row[l].thread
      /\ r.prompt = row[l].prompt /\ r.recovery = row[l].recovery
  BY <1>1 DEF Runs, Receipts, Phases
<1> HIDE DEF r
<1>3. Known(l, r)
  BY <1>1, <1>2 DEF Runs, Known, ReceiptFits, DirectoryFits, RequestsFit
<1>4. ASSUME Reached(l, "thread/start", r)
      PROVE  ReceiptFits(l)' /\ DirectoryFits(l)' /\ RequestsFit(l)'
  <2>1. ReceiptFits(l)'
    BY <1>1, <1>2, <1>4 DEF Runs, Reached, ReceiptFits, Promised
  <2>2. DirectoryFits(l)'
    BY <1>1, <1>4 DEF Runs, Reached, DirectoryFits, IsWorktree, Dest
  <2>3. RequestsFit(l)'
    BY <1>1, <1>4 DEF Runs, Reached, RequestsFit, Dest
  <2> QED BY <2>1, <2>2, <2>3
<1>5. r.state = "created"
  BY <1>1, <1>2 DEF Runs, ReceiptFits
<1>6. CASE Checkpoint(l, r, "thread/start")
  BY <1>1, <1>2, <1>3, <1>4, <1>5, <1>6, CheckpointInv DEF Runs
<1>7. CASE Fail(l)
  BY <1>1, <1>7, FailInv
<1> QED BY <1>1, <1>6, <1>7

LEMMA ThreadStartedInv ==
  ASSUME IndInv, NEW l \in Launches, ThreadStarted(l), UNCHANGED others
  PROVE  IndInv'
<1> DEFINE r == [row[l] EXCEPT !.thread = TRUE, !.phase = "checking_environment"]
<1>1. /\ at[l] = "thread/start" /\ Runs(l) /\ Quiet(l) /\ out[l] \in {"ok", "differs"}
      /\ Checkpoint(l, r, "environment")
  BY Running, AwakeIsQuiet DEF Runs, ThreadStarted
<1>2. /\ r \in Receipts /\ r.thread /\ r.phase = "checking_environment"
      /\ r.status = row[l].status /\ r.state = row[l].state /\ r.prompt = row[l].prompt
      /\ r.recovery = row[l].recovery
  BY <1>1 DEF Runs, Receipts, Phases
<1> HIDE DEF r
<1>3. Known(l, r)
  BY <1>1, <1>2 DEF Runs, Known, ReceiptFits, DirectoryFits, RequestsFit
<1>4. ASSUME Reached(l, "environment", r)
      PROVE  ReceiptFits(l)' /\ DirectoryFits(l)' /\ RequestsFit(l)'
  <2>1. ReceiptFits(l)'
    BY <1>1, <1>2, <1>4 DEF Runs, Reached, ReceiptFits, Promised
  <2>2. DirectoryFits(l)'
    BY <1>1, <1>4 DEF Runs, Reached, DirectoryFits, IsWorktree, Dest
  <2>3. RequestsFit(l)'
    BY <1>1, <1>4 DEF Runs, Reached, RequestsFit, Dest
  <2> QED BY <2>1, <2>2, <2>3
<1> QED BY <1>1, <1>2, <1>3, <1>4, CheckpointInv DEF Runs

LEMMA NamedInv ==
  ASSUME IndInv, NEW l \in Launches, Named(l), UNCHANGED others
  PROVE  IndInv'
<1> DEFINE r == [row[l] EXCEPT !.phase = "thread_named"]
<1>1. /\ at[l] = "thread/name/set" /\ Runs(l) /\ Quiet(l) /\ out[l] = "ok"
      /\ Checkpoint(l, r, "reinspect")
  BY Running, AwakeIsQuiet DEF Runs, Named, Enter
<1>2. /\ r \in Receipts /\ r.phase = "thread_named"
      /\ r.status = row[l].status /\ r.state = row[l].state /\ r.thread = row[l].thread
      /\ r.prompt = row[l].prompt /\ r.recovery = row[l].recovery
  BY <1>1 DEF Runs, Receipts, Phases
<1> HIDE DEF r
<1>3. Known(l, r)
  BY <1>1, <1>2 DEF Runs, Known, ReceiptFits, DirectoryFits, RequestsFit
<1>4. ASSUME Reached(l, "reinspect", r)
      PROVE  ReceiptFits(l)' /\ DirectoryFits(l)' /\ RequestsFit(l)'
  <2>1. ReceiptFits(l)'
    BY <1>1, <1>2, <1>4 DEF Runs, Reached, ReceiptFits, Promised
  <2>2. DirectoryFits(l)'
    BY <1>1, <1>4 DEF Runs, Reached, DirectoryFits, IsWorktree, Dest
  <2>3. RequestsFit(l)'
    BY <1>1, <1>4 DEF Runs, Reached, RequestsFit, Dest
  <2> QED BY <2>1, <2>2, <2>3
<1> QED BY <1>1, <1>2, <1>3, <1>4, CheckpointInv DEF Runs

LEMMA ReinspectedInv ==
  ASSUME IndInv, NEW l \in Launches, Reinspected(l), UNCHANGED others
  PROVE  IndInv'
<1> DEFINE r == [row[l] EXCEPT !.phase = "checking_before_dispatch"]
<1>1. /\ at[l] = "reinspect" /\ Runs(l) /\ Quiet(l) /\ out[l] \in {"ok", "differs"}
      /\ Checkpoint(l, r, "recompare")
  BY Running, AwakeIsQuiet DEF Runs, Reinspected, Enter
<1>2. /\ r \in Receipts /\ r.phase = "checking_before_dispatch"
      /\ r.status = row[l].status /\ r.state = row[l].state /\ r.thread = row[l].thread
      /\ r.prompt = row[l].prompt /\ r.recovery = row[l].recovery
  BY <1>1 DEF Runs, Receipts, Phases
<1> HIDE DEF r
<1>3. Known(l, r)
  BY <1>1, <1>2 DEF Runs, Known, ReceiptFits, DirectoryFits, RequestsFit
<1>4. ASSUME Reached(l, "recompare", r)
      PROVE  ReceiptFits(l)' /\ DirectoryFits(l)' /\ RequestsFit(l)'
  <2>1. ReceiptFits(l)'
    BY <1>1, <1>2, <1>4 DEF Runs, Reached, ReceiptFits, Promised
  <2>2. DirectoryFits(l)'
    BY <1>1, <1>4 DEF Runs, Reached, DirectoryFits, IsWorktree, Dest
  <2>3. RequestsFit(l)'
    BY <1>1, <1>4 DEF Runs, Reached, RequestsFit, Dest
  <2> QED BY <2>1, <2>2, <2>3
<1> QED BY <1>1, <1>2, <1>3, <1>4, CheckpointInv DEF Runs

LEMMA PromptAcceptedInv ==
  ASSUME IndInv, NEW l \in Launches, PromptAccepted(l), UNCHANGED others
  PROVE  IndInv'
<1> DEFINE r == [row[l] EXCEPT !.phase = "initial_prompt_accepted", !.prompt = "accepted"]
<1>1. /\ at[l] = "turn/start" /\ Runs(l) /\ Quiet(l) /\ out[l] = "ok"
      /\ Checkpoint(l, r, "finish")
  BY Running, AwakeIsQuiet DEF Runs, PromptAccepted, PromptTaken
<1>2. /\ r \in Receipts /\ r.phase = "initial_prompt_accepted" /\ r.prompt = "accepted"
      /\ r.status = row[l].status /\ r.state = row[l].state /\ r.thread = row[l].thread
      /\ r.recovery = row[l].recovery
  BY <1>1 DEF Runs, Receipts, Phases
<1> HIDE DEF r
<1>3. Known(l, r)
  BY <1>1, <1>2 DEF Runs, Known, ReceiptFits, DirectoryFits, RequestsFit
<1>4. ASSUME Reached(l, "finish", r)
      PROVE  ReceiptFits(l)' /\ DirectoryFits(l)' /\ RequestsFit(l)'
  <2>1. ReceiptFits(l)'
    BY <1>1, <1>2, <1>4 DEF Runs, Reached, ReceiptFits, Promised
  <2>2. DirectoryFits(l)'
    BY <1>1, <1>4 DEF Runs, Reached, DirectoryFits, IsWorktree, Dest
  <2>3. RequestsFit(l)'
    BY <1>1, <1>4 DEF Runs, Reached, RequestsFit, Dest
  <2> QED BY <2>1, <2>2, <2>3
<1> QED BY <1>1, <1>2, <1>3, <1>4, CheckpointInv DEF Runs

LEMMA FinishInv ==
  ASSUME IndInv, NEW l \in Launches, Finish(l), UNCHANGED others
  PROVE  IndInv'
<1> DEFINE r == [row[l] EXCEPT !.phase = "complete", !.recovery = FALSE]
<1>1. /\ at[l] = "finish" /\ Runs(l) /\ Quiet(l)
      /\ Checkpoint(l, r, "accept")
  BY Running, AwakeIsQuiet DEF Runs, Finish
<1>2. /\ r \in Receipts /\ r.phase = "complete" /\ ~r.recovery
      /\ r.status = row[l].status /\ r.state = row[l].state /\ r.thread = row[l].thread
      /\ r.prompt = row[l].prompt
  BY <1>1 DEF Runs, Receipts, Phases
<1> HIDE DEF r
<1>3. Known(l, r)
  BY <1>1, <1>2 DEF Runs, Known, ReceiptFits, DirectoryFits, RequestsFit
<1>4. ASSUME Reached(l, "accept", r)
      PROVE  ReceiptFits(l)' /\ DirectoryFits(l)' /\ RequestsFit(l)'
  <2>1. ReceiptFits(l)'
    BY <1>1, <1>2, <1>4 DEF Runs, Reached, ReceiptFits, Promised
  <2>2. DirectoryFits(l)'
    BY <1>1, <1>4 DEF Runs, Reached, DirectoryFits, IsWorktree, Dest
  <2>3. RequestsFit(l)'
    BY <1>1, <1>4 DEF Runs, Reached, RequestsFit, Dest
  <2> QED BY <2>1, <2>2, <2>3
<1> QED BY <1>1, <1>2, <1>3, <1>4, CheckpointInv DEF Runs

LEMMA CheckEnvironmentInv ==
  ASSUME IndInv, NEW l \in Launches, CheckEnvironment(l), UNCHANGED others
  PROVE  IndInv'
<1>1. at[l] = "environment" /\ Runs(l) /\ Quiet(l)
  BY Running, AwakeIsQuiet DEF CheckEnvironment
<1>2. CASE out[l] = "differs" /\ Fail(l)
  BY <1>1, <1>2, FailInv
<1>3. CASE out[l] = "ok" /\ Enter(l, "naming_thread", "thread/name/set")
  <2> DEFINE r == [row[l] EXCEPT !.phase = "naming_thread"]
  <2>1. Checkpoint(l, r, "thread/name/set")
    BY <1>1, <1>3 DEF Runs, Enter
  <2>2. /\ r \in Receipts /\ r.phase = "naming_thread"
        /\ r.status = row[l].status /\ r.state = row[l].state /\ r.thread = row[l].thread
        /\ r.prompt = row[l].prompt /\ r.recovery = row[l].recovery
    BY <1>1 DEF Runs, Receipts, Phases
  <2> HIDE DEF r
  <2>3. Known(l, r)
    BY <1>1, <2>2 DEF Runs, Known, ReceiptFits, DirectoryFits, RequestsFit
  <2>4. ASSUME Reached(l, "thread/name/set", r)
        PROVE  ReceiptFits(l)' /\ DirectoryFits(l)' /\ RequestsFit(l)'
    <3>1. ReceiptFits(l)'
      BY <1>1, <2>2, <2>4 DEF Runs, Reached, ReceiptFits, Promised
    <3>2. DirectoryFits(l)'
      BY <1>1, <2>4 DEF Runs, Reached, DirectoryFits, IsWorktree, Dest
    <3>3. RequestsFit(l)'
      BY <1>1, <1>3, <2>4 DEF Runs, Reached, RequestsFit, Dest
    <3> QED BY <3>1, <3>2, <3>3
  <2> QED BY <1>1, <2>1, <2>2, <2>3, <2>4, CheckpointInv DEF Runs
<1>4. CASE out[l] = "ok" /\ Continue(l, "reinspect")
  <2>1. Checkpoint(l, row[l], "reinspect")
    BY <1>1, <1>4, ContinueSaves
  <2>2. ASSUME Reached(l, "reinspect", row[l])
        PROVE  ReceiptFits(l)' /\ DirectoryFits(l)' /\ RequestsFit(l)'
    <3>1. ReceiptFits(l)'
      BY <1>1, <2>2 DEF Runs, Reached, ReceiptFits, Promised
    <3>2. DirectoryFits(l)' /\ RequestsFit(l)'
      BY <1>1, <1>4, <2>2 DEF Runs, Reached, DirectoryFits, RequestsFit, IsWorktree, Dest
    <3> QED BY <3>1, <3>2
  <2> QED BY <1>1, <2>1, <2>2, CheckpointInv DEF Runs, ReceiptFits
<1> QED BY <1>2, <1>3, <1>4 DEF CheckEnvironment

\* The prompt goes out only to a launch whose checkout was as expected.
LEMMA RecompareInv ==
  ASSUME IndInv, NEW l \in Launches, Recompare(l), UNCHANGED others
  PROVE  IndInv'
<1>1. at[l] = "recompare" /\ Runs(l) /\ Quiet(l)
  BY Running, AwakeIsQuiet DEF Recompare
<1>2. CASE Fail(l)
  BY <1>1, <1>2, FailInv
<1>3. CASE out[l] = "ok" /\ ~args[l].prompt /\ Continue(l, "finish")
  <2>1. Checkpoint(l, row[l], "finish")
    BY <1>1, <1>3, ContinueSaves
  <2>2. ASSUME Reached(l, "finish", row[l])
        PROVE  ReceiptFits(l)' /\ DirectoryFits(l)' /\ RequestsFit(l)'
    <3>1. ReceiptFits(l)'
      BY <1>1, <1>3, <2>2 DEF Runs, Reached, ReceiptFits, Promised
    <3>2. DirectoryFits(l)' /\ RequestsFit(l)'
      BY <1>1, <1>3, <2>2 DEF Runs, Reached, DirectoryFits, RequestsFit, IsWorktree, Dest
    <3> QED BY <3>1, <3>2
  <2> QED BY <1>1, <2>1, <2>2, CheckpointInv DEF Runs, ReceiptFits
<1>4. ASSUME out[l] = "ok", args[l].prompt,
             Checkpoint(l, [memory[l] EXCEPT !.phase = "dispatching_initial_prompt",
                                             !.prompt = "outcome_unknown"], "turn/start")
      PROVE  IndInv'
  <2> DEFINE r == [row[l] EXCEPT !.phase = "dispatching_initial_prompt",
                                 !.prompt = "outcome_unknown"]
  <2>1. Checkpoint(l, r, "turn/start")
    BY <1>1, <1>4 DEF Runs
  <2>2. /\ r \in Receipts /\ r.phase = "dispatching_initial_prompt" /\ r.prompt = "outcome_unknown"
        /\ r.status = row[l].status /\ r.state = row[l].state /\ r.thread = row[l].thread
        /\ r.recovery = row[l].recovery
    BY <1>1 DEF Runs, Receipts, Phases
  <2> HIDE DEF r
  <2>3. Known(l, r)
    BY <1>1, <2>2 DEF Runs, Known, ReceiptFits, DirectoryFits, RequestsFit
  <2>4. ASSUME Reached(l, "turn/start", r)
        PROVE  ReceiptFits(l)' /\ DirectoryFits(l)' /\ RequestsFit(l)'
    <3>1. ReceiptFits(l)'
      BY <1>1, <1>4, <2>2, <2>4 DEF Runs, Reached, ReceiptFits, Promised
    <3>2. DirectoryFits(l)'
      BY <1>1, <2>4 DEF Runs, Reached, DirectoryFits, IsWorktree, Dest
    <3>3. RequestsFit(l)'
      BY <1>1, <1>4, <2>4 DEF Runs, Reached, RequestsFit, Quiet, Dest
    <3> QED BY <3>1, <3>2, <3>3
  <2>5. r.thread
    BY <1>1, <2>2 DEF Runs, ReceiptFits
  <2> QED BY <1>1, <2>1, <2>2, <2>3, <2>4, <2>5, CheckpointInv DEF Runs
<1> QED BY <1>2, <1>3, <1>4 DEF Recompare, StillMatches

LEMMA DirectoryExistsInv ==
  ASSUME IndInv, NEW l \in Launches, DirectoryExists(l), UNCHANGED others
  PROVE  IndInv'
<1>1. at[l] = "mkdir" /\ Runs(l) /\ Quiet(l)
  BY Running, AwakeIsQuiet DEF DirectoryExists
<1> QED BY <1>1, EndInv DEF DirectoryExists, Runs

LEMMA AcceptInv ==
  ASSUME IndInv, NEW l \in Launches, Accept(l), UNCHANGED others
  PROVE  IndInv'
<1>1. at[l] = "accept" /\ Runs(l) /\ Quiet(l)
  BY Running, AwakeIsQuiet DEF Accept
<1> QED BY <1>1, EndInv DEF Accept, Runs, ReceiptFits

LEMMA RejectedInv ==
  ASSUME IndInv, NEW l \in Launches, Rejected(l), UNCHANGED others
  PROVE  IndInv'
<1>1. at[l] \in Work /\ out[l] = "rejected" /\ Quiet(l)
  BY AwakeIsQuiet DEF Rejected
<1> QED BY <1>1, FailInv DEF Rejected

LEMMA ProgressInv ==
  ASSUME IndInv, NEW l \in Launches, Progress(l), UNCHANGED others
  PROVE  IndInv'
BY AnnounceInv, CheckPathInv, CheckListInv, ReserveInv, DirectoryExistsInv, AddedInv,
   CheckedOutInv, InspectedInv, CompareInv, ThreadStartedInv, CheckEnvironmentInv, NamedInv,
   ReinspectedInv, RecompareInv, PromptAcceptedInv, FinishInv, AcceptInv, RejectedInv
DEF Progress

-----------------------------------------------------------------------------
(* The directory is made, and launches begin and are stopped. *)

\* A launch makes its directory where nothing is, and so where no other has made one.
LEMMA MakeDirectoryInv ==
  ASSUME IndInv, NEW l \in Launches, MakeDirectory(l)
  PROVE  IndInv'
<1> DEFINE r == [row[l] EXCEPT !.state = "reserved", !.phase = "creating_worktree"]
<1>1. at[l] = "mkdir" /\ Runs(l) /\ Quiet(l) /\ Checkpoint(l, r, "add")
  BY Running, AwakeIsQuiet DEF MakeDirectory, Runs
<1>2. /\ Dest(l) \in Dests /\ tree[Dest(l)] = "absent"
      /\ tree' = [tree EXCEPT ![Dest(l)] = "directory"] /\ made' = made \union {l}
      /\ UNCHANGED <<args, changed, thread, early>>
  BY DEF MakeDirectory, MkdirSucceeds, IndInv, TypeOK, Arguments, Dest
<1>3. /\ r \in Receipts /\ r.state = "reserved" /\ r.phase = "creating_worktree"
      /\ r.status = row[l].status /\ r.thread = row[l].thread
      /\ r.prompt = row[l].prompt /\ r.recovery = row[l].recovery
  BY <1>1 DEF Runs, Receipts, Phases
<1> HIDE DEF r
<1>4. /\ tree' \in [Dests -> {"absent", "directory", "bare", "full"}] /\ made' \subseteq Launches
      /\ \A d \in Dests : /\ tree[d] # "absent" => tree'[d] = tree[d]
                          /\ IsWorktree(d) => IsWorktree(d)'
      /\ tree'[Dest(l)] = "directory"
  BY <1>2 DEF IndInv, TypeOK, IsWorktree
<1>5. \A m \in made : Dest(m) # Dest(l) /\ Dest(m)' = Dest(m)
  BY <1>2 DEF IndInv, Places, TypeOK, Dest
<1>6. ExclusiveDestination' /\ (\A m \in Launches : m \in made' => tree'[Dest(m)'] # "absent")
  <2>1. \A m \in Launches : Dest(m)' = Dest(m) /\ Dest(m) \in Dests
    BY <1>2 DEF IndInv, TypeOK, Dest, Arguments
  <2>2. ASSUME NEW m \in made', NEW n \in made', m # n
        PROVE  Dest(m)' # Dest(n)'
    <3>1. Dest(m)' = Dest(m) /\ Dest(n)' = Dest(n)
      BY <1>4, <2>1
    <3>2. CASE m = l \/ n = l
      BY <1>2, <1>5, <2>2, <3>1, <3>2
    <3>3. CASE m \in made /\ n \in made
      BY <2>2, <3>1, <3>3 DEF IndInv, ExclusiveDestination
    <3> QED BY <1>2, <3>2, <3>3
  <2>3. ASSUME NEW m \in Launches, m \in made'
        PROVE  tree'[Dest(m)'] # "absent"
    BY <1>2, <1>4, <2>1, <2>3 DEF IndInv, Places
  <2> QED BY <2>2, <2>3 DEF ExclusiveDestination
<1>7. CASE End(l, r, "outcome_unknown")
  <2> DEFINE ended == [r EXCEPT !.status = "outcome_unknown"]
  <2>1. /\ ended \in Receipts /\ ended.status = "outcome_unknown" /\ ended.phase = r.phase
        /\ ended.state = r.state /\ ended.thread = r.thread /\ ended.prompt = r.prompt
        /\ ended.recovery = r.recovery
    BY <1>3 DEF Receipts
  <2>2. /\ UNCHANGED <<out, asked, todo>> /\ at' = [at EXCEPT ![l] = "done"]
        /\ memory' = [memory EXCEPT ![l] = ended] /\ row' \in {row, [row EXCEPT ![l] = ended]}
    BY <1>7 DEF End, IndInv, TypeOK
  <2> HIDE DEF ended
  <2>3. TypeOK'
    <3>1. at' \in [Launches -> Steps] /\ memory' \in [Launches -> Receipts]
          /\ row' \in [Launches -> Receipts]
      BY <2>1, <2>2 DEF IndInv, TypeOK
    <3> QED BY <1>2, <1>4, <2>2, <3>1 DEF IndInv, TypeOK
  <2>4. /\ at'[l] = "done" /\ row'[l] \in {row[l], ended}
        /\ \A m \in Launches \ {l} : at'[m] = at[m] /\ memory'[m] = memory[m] /\ row'[m] = row[m]
    BY <2>2 DEF IndInv, TypeOK
  <2>5. /\ row'[l].status # "failed" /\ row'[l].status # "accepted"
        /\ row'[l].phase \in {"reserving_destination", "creating_worktree"} /\ row'[l].recovery
    BY <1>1, <1>3, <2>1, <2>4 DEF Runs, ReceiptFits
  <2>6. Known(l, row[l])' /\ FailureFits(l)'
    BY <1>1, <1>2, <2>2, <2>5 DEF Known, FailureFits, Runs, RequestsFit, Quiet
  <2>7. TasksFit(l)' /\ ReceiptFits(l)' /\ DirectoryFits(l)'
    BY <1>1, <2>2, <2>4 DEF TasksFit, Quiet, ReceiptFits, DirectoryFits
  <2>8. RequestsFit(l)'
    BY <1>1, <1>2, <2>2, <2>4 DEF Runs, RequestsFit, Dest
  <2>9. \A m \in Launches \ {l} : Sound(m)'
    <3> SUFFICES ASSUME NEW m \in Launches \ {l} PROVE Sound(m)'
      OBVIOUS
    <3>1. IsWorktree(Dest(m)) => IsWorktree(Dest(m))'
      BY <1>2, <1>4 DEF IndInv, TypeOK, Arguments, Dest
    <3> QED BY <1>2, <2>2, <2>4, <3>1, Undisturbed DEF IndInv
  <2>10. Places'
    BY <1>1, <1>2, <1>6, <2>2 DEF Places, IndInv, Quiet
  <2> QED BY <1>6, <2>3, <2>6, <2>7, <2>8, <2>9, <2>10 DEF IndInv, Sound
<1>8. CASE /\ GoOn(l, "add")
           /\ memory' = [memory EXCEPT ![l] = r] /\ row' = [row EXCEPT ![l] = r]
  <2>0. "add" \in Steps /\ "add" \in Work
    OBVIOUS
  <2>1. /\ memory' \in [Launches -> Receipts] /\ row' \in [Launches -> Receipts]
        /\ row'[l] = r /\ memory'[l] = r
        /\ \A m \in Launches \ {l} : memory'[m] = memory[m] /\ row'[m] = row[m]
    BY <1>3, <1>8 DEF IndInv, TypeOK
  <2> HIDE DEF GitWork, ServerWork, Work, Awaits, Steps, Alive
  <2>2. /\ at' \in [Launches -> Steps] /\ at' = [at EXCEPT ![l] = "add"]
        /\ out' \in [Launches -> {"none", "ok", "differs", "rejected"}] /\ out'[l] = "none"
        /\ \A m \in Launches \ {l} : out'[m] = out[m]
        /\ todo' \subseteq asked' /\ asked' \subseteq Launches \X Work
        /\ \A m \in Launches, work \in Work :
             /\ <<m, work>> \in todo' <=> <<m, work>> \in todo \/ (m = l /\ work = "add")
             /\ <<m, work>> \in asked' <=> <<m, work>> \in asked \/ (m = l /\ work = "add")
    BY <1>8, <2>0, GoOnEffect DEF IndInv
  <2>3. TypeOK'
    BY <1>2, <1>4, <2>1, <2>2 DEF IndInv, TypeOK
  <2>4. at'[l] = "add" /\ \A m \in Launches \ {l} : at'[m] = at[m]
    BY <2>0, <2>2 DEF IndInv, TypeOK
  <2>5. \A m \in Launches \ {l} : Sound(m)'
    <3> SUFFICES ASSUME NEW m \in Launches \ {l} PROVE Sound(m)'
      OBVIOUS
    <3>1. IsWorktree(Dest(m)) => IsWorktree(Dest(m))'
      BY <1>2, <1>4 DEF IndInv, TypeOK, Arguments, Dest
    <3>2. m \in made' <=> m \in made
      BY <1>2
    <3> QED BY <1>2, <2>1, <2>2, <2>4, <3>1, <3>2, Undisturbed DEF IndInv
  <2>6. Places'
    BY <1>2, <1>6, <2>0, <2>2 DEF Places, IndInv
  <2>7. /\ <<l, "thread/start">> \in asked' => <<l, "thread/start">> \in asked
        /\ <<l, "turn/start">> \in asked' => <<l, "turn/start">> \in asked
        /\ \A work \in Work : <<l, work>> \in todo' => work = "add"
    BY <1>1, <2>2 DEF Work, ServerWork, Quiet
  <2> USE DEF GitWork, ServerWork, Work, Awaits, Steps, Alive
  <2>8. Known(l, row[l])' /\ FailureFits(l)' /\ TasksFit(l)'
    <3>1. /\ r.status = "in_progress_or_unknown" /\ r.recovery
          /\ <<l, "thread/start">> \notin asked' /\ <<l, "turn/start">> \notin asked'
      BY <1>1, <1>3, <2>7 DEF Runs, ReceiptFits, RequestsFit
    <3>2. Known(l, row[l])' /\ FailureFits(l)'
      BY <1>3, <2>1, <3>1 DEF Known, FailureFits
    <3>3. TasksFit(l)'
      BY <2>2, <2>4, <2>7 DEF TasksFit
    <3> QED BY <3>2, <3>3
  <2>9. ReceiptFits(l)'
    BY <1>1, <1>2, <1>3, <2>1, <2>4 DEF Runs, ReceiptFits, Promised
  <2>10. DirectoryFits(l)'
    BY <1>2, <2>2, <2>4 DEF DirectoryFits
  <2>11. RequestsFit(l)'
    BY <1>1, <1>2, <2>4, <2>7 DEF Runs, RequestsFit, Dest
  <2> QED BY <1>6, <2>3, <2>5, <2>6, <2>8, <2>9, <2>10, <2>11 DEF IndInv, Sound
<1> QED BY <1>1, <1>7, <1>8 DEF Checkpoint


LEMMA BeginInv ==
  ASSUME IndInv, NEW l \in Launches, Begin(l)
  PROVE  IndInv'
<1> DEFINE r == [Blank EXCEPT !.status = "in_progress_or_unknown"]
<1>1. /\ at[l] = "new" /\ UNCHANGED others /\ UNCHANGED <<out, todo, asked>>
      /\ at' = [at EXCEPT ![l] = "begin"]
      /\ memory' = [memory EXCEPT ![l] = r] /\ row' = [row EXCEPT ![l] = r]
  <2>1. at[l] = "new" /\ row[l] = Blank /\ memory[l] = Blank
    BY DEF Begin, IndInv, Sound, ReceiptFits
  <2>2. memory \in [Launches -> Receipts]
    BY DEF IndInv, TypeOK
  <2>3. memory' = [memory EXCEPT ![l] = r] /\ memory'[l] = r
    BY <2>1, <2>2 DEF Begin
  <2> QED BY <2>1, <2>3 DEF Begin
<1>2. /\ r \in Receipts /\ r.status = "in_progress_or_unknown" /\ r.phase = "none"
      /\ r.state = "planned" /\ ~r.thread /\ r.prompt = "not_requested" /\ ~r.recovery
  BY DEF Receipts, Phases, Blank
<1> HIDE DEF r
<1>3. TypeOK'
  BY <1>1, <1>2 DEF IndInv, TypeOK, others, files
<1>4. /\ at'[l] = "begin" /\ row'[l] = r /\ memory'[l] = r
      /\ \A m \in Launches \ {l} : at'[m] = at[m] /\ memory'[m] = memory[m] /\ row'[m] = row[m]
  BY <1>1 DEF IndInv, TypeOK
<1>5. Quiet(l) /\ l \notin made
  BY <1>1 DEF IndInv, Sound, TasksFit, DirectoryFits, Quiet
<1>6. Known(l, row[l])' /\ TasksFit(l)' /\ FailureFits(l)'
  BY <1>1, <1>2, <1>4, <1>5
  DEF IndInv, Sound, RequestsFit, Known, TasksFit, FailureFits, Quiet, others, files
<1>7. ReceiptFits(l)' /\ DirectoryFits(l)'
  BY <1>1, <1>2, <1>4, <1>5 DEF ReceiptFits, DirectoryFits, others, files
<1>8. RequestsFit(l)'
  BY <1>1, <1>4 DEF IndInv, Sound, RequestsFit, Dest, others, files
<1> QED BY <1>1, <1>3, <1>4, <1>6, <1>7, <1>8, OneMoves DEF Sound

LEMMA LoseInv ==
  ASSUME IndInv, NEW l \in Launches, Lose(l)
  PROVE  IndInv'
<1> DEFINE r == [row[l] EXCEPT !.status = "outcome_unknown"]
<1>1. at[l] \in Awaits /\ Runs(l)
  BY Running DEF Lose, TimesOut
<1>2. /\ UNCHANGED others /\ UNCHANGED <<out, asked>>
      /\ at' = [at EXCEPT ![l] = "done"] /\ todo' = todo \ ({l} \X GitWork)
      /\ memory' = [memory EXCEPT ![l] = r] /\ row' \in {row, [row EXCEPT ![l] = r]}
  BY <1>1 DEF Lose, Killed, LostStatus, Runs, IndInv, TypeOK
<1>3. /\ r \in Receipts /\ r.status = "outcome_unknown" /\ r.phase = row[l].phase
      /\ r.state = row[l].state /\ r.thread = row[l].thread /\ r.prompt = row[l].prompt
      /\ r.recovery = row[l].recovery
  BY <1>1 DEF Runs, Receipts
<1> HIDE DEF r
<1>4. TypeOK'
  BY <1>2, <1>3 DEF IndInv, TypeOK, others, files
<1>5. /\ at'[l] = "done" /\ row'[l] \in {row[l], r}
      /\ \A m \in Launches \ {l} : at'[m] = at[m] /\ memory'[m] = memory[m] /\ row'[m] = row[m]
  BY <1>2 DEF IndInv, TypeOK
<1>6. \A work \in Work : /\ <<l, work>> \in todo' <=> <<l, work>> \in todo /\ work \notin GitWork
                         /\ \A m \in Launches \ {l} : <<m, work>> \in todo' <=> <<m, work>> \in todo
  BY <1>2
<1>7. Known(l, row[l])' /\ FailureFits(l)'
  <2>1. /\ row'[l].status \in {"in_progress_or_unknown", "outcome_unknown"}
        /\ row'[l].phase = row[l].phase /\ row'[l].state = row[l].state
        /\ row'[l].thread = row[l].thread /\ row'[l].prompt = row[l].prompt
        /\ row'[l].recovery = row[l].recovery
    BY <1>1, <1>3, <1>5 DEF Runs
  <2>2. UNCHANGED <<args, tree, made, thread, asked>>
    BY <1>2 DEF others, files
  <2>3. Quiet(l) => Quiet(l)'
    BY <1>6 DEF Quiet
  <2> QED BY <1>1, <2>1, <2>2, <2>3 DEF Runs, Known, FailureFits, Dest, IsWorktree
<1>8. TasksFit(l)' /\ ReceiptFits(l)' /\ DirectoryFits(l)'
  BY <1>5, <1>6 DEF TasksFit, ReceiptFits, DirectoryFits
<1>9. RequestsFit(l)'
  BY <1>1, <1>2, <1>5, <1>6 DEF Runs, RequestsFit, Dest, others, files
<1> QED BY <1>2, <1>4, <1>5, <1>6, <1>7, <1>8, <1>9, OneMoves DEF Sound

\* The launches of a killed process are stopped where they are.
LEMMA CrashInv ==
  ASSUME IndInv, NEW p \in Procs, Crash(p)
  PROVE  IndInv'
<1>1. /\ UNCHANGED <<args, tree, changed, made, thread, early, out, memory, row, todo, asked>>
      /\ at' = [l \in Launches |-> IF args[l].proc = p /\ at[l] \in Alive THEN "dead" ELSE at[l]]
  BY DEF Crash, others, files
<1>2. TypeOK' /\ Places' /\ ExclusiveDestination'
  BY <1>1 DEF IndInv, TypeOK, Places, ExclusiveDestination, Dest
<1>3. ASSUME NEW l \in Launches
      PROVE  Sound(l)'
  <2>1. CASE at'[l] = at[l]
    BY <1>1, <2>1, Undisturbed DEF IndInv, IsWorktree, Dest
  <2>2. CASE at'[l] # at[l]
    <3>1. at[l] \in Alive /\ at'[l] = "dead" /\ Runs(l)
      BY <1>1, <2>2, Running
    <3>2. Known(l, row[l])' /\ TasksFit(l)' /\ FailureFits(l)'
      BY <1>1, <3>1 DEF Runs, Known, TasksFit, FailureFits, Quiet, Dest, IsWorktree
    <3>3. ReceiptFits(l)' /\ DirectoryFits(l)'
      BY <3>1 DEF ReceiptFits, DirectoryFits
    <3>4. RequestsFit(l)'
      BY <1>1, <3>1 DEF Runs, RequestsFit, Dest
    <3> QED BY <3>2, <3>3, <3>4 DEF Sound
  <2> QED BY <2>1, <2>2
<1> QED BY <1>2, <1>3 DEF IndInv

-----------------------------------------------------------------------------
(* git, the App Server and the user. *)

\* A user's change before the last look at a destination is seen by that look.
LEMMA ChangeInv ==
  ASSUME IndInv, NEW d \in Dests, Change(d)
  PROVE  IndInv'
<1>1. /\ UNCHANGED <<args, at, out, memory, row, todo, thread, made, asked>>
      /\ changed' = changed \union {d}
      /\ tree' = [tree EXCEPT ![d] = IF @ = "absent" THEN "directory" ELSE @]
      /\ early' = early \union {l \in YetToLook : Dest(l) = d}
  BY DEF Change
<1>2. /\ tree' \in [Dests -> {"absent", "directory", "bare", "full"}]
      /\ \A e \in Dests : tree[e] # "absent" => tree'[e] = tree[e]
      /\ \A l \in Launches : Dest(l)' = Dest(l) /\ Dest(l) \in Dests
  BY <1>1 DEF IndInv, TypeOK, Dest, Arguments
<1>3. TypeOK' /\ Places' /\ ExclusiveDestination'
  <2>1. TypeOK'
    BY <1>1, <1>2 DEF IndInv, TypeOK, YetToLook
  <2>2. Places'
    BY <1>1, <1>2 DEF IndInv, Places
  <2>3. ExclusiveDestination'
    BY <1>1 DEF IndInv, ExclusiveDestination, Dest
  <2> QED BY <2>1, <2>2, <2>3
<1>4. ASSUME NEW l \in Launches
      PROVE  Sound(l)'
  <2>1. IsWorktree(Dest(l)) => IsWorktree(Dest(l))'
    BY <1>2 DEF IsWorktree
  <2>2. CASE l \in early \/ l \notin early'
    BY <1>1, <2>1, <2>2, Undisturbed DEF IndInv
  <2>3. CASE l \in YetToLook /\ Dest(l) = d
    <3>1. Known(l, row[l])' /\ TasksFit(l)' /\ ReceiptFits(l)' /\ FailureFits(l)'
      <4>1. Known(l, row[l]) /\ TasksFit(l) /\ ReceiptFits(l) /\ FailureFits(l)
        BY DEF IndInv, Sound
      <4>2. Known(l, row[l])' /\ FailureFits(l)'
        BY <1>1, <2>1, <4>1 DEF Known, FailureFits, Quiet
      <4>3. TasksFit(l)'
        BY <1>1, <4>1 DEF TasksFit
      <4>4. ReceiptFits(l)'
        <5> HIDE DEF GitWork, ServerWork, Work, Awaits, Steps, Alive, BeforeMkdir, BeforeThread,
                     AfterThread, AfterPrompt
        <5> QED BY <1>1, <4>1 DEF ReceiptFits, Promised
      <4> QED BY <4>2, <4>3, <4>4
    <3>2. DirectoryFits(l)'
      BY <1>1, <2>1 DEF IndInv, Sound, DirectoryFits
    <3>3. RequestsFit(l)'
      BY <1>1, <1>2, <2>3 DEF IndInv, TypeOK, Sound, RequestsFit, YetToLook
    <3> QED BY <3>1, <3>2, <3>3 DEF Sound
  <2> QED BY <1>1, <2>2, <2>3
<1> QED BY <1>3, <1>4 DEF IndInv

\* A task of l ends.  What its outcome says of the directory and of the thread is
\* so, and it takes nothing from another launch.
LEMMA OutcomeInv ==
  ASSUME IndInv, NEW l \in Launches, NEW work \in Work,
         NEW answer \in {"ok", "differs", "rejected"}, Outcome(l, work, answer),
         tree' \in [Dests -> {"absent", "directory", "bare", "full"}],
         \A m \in Launches : IsWorktree(Dest(m)) => IsWorktree(Dest(m))',
         \A m \in made' : tree'[Dest(m)] # "absent",
         thread' \in [Launches -> {"none", "ok", "differs"}],
         \A m \in Launches \ {l} : thread'[m] = thread[m],
         thread'[l] = IF work = "thread/start" /\ answer # "rejected" THEN answer ELSE thread[l],
         made' = made \/ (work = "add" /\ answer = "rejected" /\ made' = made \ {l}),
         work = "add" /\ answer = "ok" => IsWorktree(Dest(l))',
         work = "reinspect" /\ answer = "ok" => Dest(l) \notin changed
  PROVE  IndInv'
<1>1. /\ <<l, work>> \in todo /\ todo' = todo \ {<<l, work>>}
      /\ out' = [out EXCEPT ![l] = IF at[l] = work THEN answer ELSE @]
      /\ UNCHANGED <<args, at, memory, row, changed, asked, early>>
  BY DEF Outcome
<1>2. /\ out'[l] = IF at[l] = work THEN answer ELSE out[l]
      /\ \A m \in Launches \ {l} : out'[m] = out[m]
      /\ \A m \in Launches, w \in Work :
           <<m, w>> \in todo' <=> <<m, w>> \in todo /\ ~(m = l /\ w = work)
  BY <1>1 DEF IndInv, TypeOK
<1>3. TypeOK'
  BY <1>1 DEF IndInv, TypeOK
<1>4. Places' /\ ExclusiveDestination'
  <2>1. Places'
    <3>1. \A m \in Launches : m \in made' => tree'[Dest(m)'] # "absent"
      BY <1>1 DEF Dest
    <3>2. "add" \in Work
      OBVIOUS
    <3> HIDE DEF Work, GitWork, ServerWork
    <3>3. \A m \in Launches : <<m, "add">> \in todo' => m \in made'
      BY <1>2, <3>2 DEF IndInv, Places
    <3> QED BY <3>1, <3>3 DEF Places
  <2>2. ExclusiveDestination'
    BY <1>1 DEF IndInv, ExclusiveDestination, Dest
  <2> QED BY <2>1, <2>2
<1>5. \A m \in Launches \ {l} : Sound(m)'
  BY <1>1, <1>2, Undisturbed DEF IndInv
<1>6. /\ l \in made => l \in made' \/ (work = "add" /\ answer = "rejected")
      /\ l \in made' => l \in made
  OBVIOUS
<1>7. /\ \/ at[l] = work /\ out[l] = "none"
         \/ at[l] = "dead"
         \/ at[l] = "done" /\ work \in ServerWork
      /\ row[l].phase # "complete" /\ row[l].status \notin {"accepted", "failed"}
  BY <1>1 DEF IndInv, Sound, TasksFit, Known, FailureFits, Quiet
<1>8. Known(l, row[l])' /\ FailureFits(l)'
  BY <1>1, <1>6, <1>7 DEF IndInv, Sound, Known, FailureFits
<1>9. TasksFit(l)'
  BY <1>1, <1>2, <1>7 DEF IndInv, Sound, TasksFit
<1>10. ReceiptFits(l)'
  BY <1>1 DEF IndInv, Sound, ReceiptFits, Promised
<1>11. DirectoryFits(l)'
  BY <1>1, <1>2, <1>6, <1>7 DEF IndInv, Sound, DirectoryFits
<1>12. RequestsFit(l)'
  <2>1. RequestsFit(l)
    BY DEF IndInv, Sound
  <2>2. Dest(l)' = Dest(l)
    BY <1>1 DEF Dest
  <2>3. <<l, "turn/start">> \in asked => thread'[l] = thread[l]
    BY <1>1, <2>1 DEF RequestsFit
  <2> QED BY <1>1, <1>2, <1>7, <2>1, <2>2, <2>3 DEF RequestsFit
<1> QED BY <1>3, <1>4, <1>5, <1>8, <1>9, <1>10, <1>11, <1>12 DEF IndInv, Sound

\* git changes what is at a destination only where its launch made the directory,
\* and removes only a directory with nothing in it.
LEMMA OutsideInv ==
  ASSUME IndInv, NEW l \in Launches, Outside(l)
  PROVE  IndInv'
<1>1. /\ Dest(l) \in Dests /\ TypeOK
      /\ \A m \in Launches : m \in made => tree[Dest(m)] # "absent"
      /\ \A m \in Launches : Dest(m) \in Dests
      /\ <<l, "add">> \in todo => l \in made
      /\ \A m \in made : m # l /\ l \in made => Dest(m) # Dest(l)
  BY DEF IndInv, TypeOK, Places, ExclusiveDestination, Dest, Arguments
<1>2. \A work \in Work, answer \in {"ok", "differs", "rejected"} :
        Outcome(l, work, answer) =>
          \A m \in Launches : Dest(m)' = Dest(m) /\ UNCHANGED changed
  BY DEF Outcome, Dest
<1>3. ASSUME NEW work \in Work, NEW answer \in {"ok", "differs", "rejected"},
             Outcome(l, work, answer), UNCHANGED <<tree, thread, made>>,
             work = "thread/start" => answer = "rejected",
             work = "add" => answer = "rejected",
             work = "reinspect" /\ answer = "ok" => Dest(l) \notin changed
      PROVE  IndInv'
  <2>1. \A m \in Launches : IsWorktree(Dest(m)) => IsWorktree(Dest(m))'
    BY <1>2, <1>3 DEF IsWorktree
  <2>2. /\ tree' \in [Dests -> {"absent", "directory", "bare", "full"}]
        /\ \A m \in made' : tree'[Dest(m)] # "absent"
        /\ thread' \in [Launches -> {"none", "ok", "differs"}]
    BY <1>1, <1>3 DEF TypeOK
  <2>3. thread'[l] = thread[l] /\ \A m \in Launches \ {l} : thread'[m] = thread[m]
    BY <1>3
  <2> QED BY <1>3, <2>1, <2>2, <2>3, OutcomeInv
<1>4. CASE GitLists(l) \/ GitFails(l) \/ ServerDoes(l) \/ ServerRejects(l) \/ GitInspects(l)
  BY <1>3, <1>4 DEF GitLists, GitFails, ServerDoes, ServerRejects, GitInspects, Matches
<1>5. CASE GitAdds(l)
  <2>1. /\ Outcome(l, "add", "ok") /\ tree' = [tree EXCEPT ![Dest(l)] = "bare"]
        /\ UNCHANGED <<thread, made>>
    BY <1>5 DEF GitAdds
  <2>2. /\ tree' \in [Dests -> {"absent", "directory", "bare", "full"}]
        /\ tree'[Dest(l)] = "bare" /\ \A d \in Dests \ {Dest(l)} : tree'[d] = tree[d]
    BY <1>1, <2>1 DEF TypeOK
  <2>3. IsWorktree(Dest(l))' /\ \A m \in Launches : IsWorktree(Dest(m)) => IsWorktree(Dest(m))'
    BY <1>1, <1>2, <2>1, <2>2 DEF IsWorktree
  <2>4. \A m \in made' : tree'[Dest(m)] # "absent"
    BY <1>1, <2>1, <2>2 DEF TypeOK
  <2> QED BY <1>1, <2>1, <2>2, <2>3, <2>4, OutcomeInv DEF TypeOK
<1>6. CASE GitUndoes(l)
  <2>1. /\ Outcome(l, "add", "rejected") /\ tree' = [tree EXCEPT ![Dest(l)] = "absent"]
        /\ made' = made \ {l} /\ UNCHANGED thread
        /\ tree[Dest(l)] = "directory" /\ <<l, "add">> \in todo
    BY <1>6 DEF GitUndoes, Empty, Outcome
  <2>2. /\ tree' \in [Dests -> {"absent", "directory", "bare", "full"}]
        /\ \A d \in Dests \ {Dest(l)} : tree'[d] = tree[d]
    BY <1>1, <2>1 DEF TypeOK
  <2>3. \A m \in Launches : IsWorktree(Dest(m)) => IsWorktree(Dest(m))'
    BY <1>1, <1>2, <2>1, <2>2 DEF IsWorktree
  <2>4. \A m \in made' : tree'[Dest(m)] # "absent"
    BY <1>1, <2>1, <2>2 DEF TypeOK
  <2> QED BY <1>1, <2>1, <2>2, <2>3, <2>4, OutcomeInv DEF TypeOK
<1>7. CASE GitChecksOut(l)
  <2>1. /\ Outcome(l, "checkout", "ok") /\ tree' = [tree EXCEPT ![Dest(l)] = "full"]
        /\ UNCHANGED <<thread, made>>
    BY <1>7 DEF GitChecksOut
  <2>2. /\ tree' \in [Dests -> {"absent", "directory", "bare", "full"}]
        /\ tree'[Dest(l)] = "full" /\ \A d \in Dests \ {Dest(l)} : tree'[d] = tree[d]
    BY <1>1, <2>1 DEF TypeOK
  <2>3. \A m \in Launches : IsWorktree(Dest(m)) => IsWorktree(Dest(m))'
    BY <1>1, <1>2, <2>1, <2>2 DEF IsWorktree
  <2>4. \A m \in made' : tree'[Dest(m)] # "absent"
    BY <1>1, <2>1, <2>2 DEF TypeOK
  <2> QED BY <1>1, <2>1, <2>2, <2>3, <2>4, OutcomeInv DEF TypeOK
<1>8. CASE ServerStarts(l)
  <2>1. PICK says \in {"ok", "differs"} :
          /\ Outcome(l, "thread/start", says) /\ thread' = [thread EXCEPT ![l] = says]
          /\ UNCHANGED <<tree, made>>
    BY <1>8 DEF ServerStarts
  <2>2. /\ thread' \in [Launches -> {"none", "ok", "differs"}] /\ thread'[l] = says
        /\ \A m \in Launches \ {l} : thread'[m] = thread[m]
    BY <1>1, <2>1 DEF TypeOK
  <2>3. \A m \in Launches : IsWorktree(Dest(m)) => IsWorktree(Dest(m))'
    BY <1>2, <2>1 DEF IsWorktree
  <2>4. /\ tree' \in [Dests -> {"absent", "directory", "bare", "full"}]
        /\ \A m \in made' : tree'[Dest(m)] # "absent"
    BY <1>1, <2>1 DEF TypeOK
  <2> QED BY <1>1, <2>1, <2>2, <2>3, <2>4, OutcomeInv
<1> QED BY <1>4, <1>5, <1>6, <1>7, <1>8 DEF Outside

-----------------------------------------------------------------------------
(* The invariant, and what it gives. *)

LEMMA InitInv == Init => IndInv
<1> SUFFICES ASSUME Init PROVE IndInv
  OBVIOUS
<1>1. Blank \in Receipts
  BY DEF Blank, Receipts, Phases
<1>2. TypeOK /\ Places /\ ExclusiveDestination
  BY <1>1, LaunchAssumption DEF Init, TypeOK, Places, ExclusiveDestination
<1>3. ASSUME NEW l \in Launches
      PROVE  Sound(l)
  <2>1. at[l] = "new" /\ row[l] = Blank /\ memory[l] = Blank /\ thread[l] = "none"
    BY DEF Init
  <2>2. Known(l, row[l]) /\ TasksFit(l) /\ FailureFits(l)
    BY <2>1 DEF Init, Known, TasksFit, FailureFits, Blank
  <2>3. ReceiptFits(l) /\ DirectoryFits(l)
    BY <2>1 DEF Init, ReceiptFits, DirectoryFits, Blank
  <2>4. RequestsFit(l)
    BY <2>1 DEF Init, RequestsFit
  <2> QED BY <2>2, <2>3, <2>4 DEF Sound
<1> QED BY <1>2, <1>3 DEF IndInv

LEMMA NextInv == IndInv /\ [Next]_vars => IndInv'
<1> SUFFICES ASSUME IndInv, [Next]_vars PROVE IndInv'
  OBVIOUS
<1>1. CASE UNCHANGED vars
  <2>1. UNCHANGED <<args, at, out, memory, row, todo, tree, changed, made, thread, asked, early>>
    BY <1>1 DEF vars, files
  <2>2. TypeOK' /\ Places' /\ ExclusiveDestination'
    BY <2>1 DEF IndInv, TypeOK, Places, ExclusiveDestination, Dest
  <2>3. \A l \in Launches : Sound(l)'
    BY <2>1, Undisturbed DEF IndInv, Dest, IsWorktree
  <2> QED BY <2>2, <2>3 DEF IndInv
<1>2. CASE Next
  <2>1. ASSUME NEW l \in Launches, Begin(l) \/ LaunchStep(l) \/ Outside(l)
        PROVE  IndInv'
    BY <2>1, BeginInv, MakeDirectoryInv, LoseInv, ProgressInv, OutsideInv DEF LaunchStep
  <2> QED BY <1>2, <2>1, CrashInv, ChangeInv DEF Next
<1> QED BY <1>1, <1>2

LEMMA Invariance == Spec => []IndInv
BY InitInv, NextInv, PTL DEF Spec

\* Every variable keeps its type.
THEOREM TypeCorrect == Spec => []TypeOK
BY Invariance, PTL DEF IndInv

\* Worktree.reserve: no two launches ever have made one destination, however many
\* processes launch, are killed, or leave git children behind.
THEOREM OneMaker == Spec => []ExclusiveDestination
BY Invariance, PTL DEF IndInv

\* checkpoint(): the row in the ledger is never behind what a launch has had done.
THEOREM OnRecord == Spec => []ArtifactsOnRecord
<1>1. IndInv => ArtifactsOnRecord
  BY DEF IndInv, Sound, Known, ArtifactsOnRecord
<1> QED BY <1>1, Invariance, PTL

\* recoveryRequired is withdrawn only by a launch that is complete, and is never
\* missing from one that left a directory behind.
THEOREM RecoveryStands == Spec => []RecoveryUntilComplete
<1>1. IndInv => RecoveryUntilComplete
  BY DEF IndInv, Sound, Known, Quiet, RecoveryUntilComplete
<1> QED BY <1>1, Invariance, PTL

\* A prompt is only sent to a thread in the environment asked for, in a checkout
\* that nobody had written to before the last look at it.
THEOREM PromptsAreWithheld == Spec => []ChangeWithholdsPrompt
<1>1. IndInv => ChangeWithholdsPrompt
  BY DEF IndInv, Sound, RequestsFit, ChangeWithholdsPrompt
<1> QED BY <1>1, Invariance, PTL

\* A launch that ended in its process leaves no git child at work.
THEOREM ChildrenAreKilled == Spec => []NoChildLeft
<1>1. IndInv => NoChildLeft
  BY DEF IndInv, Sound, TasksFit, NoChildLeft
<1> QED BY <1>1, Invariance, PTL

\* "failed" is definite: nothing of the launch is at work and its receipt is exact.
THEOREM FailuresAreDefinite == Spec => []FailedIsDefinite
<1>1. IndInv => FailedIsDefinite
  BY DEF IndInv, Sound, FailureFits, Quiet, FailedIsDefinite
<1> QED BY <1>1, Invariance, PTL

-----------------------------------------------------------------------------
(***************************************************************************)
(* Liveness.  The provers know nothing of ENABLED: that a launch can       *)
(* always go on, or lose its patience, is a hypothesis.  It repeats the    *)
(* conditions of the steps; TLC finds it an invariant.                     *)
(***************************************************************************)
GuardsEnable ==
  \A l \in Launches :
    at[l] \in Alive /\ (at[l] = "environment" => out[l] \in {"ok", "differs"})
      => ENABLED <<LaunchStep(l)>>_vars

\* What a launch does after each of its steps, if it is not stopped there.
After(x) ==
  CASE x = "begin" -> {"check path"}
    [] x = "check path" -> {"list"}
    [] x = "list" -> {"reserve"}
    [] x = "reserve" -> {"mkdir"}
    [] x = "mkdir" -> {"add"}
    [] x = "add" -> {"checkout"}
    [] x = "checkout" -> {"inspect"}
    [] x = "inspect" -> {"compare"}
    [] x = "compare" -> {"thread/start"}
    [] x = "thread/start" -> {"environment"}
    [] x = "environment" -> {"thread/name/set", "reinspect"}
    [] x = "thread/name/set" -> {"reinspect"}
    [] x = "reinspect" -> {"recompare"}
    [] x = "recompare" -> {"turn/start", "finish"}
    [] x = "turn/start" -> {"finish"}
    [] x = "finish" -> {"accept"}
    [] x = "accept" -> {}

Over == {"done", "dead"}

\* No step of a launch leads back: git is asked, and the receipt saved, a bounded
\* number of times.
LEMMA LaunchOnward ==
  ASSUME TypeOK, NEW l \in Launches, LaunchStep(l)
  PROVE  /\ at[l] \in Alive /\ at'[l] \in After(at[l]) \union Over
         /\ \A m \in Launches \ {l} : at'[m] = at[m]
<1> USE DEF TypeOK, Checkpoint, Continue, Enter, GoOn, Fail, End, Over, After
<1>1. CASE Announce(l) \/ CheckPath(l) \/ CheckList(l) \/ Reserve(l)
  BY <1>1 DEF Announce, CheckPath, CheckList, Reserve
<1>2. CASE MakeDirectory(l) \/ DirectoryExists(l)
  BY <1>2 DEF MakeDirectory, DirectoryExists
<1>3. CASE Added(l) \/ CheckedOut(l) \/ Inspected(l) \/ Compare(l)
  BY <1>3 DEF Added, CheckedOut, Inspected, Compare
<1>4. CASE ThreadStarted(l) \/ CheckEnvironment(l) \/ Named(l)
  BY <1>4 DEF ThreadStarted, CheckEnvironment, Named
<1>5. CASE Reinspected(l) \/ Recompare(l) \/ PromptAccepted(l)
  BY <1>5 DEF Reinspected, Recompare, PromptAccepted, PromptTaken
<1>6. CASE Finish(l) \/ Accept(l) \/ Rejected(l)
  BY <1>6 DEF Finish, Accept, Rejected
<1>7. CASE Lose(l)
  BY <1>7 DEF Lose, TimesOut
<1> QED BY <1>1, <1>2, <1>3, <1>4, <1>5, <1>6, <1>7 DEF LaunchStep, Progress

\* Other launches, git, the server and the user do not move it, and a crash stops it.
LEMMA StepOnward ==
  ASSUME TypeOK, [Next]_vars, NEW l \in Launches, at[l] \in Alive
  PROVE  at'[l] = at[l] \/ at'[l] \in After(at[l]) \union Over
<1>1. CASE UNCHANGED vars
  BY <1>1 DEF vars
<1>2. ASSUME NEW m \in Launches, Begin(m) PROVE at'[l] = at[l]
  BY <1>2 DEF Begin, TypeOK
<1>3. ASSUME NEW m \in Launches, LaunchStep(m)
      PROVE at'[l] = at[l] \/ at'[l] \in After(at[l]) \union Over
  BY <1>3, LaunchOnward
<1>4. ASSUME NEW m \in Launches, Outside(m) PROVE at'[l] = at[l]
  BY <1>4 DEF Outside, GitLists, GitAdds, GitUndoes, GitChecksOut, GitInspects, GitFails,
              ServerStarts, ServerDoes, ServerRejects, Outcome
<1>5. ASSUME NEW p \in Procs, Crash(p) PROVE at'[l] \in {at[l], "dead"}
  BY <1>5 DEF Crash, TypeOK
<1>6. ASSUME NEW d \in Dests, Change(d) PROVE at'[l] = at[l]
  BY <1>6 DEF Change
<1> QED BY <1>1, <1>2, <1>3, <1>4, <1>5, <1>6 DEF Next, Over

\* The hypotheses of the theorem on liveness.
Served == FairSpec /\ []GuardsEnable

\* A launch at x goes on.
Leaves(l, x) == at[l] = x ~> at[l] \in After(x) \union Over

LEMMA LaunchProgress ==
  ASSUME NEW l \in Launches, NEW x \in Alive
  PROVE  Served => Leaves(l, x)
<1> DEFINE Onward == at[l] \in After(x) \union Over
<1>1. Fairness => FairTo(l)
  BY DEF Fairness
<1>2. IndInv /\ at[l] = x /\ [Next]_vars => (at[l] = x)' \/ Onward'
  BY StepOnward DEF IndInv
<1>3. IndInv /\ at[l] = x /\ <<LaunchStep(l)>>_vars => Onward'
  BY LaunchOnward DEF IndInv
<1>4. IndInv /\ GuardsEnable /\ at[l] = x => ENABLED <<LaunchStep(l)>>_vars
  BY DEF GuardsEnable, IndInv, Sound, RequestsFit
<1> QED BY <1>1, <1>2, <1>3, <1>4, Invariance, PTL DEF Served, FairSpec, Spec, FairTo, Leaves

\* Every launch that begins ends, whatever git, the server and other launches do.
THEOREM LaunchesEnd == FairSpec /\ []GuardsEnable => EveryLaunchEnds
<1> DEFINE At(l, x) == at[l] = x
           Ended(l) == at[l] \in {"done", "dead"}
<1> SUFFICES ASSUME NEW l \in Launches
             PROVE  FairSpec /\ []GuardsEnable => (At(l, "begin") ~> Ended(l))
  BY DEF EveryLaunchEnds
<1>0. {"begin", "check path", "list", "reserve", "mkdir", "add", "checkout", "inspect",
       "compare", "thread/start", "environment", "thread/name/set", "reinspect", "recompare",
       "turn/start", "finish", "accept"} \subseteq Alive
  OBVIOUS
<1>1. /\ Served => Leaves(l, "begin")
      /\ Served => Leaves(l, "check path")
      /\ Served => Leaves(l, "list")
      /\ Served => Leaves(l, "reserve")
      /\ Served => Leaves(l, "mkdir")
      /\ Served => Leaves(l, "add")
      /\ Served => Leaves(l, "checkout")
      /\ Served => Leaves(l, "inspect")
      /\ Served => Leaves(l, "compare")
      /\ Served => Leaves(l, "thread/start")
      /\ Served => Leaves(l, "environment")
      /\ Served => Leaves(l, "thread/name/set")
      /\ Served => Leaves(l, "reinspect")
      /\ Served => Leaves(l, "recompare")
      /\ Served => Leaves(l, "turn/start")
      /\ Served => Leaves(l, "finish")
      /\ Served => Leaves(l, "accept")
  <2> HIDE DEF Alive
  <2> QED BY <1>0, LaunchProgress
<1>2. /\ at[l] \in After("begin") \union Over => At(l, "check path") \/ Ended(l)
      /\ at[l] \in After("check path") \union Over => At(l, "list") \/ Ended(l)
      /\ at[l] \in After("list") \union Over => At(l, "reserve") \/ Ended(l)
      /\ at[l] \in After("reserve") \union Over => At(l, "mkdir") \/ Ended(l)
      /\ at[l] \in After("mkdir") \union Over => At(l, "add") \/ Ended(l)
      /\ at[l] \in After("add") \union Over => At(l, "checkout") \/ Ended(l)
      /\ at[l] \in After("checkout") \union Over => At(l, "inspect") \/ Ended(l)
      /\ at[l] \in After("inspect") \union Over => At(l, "compare") \/ Ended(l)
      /\ at[l] \in After("compare") \union Over => At(l, "thread/start") \/ Ended(l)
      /\ at[l] \in After("thread/start") \union Over => At(l, "environment") \/ Ended(l)
      /\ at[l] \in After("environment") \union Over =>
           At(l, "thread/name/set") \/ At(l, "reinspect") \/ Ended(l)
      /\ at[l] \in After("thread/name/set") \union Over => At(l, "reinspect") \/ Ended(l)
      /\ at[l] \in After("reinspect") \union Over => At(l, "recompare") \/ Ended(l)
      /\ at[l] \in After("recompare") \union Over =>
           At(l, "turn/start") \/ At(l, "finish") \/ Ended(l)
      /\ at[l] \in After("turn/start") \union Over => At(l, "finish") \/ Ended(l)
      /\ at[l] \in After("finish") \union Over => At(l, "accept") \/ Ended(l)
      /\ at[l] \in After("accept") \union Over => Ended(l)
  BY DEF After, Over
<1> QED BY <1>1, <1>2, PTL DEF Served, Leaves
=============================================================================

------------------------------ MODULE UvProofs ------------------------------
(***************************************************************************)
(* Proofs about UvBootstrap, for any number of launchers on either         *)
(* platform.                                                               *)
(***************************************************************************)
EXTENDS UvBootstrap, TLAPS

\* What a launcher knows where it stands: the archive it extracts has the right
\* hash, what it renames was extracted from it, and what it goes on to run is there.
StagedWhole ==
  \A l \in Launchers :
    /\ pc[l] = "extract" => staged[l] = "archive"
    /\ pc[l] \in {"access", "rename"} => staged[l] = "whole"
    /\ pc[l] \in {"clean", "run", "spawned", "wait"} => installed = "whole"

\* A launcher that waits for its child has its handlers, one that a signal ended had
\* none, and one that ended by itself has seen the end of its child.
Handling ==
  \A l \in Launchers :
    /\ pc[l] = "wait" => handlers[l]
    /\ pc[l] \notin {"wait", "destroyed"} => ~handlers[l]
    /\ pc[l] = "ended" => child[l] # "running"

IndInv == TypeOK /\ InstalledWhole /\ StagedWhole /\ Handling

\* Where a launcher has, or had, a child.
HasChild == {"spawned", "wait", "ended", "killed", "destroyed"}

Places == {"look", "make", "fetch", "hash", "extract", "access", "rename", "recheck",
           "clean", "give up", "run", "failed"} \union HasChild

LEMMA InitInv == Init => IndInv
<1> SUFFICES ASSUME Init
             PROVE  IndInv
  OBVIOUS
<1>1. TypeOK
  BY DEF Init, TypeOK, Contents
<1>2. InstalledWhole /\ StagedWhole /\ Handling
  BY DEF Init, InstalledWhole, StagedWhole, Handling, HasExecutable
<1> QED BY <1>1, <1>2 DEF IndInv

\* A launcher goes on in ensureUv, and leaves the destination as it is.
LEMMA GoesOnInv ==
  ASSUME IndInv, NEW l \in Launchers, NEW what \in Contents,
         NEW to \in {"make", "fetch", "hash", "extract", "access", "rename", "recheck",
                     "clean", "give up", "run", "failed"},
         to = "extract" => what = "archive",
         to \in {"access", "rename"} => what = "whole",
         to \in {"clean", "run"} => installed = "whole",
         pc[l] \notin HasChild,
         pc' = [pc EXCEPT ![l] = to], staged' = [staged EXCEPT ![l] = what],
         UNCHANGED <<platform, processes, installed>>
  PROVE  IndInv'
<1>1. /\ staged' \in [Launchers -> Contents] /\ pc' \in [Launchers -> Places]
      /\ installed' = installed /\ platform' = platform
      /\ child' = child /\ handlers' = handlers /\ killer' = killer /\ told' = told
  BY DEF IndInv, TypeOK, processes, Places, HasChild
<1>2. \A m \in Launchers \ {l} : pc'[m] = pc[m] /\ staged'[m] = staged[m]
  BY DEF IndInv, TypeOK
<1>3. pc'[l] = to /\ staged'[l] = what
  BY DEF IndInv, TypeOK
<1>4. child[l] = "none"
  BY DEF IndInv, TypeOK, HasChild
<1>5. TypeOK'
  BY <1>1, <1>2, <1>3, <1>4 DEF IndInv, TypeOK, Places, HasChild
<1>6. InstalledWhole' /\ StagedWhole'
  BY <1>1, <1>2, <1>3 DEF IndInv, InstalledWhole, HasExecutable, StagedWhole
<1>7. Handling'
  BY <1>1, <1>2, <1>3 DEF IndInv, Handling, HasChild
<1> QED BY <1>5, <1>6, <1>7 DEF IndInv

\* So it is when its temporary directory is as it was.
LEMMA LeavesFilesInv ==
  ASSUME IndInv, NEW l \in Launchers,
         NEW to \in {"make", "fetch", "hash", "extract", "access", "rename", "recheck",
                     "clean", "give up", "run", "failed"},
         to = "extract" => staged[l] = "archive",
         to \in {"access", "rename"} => staged[l] = "whole",
         to \in {"clean", "run"} => installed = "whole",
         pc[l] \notin HasChild,
         pc' = [pc EXCEPT ![l] = to], UNCHANGED <<platform, processes, files>>
  PROVE  IndInv'
<1>1. staged[l] \in Contents /\ staged' = [staged EXCEPT ![l] = staged[l]] /\ installed' = installed
  BY DEF IndInv, TypeOK, files
<1> QED BY <1>1, GoesOnInv

\* The steps of ensureUv before the rename touch the launcher's own directory only.
LEMMA StagingInv ==
  ASSUME IndInv, NEW l \in Launchers, UNCHANGED <<platform, processes>>,
         Look(l) \/ MakeTemporary(l) \/ Download(l) \/ FetchFails(l) \/ CheckHash(l)
           \/ Extract(l) \/ Access(l)
  PROVE  IndInv'
<1> USE DEF HasChild
<1>1. CASE Look(l)
  <2>1. CASE HasExecutable(installed)
    <3>1. installed = "whole"
      BY <2>1 DEF IndInv, InstalledWhole
    <3> QED BY <1>1, <2>1, <3>1, LeavesFilesInv DEF Look, Move
  <2>2. CASE ~HasExecutable(installed)
    BY <1>1, <2>2, LeavesFilesInv DEF Look, Move
  <2> QED BY <2>1, <2>2
<1>2. CASE MakeTemporary(l)
  <2>1. CASE Move(l, "make", "fetch") /\ Stage(l, "empty")
    BY <2>1, GoesOnInv DEF Move, Stage, Contents
  <2>2. CASE Move(l, "make", "failed") /\ UNCHANGED files
    BY <2>2, LeavesFilesInv DEF Move
  <2> QED BY <1>2, <2>1, <2>2 DEF MakeTemporary
<1>3. CASE Download(l)
  BY <1>3, GoesOnInv DEF Download, Move, Stage, Contents
<1>4. CASE FetchFails(l)
  BY <1>4, LeavesFilesInv DEF FetchFails, GivesUpFetching, Move
<1>5. CASE CheckHash(l)
  <2>1. CASE HashAgrees(staged[l])
    BY <1>5, <2>1, LeavesFilesInv DEF CheckHash, HashAgrees, Move
  <2>2. CASE ~HashAgrees(staged[l])
    BY <1>5, <2>2, LeavesFilesInv DEF CheckHash, Move
  <2> QED BY <2>1, <2>2
<1>6. CASE Extract(l)
  <2>1. pc[l] = "extract" /\ staged[l] = "archive"
    BY <1>6 DEF IndInv, StagedWhole, Extract, Move
  <2>2. CASE Move(l, "extract", "access") /\ Stage(l, "whole")
    BY <2>2, GoesOnInv DEF Move, Stage, Contents
  <2>3. CASE Move(l, "extract", "give up") /\ Stage(l, "part")
    BY <2>3, GoesOnInv DEF Move, Stage, Contents
  <2> QED BY <1>6, <2>1, <2>2, <2>3 DEF Extract
<1>7. CASE Access(l)
  <2>1. pc[l] = "access" /\ staged[l] = "whole" /\ UNCHANGED files
    BY <1>7 DEF IndInv, StagedWhole, Access, Move
  <2>2. CASE Move(l, "access", "rename")
    BY <2>1, <2>2, LeavesFilesInv DEF Move
  <2>3. CASE Move(l, "access", "give up")
    BY <2>1, <2>3, LeavesFilesInv DEF Move
  <2> QED BY <1>7, <2>2, <2>3 DEF Access
<1> QED BY <1>1, <1>2, <1>3, <1>4, <1>5, <1>6, <1>7

\* What is renamed to the destination is whole, and what is whole is not replaced.
LEMMA RenamedInv ==
  ASSUME IndInv, NEW l \in Launchers, UNCHANGED <<platform, processes>>,
         Rename(l), RenameSucceeds
  PROVE  IndInv'
<1>1. installed' = "whole" /\ pc[l] = "rename"
  BY DEF IndInv, StagedWhole, Rename, RenameSucceeds, Move
<1>2. pc' = [pc EXCEPT ![l] = "clean"] /\ staged' = [staged EXCEPT ![l] = "empty"]
  BY DEF Rename, Move
<1>3. /\ staged' \in [Launchers -> Contents] /\ pc' \in [Launchers -> Places]
      /\ installed' \in Contents /\ platform' = platform
      /\ child' = child /\ handlers' = handlers /\ killer' = killer /\ told' = told
  BY <1>1, <1>2 DEF IndInv, TypeOK, Contents, processes, Places, HasChild
<1>4. /\ pc'[l] = "clean"
      /\ \A m \in Launchers \ {l} : pc'[m] = pc[m] /\ staged'[m] = staged[m]
  BY <1>2 DEF IndInv, TypeOK
<1>5. child[l] = "none"
  BY <1>1 DEF IndInv, TypeOK
<1>6. TypeOK'
  BY <1>3, <1>4, <1>5 DEF IndInv, TypeOK, Places, HasChild
<1>7. InstalledWhole' /\ StagedWhole'
  BY <1>1, <1>4 DEF IndInv, InstalledWhole, StagedWhole
<1>8. Handling'
  BY <1>1, <1>3, <1>4 DEF IndInv, Handling
<1> QED BY <1>6, <1>7, <1>8 DEF IndInv

LEMMA RenamingInv ==
  ASSUME IndInv, NEW l \in Launchers, UNCHANGED <<platform, processes>>,
         Rename(l) \/ Recheck(l) \/ Clean(l)
  PROVE  IndInv'
<1> USE DEF HasChild
<1>1. CASE Rename(l)
  <2>1. CASE ~RenameSucceeds
    BY <1>1, <2>1, LeavesFilesInv DEF Rename, Move
  <2>2. CASE RenameSucceeds
    BY <1>1, <2>2, RenamedInv
  <2> QED BY <2>1, <2>2
<1>2. CASE Recheck(l)
  <2>1. CASE WonByAnother
    <3>1. installed = "whole"
      BY <2>1 DEF IndInv, InstalledWhole, WonByAnother
    <3> QED BY <1>2, <2>1, <3>1, LeavesFilesInv DEF Recheck, Move
  <2>2. CASE ~WonByAnother
    BY <1>2, <2>2, LeavesFilesInv DEF Recheck, Move
  <2> QED BY <2>1, <2>2
<1>3. CASE Clean(l)
  <2>1. CASE Move(l, "clean", "run") /\ Stage(l, "none")
    <3>1. installed = "whole"
      BY <2>1 DEF IndInv, StagedWhole, Move
    <3> QED BY <2>1, <3>1, GoesOnInv DEF Move, Stage, Contents
  <2>2. CASE Move(l, "give up", "failed") /\ Stage(l, "none")
    BY <2>2, GoesOnInv DEF Move, Stage, Contents
  <2>3. CASE \E from \in {"clean", "give up"} : Move(l, from, "failed") /\ UNCHANGED files
    BY <2>3, LeavesFilesInv DEF Move
  <2> QED BY <1>3, <2>1, <2>2, <2>3 DEF Clean
<1> QED BY <1>1, <1>2, <1>3

\* The steps of main and terminateChild leave the directories alone.
LEMMA ChildInv ==
  ASSUME IndInv, NEW l \in Launchers, UNCHANGED platform,
         Run(l) \/ ChildEnds(l) \/ Signal(l) \/ Kill(l) \/ KillerEnds(l)
  PROVE  IndInv'
<1>1. UNCHANGED files
  BY DEF Run, Spawn, InstallHandlers, End, ChildEnds, Signal, Kill, KillerEnds
<1>2. staged' = staged /\ installed' = installed
  BY <1>1 DEF files
<1>3. InstalledWhole'
  BY <1>2 DEF IndInv, InstalledWhole, HasExecutable
<1> USE DEF IndInv, TypeOK
<1>4. CASE Spawn(l)
  <2>1. /\ pc[l] = "run" /\ handlers' = handlers /\ killer' = killer /\ told' = told
        /\ \/ pc' = [pc EXCEPT ![l] = "spawned"] /\ child' = [child EXCEPT ![l] = "running"]
           \/ pc' = [pc EXCEPT ![l] = "failed"] /\ child' = child
    BY <1>4 DEF Spawn, Move
  <2>2. TypeOK'
    BY <1>2, <2>1
  <2>3. StagedWhole' /\ Handling'
    BY <1>2, <2>1 DEF StagedWhole, Handling
  <2> QED BY <1>3, <2>2, <2>3
<1>5. CASE InstallHandlers(l)
  <2>1. /\ pc[l] = "spawned" /\ pc' = [pc EXCEPT ![l] = "wait"]
        /\ handlers' = [handlers EXCEPT ![l] = TRUE]
        /\ child' = child /\ killer' = killer /\ told' = told
    BY <1>5 DEF InstallHandlers, Move
  <2>2. TypeOK'
    BY <1>2, <2>1
  <2>3. StagedWhole' /\ Handling'
    BY <1>2, <2>1 DEF StagedWhole, Handling
  <2> QED BY <1>3, <2>2, <2>3
<1>6. CASE End(l)
  <2>1. /\ pc' = [pc EXCEPT ![l] = "ended"]
        /\ handlers' = [handlers EXCEPT ![l] = FALSE]
        /\ child[l] = "exited" /\ child' = child /\ killer' = killer /\ told' = told
    BY <1>6 DEF End, Move
  <2>2. TypeOK'
    BY <1>2, <2>1
  <2>3. StagedWhole' /\ Handling'
    BY <1>2, <2>1 DEF StagedWhole, Handling
  <2> QED BY <1>3, <2>2, <2>3
<1>7. CASE ChildEnds(l)
  <2>1. /\ child[l] = "running" /\ child' = [child EXCEPT ![l] = "exited"]
        /\ pc' = pc /\ handlers' = handlers /\ killer' = killer /\ told' = told
    BY <1>7 DEF ChildEnds
  <2>2. TypeOK'
    BY <1>2, <2>1
  <2>3. StagedWhole' /\ Handling'
    BY <1>2, <2>1 DEF StagedWhole, Handling
  <2> QED BY <1>3, <2>2, <2>3
<1>8. CASE Signal(l) /\ Handled(l)
  <2>1. /\ pc' = pc /\ child' = child /\ handlers' = handlers
        /\ killer' \in [Launchers -> BOOLEAN] /\ told' \in [Launchers -> BOOLEAN]
    BY <1>8 DEF Signal
  <2>2. TypeOK'
    BY <1>2, <2>1
  <2>3. StagedWhole' /\ Handling'
    BY <1>2, <2>1 DEF StagedWhole, Handling
  <2> QED BY <1>3, <2>2, <2>3
<1>9. CASE (Signal(l) /\ ~Handled(l)) \/ Kill(l)
  <2>1. /\ \/ pc' = [pc EXCEPT ![l] = "killed"] /\ ~handlers[l] /\ pc[l] # "ended"
           \/ pc' = [pc EXCEPT ![l] = "destroyed"] /\ pc[l] \in {"spawned", "wait"}
        /\ child' = child /\ handlers' = handlers /\ killer' = killer /\ told' = told
    BY <1>9 DEF Signal, Handled, Kill, processes
  <2>2. TypeOK'
    BY <1>2, <2>1
  <2>3. StagedWhole' /\ Handling'
    BY <1>2, <2>1 DEF StagedWhole, Handling
  <2> QED BY <1>3, <2>2, <2>3
<1>10. CASE KillerEnds(l)
  <2>1. /\ pc' = pc /\ child' = child /\ handlers' = handlers
        /\ killer' \in [Launchers -> BOOLEAN] /\ told' \in [Launchers -> BOOLEAN]
    BY <1>10 DEF KillerEnds, ToldAfterFailure
  <2>2. TypeOK'
    BY <1>2, <2>1
  <2>3. StagedWhole' /\ Handling'
    BY <1>2, <2>1 DEF StagedWhole, Handling
  <2> QED BY <1>3, <2>2, <2>3
<1> QED BY <1>4, <1>5, <1>6, <1>7, <1>8, <1>9, <1>10 DEF Run

LEMMA NextInv == IndInv /\ [Next]_vars => IndInv'
<1> SUFFICES ASSUME IndInv, [Next]_vars
             PROVE  IndInv'
  OBVIOUS
<1>1. CASE UNCHANGED vars
  BY <1>1 DEF IndInv, TypeOK, InstalledWhole, StagedWhole, Handling, HasExecutable, vars
<1>2. CASE Next
  <2> PICK l \in Launchers : Step(l) /\ UNCHANGED platform
    BY <1>2 DEF Next
  <2>1. CASE Install(l)
    BY <2>1, StagingInv, RenamingInv DEF Install
  <2>2. CASE Download(l)
    BY <2>2, StagingInv DEF Download
  <2>3. CASE Run(l) \/ ChildEnds(l) \/ Signal(l) \/ Kill(l) \/ KillerEnds(l)
    BY <2>3, ChildInv
  <2> QED BY <2>1, <2>2, <2>3 DEF Step
<1> QED BY <1>1, <1>2

LEMMA Invariance == Spec => []IndInv
BY InitInv, NextInv, PTL DEF Spec

\* Every variable of UvBootstrap keeps its type.
THEOREM TypeCorrect == Spec => []TypeOK
BY Invariance, PTL DEF IndInv

\* What launchers find at the destination is the whole of a verified archive.
THEOREM AlwaysWhole == Spec => []InstalledWhole
BY Invariance, PTL DEF IndInv

\* A launcher that runs uv has it, whichever launcher installed it.
THEOREM RunsOnlyWhole == Spec => []RunsWhatIsThere
<1>1. IndInv => RunsWhatIsThere
  BY DEF IndInv, StagedWhole, RunsWhatIsThere
<1> QED BY <1>1, Invariance, PTL

\* A launcher leaves a running child only by a signal that came before its handlers
\* were installed, or by SIGKILL.
THEOREM LauncherOutlives == Spec => []OutlivesChild
<1>1. IndInv => OutlivesChild
  BY DEF IndInv, TypeOK, Handling, OutlivesChild
<1> QED BY <1>1, Invariance, PTL

-----------------------------------------------------------------------------
(***************************************************************************)
(* Liveness.  The provers know nothing of ENABLED: what the guards of the  *)
(* fair steps enable is a hypothesis, each line of which repeats the       *)
(* conditions of one action.  TLC finds it an invariant.                   *)
(***************************************************************************)
Installing == {"make", "fetch", "hash", "extract", "access", "rename", "recheck", "clean",
               "give up"}

GuardsEnable ==
  \A l \in Launchers :
    /\ pc[l] \in Installing => ENABLED <<Install(l) /\ UNCHANGED platform>>_vars
    /\ pc[l] = "spawned" \/ (pc[l] = "wait" /\ child[l] = "exited")
         => ENABLED <<Run(l) /\ UNCHANGED platform>>_vars
    /\ killer[l] => ENABLED <<KillerEnds(l) /\ UNCHANGED platform>>_vars
    /\ told[l] /\ child[l] = "running"
         => ENABLED <<told[l] /\ ChildEnds(l) /\ UNCHANGED platform>>_vars

\* Where a launcher is after each step of its installation; it may fail or be killed
\* in all of them.
After(x) ==
  CASE x = "make" -> {"fetch"}
    [] x = "fetch" -> {"hash", "give up"}
    [] x = "hash" -> {"extract", "give up"}
    [] x = "extract" -> {"access", "give up"}
    [] x = "access" -> {"rename", "give up"}
    [] x = "rename" -> {"clean", "recheck"}
    [] x = "recheck" -> {"clean", "give up"}
    [] x = "clean" -> {"run"}
    [] x = "give up" -> {}

Stops == {"failed", "killed"}

\* Nothing that other launchers do moves this one; its own steps take it onwards.
LEMMA InstallOnward ==
  ASSUME TypeOK, NEW l \in Launchers, pc[l] \in Installing
  PROVE  /\ [Next]_vars => pc'[l] = pc[l] \/ pc'[l] \in After(pc[l]) \union Stops
         /\ <<Install(l) /\ UNCHANGED platform>>_vars => pc'[l] \in After(pc[l]) \union Stops
<1>1. ASSUME Install(l) PROVE pc'[l] \in After(pc[l]) \union Stops
  BY <1>1 DEF Install, Look, MakeTemporary, FetchFails, GivesUpFetching, CheckHash, Extract,
              Access, Rename, Recheck, Clean, Move, TypeOK, Installing, After, Stops
<1>2. ASSUME Step(l) PROVE pc'[l] = pc[l] \/ pc'[l] \in After(pc[l]) \union Stops
  <2>1. CASE Download(l)
    BY <2>1 DEF Download, Move, TypeOK, After
  <2>2. CASE Run(l) \/ ChildEnds(l) \/ Kill(l) \/ KillerEnds(l)
    BY <2>2 DEF Run, Spawn, InstallHandlers, End, ChildEnds, Kill, KillerEnds, Move, Installing
  <2>3. CASE Signal(l)
    BY <2>3 DEF Signal, TypeOK, Stops
  <2> QED BY <1>1, <1>2, <2>1, <2>2, <2>3 DEF Step
<1>3. ASSUME NEW m \in Launchers \ {l}, Step(m) PROVE pc'[l] = pc[l]
  BY <1>3 DEF Step, Install, Run, Look, MakeTemporary, FetchFails, GivesUpFetching, CheckHash,
              Extract, Access, Rename, Recheck, Clean, Download, Spawn, InstallHandlers, End,
              ChildEnds, Signal, Kill, KillerEnds, Move, TypeOK
<1>4. CASE UNCHANGED vars
  BY <1>1, <1>4 DEF vars
<1> QED BY <1>1, <1>2, <1>3, <1>4 DEF Next

\* The hypotheses of the theorems on liveness.
Served == FairSpec /\ []GuardsEnable

\* A launcher at x goes on.
Leaves(l, x) == pc[l] = x ~> pc[l] \in After(x) \union Stops

LEMMA InstallProgress ==
  ASSUME NEW l \in Launchers, NEW x \in Installing
  PROVE  Served => Leaves(l, x)
<1> DEFINE Onward == pc[l] \in After(x) \union Stops
<1>1. Fairness => FairTo(l)
  BY DEF Fairness
<1>2. TypeOK /\ pc[l] = x /\ [Next]_vars => (pc[l] = x)' \/ Onward'
  BY InstallOnward
<1>3. TypeOK /\ pc[l] = x /\ <<Install(l) /\ UNCHANGED platform>>_vars => Onward'
  BY InstallOnward
<1>4. GuardsEnable /\ pc[l] = x => ENABLED <<Install(l) /\ UNCHANGED platform>>_vars
  BY DEF GuardsEnable
<1> QED BY <1>1, <1>2, <1>3, <1>4, TypeCorrect, PTL DEF Served, FairSpec, Spec, FairTo, Leaves

\* Every launcher gets to run uv, or says why not, for any number of launchers.
THEOREM InstallsEnd == FairSpec /\ []GuardsEnable => EveryInstallEnds
<1> DEFINE At(l, x) == pc[l] = x
           Over(l) == pc[l] \in {"run", "failed", "killed"}
<1> SUFFICES ASSUME NEW l \in Launchers
             PROVE  FairSpec /\ []GuardsEnable => (At(l, "make") ~> Over(l))
  BY DEF EveryInstallEnds
<1>1. /\ Served => Leaves(l, "make")
      /\ Served => Leaves(l, "fetch")
      /\ Served => Leaves(l, "hash")
      /\ Served => Leaves(l, "extract")
      /\ Served => Leaves(l, "access")
      /\ Served => Leaves(l, "rename")
      /\ Served => Leaves(l, "recheck")
      /\ Served => Leaves(l, "clean")
      /\ Served => Leaves(l, "give up")
  BY InstallProgress DEF Installing
<1>2. /\ pc[l] \in After("make") \union Stops => At(l, "fetch") \/ Over(l)
      /\ pc[l] \in After("fetch") \union Stops => At(l, "hash") \/ At(l, "give up") \/ Over(l)
      /\ pc[l] \in After("hash") \union Stops => At(l, "extract") \/ At(l, "give up") \/ Over(l)
      /\ pc[l] \in After("extract") \union Stops =>
           At(l, "access") \/ At(l, "give up") \/ Over(l)
      /\ pc[l] \in After("access") \union Stops =>
           At(l, "rename") \/ At(l, "give up") \/ Over(l)
      /\ pc[l] \in After("rename") \union Stops =>
           At(l, "clean") \/ At(l, "recheck") \/ Over(l)
      /\ pc[l] \in After("recheck") \union Stops =>
           At(l, "clean") \/ At(l, "give up") \/ Over(l)
      /\ pc[l] \in After("clean") \union Stops => Over(l)
      /\ pc[l] \in After("give up") \union Stops => Over(l)
  BY DEF After, Stops
<1> QED BY <1>1, <1>2, PTL DEF Served, Leaves

\* Only a launcher that waits, or waited, for its child is told of a signal, and it has
\* a child.
Signalled ==
  \A l \in Launchers :
    /\ told[l] \/ killer[l] => pc[l] \in {"wait", "ended", "destroyed"}
    /\ pc[l] \in {"spawned", "wait", "ended", "destroyed"} => child[l] # "none"
    /\ handlers[l] => pc[l] \in {"wait", "destroyed"}
    /\ pc[l] = "wait" => handlers[l]

LEMMA InitSignalled == Init => Signalled
BY DEF Init, Signalled

LEMMA StepSignalled == TypeOK /\ Signalled /\ [Next]_vars => Signalled'
<1> SUFFICES ASSUME TypeOK, Signalled, [Next]_vars
             PROVE  Signalled'
  OBVIOUS
<1>1. CASE UNCHANGED vars
  BY <1>1 DEF vars, Signalled
<1>2. CASE Next
  <2> PICK l \in Launchers : Step(l)
    BY <1>2 DEF Next
  <2>1. CASE Install(l)
    <3>1. pc[l] \notin HasChild /\ pc'[l] \notin HasChild
      BY <2>1 DEF Install, Look, MakeTemporary, FetchFails, GivesUpFetching, CheckHash,
                  Extract, Access, Rename, Recheck, Clean, Move, TypeOK, HasChild
    <3>2. \A m \in Launchers \ {l} : pc'[m] = pc[m]
      BY <2>1 DEF Install, Look, MakeTemporary, FetchFails, GivesUpFetching, CheckHash,
                  Extract, Access, Rename, Recheck, Clean, Move, TypeOK
    <3>3. UNCHANGED <<child, handlers, killer, told>>
      BY <2>1 DEF Install, processes
    <3> QED BY <3>1, <3>2, <3>3 DEF Signalled, HasChild
  <2>2. CASE Download(l)
    BY <2>2 DEF Download, Move, processes, Signalled, TypeOK
  <2>3. CASE Spawn(l) \/ InstallHandlers(l) \/ End(l)
    BY <2>3 DEF Spawn, InstallHandlers, End, Move, Signalled, TypeOK
  <2>4. CASE ChildEnds(l)
    BY <2>4 DEF ChildEnds, Signalled, TypeOK
  <2>5. CASE Signal(l)
    BY <2>5 DEF Signal, Handled, Signalled, TypeOK
  <2>6. CASE Kill(l)
    BY <2>6 DEF Kill, processes, Signalled, TypeOK
  <2>7. CASE KillerEnds(l)
    BY <2>7 DEF KillerEnds, Signalled, TypeOK
  <2> QED BY <2>1, <2>2, <2>3, <2>4, <2>5, <2>6, <2>7 DEF Step, Run
<1> QED BY <1>1, <1>2

LEMMA AlwaysSignalled == Spec => []Signalled
BY InitSignalled, StepSignalled, TypeCorrect, PTL DEF Spec

\* A launcher waits for its child: with a taskkill at work, or with the child, at c, told.
Killing(l) == killer[l] /\ pc[l] = "wait"
Told(l, c) == told[l] /\ child[l] = c /\ pc[l] = "wait"

Ended(l) == pc[l] \in {"ended", "destroyed"}

\* A signal is not forgotten on its way to the child, nor the end of the child.
LEMMA SignalOnward ==
  ASSUME TypeOK, Signalled, [Next]_vars, NEW l \in Launchers, pc[l] = "wait"
  PROVE  /\ pc'[l] = "wait" \/ Ended(l)'
         /\ killer[l] => killer'[l] \/ told'[l]
         /\ told[l] => told'[l]
         /\ child[l] = "running" => child'[l] \in {"running", "exited"}
         /\ child[l] = "exited" => child'[l] = "exited"
<1> USE DEF Ended
<1>1. CASE UNCHANGED vars
  BY <1>1 DEF vars
<1>2. CASE Next
  <2> PICK m \in Launchers : Step(m)
    BY <1>2 DEF Next
  <2>1. CASE Install(m)
    <3>1. pc[m] \notin HasChild /\ \A k \in Launchers \ {m} : pc'[k] = pc[k]
      BY <2>1 DEF Install, Look, MakeTemporary, FetchFails, GivesUpFetching, CheckHash,
                  Extract, Access, Rename, Recheck, Clean, Move, TypeOK, HasChild
    <3>2. UNCHANGED <<child, killer, told>>
      BY <2>1 DEF Install, processes
    <3> QED BY <3>1, <3>2 DEF HasChild
  <2>2. CASE Download(m)
    BY <2>2 DEF Download, Move, processes, TypeOK
  <2>3. CASE Spawn(m) \/ InstallHandlers(m) \/ End(m)
    BY <2>3 DEF Spawn, InstallHandlers, End, Move, TypeOK
  <2>4. CASE ChildEnds(m)
    BY <2>4 DEF ChildEnds, TypeOK
  <2>5. CASE Signal(m)
    <3>1. UNCHANGED child
      BY <2>5 DEF Signal
    <3>2. CASE Handled(m)
      BY <2>5, <3>1, <3>2 DEF Signal, TypeOK
    <3>3. CASE ~Handled(m)
      <4>1. m # l
        BY <3>3 DEF Handled, Signalled
      <4> QED BY <2>5, <3>1, <3>3, <4>1 DEF Signal, TypeOK
    <3> QED BY <3>2, <3>3
  <2>6. CASE Kill(m)
    BY <2>6 DEF Kill, processes, TypeOK
  <2>7. CASE KillerEnds(m)
    BY <2>7 DEF KillerEnds, ToldAfterFailure, TypeOK
  <2> QED BY <2>1, <2>2, <2>3, <2>4, <2>5, <2>6, <2>7 DEF Step, Run
<1> QED BY <1>1, <1>2

LEMMA SignalProgress ==
  ASSUME TypeOK, NEW l \in Launchers, pc[l] = "wait"
  PROVE  /\ <<KillerEnds(l) /\ UNCHANGED platform>>_vars => told'[l]
         /\ <<told[l] /\ ChildEnds(l) /\ UNCHANGED platform>>_vars =>
              (Told(l, "running") => Told(l, "exited")')
         /\ <<Run(l) /\ UNCHANGED platform>>_vars => (Told(l, "exited") => Ended(l)')
BY DEF KillerEnds, ToldAfterFailure, ChildEnds, Run, Spawn, InstallHandlers, End, Move, Told,
       Ended, TypeOK

\* A signal that was passed on ends the child and then the launcher, also when taskkill
\* fails, whatever other launchers and later signals do.
THEOREM SignalsEnd == FairSpec /\ []GuardsEnable => SignalEndsLauncher
<1> SUFFICES ASSUME NEW l \in Launchers
             PROVE  FairSpec /\ []GuardsEnable => (killer[l] \/ told[l] ~> Ended(l))
  BY DEF SignalEndsLauncher, Ended
<1> DEFINE Known == TypeOK /\ Signalled
<1>1. Fairness => FairTo(l)
  BY DEF Fairness
<1>2. /\ Known /\ Killing(l) /\ [Next]_vars =>
           Killing(l)' \/ Told(l, "running")' \/ Told(l, "exited")' \/ Ended(l)'
      /\ Known /\ Told(l, "running") /\ [Next]_vars =>
           Told(l, "running")' \/ Told(l, "exited")' \/ Ended(l)'
      /\ Known /\ Told(l, "exited") /\ [Next]_vars => Told(l, "exited")' \/ Ended(l)'
  <2>1. Known /\ pc[l] = "wait" => child[l] \in {"running", "exited"}
    BY DEF TypeOK, Signalled
  <2> QED BY <2>1, SignalOnward DEF Killing, Told
<1>3. /\ Known /\ Killing(l) /\ [Next]_vars /\ <<KillerEnds(l) /\ UNCHANGED platform>>_vars =>
           Told(l, "running")' \/ Told(l, "exited")' \/ Ended(l)'
      /\ Known /\ Told(l, "running")
         /\ <<told[l] /\ ChildEnds(l) /\ UNCHANGED platform>>_vars => Told(l, "exited")'
      /\ Known /\ Told(l, "exited") /\ <<Run(l) /\ UNCHANGED platform>>_vars => Ended(l)'
  <2>1. Known /\ pc[l] = "wait" => child[l] \in {"running", "exited"}
    BY DEF TypeOK, Signalled
  <2> QED BY <2>1, SignalProgress, SignalOnward DEF Killing, Told
<1>4. /\ GuardsEnable /\ Killing(l) => ENABLED <<KillerEnds(l) /\ UNCHANGED platform>>_vars
      /\ GuardsEnable /\ Told(l, "running") =>
           ENABLED <<told[l] /\ ChildEnds(l) /\ UNCHANGED platform>>_vars
      /\ GuardsEnable /\ Told(l, "exited") => ENABLED <<Run(l) /\ UNCHANGED platform>>_vars
  BY DEF GuardsEnable, Told, Killing
<1>5. Known /\ (killer[l] \/ told[l]) =>
        Killing(l) \/ Told(l, "running") \/ Told(l, "exited") \/ Ended(l)
  BY DEF TypeOK, Signalled, Told, Killing, Ended
<1> QED BY <1>1, <1>2, <1>3, <1>4, <1>5, TypeCorrect, AlwaysSignalled, PTL
           DEF FairSpec, Spec, FairTo
=============================================================================

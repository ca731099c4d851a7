---------------------------- MODULE UvBootstrap -----------------------------
(***************************************************************************)
(* The launcher (bin/codex-remote-bridge.mjs): several launchers install   *)
(* uv into one cache directory without a lock, then each runs the bridge   *)
(* as a child process and passes the signals it gets on to it.             *)
(***************************************************************************)
CONSTANTS Launchers,
          Platforms  \* what process.platform may be

ASSUME BootstrapAssumption == Platforms \subseteq {"posix", "win32"}

VARIABLES
  platform,   \* where all launchers run
  pc,         \* where each launcher stands
  staged,     \* what is in its temporary directory
  installed,  \* what is at the destination of all launchers
  child,      \* its child process
  handlers,   \* whether its handlers of signals are installed
  killer,     \* whether a taskkill of Windows is running for it
  told        \* whether the child has been told to end

vars == <<platform, pc, staged, installed, child, handlers, killer, told>>

\* Contents of a directory.  "whole": extracted from the verified archive;
\* "litter": files, and no executable among them.
Contents == {"none", "empty", "litter", "archive", "bad archive", "part", "whole"}

\* access(executable) finds a file in a part of an archive too.
HasExecutable(what) == what \in {"part", "whole"}

TypeOK ==
  /\ platform \in Platforms
  /\ pc \in [Launchers -> {"look", "make", "fetch", "hash", "extract", "access", "rename",
                           "recheck", "clean", "give up", "run", "spawned", "wait",
                           "ended", "failed", "killed", "destroyed"}]
  /\ staged \in [Launchers -> Contents]
  /\ installed \in Contents
  /\ child \in [Launchers -> {"none", "running", "exited"}]
  /\ handlers \in [Launchers -> BOOLEAN]
  /\ killer \in [Launchers -> BOOLEAN]
  /\ told \in [Launchers -> BOOLEAN]
  /\ \A l \in Launchers :
       child[l] # "none" => pc[l] \in {"spawned", "wait", "ended", "killed", "destroyed"}

Init ==
  /\ platform \in Platforms
  /\ pc = [l \in Launchers |-> "look"]
  /\ staged = [l \in Launchers |-> "none"]
  /\ installed \in {"none", "empty", "litter", "whole"}
  /\ child = [l \in Launchers |-> "none"]
  /\ handlers = [l \in Launchers |-> FALSE]
  /\ killer = [l \in Launchers |-> FALSE]
  /\ told = [l \in Launchers |-> FALSE]

\* process.platform === "win32"
Windows == platform = "win32"

processes == <<child, handlers, killer, told>>

files == <<staged, installed>>

\* Launcher l goes on from one step to another.
Move(l, from, to) == pc[l] = from /\ pc' = [pc EXCEPT ![l] = to]

Stage(l, what) == staged' = [staged EXCEPT ![l] = what] /\ UNCHANGED installed

-----------------------------------------------------------------------------
(* ensureUv *)

Look(l) == Move(l, "look", IF HasExecutable(installed) THEN "run" ELSE "make") /\ UNCHANGED files

\* mkdir and mkdtemp.
MakeTemporary(l) ==
  \/ Move(l, "make", "fetch") /\ Stage(l, "empty")
  \/ Move(l, "make", "failed") /\ UNCHANGED files

\* What the download brings is checked afterwards.
Download(l) ==
  /\ Move(l, "fetch", "hash")
  /\ \E what \in {"archive", "bad archive"} : Stage(l, what)
  /\ UNCHANGED processes

WaitsForServer(l) == FALSE

\* AbortSignal.timeout; an HTTP status or an archive that is too long ends it too.
GivesUpFetching(l) == Move(l, "fetch", "give up")

FetchFails(l) == GivesUpFetching(l) /\ UNCHANGED files

HashAgrees(what) == what = "archive"

CheckHash(l) ==
  Move(l, "hash", IF HashAgrees(staged[l]) THEN "extract" ELSE "give up") /\ UNCHANGED files

\* tar reports the end of the extraction, or an error with a part extracted.
Extract(l) ==
  \/ Move(l, "extract", "access") /\ Stage(l, IF staged[l] = "archive" THEN "whole" ELSE "part")
  \/ Move(l, "extract", "give up") /\ Stage(l, "part")

\* access and chmod.
Access(l) ==
  /\ \/ HasExecutable(staged[l]) /\ Move(l, "access", "rename")
     \/ Move(l, "access", "give up")
  /\ UNCHANGED files

\* rename(2) moves a directory to a free name, or onto an empty directory.
RenameSucceeds == installed \in IF Windows THEN {"none"} ELSE {"none", "empty"}

Rename(l) ==
  \/ /\ RenameSucceeds /\ Move(l, "rename", "clean")
     /\ installed' = staged[l]
     /\ staged' = [staged EXCEPT ![l] = "empty"]
  \/ ~RenameSucceeds /\ Move(l, "rename", "recheck") /\ UNCHANGED files

LoserAssumesWinner == TRUE

\* The error of rename is forgotten if another launcher has installed.
WonByAnother == HasExecutable(installed)

Recheck(l) == Move(l, "recheck", IF WonByAnother THEN "clean" ELSE "give up") /\ UNCHANGED files

\* The finally: the temporary directory is removed, or its removal fails.
Clean(l) ==
  \/ Move(l, "clean", "run") /\ Stage(l, "none")
  \/ Move(l, "give up", "failed") /\ Stage(l, "none")
  \/ \E from \in {"clean", "give up"} : Move(l, from, "failed") /\ UNCHANGED files

-----------------------------------------------------------------------------
(* main and terminateChild *)

Spawn(l) ==
  /\ \/ Move(l, "run", "spawned") /\ child' = [child EXCEPT ![l] = "running"]
     \/ Move(l, "run", "failed") /\ UNCHANGED child
  /\ UNCHANGED <<files, handlers, killer, told>>

InstallHandlers(l) ==
  /\ Move(l, "spawned", "wait")
  /\ handlers' = [handlers EXCEPT ![l] = TRUE]
  /\ UNCHANGED <<files, child, killer, told>>

\* By itself, or because it was told to.
ChildEnds(l) ==
  /\ child[l] = "running"
  /\ child' = [child EXCEPT ![l] = "exited"]
  /\ UNCHANGED <<pc, files, handlers, killer, told>>

\* The end of the child is what main waits for; the handlers go then.
End(l) ==
  /\ child[l] = "exited" /\ Move(l, "wait", "ended")
  /\ handlers' = [handlers EXCEPT ![l] = FALSE]
  /\ UNCHANGED <<files, child, killer, told>>

HandledOnce(l) == handlers[l] /\ ~told[l] /\ ~killer[l]

\* A handler stays when it has run.
Handled(l) == handlers[l]

\* SIGINT, SIGTERM or SIGHUP; without a handler the launcher dies of it.
Signal(l) ==
  /\ pc[l] \notin {"ended", "failed", "killed", "destroyed"}
  /\ IF Handled(l)
     THEN /\ told' = [told EXCEPT ![l] = @ \/ (~Windows /\ child[l] = "running")]
          /\ killer' = [killer EXCEPT ![l] = @ \/ (Windows /\ child[l] = "running")]
          /\ UNCHANGED pc
     ELSE pc' = [pc EXCEPT ![l] = "killed"] /\ UNCHANGED <<killer, told>>
  /\ UNCHANGED <<files, child, handlers>>

\* SIGKILL, once there is a child; before, it does what a signal does.
Kill(l) ==
  /\ pc[l] \in {"spawned", "wait"}
  /\ pc' = [pc EXCEPT ![l] = "destroyed"]
  /\ UNCHANGED <<files, processes>>

IgnoredFailure(l) == told[l]

\* child.kill is what is left when taskkill fails or cannot be run, to a launcher that
\* is still there.
ToldAfterFailure(l) == told[l] \/ pc[l] # "destroyed"

KillerEnds(l) ==
  /\ killer[l]
  /\ killer' = [killer EXCEPT ![l] = FALSE]
  /\ \/ told' = [told EXCEPT ![l] = TRUE]
     \/ told' = [told EXCEPT ![l] = ToldAfterFailure(l)]
  /\ UNCHANGED <<pc, files, child, handlers>>

-----------------------------------------------------------------------------
Install(l) ==
  /\ \/ Look(l) \/ MakeTemporary(l) \/ FetchFails(l) \/ CheckHash(l) \/ Extract(l)
     \/ Access(l) \/ Rename(l) \/ Recheck(l) \/ Clean(l)
  /\ UNCHANGED processes

Run(l) == Spawn(l) \/ InstallHandlers(l) \/ End(l)

Step(l) ==
  \/ Install(l) \/ Download(l) \/ Run(l) \/ ChildEnds(l)
  \/ Signal(l) \/ Kill(l) \/ KillerEnds(l)

Next == (\E l \in Launchers : Step(l)) /\ UNCHANGED platform

Spec == Init /\ [][Next]_vars

\* Node runs its callbacks, the download has a timeout, tar ends; a child ends
\* when it has been told to, and taskkill ends.
FairTo(l) ==
  /\ WF_vars(Install(l) /\ UNCHANGED platform)
  /\ WF_vars(Run(l) /\ UNCHANGED platform)
  /\ WF_vars(KillerEnds(l) /\ UNCHANGED platform)
  /\ WF_vars(told[l] /\ ChildEnds(l) /\ UNCHANGED platform)

Fairness == \A l \in Launchers : FairTo(l)

FairSpec == Spec /\ Fairness

-----------------------------------------------------------------------------
\* "Each caller stages privately; the first atomic rename wins": whatever launchers
\* do at once, and wherever they are killed, what is at the destination was
\* extracted completely from an archive with the right hash.
InstalledWhole == HasExecutable(installed) => installed = "whole"

\* A launcher goes on to run uv only when it is there; that includes the ones that
\* lost the rename.
RunsWhatIsThere == \A l \in Launchers : pc[l] \in {"run", "spawned", "wait"} => installed = "whole"

\* A launcher stays as long as its child, however often it is signalled, and keeps the
\* standard streams of the MCP client open as long.  It leaves a child running only by a
\* signal that comes before its handlers are installed, or by SIGKILL.
OutlivesChild ==
  \A l \in Launchers :
    child[l] = "running" =>
      \/ pc[l] \in {"spawned", "wait", "destroyed"}
      \/ pc[l] = "killed" /\ ~handlers[l]

\* A signal that a launcher has passed on ends the child and then the launcher; on
\* Windows also when taskkill fails.
SignalEndsLauncher ==
  \A l \in Launchers : killer[l] \/ told[l] ~> pc[l] \in {"ended", "destroyed"}

\* Every launcher gets to run uv, or says why not.
EveryInstallEnds ==
  \A l \in Launchers : pc[l] = "make" ~> pc[l] \in {"run", "failed", "killed"}
=============================================================================

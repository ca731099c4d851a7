# Verification of codex-remote-bridge

TLA+ models of the bridge in `src/src/codex_thread_bridge`, the TLC
configurations that check them on small instances, and proofs about them for
TLAPS. File and line references are to the repository under `src/`; where the
package is clear they give the file name alone (`bridge.py:98`).

Contents: [the system](#the-system), [what is modelled](#what-is-modelled),
[the runs](#the-runs), [fairness](#fairness), [the proofs](#the-proofs),
[what the checks found](#what-the-checks-found),
[what is not modelled](#what-is-not-modelled), [plan](#plan).

## The system

An MCP client (Codex, or any other) starts a bridge process over stdio. The
process exposes tools that read, create, message, fork, rename and archive the
threads of a running *Codex App Server*, which Codex Desktop uses at the same
time. Several bridge processes may run at once. They share two things: the App
Server, and a SQLite file, the *ledger*, in which each mutating request leaves a
receipt under the `request_id` its client chose.

| component | state it keeps | operations | what makes it correct |
|---|---|---|---|
| Mutating tools, `bridge.py` (`Bridge._mutate`, `create_thread`, `send_message_to_thread`, `fork_thread`, `set_thread_title`, `set_thread_archived`) | `_mutation_lock`; the receipt of the request in progress | look the `request_id` up, claim it, run a fixed script of RPC requests with a save of the receipt between them, save the outcome | no request is sent twice for one `request_id`; a receipt says nothing untrue; `accepted` is complete, `failed` is definite; a prompt, fork or archive is withheld where the answers forbid it |
| Ledger, `ledger.py` | table `operations`: `request_id`, operation, fingerprint, receipt | `lookup`, `begin` (INSERT OR IGNORE), `save`, `list_threads`, `import_legacy`, `open_endpoint_ledger` | a claim is exclusive; settled receipts are final; replay only to the same arguments |
| RPC client, `rpc.py` (`AppServer`) | `_ws`, `_reader`, `_connect_lock`, `_pending` | `connect`, `_receive`, `_request`, `call`, `close` | one handshake and one reader at a time; no future is forgotten; nothing outlives the last close |
| Proxy transport, `proxy_transport.py` | a relay process, a socket pair, two byte pumps, `_closed` | open, `close` | the relay is reaped; a close is done once |
| Worktree launch, `bridge.py:269`, `worktrees.py` | a destination directory, Git's worktree list, phases in the receipt | reserve, `git worktree add`, inspect, start, inspect again, prompt | a destination is taken once; no prompt is sent to a checkout other than the one inspected |
| Inventory, `ledger.py:112` | none | pages of receipts by row and cursor | no row repeated, none lost |
| Reads and `wait_thread`, `bridge.py` | none | `thread/list`, `thread/read`, polling of `turns` until a deadline | a timeout is told apart from a lost connection |
| Server and entry point, `server.py` | the `Bridge` | tool registration, `rpc.close` when the lifespan ends | nothing is left running |
| Node launcher, `bin/codex-remote-bridge.mjs` | a private `uv` installation | find or install `uv`, exec the server, forward signals | an installation is complete when it is used |
| App Server and Desktop (external) | threads, turns, Goals, subscriptions | answer requests, push notifications | — |
| `scripts/check_connection.py` | none | a diagnostic that initializes and lists | — |

**How they interact.** A tool call enters `_mutate`, which takes the mutation
lock of its process, consults the ledger, and then awaits one RPC after another.
The RPC client opens its connection when the first call needs it and shares it
between all calls of the process; `send_message_to_thread` and `fork_thread`
close it at their end so that the bridge does not stay subscribed to a Desktop
thread. The ledger is the only thing a process finds again after it was killed.

**What is hard.**

* *Two processes, one request.* The mutation lock orders the calls of one
  process only. Between processes, `lookup` and `begin` are two transactions.
* *Unknown outcomes.* A request that times out, or whose connection is lost, may
  have been performed, or may be performed later. A save may fail, a client may
  cancel, a process may be killed, between any two requests of a script.
* *Stale answers.* Desktop acts between any two requests of the bridge.
* *Shared connection.* A call that finds no connection, a close, a reader that
  ends, and a handshake run as tasks of one event loop; each `await` is a point
  where the others go on, and `close()` awaits twice with the state half changed.
* *Paths.* `create_thread` names a directory, which may be removed, or reached
  through a link that is moved, before a retry.

* *Worktrees.* A launch looks, waits and acts a dozen times, on a directory that
  other launches, git's children and users can reach as well.
* *Processes of others.* git commands, a relay, `taskkill` and the bridge itself
  are children that must not outlive, or be outlived by, the wrong parent.

`PROJECT.json` lists the hazards at their lines, with the properties that cover
each, or why none does.

## What is modelled

```
Operations            the scripts of the five operations, receipts   (no state)
   |
CodexAppServer        the server's end of the connections            (external)
   |
Mutations             bridge processes + ledger + requests
   |
MutationsProperties ---- INSTANCE ----> RequestDedup   (what the bridge promises)
   |          |
MCMutations   MutationsProofs

RpcClient ------- MCRpcClient, RpcProofs            one process's connection
ProxyTransport -- MCProxyTransport, ProxyProofs     one relay, its pumps, its close
WorktreeLaunch -- MCWorktreeLaunch, WorktreeProofs  launches, git, server and user
WaitThread ------ MCWaitThread, WaitProofs          one call over a changing thread
UvBootstrap ----- MCUvBootstrap, UvProofs           launchers that install uv at once

LedgerImport                           starts, imports, claims and saves
   |
LedgerFile ------ INSTANCE ----> Inventory   (a walk through a growing table)
   |        |                        |
MCLedgerFile \                  InventoryProofs
              LedgerFileProofs -- INSTANCE
```

`LedgerFile` composes `LedgerImport` with `Inventory`. The other modules are
beside each other: `Mutations` sees of a connection that it opens, breaks and
closes, `RpcClient` shows how; `RpcClient` sees of the proxy that `ws.close()`
waits for the relay once and then returns at once, `ProxyTransport` shows how;
`WorktreeLaunch` takes a `request_id` as claimed, `Mutations` shows that claims
are exclusive.

### Operations

Each operation sends its requests in a fixed order, from which a step can be
missing: `create_thread` sends `project/read` only with a project,
`thread/name/set` only with a title, `turn/start` only with a prompt
(`bridge.py:141-216`); `send_message_to_thread` sends `thread/resume` only to an
idle thread (`bridge.py:408-434`); `set_thread_archived` sends one of its last
two. `Script` gives the order, `Wanted` the steps that the arguments and the
delivery mode ask for, `StepAfter` the next one, `Refused` the answers at which
the action raises (an ephemeral or active thread, a Goal, a policy that asks for
approvals, a thread started with other settings than requested), `Noted` what an
answer adds to the receipt and `Checkpoint` where the receipt is saved.

A receipt is reduced to its `status`, its `threadId`, its `deliveryMode` and
`kept`, the set of effects whose result it holds (`creation`, `name`, `resumed`,
`turnId`, ...). A message, title or path is a model value. A thread that a call
creates is named after the call.

### CodexAppServer (external)

A request that was written is in `inbox` until the server handles it, which may
be never, and may be after its sender gave up, lost the connection or died. The
server rejects it without effect, or performs it and says one of the things the
method can say. The answers are not constrained by each other: Desktop may start
or finish a turn, set a Goal or change a policy between two requests. An answer
reaches the bridge only on the connection of its request (`live`).
`attached` holds the threads each connection is subscribed to; `thread/start`,
`thread/resume` and `thread/fork` add to it, and it ends with the connection.

### Mutations

| state | code |
|---|---|
| `ledger` | the rows of `operations`: fingerprint, version, receipt; `owner`, the call that inserted it, is for the properties only |
| `holder` | `_mutation_lock`, per process |
| `pc`, `pos`, `receipt` | where a call is in `_mutate` and in its action, and its receipt in memory |
| `result` | what the client was told: a new receipt, a replayed one, a refusal, an exception |
| `link`, `dirs` | what `Path.resolve()` and `is_dir()` find |
| `sent` | history: how often a method was sent for a `request_id` |

| action | code |
|---|---|
| `Invoke` | the tool is called; arguments of the wrong form never get here |
| `LookupRetained`, `LookupNothing` | `bridge.py:98-101`: lock, `lookup`, replay or refuse |
| `Validated`, `ValidateRefuses` | `validate_fresh` (`bridge.py:102-103`), which only `create_thread` has |
| `BeginFresh`, `BeginRetained` | `ledger.begin`: the INSERT OR IGNORE won or lost; a send then saves its `threadId` |
| `LedgerBusy` | SQLite refuses `lookup` or `begin` |
| `Dispatch`, `Receive` | `rpc.call` up to its await; from its answer to the next await, with every save in between |
| `Lose`, `InitializeRejected` | `TransportError`, timeouts and unreadable answers (outcome unknown); the server refuses the handshake (failed) |
| `Close` | `rpc.close` at the end of an accepted send or fork |
| `Cancel`, `Crash`, `Disconnect` | a cancelled tool call, a killed process, a lost connection |
| `Handle` | the App Server handles a request |
| `Relink`, `MakeOrRemove` | the file system changes |

Every place where the code saves can also fail to save: the row then keeps what
was saved last and the client is told an error (`Conclude`), or, in the middle of
the script, the operation ends with an unknown outcome (`Receive`).

Decisions a reader should know:

* A step is what a process does between two awaits. Where one such block holds
  two commits that no other process can tell apart (the checkpoint of an answer
  and the final save of a refusal), the two are one step. A crash between them
  leaves the same row as a failed save, which is modelled.
* `lookup`, `validate_fresh` and `begin` are three steps, although no await separates
  them: each meets what other processes have done to the ledger, and users to the
  directories, since the one before.
* Fingerprints are injective: a row holds its arguments. Version 1 rows, which
  hold the resolved path, are in the initial ledger (`OldRows`).
* Cancellation may be met by the save of `outcome_unknown` (`bridge.py:114-117`)
  or by nothing; both are alternatives of `Cancel`.
* The calls that read are not here: they have no state. They appear as callers
  in `RpcClient`.

### RequestDedup

What a client relies on, without processes, locks or rows: a `request_id` is
free, open or settled; it is claimed once; each method is sent at most once and
only while open; the outcome is one and final. `MutationsProperties!Dedup`
maps the ledger onto it.

### RpcClient

One process, one event loop. A task runs from one await to the next while `run`
names it; the labels of `pc` are the awaits and the places between them.
`Callers` are tasks in `AppServer.call`; `Closers` are sends and forks at their
`rpc.close`; `Exit` is the close of the server's lifespan, which begins when
everything else has ended. `conn`, `rstate` and `relay` are each connection, its
reader task and its relay process; `ws`, `reader`, `lock` are the attributes;
`future` is the entry of a task in `_pending`. `transport` is chosen at the start from
`Transports`; with the Unix transport `ws.close()` waits for the closing handshake each time,
with the proxy a second close returns at once (`proxy_transport.py:117-118`) and
the first waits for the relay.

`Junk` lets a message arrive at any moment that is not JSON: the reader ends, the
connection stays open, and the next call replaces it. When it arrives between the
answer to `initialize` and the request of the task that has opened the connection,
that request is registered after the reader has failed all futures
(`rpc.py:111-114`) and waits for its own timeout. `NoneForgotten` says that this one
request (`SentUnread`) is all there is to it: at most one per connection, and never
one of a call that found the connection open, since `connect` looks at the reader first.

One simplification: a task that was woken runs before a handshake completes
(`Woken`): the event loop runs ready callbacks in order and a handshake needs
several turns and a server's answer. `CancelClose` is a tool call that is
cancelled inside `ws.close()`: `_ws` and `_reader` stay what they are. While it
waits for the reader, a cancellation is suppressed (`rpc.py:150`), which is no step.

### ProxyTransport

| state | code |
|---|---|
| `relay`, `obeys`, `signal` | the process `codex app-server proxy`, whether it ends at the end of its input and on SIGTERM, what it was sent |
| `stdin`, `pair` | the pipe to it; both ends of the socket pair, open, shut or closed |
| `to`, `from` | `_to_proxy` and `_from_proxy`: waiting for data, for room, or done |
| `ws`, `owner` | the WebSocket; where `open()` or `close()` is |

`ToProxy` and `FromProxy` are the pumps, a chunk at a time, with their `finally`
(`InputAfter`, `SocketAfter`). `Close`, `WebSocketClosed`, `StopPumps`, `Reaped`
and `WaitTimesOut` are `close()` from await to await; `Cancel` is a cancellation
at any of them: in the handshake it makes `open()` close, in `ws.close()` the
`finally` goes on, in the waits for the pumps it is suppressed, and in the wait for
the relay it leaves (`cut`). Stopping the two pumps, closing the sockets and
terminating the relay is one step, because the pumps do nothing else then.

### WorktreeLaunch

A launch (`request_id`) has arguments (`args`: process, destination, whether it
has a title and a prompt), a place in `create_worktree_thread` (`at`) and a
receipt in memory and in the ledger (`memory`, `row`). Where it awaits git or the
server it has put a task into `todo`; the task ends with an outcome (`out`), if the
launch is still there to see it. A git child of a killed process and a request
that has timed out stay in `todo` and take effect later.

| action | code |
|---|---|
| `Begin`, `Announce` | the claim; the first checkpoint, `validating` |
| `CheckPath`, `CheckList` | `Worktree.validate`: the destination, its parents, `git worktree list` |
| `Reserve`, `MakeDirectory`, `DirectoryExists` | `reserving_destination`, the exclusive `mkdir` and the checkpoint after it; `FileExistsError` ends in an unknown outcome |
| `Added`, `CheckedOut`, `Inspected`, `Compare` | `git worktree add --no-checkout`, the checkout, the first inspection |
| `ThreadStarted`, `CheckEnvironment`, `Named` | `thread/start`, its environment, the title |
| `Reinspected`, `Recompare`, `PromptAccepted` | the second inspection and, if nothing has changed, the prompt |
| `Finish`, `Accept` | `complete`, recovery withdrawn, `accepted` |
| `Fail`, `Rejected`, `Lose` | definite failures; failures whose outcome is unknown, timeouts and cancellation, which kill the git child |
| `Crash`, `Change` | a killed process; a user who writes at a destination |
| `Git...`, `Server...` | a task ends: done, seen different, or refused |

`Checkpoint` is `checkpoint()`: the save succeeds and the launch goes on, or SQLite
refuses and it ends. A step goes from one await, or one save, to the next.
Decisions: git's own work is all or nothing (a failed `worktree add` that has begun
undoes it and removes the directory: `GitUndoes`); a destination that was written
to stays changed; refusals of arguments that depend on nothing outside are not
enumerated, `Fail` covers what they do; users do not remove destinations.

### LedgerImport, Inventory, LedgerFile

`LedgerImport`: `legacy` and `ledger` are the rows of the alias's and of the
canonical file; a process that starts through the alias reads all old rows
(`scan`), compares them one by one without a transaction (`CompareRow`), and
from the first row that is `missing` its INSERT holds the write lock: the rest is
one step, which commits (`ImportRest`), meets the row that another process has
inserted since (`Collide`, `sqlite3.IntegrityError`) or a conflict (`RollBack`).
`Claim` and `Save` are the calls of processes that are up; `writer` is the one whose
call may save a row. `Stop` is an end or a kill.

`Inventory`: a table of `rows` rows, of which `eligible` are creation receipts with
a thread, grows and gains threads (`Insert`, `GainThread`), while one client walks
through it: `Matching`, `Newest` and `CursorAt` are the WHERE, the ORDER BY with its
LIMIT, and the cursor, the last row shown. It is the abstract specification of the
file as the listing needs it.

`LedgerFile`: SQLite numbers the rows that `LedgerImport` inserts (`Numbered`, any
order within an import), a receipt with a saved thread is eligible, and the walk
goes on meanwhile. `ImplementsInventory` says that imports, claims and saves do to
the table only what `Inventory` allows.

### WaitThread

One call (`pc`), over a thread whose turns start and end (`order`, `status`).
`ServerAnswers` fixes the page, `Receive` reads it: `Found` looks for the turn by its
id among the `Recent` newest. `TimeOut` comes at any await: the deadline, or a
`TimeoutError` of the opening of the connection, which the same `except` swallows
(`bridge.py:640`). With `timeout_seconds` 0 (`zero`) there is one poll and no deadline.

### UvBootstrap

Several launchers over one cache. `pc` goes through `ensureUv` and `main`; `staged` is
each one's temporary directory, `installed` the common destination, which may hold an
empty directory or other files from the start. `Download` brings a good or a bad
archive, `Extract` may leave a part, `Rename` replaces nothing or (not on Windows) an
empty directory. `child` is the bridge (uv and the Python process it starts, as one),
`killer` a running `taskkill`, `told` whether the child was told to end. `Spawn` and
`InstallHandlers` are two steps: `handlers` says whether the signal handlers are
installed, and a `Signal` that finds none kills the launcher, with a child that runs
if it comes between the two. `Kill` is SIGKILL (`destroyed`); it takes a `taskkill`'s
fallback with it (`ToldAfterFailure`).

## The runs

The longest, `dedup`, takes about two minutes. "Calls" are tool calls, each
with any process, `request_id` and arguments of the run.

| run | instance | question |
|---|---|---|
| `dedup` | 3 calls, 2 processes, 1 id; two creations (one with project, title and prompt) and a message | is anything sent twice; is what is used or told on record, and does it stay; does `Mutations` implement `RequestDedup` |
| `operations` | 2 calls, 1 process, 2 ids; every operation | is a step withheld where it must be; are receipts true, complete and definite |
| `retries` | 2 calls, 2 processes, 1 id, 2 paths, empty ledger or a version 1 row, fair | is a retry refused that finds its row; is a receipt replayed to other arguments; does each call end |
| `rpc` | 2 callers, 1 closer, the last close, 2 connections, either transport, fair | is initialize first, is one reader running, is any request forgotten, is anything left, does each task end |
| `worktree` | 2 launches, 1 or 2 processes, 1 destination; title and prompt, prompt, neither; fair | is a destination taken once; does the receipt say what was made; is a prompt withheld; does a child remain; does each launch end |
| `ledger` | 2 processes, 3 ids, an old ledger of 0 to 3 rows, pages of 1 and 2 | is a receipt lost, replaced or half imported; is one listed twice or skipped; is the table what the listing counts on |
| `wait` | 3 turns, a page of 2, fair | is the answer about the turn; is an ending told; does a wait end |
| `proxy` | 1 connection, 2 cancellations, fair | is anything left after a close; do ends reach the other side; does a close end |
| `uv` | 2 launchers, POSIX or Windows, fair | is what runs whole; does a launcher leave its child; does a signal end child and launcher; does each installation end |
| `competing` | 2 calls, 2 processes, 2 ids; two messages | violated: see below |
| `rpc_orphan` | as `rpc`, proxy only, without fairness | violated: see below |
| `worktree_nested` | 2 launches, 2 processes, 2 destinations, one inside the other | violated: see below |

`Junk` is TRUE but in `rpc_orphan`, whose behaviour needs no unreadable message.

**Bounds.** A deduplication conflict needs two calls; a third lets a retry
arrive after a crash of the first while the second is running. Two processes are
needed to get between `lookup` and `begin`, and a restarted process is the same
one; `operations` asks about one receipt at a time and needs one process, where
`dedup` shows the second. A second `request_id` shows that requests do not disturb
each other's rows. Each call sends at most four requests, so nothing else has to
be cut off: `Mutations` has no state constraint. `MaxConns` bounds the connections
opened in `RpcClient`: when they are used up only `NoSocket` (the control socket does
not exist) is left, which is a legal behaviour. A call opens at most one connection,
so as many connections as callers lose nothing.

`WorktreeLaunch` has no bound but the number of launches: a third launch for one
destination can only find what a second one finds. In `LedgerFile` three rows make
an import of several rows conflict in its first, middle or last one, and two pages;
`MaxRows` of `Inventory` is the number of ids there. `MaxCancels` is 2: one
cancellation starts a close in the handshake and the next one meets it. Three turns
push the first out of a page of two. Two launchers are a winner and a loser of the
rename; the destination is all they share and a whole one is never replaced, so a third
one finds what the loser finds (and the theorems are for any number).

`CHECK_DEADLOCK FALSE` is set where the instance ends: all calls, launches or
launchers have ended.

Calls are symmetric among each other, and so are processes and ids of the ledger;
symmetry is used in runs without liveness properties, and no operator chooses
between values.

## Fairness

`Mutations!FairSpec` has weak fairness for `BridgeStep(c)`, the steps that an
event loop takes for its own call. It assumes nothing of the App Server: a
request that is not answered ends by `Lose`, since `AppServer._request` waits
under `asyncio.timeout` (20 seconds). The write itself, `ws.send` (`rpc.py:125`), is
outside that timeout and waits for room: the fairness of `Mutations`, `RpcClient` and
`WorktreeLaunch` assumes that the peer goes on reading, and so do `EveryCallEnds`,
`EveryTaskEnds`, `EveryLaunchEnds` and the theorems `CallsInsideEnd`, `LockIsReturned`
and `LaunchesEnd`. SQLite statements end by their busy timeout, closes by the timeouts
of the WebSocket library and of the relay's reaping, and `asyncio.Lock` hands over in
order of arrival. Nothing is assumed of `Cancel`, `Crash`, `Disconnect`, `Handle` or the
file system.

`RpcClient!FairSpec` has weak fairness for each task's steps, for a reader that
can end, and for a closing handshake and the exit of a relay whose connection is
down, which `close_timeout` and the kill after two seconds bound.

`WorktreeLaunch!FairSpec` has weak fairness for a launch's own steps, of which
`Lose` is one at every await: `git()` runs under a timeout of 30 seconds, a request
under the one above. Nothing is assumed of git, the server or the user.

`WaitThread!FairSpec`: the call goes on after an answer or a sleep, its deadline
comes, and without one (`zero`) the request fails at the latest by its timeout. The
server need not answer and the turn need not end.

`ProxyTransport!FairSpec`: pumps, WebSocket and owner are run by the event loop. A
pump that waits for data may wait for ever; one that waits for room does not; a
relay ends when it was killed, and one that obeys when its input has ended or it
was sent SIGTERM. The owner's waits end by themselves or by their two seconds. That a pump
does not wait for room for ever is an assumption about the relay (it reads its input) and
about the WebSocket library (it reads the socket); `InputEnds` rests on the first,
`EndReachesReader` on the second.

`UvBootstrap!FairSpec`: Node runs its callbacks, the download has a timeout
(`AbortSignal.timeout`), `tar` and `taskkill` end, and a child that was told to end
does. A child that was not told may run for ever.

## The proofs

`MutationsProofs` proves, for any sets of calls, processes, ids, threads, paths,
titles, texts and requested arguments:

* `TypeCorrect`: `Spec => []TypeOK`
* `SentAtMostOnce`: `Spec => []AtMostOnce`
* `OwnershipHolds`: `Spec => []DedupInv`
* `Refinement`: `Spec => ImplementsDedup`

The assumptions are those of the constants (`ConstantsAssumption`: `None` is not
one of the values it stands beside, a created thread is not an existing one, old
rows are of version 1), which TLC evaluates in each run.

*Argument.* `AtMostOnce` is not inductive: a second runner of the same
`request_id` could send a step again. `DedupInv` adds what excludes it. A running
call owns its row and the row is unsettled (`OwnsItsRow`), so two running calls
never have the same `request_id` (lemma `OneRunner`); nothing is sent for an id
without a row (`ClaimedBeforeSent`); and of a running call's script only the
steps behind it were sent (`SentIsBehind`). A step advances the position, and no
script names a method twice (`ScriptInjective`), so the next dispatch is a first
one. The refinement needs the same facts: only the runner writes its row, and it
writes a settled receipt only when it stops running.

Its second part proves, from the same assumptions, the properties of the receipts:

* `ReceiptsTellTheTruth`: `Spec => []ReceiptsAreTrue`
* `FailureIsDefinite`: `Spec => []FailedIsDefinite`
* `AcceptanceIsComplete`: `Spec => []AcceptedIsComplete`
* `EffectsAreAllowed`: `Spec => []WithheldUnlessAllowed`
* `EffectsAreOnRecord`: `Spec => []OnRecordBeforeUse`
* `NothingIsForgotten`: `Spec => ReceiptsOnlyGrow`
* `ToldStands`: `Spec => []ToldIsRetained`
* `ReplaysAreOwn`: `Spec => []ReplaysItsOwnArguments`
* `RetriesAreAnswered`: `Spec => RetryIsNeverRefused`

*Argument.* A receipt says nothing of the server by itself; what ties the two
together is the place of the call in its script. `Story` says of a running call that
the steps it has passed (`Passed`: those behind it that were wanted) were all
answered, that no answer among them was one to stop at, and that the receipt in memory holds
exactly their results, the thread they are about and how the message is delivered.
`Retained` says what of it the row has: it is true, it is not ahead, and it has every
result that is saved at once. `StoryInv` holds both for each running call, with one
thing more: the server was asked for nothing but the steps passed and the one the
call waits for. `HistoryInv` is what the network leaves true: one request and one
answer per call and method, and none for a call whose action has not begun.

Every step (lemma `EveryStep`) writes no row (`WritesNothing`) or one receipt that
`Fit`s its row (`WritesReceipt`): it is true, it has what the row had, if it
is "failed" or "accepted" then nothing of the call is left with the server and all that was done
is in it, and if it is "accepted" then that is what the arguments ask for
(`StoryEnds`). `RowsInv` carries this over to the time after the call, when late
requests are still handled, and gives the first three theorems. `AskedFor` carries
over what was said and recorded when a request was sent, and gives the next two. The
others follow from how rows are written (`RowWritten`) and `ToldInv`.
`ReplaysItsOwnArguments` speaks of links after the replay, while users lead them
elsewhere; it is inductive because a link stays a link and a directory a directory
(`LinksInv`, `LinksStay`), which is all that a replay of a version 1 row depends on
(`Alike`). `RetryIsNeverRefused` is about a call that is still to be looked up, or has come to
its claim, when the row of its own arguments is there: rows keep their arguments, so
`lookup` or `begin` finds a match whenever it runs (`Sure`), and the call does not get to
`validate_fresh`.

Its third part is about the mutation lock. `LockInv` says that a call holds the lock
of its process exactly while it is inside `_mutate`, wherever it is cancelled and
whenever the process is killed: `LockSerialises`, at most one call of a process is
inside. `CallsInsideEnd` and `LockIsReturned` are [below](#liveness).

`RpcProofs` (`ClientAssumption`) proves `NoneForgotten`, `GreetedFirst`, `OneReader`
and `UnixLeavesNothing`, for any number of tasks and connections and any choice of
transports. For `NoneForgotten` the cases are whether `connect` has found the
connection or opened it (`OnItsOwn`): who finds one has just looked at its reader
(`Listened`), and one connection is opened by one task (`Openers`), so at most one
request can be registered behind a reader that has ended (`HaveReaders`). `NoneForgotten` and
`GreetedFirst` are inductive only beside what the
awaits of `connect` and `close` leave true of the attributes: `Tracks` (one task is
inside `connect`, and holds the lock), `Sockets` (a connection that is opening has
its task and no reader), `Readers` (a reader that has not ended is the one in
`_reader`, and nobody opens a connection meanwhile: this gives `OneReader`),
`Greetings` (an open connection that is not greeted belongs to the task in
`connect`), and, for the last close, `UnixCloses` (over the Unix transport a
connection is dropped only when it is down) and `LastClose` (it runs alone).

Two more theorems are what the liveness of the RPC client rests on. `NoDeadlock`
(`NobodyIsStranded`): between two steps of the event loop, a task that has begun can go
on, or waits for a handshake, relay or cancelled reader to end, or waits for the lock
of a task that is not waiting for the lock. `NoTaskGoesBack` (`OnlyOnwards`): every step
of a task takes it to a later place in `connect`, `request` or `close` (`Place`), so that
none of them goes round in circles, whatever is lost and reconnected meanwhile.

`ProxyProofs` proves `ClosedLeavesNothing` for any number of cancellations. Its
invariant says that an owner past `StopPumps` has left nothing but, maybe, the relay
(`StoppedIsDown`), that a close returns only without a relay and waits without a
limit only for one that was killed (`Reaping`), that a pump that is done has shut the
socket (`DoneShuts`), and that the WebSocket is where the owner takes it to be
(`OwnersView`).

`WorktreeProofs` (`LaunchAssumption`) proves the six invariants of the run
`worktree`, for any number of launches, processes and destinations. Per launch,
`Sound` says at each of its steps what the receipt says (`ReceiptFits`), that the
directory is there and its own (`DirectoryFits`), what was asked for
(`RequestsFit`), which tasks are at work (`TasksFit`), and, of a launch that was
stopped anywhere, only what its row must never miss (`Known`, `FailureFits`). All
steps are one of three: a checkpoint that goes on (`CheckpointInv`), an end
(`EndInv`, `FailInv`), or an outcome of a task (`OutcomeInv`). Launches meet only at a
destination; there `Places` (a directory that a launch made is there until git
undoes it) is what makes the exclusive `mkdir` exclude the second launch, whose
precondition is an absent directory.

`LedgerFileProofs` proves of `LedgerImport` (`ImportAssumption`)
`ServesTheImported`, `NothingHalfImported` and `ReceiptsKept`, for any number of
processes and ids. The
import compares rows before it holds the write lock; `NoneOverlooked` says that a row
that was compared, and found there, stays there, and `ImportedAsTheyWere` that an old
row is never written but as it was.

`InventoryProofs` proves of any growing table that walks descend and are complete
(`WalksDescend`, `WalksAreComplete`), from `Resumable`: the cursor is the last row
shown, and what is still to come lies below it. `LedgerFileProofs` (`FileAssumption`)
proves besides that the file implements that table (`FileIsInventory`), because the numbers
that SQLite gives are those of the rows there are (`Numbering`), and takes both
theorems over to the file (`PagesOfTheFile`, `WalksOfTheFile`).

`WaitProofs` (`WaitAssumption`) proves `TellsOfTheTurn`: pages only lose turns, so a
turn that had ended before the call and is still in the page when the result is told
was in every page that was read.

`UvProofs` (`BootstrapAssumption`) proves `RunsWhatIsThere`, `OutlivesChild`, and
`InstalledWhole`, which no run checks, for any number of launchers: only what was
verified is staged (`StagedWhole`), a rename replaces nothing that is whole, and handlers
that are installed stay until the child has ended.

### Liveness

The provers know nothing of `ENABLED`, and do no induction over time. What they can do
is chain "leads to" steps along weak fairness when they are told which guards enable
which actions. So each module of proofs with a liveness theorem has a state predicate
`GuardsEnable`, which says for each fair action that its condition, as the action has
it, is enough to take it, and the theorems have the form

    FairSpec /\ []GuardsEnable => property

`GuardsEnable` is true of these modules; that is the part TLC shows. To see it, run TLC
on the module of proofs with the constants of the component's configuration and
`INVARIANT GuardsEnable` (no violation in the instances of `retries`, `operations`, `worktree`, `uv`
and `proxy`, and in that of `wait` with two turns).
The rest is proved for every value of the constants:

| theorem | property | argument |
|---|---|---|
| `ProxyProofs!EndIsHeard`, `EndIsPassedOn` | `EndReachesReader`, `InputEnds` | a pump that waits for room gets it or an end, one that waits for data gets the end; `DoneShuts` hands it on |
| `ProxyProofs!ClosesEnd` | `CloseEnds` | websocket, pumps, wait, reap: each ends by a timeout, a cancellation or the kill |
| `WaitProofs!WaitsEnd` | `WaitEnds` | with a deadline, polling goes on until it comes; without one there is one poll |
| `UvProofs!InstallsEnd`, `SignalsEnd` | `EveryInstallEnds`, `SignalEndsLauncher` | the steps of `ensureUv` in order (`After`); then `taskkill`, child, launcher |
| `WorktreeProofs!LaunchesEnd` | `EveryLaunchEnds` | the steps of a launch in order (`After`), each of which can lose its patience |
| `MutationsProofs!CallsInsideEnd`, `LockIsReturned` | `InsideEnds`, `LockComesBack` | `StepsLeft`: at most twelve steps from the lookup to the end of any script, each request answered or given up |

*Only model-checked:* `EveryCallEnds` of `Mutations` and `EveryTaskEnds` of `RpcClient`.
In both, how long a task waits for the lock or for its turn depends on how many others
there are, and weak fairness is enough only because there are finitely many, each
of which goes through once; this is an induction over their number, which the provers
cannot do on temporal formulas. The part about one task is proved: whoever has the
mutation lock hands it back (`LockIsReturned`), and in the RPC client nobody is stranded and
nobody goes in circles (`NoDeadlock`, `NoTaskGoesBack`).

## What the checks found

**The bridge can remain a subscriber** (`competing`, `NoCompetingSubscriber`).
`bridge.py:454` says "The bridge must not remain a competing Desktop client
subscriber." `rpc.close` is called on the accepted paths only. When a send
resumes an idle thread and then finds that the thread asks for approvals
(`bridge.py:435-443`), it raises, tells the user to continue in Desktop, and
keeps the connection that `thread/resume` has just subscribed.

**Worktrees can be nested** (`worktree_nested`, `OutsideWorktrees`).
`worktrees.py:105` says "destination must be outside existing worktrees and Git
metadata", and `tests/test_worktree.py:115-137` refuses a destination inside a
repository. `Worktree.validate` looks around the destination, and the `mkdir` comes
several awaits later. A launch whose destination lies in the empty directory that
another process has just reserved passes, since nothing there is a worktree yet;
when git has made it one, and the first launch has been accepted, the `mkdir` still
succeeds, and the second launch is accepted inside the first one's checkout.

**A close can drop a newer connection** (`rpc_orphan`, `NothingLeft`).
`AppServer.close` awaits `ws.close()` and then clears `self._ws` and cancels
`self._reader`, whichever they are by then (`rpc.py:146`). Over the proxy the
wait is as long as the relay takes to exit. A concurrent call meanwhile finds the
old reader ended, closes (which returns at once) and opens a new connection; the
first close then forgets that one. Its requests fail, and the last close of the
server leaves it and its relay running, where `tests/test_proxy_transport.py:114-115`
states that after `await rpc.close()` the relay has exited. Over the Unix
transport `UnixLeavesNothing` holds: the second close waits for the handshake too.

Other behaviours are as the code has them:

* A retry with the same arguments can be refused although its receipt exists: another
  process claims the `request_id` between the retry's `lookup` (`bridge.py:99`) and its
  `validate_fresh` (`bridge.py:103`), and the directory has gone by then. That is why
  `RetryIsNeverRefused` is about calls that are before their lookup or past their
  validation when the row is there.
* A request that is sent just after a message that is not JSON has come on a new
  connection has no reader and waits for its timeout (`SentUnread`, `rpc.py:95-114`).
* A signal between `spawn` and `process.on` (`bin/codex-remote-bridge.mjs:130-132`) kills
  the launcher and leaves its child, and so does SIGKILL at any time; `OutlivesChild`
  makes these two exceptions.
* A close at the end of a send fails the reads that are in flight in the same
  process.
* Two servers started through the same alias at once can both find an old row
  missing. The second INSERT raises `sqlite3.IntegrityError` (`ledger.py:173`), and
  that server does not start though nothing conflicts (`Collide`); started again it
  does.
* "not observed in latest 100 turns" (`bridge.py:653`) is also the answer when the
  deadline came before any page was read (`TimeOut` in `asking` with `polled` FALSE).
* A cancellation that meets `close()` of the proxy in its wait for the relay leaves
  at once (`proxy_transport.py:136`); a relay that ignores SIGTERM then stays
  (`owner = "cut"`). `CloseEnds` counts this as an end; `ClosedLeavesNothing` is
  about the closes that return.
* A cancellation that meets `close()` of the proxy in its waits for the pumps is
  suppressed (`proxy_transport.py:127`). When it was the deadline of a caller, that
  caller goes on until the close has ended, by the limits of `CloseEnds`.

## What is not modelled

* The reads other than `wait_thread`: they change no state of the bridge, and
  appear as callers of `RpcClient`. The content of messages, titles and answers;
  formatting; sizes of pages of other reads.
* Tool registration and argument parsing of `server.py`, for the same reason.
* An alias that becomes one, or changes its target, while a process runs; an old
  ledger that is still written (the project's README excludes it).
* Users who remove a destination of a worktree launch, and a git child that is
  killed halfway through its work: the kill and the wait for the child
  (`worktrees.py:37`) are one step.
* `check_connection.py`: a sequential diagnostic.
* A power failure that loses committed SQLite transactions.

## Plan

Done: the modules above, in this order of weight for the system: `Mutations` with
`RequestDedup`, `RpcClient`, `WorktreeLaunch`, `LedgerImport` with `Inventory` in
`LedgerFile`, `WaitThread`, `ProxyTransport`, `UvBootstrap`; their runs; and the
theorems listed under [the proofs](#the-proofs).

What would come next:

1. An abstract connection, which opens once, closes once and whose close returns when
   nothing is left, implemented by `ProxyTransport` and by each connection of `RpcClient`.
2. `create_worktree_thread` inside `Mutations`: today `WorktreeLaunch` takes its claim from there.

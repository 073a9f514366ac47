# A verification project for UltraAI Native Operating Shell

TLA+ modules beside the C++ code of the repository, TLC configurations that
check them on small instances, and proofs that the TLA+ proof system checks for
every instance. Paths are relative to the repository root.

## 1. The system

Ultra is a command line program and a background daemon that keep an index and
a state graph of a project, branch that state for sub-goals, and drive language
models over it.

| Component | State it keeps | Operations | Interacts with |
|---|---|---|---|
| Epoch reclamation (`src/memory/epoch`) | global epoch, one slot per thread, local and global lists of retired objects | `enterRead`, `exitRead`, `retire`, `reclaim` | called by StateManager and BranchStore around every read and replacement |
| Branch store and lifecycle (`src/intelligence`) | branches in an overlay and a base map, the sequence, the current branch | `create spawn suspend resume merge archive rollback`, memory governance | snapshot chain, snapshot persistence, active graph |
| Snapshot chain and persistence (`src/memory`, `BranchPersistence`) | retained snapshots; `chain.json`, object files, branch files, metadata | append, rollback, load, save | files of `.ultra` shared by every process |
| Authority (`src/authority`) | none between calls | `createBranch`, `commit`, simulation, risk | loads and saves the store around each call |
| Task orchestration (`src/orchestration`) | nodes and edges of a plan | build, `orchestrate`, merge | spawns branches |
| Daemon and IPC (`src/runtime/ultra_daemon.cpp`, `src/ipc`) | pid file, socket, backlog | wake, sleep, serve, clean up | commands of the CLI, editor extension |
| State manager (`src/core/state_manager.cpp`) | versioned runtime state, graph, hot slice | replace, mutate, roll back, snapshot | epoch manager, event queue, graph store |
| Event and change queues, worker pool (`src/runtime`) | bounded queues, threads | post, pop, submit, stop | state manager, daemon |
| Graph store (`src/core/graph_store`) | chunks and index files | save, load, verify | state manager |
| Patching (`src/patch`) | `backups_` and the `.ultra.bak` files of files being changed | `apply`: already applied, three strategies, rollback | tool router, command line |
| Cognitive loop (`src/runtime/cognitive/ultra_loop.cpp`, `task_graph.cpp`) | a task graph with node states, retry counts, convergence history, report | plan, execute, repair, verify, reflect, re-anchor, replan | kernel, governance, episodic memory |
| Execution kernel (`ExecutionKernel.cpp`), tool router | failure counts of tools, what is known of failed tasks | generate with a model, run tool calls, retry apply_patch | providers, patching, the loop |
| Model orchestration (`src/ai/orchestration`) | the last decision | order the providers, fall back | kernel |
| Semantic index (`DaemonRuntimeDispatcher` in `CLIEngine.cpp`, `src/ai`, `src/engine/parallel`) | the index in memory; `files.tbl`, `files.meta`, `symbols.tbl`, `deps.tbl`, `core.idx` | check for staleness, load, verify, scan with threads, write, serve | daemon, sources edited by others, state manager |
| Editor extension (`vscode-extension/src`) | a chain of tasks and a flag for each workspace, the pending review, snapshots and the name of the latest | run a task, apply selected files, restore, Rollback Last | models, the daemon, the files of the workspace |
| Engine, memory hierarchy, calibration, diff, API | caches, scores, weights | queries | index, state manager |
| CLI, language support, TUI | none of their own | parsing and presentation | everything |

What is hard in it, and what makes each part correct:

* **Concurrency.** The epochs guard objects that are read without a lock on them: an
  object a reader holds must not be freed, whatever order slot stores, scans and
  retirements happen in.
* **Caps and cut chains.** The snapshot chain is capped and rollbacks cut it,
  while branches go on naming snapshots by number: a branch must not name one
  that cannot be read, and rolling back must restore the right graph.
* **Interrupted commands.** A command writes several files and may die between
  any two: what was reported must survive, a number must not be used twice. Commands
  that overlap share the names they write under.
* **The editor.** Applying a review renames, creates and deletes files one by one,
  and may fail, or the editor may end, at any of them, while Rollback Last runs
  beside the queue: what was changed can be put back, and a task that fails does
  not close the queue.
* **Patches.** A patch touches several files and may fail at any of them, and
  three strategies try it in turn: no original is lost, what is reported as
  applied is what the diff says, and retries end.
* **Repairs.** The loop repairs a task graph while tasks in it are done, in
  progress or failed: the order of tasks holds, work is not redone beyond the
  repair, retries keep to their budget, and the run ends.
* **Indexes.** Sources change while they are listed, hashed and parsed, tables are
  replaced one by one, and a daemon may die between two of them: an answer must
  not be given from an index of other texts than those whose times it has, or
  from half a scan.
* **Processes.** Daemons and commands share a pid file and a socket without a
  lock, and may fail to write either: one daemon, reachable while it serves, gone after sleep.

The full list of hazards, with the line each bites at and the properties that
watch it, is in `PROJECT.json`.

## 2. Plan

Done, in this order:

1. `EpochReclamation`, with proofs.
2. `BranchOps` (operators), `BranchLifecycle` (one process, all calls) and
   `BranchSessions` (several processes, files, crashes), both over `BranchOps`,
   with proofs of both in `Branch_proofs`.
3. `DaemonLifecycle`, with proofs.
4. `StateManager`, with proofs; it implements the abstract `VersionedStore`.
5. `TaskGraph` (operators) and `UltraLoop` over it, with proofs.
6. `Subsequences`, `PatchManager` and `ModelRouting` (operators) and, composed of them,
   `PatchExecution`, with proofs.
7. `SemanticIndex`, with proofs.
8. `EditorTasks`, with proofs.

What could come next: composing `SemanticIndex` with `StateManager`, which a
published index replaces the state of; the check of a cognitive state's working
set in `CognitiveKernelAPI.cpp:94` against threads that synchronise late. Every invariant and
every action property that a run checks is proved; the liveness properties are not.

## 3. The modules and the code

### EpochReclamation

One action per step of `EpochManager.cpp` between which another thread can act:
a reader loads the epoch (`EnterLoad`) and publishes it (`EnterPublish`); a
writer replaces the pointer (`Replace`), tags what it replaced (`Retire`),
moves its local list under the lock (`Flush`), looks at the approximate count
(`CheckThreshold`), advances the epoch and scans the slots one at a time
(`ReclaimStart`, `ScanRecord`, `ScanDone`), takes the reclaimable objects under
the lock (`TakeReclaimable`) and frees them (`Free`). A thread that ends loses
its local list (`ThreadExit`), as a `thread_local` vector does.

Taken as given: the atomics behave as if sequentially consistent (the code uses
acquire and release; reordering of a slot's store in `enterRead`,
`EpochManager.cpp:28`, with the load of the pointer after it, which every machine may do, x86
too, is not modelled), and registration of a thread's record is one step,
being under a mutex.

`Serialized` says whether writers exclude one another, as `StateManager` makes
them. `NoUseAfterFree` is stated for that case: with several writers the code's
own protocol does not ensure it (see the hazard at `EpochManager.cpp:75`).

### BranchOps, BranchLifecycle, BranchSessions

`BranchOps` gives each operation of `BranchLifecycle.cpp` as an operator on one
record of store, chain, active graph, current branch and sequence; every
operation ends in `Governed`, the memory governance. Retention scores are data:
any eligible branch may score lowest, so a set of results is given. A graph is
a model value. An object file is a graph or `Torn`. A parent's list of children
is left out but the sequence number its update takes is kept.

`BranchLifecycle` calls the operations in any order, with saves of a snapshot
that may fail, and edits of the graph by its owner. `origin` is a history
variable, the graph each branch was spawned on.

`BranchSessions` runs the two commands of the authority layer that change
branches, file by file. `disk` is what survives, `work` is a command's memory. A
command may die between two writes and may leave the file it is writing torn;
an object file and the chain are truncated and written in place (`OpenObject`, `SaveObject`,
`OpenChain`, `SaveChain`); a branch file and the metadata are written aside and
renamed (`OpenAside`, `WriteAside`, `RenameAside`). The aside file of a branch has one name
for all commands, and nothing locks it: opening truncates what another has
written there, a rename takes whatever has the name by then, and a command whose file was
renamed by another goes on writing to it in place. `open`, `place` and `written` are what a
command knows of its file. `mixed` is a history variable, the names that two commands had open at
the same time: for those the rename is no atomic replacement, and a branch whose creation was
reported may be skipped by the next load. `CreationsDurable` excepts them, and the run
`sessions_torn` shows why. `exclusive`, chosen at the start of a behaviour, says whether commands
run one at a time, as in the daemon; then no name is mixed. Simplifications: loading is one step;
of two commands that write one file in place the last is read, as the parser stops at the end of the
first value; an aside file nobody has open is forgotten when a command dies, as whoever opens it
again truncates it; overlapping commands have different goals, so different branches. Its specification is `SessionsSpec`: the
names of the module differ from those of `BranchLifecycle`, as one module proves about both.

### DaemonLifecycle

`UltraDaemon::run`, `wake`, `sleep` and the server and client of the POSIX
build, one action per file operation; processes crash anywhere, commands race,
replies come late. A daemon is named by its pid, and pids are not reused. The start of the server
may fail at any of its calls, and then `run` ends without a cleanup, its socket left behind
(`StartFails`). The pid file is truncated (`OpenPid`) and written (`WritePid`) in two steps:
that it cannot be opened is noticed, that its buffer cannot be written is not, since the
stream is tested before it is flushed. A daemon of the second kind serves and cannot be found; it is
`nameless`, and the next wake starts another beside it. `calm`, chosen at the
start of a behaviour, says that commands run one after the other on a settled
system and that no time limit expires while the daemon makes progress: the
conditions under which the code's promises can be kept, there being no lock.
`AtMostOneDaemon`, `ServingIsReachable`, `SleepLeavesNoServer` and `SleepReturns`
are stated for calm behaviours, the two others for all. The first three are about the daemons that
are not nameless, for which the code promises nothing; but a nameless one is in those behaviours, and neither
its end nor the sweep of a command that does not see it may take the files of one that has its name.
`CleanExitLeavesNoTrace` is about the files of a daemon that ends, those of others are
`ServingIsReachable`'s matter: in a behaviour that is not calm they are taken.

### VersionedStore, StateManager

`VersionedStore` is what the state manager promises: a value with a version,
reads of both together, changes that take effect exactly if their author has
seen the present value. `StateManager` is `state_manager.cpp`: whatever runs
under `graphMutex_` is one step, so `replaceState` and its like (`Rebuild`) and
`applyOverlayMutation` (`Commit`, `Decline`, `Refuse`) are one each, while
`createCognitiveState` is four: it takes a snapshot (`Create`), looks at the
version again under a second lock (`Refresh`), and binds (`Bind`) and
synchronises (`Sync`) the hot slice after both. Any other thread may act between
them. The hot slice is a node and a version stamp for each symbol; `Commit`
synchronises all stamps, marks the affected symbols stale and stores anew those
whose node changed (`Invalidated`), and each write ends in the governance that
may drop entries (`Trimmed`). The refinement mapping takes what a thread has seen
to be the snapshot it holds.

A rebuild destroys the hot slice and constructs it again in place
(`resetHotSlice`) while others may be inside it; that, undefined behaviour in
the code, is not modelled: the rebuild of the slice is one step here.

### TaskGraph, UltraLoop

`TaskGraph` gives `task_graph.cpp` as operators on a record of dependencies and
node states: marking, the refresh of ready states, and repair overlays. An
overlay is made of the asked tasks and all that follow them, puts a repair task
before a task of whose failure something is known (or that did not fail, when
the verification asks), and is changed only inside itself before it is merged.
`Downstream`, the breadth-first walk of the code, is the least set of nodes that has
the asked ones and is closed under outgoing edges.
Adjacency maps, hashes, metadata and attempts are left out. A node is named by
the number of its task and whether it is its repair, which is what the names
`<id>` and `<id>_repair` tell.

`UltraLoop` has one action per case of the switch in `UltraLoop::run`, with the
stages that `CognitiveRuntime::run` binds; EXECUTE is split, as its batch is a
loop over tasks whose outcomes decide what comes after (`Execute`, `StartTask`,
`TaskSucceeds`, `TaskFails`), and by what governance says. `Decide` is
`FailureRecoveryEngine::decide`: the class of a failure, the hint of episodic
memory, and the budget. `intel` is the store in which the kernel keeps what is
known of failures, which outlives plans. What the world decides is chosen freely:
the payloads, governance, the outcome of tasks and builds, the hints, whether a
plan left its intent. Convergence looks at a window of goal distances; the three
other triggers of `evaluate` want a full window too, and on a loop that reaches
REFLECT the distance does not grow or shrink, so the one that is modelled holds
whenever they do. Left out are a contract violation (`ultra_loop.cpp:2487-2509`), an exception of any stage that ends the
run or goes to recovery, and the adaptive preflight of the planner (`micro_planner.cpp:170-220`), which puts up to
three more tasks before the first action of a plan.

### PatchManager, ModelRouting, PatchExecution

`PatchManager` gives the placement of hunks as operators on sequences of lines:
`Places` and `Nearest` are the search around the line a hunk names, `Patched` the
sections, `AlreadyApplied` and `Replaced` the shortcuts of
`UnifiedPatchService.cpp`. `PatchedBy` is the reference: every splice of the
hunks, in order and not overlapping, where their old sides stand. `Norm` says
which lines are equal but for blanks; its domain is `Texts`, the lines there are. Loops over hunks
and sections are functions on how many have been done (`Stages`, `Splices`, `Readings`),
and the lines of a hunk of one kind are a `Subsequence`, the elements at a set of positions:
both can be proved about, unlike a fold with an operator. `ModelRouting` gives
the order in which `MultiModelOrchestrator` asks providers: `PushUnique` says what the loop
over `pushUnique` leaves, the first occurrence of each name.

`PatchExecution` composes them along a request: the providers are asked in turn
(`ProviderFails`, `ProviderAnswers`), the tool calls of an answer run one by one,
governance may refuse (`BlockApplyPatch`), and `UnifiedPatchService::apply` goes
through PatchManager, `git apply` and the exact replacement. One action per file
operation: the copy to the backup, the truncation, the write, the removal of a
backup, the copy back. Files may be locked, backups may fail, a `.ultra.bak` may
be left from before, a write may come up short, and the copy back may fail, which the
code does not look at before it removes the backup. A hunk header without a number may stand in
any section (`MalformedHeader`): `std::stoi` throws, with the sections before it written, and
only the kernel catches it (`Caught`), reporting a failure without a rollback. Then `ReadReply` is what the
kernel makes of the reply, with the retries. `before`, `short` and `unrestored` are history
variables; `OriginalsKept` excepts the files whose copy, to the backup or back, failed.

Taken as given: `Files` has every path a diff names (`DiffsAssumption`); a backup that is removed
is gone (the code ignores the error); other tools change no file; the branch of a generation
that goes to the JavaScript bridge instead of the providers is left out;
one service runs at a time; a provider and git come back (the JavaScript bridge
of the kernel reads its answer from standard input without a time limit); a
killed kernel is not restarted, since nothing in the code reads a left-over
backup.

### SemanticIndex

The index as the daemon's dispatcher keeps it. A request (`AskQuery`,
`AskRebuild`) lists the sources one by one (`Stat`), which takes their times of
modification, and compares them with those of the index in memory or on disk
(`Fresh`); then it answers from memory, loads what is on disk if the hashes agree
(`AnswerFromDisk`), or rebuilds. The rebuild lists once more, and the threads of the
`ParallelScanner` take the files off the queue (`Take`), read each for its hash
(`Hash`) and again to parse it (`Parse`); a thread that cannot ends and lets the
others end (`Fail`). The tables are put in place one after the other, each in two
steps as `replaceFileAtomically` does it (`RemoveOld`, `Rename`), `core.idx` with
the hashes of the others last, and only then is the index in memory replaced
(`Publish`). The sources are changed by others between any two steps (`Edit`,
`Delete`), any write may fail (`WriteFails`), and the daemon may die at any moment
(`Crash`). A table is a partial function of the files; a hash is what it is the hash of.

`ahead` and `doubtful` are history variables. `files.meta`, which has the times,
is under no hash of `core.idx`. Take a file that is hashed as A, changed to B before it is
parsed, and changed back to A: the index has the hash of A, the symbols of B and
an old time, and is found stale. The rebuild writes the same `files.tbl`, then a new
`files.meta`, and dies. The next daemon finds tables whose hashes agree and
times that agree with the sources, and serves the symbols of B for A.
`FreshIsCurrent` excepts exactly that: symbols and dependencies that were loaded while
`files.meta` was ahead of `core.idx`.

Taken as given: every change has a later time than any before it (clocks are not coarse,
and times are not set back); a file does not vanish between the two looks that the
listing takes at it; a reference in a text names one file or none; a table
with its new name is complete. Symbol edges and the symbol index, which are computed from symbols and
dependencies, are not in the model, nor is the language of a file, which its path decides.

### EditorTasks

The editor extension, from one `await` to the next. `queue` is the chain of promises of
`taskQueue.js`, `task` what it runs; `RunTask` and `ApplyPatch` are the clicks of the user,
refused while a patch task runs (`Enqueue`). A task asks a model (`GenerateEnds`) and
leaves a review, or applies the selected sections of the review that was pending at
the click: it reads what they will change (`Collect`), saves the snapshot and its name
(`SaveSnapshot`, `SaveLatest`), and goes through the sections (`DeleteTarget`,
`WriteTarget`, `RemoveSource`). On an error it restores from its snapshot
(`RestoreFile`); at the end it validates and drops the review (`Validated`).
`RollbackLast` and `RollbackFile` run beside all this, being in no queue. Reads and
writes may fail, a write may leave its file cut, and the editor may end at any `await`
or in the middle of a write (`Die`, `DieWriting`, `DieNaming`, `DieRestoring`). `touched`,
`before`, `foreign` and `reverted` are history variables.

The text that a patch gives a file is any text, and any section may fail, since hunks
and texts are not modelled. The order in which files are restored is left open. `Edit`
is anyone who changes a file: the user, another program, also the kernel, when it
generates a patch with tools that write. A snapshot has a fresh name, so a torn one is
never read.

Validation has a time limit, but it only kills the command's shell; the promise waits for the pipes
to close (`ultraBridge.js:80-83,119`), which something the shell has started may hold open for ever. So
`Validated` need not happen, and the queue may stand still with its patch task.

Taken as given: one Rollback Last at a time; a snapshot that was written can be read; files hold
UTF-8 (`rollbackStore.js:120` reads them as such, so another file is not restored byte for byte).
`RestoreReverts` leaves out files that someone else wrote after the attempt and files that
a task and a rollback wrote at the same time, of which nothing can be said.

## 4. The runs

| Run | Shows |
|---|---|
| `epoch` | with one writer at a time no object a reader holds is freed; tags cover readers; the count is exact |
| `branch` | no dangling snapshot, none lost when there is a disk, rollback restores the origin, finished branches stay finished; with a disk whose writes fail, and without one |
| `sessions` | commands one at a time, dying anywhere: reported creations and commits last, snapshots stay intact; when they overlap, a reported creation still lasts, unless two had its aside file open at once |
| `sessions_torn` | *violation*: overlapping commands rename each other's truncated file into place |
| `editor` | the last attempt to apply can be undone at any moment, a restore puts back what it changed, and the queue comes to rest unless a model or the validation never ends |
| `daemon` | calm: one daemon that can be found, reachable, gone when sleep has swept, sleep returns; and also when commands give up and others follow: a daemon that ends leaves no file naming it, a shutdown in a backlog ends its daemon |
| `state` | mutations and late bindings of two threads: the versioned store is implemented, a version names one graph, the hot slice has no outdated node |
| `state_stale` | *violation*: the next synchronisation of versions brings a removed symbol back into the hot slice |
| `loop` | what is done has what it waits for done; repairs are accepted and partial; retries keep to the budget; no plan without a checkpoint; success is confirmed; the loop ends |
| `patch` | no file lost, a success is a reading of the diff, every provider is asked once, the kernel ends |
| `index` | what is served is complete and, for unchanged times, that of the sources; approved tables are the served ones; a request returns, with edits, failing writes and crashes anywhere |
| `patch_retry` | *violation*: an applied patch is reported to the model as failed |

The three violations are the findings of `PROJECT.json`; each quotes the comment
it contradicts. Nine more disagreements were met that no run shows:
`BranchLifecycle.h:44` says that archiving freezes a branch permanently, but
`rollback` and `merge` accept an archived one; `BranchLifecycle.h:35` says that
suspending persists the execution state, but `suspend` saves nothing of the
graph, so a resume brings back the graph of the spawn;
`UnifiedPatchService.cpp:131` says that added lines are looked for at their
place, but any line of the file will do; and after two failures in a row
governance refuses `apply_patch` before it is tried, so that the count, which
only a success clears, never falls again; `BranchOrchestrator.h:17` promises a
topological order, but line 51 of `BranchOrchestrator.cpp` sorts the order by id (nothing
calls it yet); and `createBranch`, the context slices, the intent simulation and the
command line (`UltraAuthorityAPI.cpp:109`, `ContextSliceProvider.cpp:29`,
`IntentSimulator.cpp:353`, `CLIEngine.cpp:4058`) load a graph store that nothing
that runs has written: its writers, `AiRuntimeManager.cpp:1046` and `IndexingService`,
have no callers; and `src/README.md:156` says that Rollback Last reverts the most
recent applied patch, but an attempt that failed and was taken back has already replaced the
name of that patch's snapshot (`rollbackStore.js:52`); `CLIEngine.cpp:2501` says that clean should not race an
active daemon, but it asks for `sleep_ai`, which `ultra_daemon.cpp:302` does not know, and goes on in any case; and
`UnifiedPatchService.h:74` promises a result "regardless of success or failure", but a hunk header without a number
throws (`PatchManager.cpp:285`) through the service, with the sections before it written and their
backups left behind, where the next patch of the same file overwrites them.

### Bounds

* Epochs: three threads are a reader and two writers, or two readers that enter
  on either side of a scan; four objects allow every retirement to find an older
  one in each list. Both thresholds are 2 (32 and 256 in the code), which
  reaches flush and reclamation; guards nest to depth 2. The epoch itself needs
  no bound: it advances only in a reclamation.
* Branches: three ids, one of them executing, two graphs, a chain of two (`MaxRetained`), one
  active and two resident branches, so that every cap is exceeded by the second
  or third spawn. `MaxSeq` ends the behaviours after four to six operations that
  draw numbers.
* Sessions: `MaxSeq` 9 allows three creations and two commits one at a time,
  `MaxOverlapping` 3 commands of which two overlap, and one that follows or reports between
  them; it counts commands and not numbers, as a command may leave the number on disk lower
  than it was (four have been checked too). There is one graph:
  a file that is missing or cut short shows in `SnapshotsIntact`; that no file has another
  branch's graph is proved.
* Editor: two paths, one of them free; two patches that have the four kinds of section
  between them (change, new file, deletion, rename); two tasks (`MaxTasks`), so that one
  waits while the other runs and the second snapshot follows the first; one edit
  (`MaxEdits`). Rollbacks, failures and ends of the editor are not bounded.
* Daemon: three pids allow a crashed or nameless, an ending and a new daemon. In behaviours
  that are not calm two pids (`RacePids`) and one client (`Racers`), whose command
  may give up and leave its request and its half-started daemon behind before
  the next one begins.

* State manager: two threads, two symbols with two shapes, versions to 3: a
  snapshot can be overtaken twice, a symbol change, go and come back while a
  thread is between its two locks. The violation needs one thread and three
  versions.

* Loop: two payloads give a chain of three tasks, so that a repaired task has one
  before it and one after; three iterations (`MaxIterations`, 8 in the code) allow
  one that fails, and success; two retries an iteration (`MaxRetries`) and a
  convergence window of two (`Window`), as in the code, allow the repair of a
  repaired task and of a repair task.
* Patch: three paths, one of them absent; seven diffs with one or two sections and
  hunks: fitting at its line, elsewhere, at two places, nowhere, twice the same
  file, without hunks; a search of one line around the named one (`MaxOffset`, 100
  in the code); two retries, as in the code; two providers; tool failures of
  earlier requests from 0 to 2, so that governance is met on either side of its
  limit; at most one path is locked, without backup or has a stale one; any
  copy back may fail, and any section may have a header that cannot be read.

* Index: two files, two texts, two threads. File 1 may be changed, changed back,
  removed or created (`MaxTime`, the clock up to which a file changes), before the first
  request or in the middle of any; file 2 keeps its text, and its number shifts as file 1 comes
  and goes (`Initial` has it there or not). Requests, failures and crashes are not bounded.

No run bounds the model by a state constraint.

### Fairness

`loop` and `patch` model one thread: whatever stage, provider or command it waits
for comes back, so a step is taken as long as one can be. `Progress` is weak
fairness of `Next` written without `ENABLED`, which TLC evaluates slowly: the two
runs check for deadlock, so a step is possible in every state, and the only
state where none changes anything is the last.

In `index` the dispatcher runs in the thread that serves the request, and each
thread of a scan is the system's to schedule: `Dispatch` and each `Work(w)` are
weakly fair. Requests, edits and crashes are not.

In `editor` file operations come back: `TaskStep` is
weakly fair. A model need not answer and a validation need not end, so `GenerateEnds` and `Validated`
are not, and `TasksSettle` says what follows when neither is waited for for ever; clicks, edits, rollbacks and ends of the editor are not fair either.

In `daemon` two properties need fairness. A
daemon's and a command's process is scheduled again and again, so its steps are
weakly fair; a new command and a crash are not. The server takes connections
from the backlog in order, so each request that stays there is served in the end:
weak fairness of `Serve` for each shutdown request (no property needs it of the others), without modelling the order itself.

`CHECK_DEADLOCK FALSE` is set, in the other runs, where the program may stop for good: threads that
have ended, an empty queue of tasks, used-up pids or sequence numbers.

## 5. The proofs

`EpochReclamation_proofs` proves, for any set of threads and objects and any
thresholds, `TypeOK`, `TagsCoverReaders`, `ApproxExact` and, when writers are
serialised, `NoUseAfterFree`. From the module's assumption on its constants and
nothing else.

`NoUseAfterFree` is not inductive: an object on the way to be freed was chosen
by comparing its tag with a minimum that a scan computed some steps ago. The
inductive invariant adds

* what a reader is (`ReaderInv`): its loaded epoch is at most the global one, and
  the slot says what it published or that it is inactive;
* what a scan knows (`ScanInv`): its minimum is at most the epoch of every reader
  already passed that may hold a retired object, and a reader it has still to
  pass is in the slots it has left;
* what the lists hold (`SlotInv`, `HeldInv`): each object is in one place, and
  its tag is at least the epoch of every reader that holds it
  (`TagsCoverReaders`);
* who is inside which lock (`LockInv`).

The tag is read after the pointer was replaced, so a reader that still holds the
object loaded its epoch no later: that is the heart of the argument, and the
mutant that reads the tag from the epoch before breaks it at once.

`StateManager_proofs` proves, for any threads, symbols and shapes, `TypeOK`,
`VersionNamesOneGraph`, `HotMirrorsGraph` and that the specification implements
`VersionedStore`. `VersionNamesOneGraph` alone is not inductive: a snapshot of a
version to come would break it when that version comes. The inductive invariant
adds that no snapshot is ahead of the state (`SnapInv`, from which also the stamps
a late thread writes are bounded) and that a thread between its two locks holds
a snapshot (`CallInv`). The refinement rests on it: a refused mutation has
another version *or* another hash, and only because a version names one graph
does that mean that it comes too late.

`Branch_proofs` proves, for any branches, graphs, caps and sessions, all the properties
of the runs `branch` and `sessions`, from `BranchAssumption`. The lemmas on the operators of
`BranchOps` serve both: what retaining, evicting, invalidating and governing keep.

None of the five of `BranchLifecycle` is inductive. A snapshot that a branch names can be loaded
because the governance at the end of every operation clears the names that have neither a
place in the chain nor a file (`Backed`), and because a file that is named is never torn.
That a copy of the snapshot, in the chain or on disk, is the graph of the branch's spawn
(`SnapshotsTrue`) needs the number of a new snapshot to be above those of all chain entries,
files and branches (`Numbered`), although numbers are also spent on mutations and on
spawns that failed. The five parts are stated of any state, disk and history, so that
they can be followed through the middle of an operation; `RollbackRestoresOrigin` and
`FinishedStaysFinished`, which are about steps, use them at the state before.

The commands of `BranchSessions` load all branches as base branches and a chain in which
unreadable snapshots are skipped; the proof does not need to know which, because
every branch that a file names, and every branch in the memory of a session but the one it
is creating, has an object file (`FilesNamed`, `WorkNamed`), so that the governance clears no name. So has
every branch in a file that is still aside (`AsideNamed`). This
holds for overlapping sessions; with `OpenSafe`, that a file only one session has opened is still
aside under its name and, once written, as that session wrote it, it gives `CreationsDurable`. For sessions that run one at a time,
`FilesTrue` and `WorkTrue` follow a command from write to write: the new snapshot's
number is above the metadata on disk, which is never below what a branch file names, so neither writing
an object nor leaving it torn touches one that is named; and what is already saved is what the
session has in memory, in which a committed branch is merged. `SessionsTypeOK` needs that the
chain in the memory of a busy session is one of snapshots (`DataInv`): then the chain file it writes
is a list of ids, and what the next session loads of it, some of its objects gone or torn, is a chain of
snapshots again (`LoadedChainIs`).

`UltraLoop_proofs` proves, for any number of tasks and any bounds, `TypeOK`
and all the safety properties of the run, from `LoopAssumption`. None is inductive. While an iteration lasts, the
retries it has left stay reserved within the budget of the run (`ShareReserved`);
`RE_ANCHOR`, which sets them back in an iteration that has spent some, is harmless
because it can only be followed by a new iteration. A checkpoint has been taken in every state that leads to a
plan. Success is reported on the last observation, which only a verified graph
reaches, and the history is never longer than the iterations, so a full window
needs that many of them. The types go through the repair overlays (`OverlayGraph`):
a repair puts in no dependency on a task that is not in the graph.

`DoneInOrder` and `RetryIsAccepted` rest on what an overlay does to the order of the graph
(`OrderInv`). That a task is done only after those it depends on (`InOrder`) survives a
repair because the overlay takes in everything that follows the asked tasks, so nothing
outside of it depends on something inside. That the graph has no cycle is carried by its
shape (`Layered`): every dependency goes to a task with a smaller number or to the
task's own repair, and a repair depends on no repair. From it follows that every set of nodes
has one without a dependency in the set, which is what `IsDag` asks, by the least number
in it. A retry is accepted because the tasks it asks for are known to the graph
(`AskedKnown`, `LastKnown`). `RepairIsPartial` is a fact about the merge alone: what is outside of the
closed set keeps its state.

`PatchExecution_proofs` proves, for any files, diffs, retries and providers, all the safety
properties of the run: `TypeOK`, `EveryProviderAsked`, `SuccessIsExact` and `OriginalsKept`, which also
holds when the kernel is killed at any moment. That a file may be truncated depends on its backup being in `backups`, and that this set
may be trusted depends on its being empty when a call begins: the inductive
invariant `SafeCopies` says that a file outside `backups` is as it was, that the
backup of one inside is what the file was, that the file about to be written is
inside, and that nothing is inside between calls and between strategies. A header that cannot be
read stops an apply with its backups where they are, and they are still true; a file whose copy back has
failed is `unrestored`, and the invariant speaks of it no more. It needs
`ContentsAssumption`, and nothing about what patching computes. `TypeOK`, which says that
retries are bounded, that PatchManager stays within the diff and that every path holds lines or
nothing, needs `DiffsAssumption`, that a file is written by the first strategy only for a section that is there,
that each call begins at the first (`SectionThere`), and that PatchManager, git and the exact replacement make
lines of lines (`Holding`).

`SuccessIsExact` compares two ways of putting hunks into a file. PatchManager goes through the file once from the
front, keeping how many lines it has consumed; the reference puts each hunk in place of its old side
from the back, so that the places of the others stay what they are. `PatchedIsRead` proves, for any lines
and hunks, that the first is one of the readings of the second. Each stage of the search
carries its places (`AllPlaced`): old sides that stand there, in order, none before the lines
already consumed, which is the guard that the mutant of `Places` drops. Then the output so far, followed by the
lines not yet consumed, is what the last hunks make of the file when they are put first (`PutFits`); the steps
are counted down from the last hunk to the first. The sum of it over a diff is the invariant `ReadSoFar`:
when `PatchManager` is at a section, every file is a reading of the sections before it that name it (`AllRead`), and what is about to be
written is one with this section too (`PendingRead`), unless a write came up short. A diff may name a file
twice, so a reading starts from what the section before has left, as in the code. It needs `AbsentAssumption`, that no file is
told from a file, and no bound on the search.

`EveryProviderAsked`
rests on `CandidatesAre`: whatever the roles, the routing table and the local providers
are, the candidates are the available providers, each once, because they are pushed last and
nothing else is pushed that is not available. It needs `ContextsAssumption`, that available
providers have names. The invariant `Asking` says that those asked and those to be asked are
together the available ones, and uses that every error leads to the next provider.

`DaemonLifecycle_proofs` proves, for any pids and clients, `TypeOK` and all the
safety properties of the run: `CleanExitLeavesNoTrace`, `AtMostOneDaemon`,
`ServingIsReachable` and `SleepLeavesNoServer`, from `DaemonAssumption`. The first
holds in every behaviour and rests on `FilesOwned`, from which program points on a
daemon's name may stand in the pid file and be bound to the socket, and on `Quiet`,
that a dead process does nothing. The other three are about calm behaviours and need
`Orderly`, which speaks of the daemons that have their name and keeps the nameless ones
apart from them (`NamelessApart`): at most one command is under way (`OneCommand`), a request in a backlog has
a sender that waits for it (`RequestsAwaited`), a daemon has its files as long as
it can still be asked (`FilesKept`), and for every step of the one command what the
daemon may be doing at that moment (`DaemonWhere`): the last is what says that a
command that sweeps has seen the daemon end, and one that starts a daemon has seen
that there is none.

`SemanticIndex_proofs` proves, for any files, texts, threads and bounds, `TypeOK`,
`IndexIsComplete`, `VerifiedIsServed` and `FreshIsCurrent`, from `IndexAssumption`.
The inductive invariant has three parts. `Ordered` says which tables are in place
at each step of writing, and that a file that is hashed is parsed and, once the scan
is over, that those are the listed ones.
`Vouched` says that whatever `core.idx` has the hashes of is complete and is what is served,
unless the daemon has nothing in memory. `Timely` follows a time from the listing to the
index: a time on record is past (`Past`), and as long as a file has a time on record, what
a thread has read (`ScanTells`), what is on disk (`FilesTell`, `CoreTells`) and what
is served is the file's. `FilesTell` and `CoreTells` are separate because a table and the times
beside it may be of two rebuilds.

`EditorTasks_proofs` proves, for any files, patches and bounds, `TypeOK`,
`Recoverable` and `RestoreReverts`, from the three assumptions of the module. That the latest snapshot
has what was changed depends on numbers and on the order of writes; `SafeSnapshots` adds
that tasks are numbered in the order in which they run, each above the latest
snapshot until it has named its own (`Numbered`), that a task past its snapshot has in it
every path of its sections (`Saved`), and that the snapshot agrees with what the
attempt has read (`Agrees`). `RestoreReverts` adds how far a
restoration has come: each file of the snapshot is still to be restored or is as before
(`SafeReverts`).

The types of `epoch`, `daemon`, `state`, `index`, `editor` and `loop` are proved only; the other runs
check theirs.

Only model-checked: liveness (`LoopEnds`, `KernelAnswers`, `SleepReturns`, `ShutdownEndsDaemon`,
`TasksSettle`, `RequestReturns`), which, with `ENABLED`, is out of the prover's reach, as are
`RECURSIVE` operators, of which no module declares one, and the induction theorems of the library, which
take an operator as a parameter. What the recursive functions of `PatchManager` compute is
proved by the least number up to which a fact does not hold (`LeastNumber`, `CountingUp`).

## 6. Not modelled

Contents of graphs and messages, text formats, scores and weights (floating
point), the Windows branches of the IPC code, language parsing, HTTP. Nothing in
the program creates a `WorkerPool` or takes anything off the `ChangeQueue` that
the state manager and the file watcher fill, so there is no interleaving of
consumers to model. `CppAdapter` has a patch routine of its own
(`language/CppAdapter.cpp`) that is never called. The orchestrator of
`src/orchestration` is never called either. In the editor extension the palette commands
(`promptAndRun`, `extension.js:731`) pass the prompt in the place of the execution mode, so
that they only ever report a missing prompt: tasks come from the panel. Components left out are listed
with the reason in `PROJECT.json`. Behaviour deliberately simplified: sequential
consistency and what is taken as given for patches (above), file writes of
branch files that fail silently
(`SnapshotPersistence.cpp:113` does not look at the stream after writing),
recycled pids, clients that connect and send nothing.

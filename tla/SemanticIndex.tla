--------------------------- MODULE SemanticIndex ---------------------------
(***************************************************************************)
(* The semantic index of the daemon (DaemonRuntimeDispatcher in            *)
(* CLIEngine.cpp): a request makes sure that the index in memory is that   *)
(* of the sources, by loading the one on disk or by a scan of all files    *)
(* with several threads, whose result is written table by table before it  *)
(* is served. The sources change at any moment, a write may fail, and the  *)
(* daemon may die between two steps and be started again.                  *)
(***************************************************************************)
EXTENDS Naturals, Sequences, FiniteSets

CONSTANTS
    Files,      \* paths, as numbers in the order of their names
    Texts,      \* what a source file may contain
    SymbolsOf,  \* the symbols of a text
    DepsOf,     \* the files a text refers to
    Initial,    \* what the project may contain at first
    Workers,    \* the threads of a scan
    MaxTime,    \* bound on the changes of each source: the time of the last
    None        \* a file that does not exist, or no file

ASSUME IndexAssumption ==
    /\ Files \subseteq Nat
    /\ DepsOf \in [Texts -> SUBSET Files]
    /\ MaxTime \in [Files -> Nat]
    /\ Initial \subseteq [Files -> Texts \cup {None}]
    /\ None \notin Files \cup Texts

VARIABLES
    src,        \* the sources: text and time of last modification
    clock,      \* the latest time of modification
    disk,       \* .ultra/ai: four tables and the companion of files.tbl
    ahead,      \* files.meta is of a rebuild that has not written core.idx
    served,     \* runtimeState(): the index in memory
    doubtful,   \* it was loaded while files.meta was ahead
    pc,         \* what the dispatcher does
    goal,       \* what it lists the sources for: a check or a scan
    todo,       \* files it has not come to yet
    found,      \* files listed, with their time of modification
    queue,      \* files no thread has taken yet
    worker,     \* the file a thread is at, and the text when it was hashed
    failed,     \* a thread could not read or parse its file
    hashed,     \* the text of each file when its hash was taken
    parsed,     \* the text of each file when it was parsed
    table       \* the table that is being written

history == <<ahead, doubtful>>
job == <<pc, goal, todo, found, queue, worker, failed, hashed, parsed, table>>
vars == <<src, clock, disk, ahead, served, doubtful, job>>

Empty == [f \in {} |-> None]
With(g, x, v) == [y \in DOMAIN g \cup {x} |-> IF y = x THEN v ELSE g[y]]

Idle == [file |-> None, text |-> None]

TableNames == {"files", "meta", "symbols", "deps", "core"}
Tables == <<"files", "meta", "symbols", "deps", "core">>

NoIndex == [at |-> Empty, files |-> Empty, symbols |-> Empty, deps |-> Empty]
\* Mutant of Scanned: the times are those of the end of the scan.
ScannedLate ==
    [at |-> [f \in DOMAIN found |-> IF src[f] = None THEN 0 ELSE src[f].at],
     files |-> hashed,
     symbols |-> [f \in DOMAIN parsed |-> SymbolsOf[parsed[f]]],
     deps |-> [f \in DOMAIN parsed |-> DepsOf[parsed[f]] \cap DOMAIN found]]

\* What a scan yields.
Scanned ==
    [at |-> found, files |-> hashed,
     symbols |-> [f \in DOMAIN parsed |-> SymbolsOf[parsed[f]]],
     deps |-> [f \in DOMAIN parsed |-> DepsOf[parsed[f]] \cap DOMAIN found]]

\* Files are numbered in the order of their paths, and files.meta has nothing
\* but numbers and times.
IdIn(fs, f) == Cardinality({g \in fs : g <= f})
MetaOf(times) ==
    [i \in {IdIn(DOMAIN times, f) : f \in DOMAIN times} |->
        times[CHOOSE f \in DOMAIN times : IdIn(DOMAIN times, f) = i]]
TimeOf(meta, fs, f) ==
    IF meta # None /\ IdIn(fs, f) \in DOMAIN meta THEN meta[IdIn(fs, f)] ELSE 0

\* core.idx has the hashes of the three tables as they are on disk.
Hashes == [files |-> disk.files, symbols |-> disk.symbols, deps |-> disk.deps]

\* hasPersistedSemanticIndex: files.meta is not asked for.
Persisted == \A t \in {"files", "symbols", "deps", "core"} : disk[t] # None

\* verifyIntegrity, which is also all that ai_verify does.
Verified == Persisted /\ disk.core = Hashes

\* readFilesTable and the other readers.
OnDisk ==
    [at |-> [f \in DOMAIN disk.files |-> TimeOf(disk.meta, DOMAIN disk.files, f)],
     files |-> disk.files, symbols |-> disk.symbols, deps |-> disk.deps]

HasIndex == served.at # Empty

Init ==
    /\ \E t \in Initial :
           src = [f \in Files |-> IF t[f] = None THEN None ELSE [text |-> t[f], at |-> 1]]
    /\ clock = 1
    /\ disk = [t \in TableNames |-> None]
    /\ ahead = FALSE
    /\ served = NoIndex
    /\ doubtful = FALSE
    /\ pc = "idle" /\ goal = "none" /\ todo = {} /\ found = Empty
    /\ queue = {} /\ worker = [w \in Workers |-> Idle] /\ failed = FALSE
    /\ hashed = Empty /\ parsed = Empty /\ table = 1

-----------------------------------------------------------------------------
(* The project, edited by others *)

Edit(f, t) ==
    /\ clock < MaxTime[f]
    /\ clock' = clock + 1
    /\ src' = [src EXCEPT ![f] = [text |-> t, at |-> clock']]
    /\ UNCHANGED <<disk, served, history, job>>

Delete(f) ==
    /\ clock < MaxTime[f]
    /\ src[f] # None
    /\ clock' = clock + 1
    /\ src' = [src EXCEPT ![f] = None]
    /\ UNCHANGED <<disk, served, history, job>>

-----------------------------------------------------------------------------
(* Requests *)

\* The end of a request, answered or refused.
Return ==
    /\ pc' = "idle" /\ goal' = "none" /\ todo' = {} /\ found' = Empty
    /\ queue' = {} /\ worker' = [w \in Workers |-> Idle] /\ failed' = FALSE
    /\ hashed' = Empty /\ parsed' = Empty /\ table' = 1

\* FileRegistry::discoverProjectFiles begins.
List(g) ==
    /\ pc' = "list" /\ goal' = g /\ todo' = Files /\ found' = Empty
    /\ UNCHANGED <<queue, worker, failed, hashed, parsed, table>>

\* ai_query, ai_source, ai_impact, ai_context and ai_status begin with
\* ensureIndexAvailable.
AskQuery ==
    /\ pc = "idle"
    /\ List(IF HasIndex \/ Persisted THEN "check" ELSE "scan")
    /\ UNCHANGED <<src, clock, disk, served, history>>

AskRebuild ==
    /\ pc = "idle"
    /\ List("scan")
    /\ UNCHANGED <<src, clock, disk, served, history>>

\* One file of the tree: its time of modification, if it is there.
Stat(f) ==
    /\ pc = "list" /\ f \in todo
    /\ todo' = todo \ {f}
    /\ found' = IF src[f] = None THEN found ELSE With(found, f, src[f].at)
    /\ UNCHANGED <<src, clock, disk, served, history,
                   pc, goal, queue, worker, failed, hashed, parsed, table>>

Listed(g) == pc = "list" /\ todo = {} /\ goal = g

\* isIndexStale of the index in memory or of the one on disk: the same files
\* with the same times.
Fresh == found = IF HasIndex THEN served.at ELSE OnDisk.at

AnswerFromMemory ==
    /\ Listed("check") /\ HasIndex /\ Fresh
    /\ Return
    /\ UNCHANGED <<src, clock, disk, served, history>>

\* tryLoadPersistedIndex
AnswerFromDisk ==
    /\ Listed("check") /\ ~HasIndex /\ Fresh /\ Verified
    /\ served' = OnDisk
    /\ doubtful' = ahead
    /\ Return
    /\ UNCHANGED <<src, clock, disk, ahead>>

FallToRebuild ==
    /\ Listed("check")
    /\ ~(Fresh /\ (HasIndex \/ Verified))
    /\ List("scan")
    /\ UNCHANGED <<src, clock, disk, served, history>>

-----------------------------------------------------------------------------
(* The scan: ParallelScanner::runFullScan *)

StartScan ==
    /\ Listed("scan")
    /\ pc' = "scan"
    /\ queue' = DOMAIN found
    /\ UNCHANGED <<src, clock, disk, served, history,
                   goal, todo, found, worker, failed, hashed, parsed, table>>

Scanning == pc = "scan"

Take(w) ==
    /\ Scanning /\ worker[w] = Idle /\ ~failed
    /\ \E f \in queue :
           /\ \A g \in queue : f <= g
           /\ queue' = queue \ {f}
           /\ worker' = [worker EXCEPT ![w] = [file |-> f, text |-> None]]
    /\ UNCHANGED <<src, clock, disk, served, history,
                   pc, goal, todo, found, failed, hashed, parsed, table>>

\* reportError: the thread ends, the others finish the file they are at.
Fail(w) ==
    /\ failed' = TRUE
    /\ worker' = [worker EXCEPT ![w] = Idle]
    /\ UNCHANGED <<hashed, parsed>>

\* The file is read once for its hash ...
Hash(w) ==
    /\ Scanning /\ worker[w].file # None /\ worker[w].text = None
    /\ IF src[worker[w].file] = None
       THEN Fail(w)
       ELSE /\ worker' = [worker EXCEPT ![w].text = src[worker[w].file].text]
            /\ UNCHANGED <<failed, hashed, parsed>>
    /\ UNCHANGED <<src, clock, disk, served, history,
                   pc, goal, todo, found, queue, table>>

\* ... and once more to be parsed, which may not succeed.
Parse(w) ==
    /\ Scanning /\ worker[w].text # None
    /\ LET f == worker[w].file IN
           \/ Fail(w)
           \/ /\ src[f] # None
              /\ hashed' = With(hashed, f, worker[w].text)
              /\ parsed' = With(parsed, f, src[f].text)
              /\ worker' = [worker EXCEPT ![w] = Idle]
              /\ UNCHANGED failed
    /\ UNCHANGED <<src, clock, disk, served, history,
                   pc, goal, todo, found, queue, table>>

\* Mutant of Joined: every file has to be taken, also after a failure.
JoinedWhenEmpty == Scanning /\ queue = {} /\ \A w \in Workers : worker[w] = Idle

\* All threads have been joined.
Joined == Scanning /\ (failed \/ queue = {}) /\ \A w \in Workers : worker[w] = Idle

\* Mutant of Complete: a file that cannot be read or parsed is skipped.
CompleteRegardless == TRUE

\* Every file of the list has a hash, or else the scan is refused.
Complete == ~failed /\ DOMAIN hashed = DOMAIN found

ScanFails ==
    /\ Joined /\ ~Complete
    /\ Return
    /\ UNCHANGED <<src, clock, disk, served, history>>

\* Mutant of ScanSucceeds: the result is served before it is written.
ScanSucceedsServing ==
    /\ Joined /\ Complete
    /\ pc' = "write"
    /\ served' = Scanned /\ doubtful' = FALSE
    /\ UNCHANGED <<src, clock, disk, ahead,
                   goal, todo, found, queue, worker, failed, hashed, parsed, table>>

ScanSucceeds ==
    /\ Joined /\ Complete
    /\ pc' = "write"
    /\ UNCHANGED <<src, clock, disk, served, history,
                   goal, todo, found, queue, worker, failed, hashed, parsed, table>>

-----------------------------------------------------------------------------
(* The tables, one after the other: BinaryIndexWriter *)

Written(t) ==
    CASE t = "meta" -> MetaOf(found)
      [] t = "core" -> Hashes
      [] OTHER -> Scanned[t]

\* The new table is written aside and the old one removed ...
RemoveOld ==
    /\ pc = "write"
    /\ disk' = [disk EXCEPT ![Tables[table]] = None]
    /\ pc' = "rename"
    /\ UNCHANGED <<src, clock, served, history,
                   goal, todo, found, queue, worker, failed, hashed, parsed, table>>

\* ... before the new one gets its name.
Rename ==
    /\ pc = "rename"
    /\ disk' = [disk EXCEPT ![Tables[table]] = Written(Tables[table])]
    /\ ahead' = CASE Tables[table] = "meta" -> TRUE
                  [] Tables[table] = "core" -> FALSE
                  [] OTHER -> ahead
    /\ IF table < Len(Tables)
       THEN pc' = "write" /\ table' = table + 1
       ELSE pc' = "publish" /\ UNCHANGED table
    /\ UNCHANGED <<src, clock, served, doubtful,
                   goal, todo, found, queue, worker, failed, hashed, parsed>>

\* Either may fail: the request is refused, and what is served stays.
WriteFails ==
    /\ pc \in {"write", "rename"}
    /\ Return
    /\ UNCHANGED <<src, clock, disk, served, history>>

\* The index in memory is replaced, and the request is answered from it.
Publish ==
    /\ pc = "publish"
    /\ served' = Scanned
    /\ doubtful' = FALSE
    /\ Return
    /\ UNCHANGED <<src, clock, disk, ahead>>

\* The daemon dies; the next one has the files and nothing in memory.
Crash ==
    /\ served' = NoIndex
    /\ doubtful' = FALSE
    /\ Return
    /\ UNCHANGED <<src, clock, disk, ahead>>

-----------------------------------------------------------------------------
Work(w) == Take(w) \/ Hash(w) \/ Parse(w)

Dispatch ==
    \/ \E f \in Files : Stat(f)
    \/ AnswerFromMemory \/ AnswerFromDisk \/ FallToRebuild
    \/ StartScan \/ ScanFails \/ ScanSucceeds
    \/ RemoveOld \/ Rename \/ WriteFails \/ Publish

Next ==
    \/ \E f \in Files : Delete(f) \/ \E t \in Texts : Edit(f, t)
    \/ AskQuery \/ AskRebuild
    \/ Dispatch
    \/ \E w \in Workers : Work(w)
    \/ Crash

\* The dispatcher runs in the thread that serves the request, and the threads
\* of a scan are scheduled by the system: none of them is put off for ever.
Fairness == WF_vars(Dispatch) /\ \A w \in Workers : WF_vars(Work(w))

Spec == Init /\ [][Next]_vars /\ Fairness

-----------------------------------------------------------------------------
(* Properties *)

IsPartial(g, S, T) == DOMAIN g \subseteq S /\ g \in [DOMAIN g -> T]
IsTimes(g) == IsPartial(g, Files, Nat)
IsTexts(g) == IsPartial(g, Files, Texts)
IsSymbols(g) == IsPartial(g, Files, {SymbolsOf[t] : t \in Texts})
IsDeps(g) == IsPartial(g, Files, SUBSET Files)
IsTables(r) == IsTexts(r.files) /\ IsSymbols(r.symbols) /\ IsDeps(r.deps)

DiskTypeOK ==
    /\ DOMAIN disk = TableNames
    /\ disk.files = None \/ IsTexts(disk.files)
    /\ disk.meta = None \/ IsPartial(disk.meta, Nat, Nat)
    /\ disk.symbols = None \/ IsSymbols(disk.symbols)
    /\ disk.deps = None \/ IsDeps(disk.deps)
    /\ disk.core = None \/ IsTables(disk.core)

JobTypeOK ==
    /\ pc \in {"idle", "list", "scan", "write", "rename", "publish"}
    /\ goal \in {"none", "check", "scan"}
    /\ todo \subseteq Files /\ queue \subseteq Files
    /\ IsTimes(found) /\ IsTexts(hashed) /\ IsTexts(parsed)
    /\ worker \in [Workers -> {Idle} \cup [file : Files, text : Texts \cup {None}]]
    /\ failed \in BOOLEAN
    /\ table \in 1 .. Len(Tables)

\* The types of the variables; a table is a partial function of the files.
TypeOK ==
    /\ src \in [Files -> {None} \cup [text : Texts, at : Nat]]
    /\ clock \in Nat
    /\ DiskTypeOK
    /\ IsTimes(served.at) /\ IsTables(served)
    /\ ahead \in BOOLEAN /\ doubtful \in BOOLEAN
    /\ JobTypeOK

\* What is on record of a file is right as long as the file has not been
\* changed: then it has the time that was noted before it was read. This is
\* what staleness checks by time rely on. Symbols and dependencies loaded while
\* files.meta was ahead of core.idx are excepted: no hash covers files.meta.
FreshIsCurrent ==
    \A f \in DOMAIN served.at :
        src[f] # None /\ src[f].at = served.at[f] =>
            /\ served.files[f] = src[f].text
            /\ ~doubtful => /\ served.symbols[f] = SymbolsOf[src[f].text]
                            /\ served.deps[f] = DepsOf[src[f].text] \cap DOMAIN served.at

\* When ai_verify approves the tables on disk, they are those that the daemon
\* serves, whatever rebuilds have failed before.
VerifiedIsServed ==
    pc = "idle" /\ HasIndex /\ Verified =>
        \A t \in {"files", "symbols", "deps"} : disk[t] = served[t]

\* Every file that is served has been hashed and parsed: a scan in which a
\* thread gave up is never published.
IndexIsComplete ==
    \A t \in {"files", "symbols", "deps"} : DOMAIN served[t] = DOMAIN served.at

\* A request returns, also when the threads of a scan give up.
RequestReturns == pc # "idle" ~> pc = "idle"
=============================================================================

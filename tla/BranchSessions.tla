--------------------------- MODULE BranchSessions ---------------------------
(***************************************************************************)
(* Branch commands as the authority layer runs them.  A command is a       *)
(* session: it loads the branch store and the snapshot chain from .ultra,  *)
(* applies one BranchLifecycle operation in memory and writes the store    *)
(* back, file by file.  UltraAuthorityAPI::createBranch spawns a branch,   *)
(* CommitCoordinator::commit merges one into another.                      *)
(*                                                                         *)
(* A session may die between any two writes; a write that reports an error *)
(* ends the session the same way.  Nothing locks .ultra: "exclusive" says  *)
(* whether sessions happen to run one at a time, as they do inside the     *)
(* daemon, which answers one request after the other.                      *)
(*                                                                         *)
(* The object and the chain are written in place, the metadata and the     *)
(* branch files aside, under names that all sessions share, and renamed.   *)
(***************************************************************************)
EXTENDS BranchOps, Subsequences

CONSTANTS Sessions,
          Metadata,       \* the name of metadata.json beside the branches'
          MaxOverlapping  \* bound: commands begun when sessions overlap

ASSUME MetadataAssumption == Metadata \notin Branches \cup {None}

\* The files BranchPersistence::save writes aside.
Names == Branches \cup {Metadata}

VARIABLES
    exclusive,   \* do sessions run one at a time?
    metaSeq,     \* globalSequence in branches/metadata.json
    files,       \* branch id -> what load makes of branches/<id>.json
    aside,       \* name -> what load would make of its .tmp file, if in use
    chainFile,   \* ids in memory/chain.json, or Torn
    objectFiles, \* snapshot id -> content of memory/objects/<id>.graph
    pc,          \* session -> step it is at
    work,        \* session -> its in-memory state, as in BranchOps
    job,         \* session -> the branch it creates or merges
    unsaved,     \* session -> branches it has still to write
    begun,       \* commands begun so far, counted when sessions overlap
    open,        \* session -> name whose file it has open, or None
    place,       \* session -> where that file is by now
    written,     \* session -> has it written the file?
    spawnedOn,   \* history: branch -> the graph it was spawned on
    created,     \* history: branches whose creation was reported
    committed,   \* history: branches whose commit was reported
    mixed        \* history: names two sessions had open at the same time

storeFiles    == <<metaSeq, files, aside>>
snapshotFiles == <<chainFile, objectFiles>>
disk    == <<exclusive, storeFiles, snapshotFiles>>
handles == <<open, place, written>>
memory  == <<pc, work, job, unsaved, begun, handles>>
history == <<spawnedOn, created, committed, mixed>>
sessionVars == <<disk, memory, history>>

Steps == {"idle", "object", "objectOpen", "chain", "chainOpen", "meta", "files"}

State == [branch : [Branches -> BranchRecord], chain : Seq(SnapshotRecord),
          graph : Graphs \cup {None}, current : Branches \cup {None}, seq : Nat]

SessionsTypeOK ==
    /\ exclusive \in BOOLEAN
    /\ metaSeq \in Nat
    /\ files \in [Branches -> BranchRecord]
    /\ DOMAIN aside \subseteq Names
    /\ \A n \in DOMAIN aside : aside[n] \in IF n = Metadata THEN Nat ELSE BranchRecord
    /\ chainFile = Torn \/ chainFile \in Seq(Nat \ {0})
    /\ \A id \in DOMAIN objectFiles : id \in Nat /\ objectFiles[id] \in Graphs \cup {Torn}
    /\ pc \in [Sessions -> Steps]
    /\ work \in [Sessions -> State]
    /\ job \in [Sessions -> Branches \cup {None}]
    /\ unsaved \in [Sessions -> SUBSET Branches]
    /\ begun \in Nat
    /\ open \in [Sessions -> Names \cup {None}]
    /\ place \in [Sessions -> {"aside", "inPlace", "lost"}]
    /\ written \in [Sessions -> BOOLEAN]
    /\ spawnedOn \in [Branches -> Graphs \cup {None}]
    /\ created \subseteq Branches
    /\ committed \subseteq Branches
    /\ mixed \subseteq Names

\* What a session that does nothing remembers.
Blank == [branch |-> [b \in Branches |-> NoBranch], chain |-> <<>>,
          graph |-> None, current |-> None, seq |-> 0]

SessionsInit ==
    /\ exclusive \in BOOLEAN
    /\ metaSeq = 0
    /\ files = [b \in Branches |-> NoBranch]
    /\ aside = <<>>
    /\ chainFile = <<>>
    /\ objectFiles = <<>>
    /\ pc = [s \in Sessions |-> "idle"]
    /\ work = [s \in Sessions |-> Blank]
    /\ job = [s \in Sessions |-> None]
    /\ unsaved = [s \in Sessions |-> {}]
    /\ begun = 0
    /\ open = [s \in Sessions |-> None]
    /\ place = [s \in Sessions |-> "aside"]
    /\ written = [s \in Sessions |-> FALSE]
    /\ spawnedOn = [b \in Branches |-> None]
    /\ created = {}
    /\ committed = {}
    /\ mixed = {}

-----------------------------------------------------------------------------
(* Loading.                                                                *)

\* BranchPersistence::load: every branch comes back as a base branch.
LoadedBranches == [b \in Branches |-> [files[b] EXCEPT !.resident = FALSE]]

\* The snapshots of the chain file at the positions that can be loaded.
LoadedFrom(positions) ==
    LET ids == Subsequence(chainFile, positions)
    IN  [i \in DOMAIN ids |-> [id |-> ids[i], graph |-> objectFiles[ids[i]]]]

\* Mutant of LoadedChain: an object file that exists is taken as it is.
LoadedChainExisting ==
    IF chainFile = Torn THEN <<>>
    ELSE Retain(LoadedFrom({i \in DOMAIN chainFile : chainFile[i] \in DOMAIN objectFiles}))

\* The positions of the chain file whose objects can be read whole.
Readable == {i \in DOMAIN chainFile : /\ chainFile[i] \in DOMAIN objectFiles
                                      /\ objectFiles[chainFile[i]] # Torn}

\* SnapshotPersistence::loadChain: snapshots whose object cannot be read are
\* skipped; a chain file that does not parse gives an empty chain.
LoadedChain == IF chainFile = Torn THEN <<>> ELSE Retain(LoadedFrom(Readable))

\* Mutant of LoadedState: numbering goes on from the newest snapshot.
LoadedStateFromChain(g) ==
    LET chain == LoadedChain
    IN  [branch |-> LoadedBranches, chain |-> chain, graph |-> g,
         current |-> None,
         seq |-> IF chain = <<>> THEN 0 ELSE chain[Len(chain)].id]

LoadedState(g) ==
    [branch |-> LoadedBranches, chain |-> LoadedChain, graph |-> g,
     current |-> None, seq |-> metaSeq]

MayStart(s) ==
    /\ pc[s] = "idle"
    /\ IF exclusive
       THEN /\ metaSeq < MaxSeq
            /\ \A other \in Sessions : pc[other] = "idle"
            /\ UNCHANGED begun
       ELSE begun < MaxOverlapping /\ begun' = begun + 1

Moved(s, step) == pc' = [pc EXCEPT ![s] = step]

-----------------------------------------------------------------------------
(* createBranch: load, spawn up to the snapshot, save its object and the   *)
(* chain, finish the spawn, save the store.                                *)

\* A branch id is a hash of the parent, the goal and the id counter; sessions
\* that overlap may use one count twice, and are taken to have different goals.
BeginCreate(s, b, g) ==
    /\ MayStart(s)
    /\ files[b].status = "Unknown"
    /\ \A other \in Sessions : job[other] # b
    /\ work' = [work EXCEPT ![s] = Spawning(LoadedState(g), b)]
    /\ job' = [job EXCEPT ![s] = b]
    /\ spawnedOn' = [spawnedOn EXCEPT ![b] = g]
    /\ Moved(s, "object")
    /\ UNCHANGED <<disk, unsaved, handles, created, committed, mixed>>

\* SnapshotSerializer::save truncates the file first and writes in place.
OpenObject(s) ==
    /\ pc[s] = "object"
    /\ objectFiles' = With(objectFiles, work[s].seq, Torn)
    /\ Moved(s, "objectOpen")
    /\ UNCHANGED <<exclusive, storeFiles, chainFile, work, job, unsaved, begun, handles, history>>

SaveObject(s) ==
    /\ pc[s] = "objectOpen"
    /\ objectFiles' = With(objectFiles, work[s].seq, work[s].graph)
    /\ Moved(s, "chain")
    /\ UNCHANGED <<exclusive, storeFiles, chainFile, work, job, unsaved, begun, handles, history>>

\* So does saveChain.
OpenChain(s) ==
    /\ pc[s] = "chain"
    /\ chainFile' = Torn
    /\ Moved(s, "chainOpen")
    /\ UNCHANGED <<exclusive, storeFiles, objectFiles, work, job, unsaved, begun, handles, history>>

\* The end of saveChain, and what is left of spawn.
SaveChain(s) ==
    /\ pc[s] = "chainOpen"
    /\ chainFile' = [i \in DOMAIN work[s].chain |-> work[s].chain[i].id]
    /\ \E hasParent \in BOOLEAN :
         /\ hasParent => Known(LoadedState(work[s].graph)) # {}
         /\ \E done \in Spawned(work[s], objectFiles, job[s], hasParent) :
              work' = [work EXCEPT ![s] = done]
    /\ Moved(s, "meta")
    /\ UNCHANGED <<exclusive, storeFiles, objectFiles, job, unsaved, begun, handles, history>>

-----------------------------------------------------------------------------
(* commit: its gates, the merge in memory, then the store is saved.        *)

CommitGates(k, source, target) ==
    /\ source # target
    /\ {source, target} \subseteq Known(k)
    /\ k.branch[source].snap # NoSnapshot
    /\ k.branch[target].snap \in DOMAIN objectFiles
    /\ objectFiles[k.branch[target].snap] # Torn

BeginCommit(s, source, target) ==
    /\ MayStart(s)
    /\ \E g \in Graphs :
         LET k == LoadedState(g)
         IN  /\ CommitGates(k, source, target)
             /\ g = objectFiles[k.branch[target].snap]
             /\ CanMerge(k, source, target)
             /\ \E done \in Merged(k, objectFiles, source, target) :
                  work' = [work EXCEPT ![s] = done]
    /\ job' = [job EXCEPT ![s] = source]
    /\ Moved(s, "meta")
    /\ UNCHANGED <<disk, unsaved, handles, history>>

-----------------------------------------------------------------------------
(* BranchPersistence::save: the metadata first, then a file per branch,    *)
(* each written aside and renamed into place.  A file that was truncated   *)
(* and not written yet reads as no branch, or as number 0.                 *)

Without(f, names) == [n \in DOMAIN f \ names |-> f[n]]

Unreadable(n) == IF n = Metadata THEN 0 ELSE NoBranch

Content(s, n) == IF n = Metadata THEN work[s].seq ELSE work[s].branch[n]

\* The next file to save is n.
ToSave(s, n) ==
    IF n = Metadata THEN pc[s] = "meta" ELSE pc[s] = "files" /\ n \in unsaved[s]

InPlace(n, content) ==
    IF n = Metadata THEN metaSeq' = content /\ UNCHANGED files
    ELSE files' = [files EXCEPT ![n] = content] /\ UNCHANGED metaSeq

\* The aside file is created, or truncated whoever else has it open.
OpenAside(s, n) ==
    /\ open[s] = None /\ ToSave(s, n)
    /\ aside' = With(aside, n, Unreadable(n))
    /\ open' = [open EXCEPT ![s] = n]
    /\ place' = [place EXCEPT ![s] = "aside"]
    /\ written' = [written EXCEPT ![s] = FALSE]
    /\ mixed' = mixed \cup {m \in {n} : \E t \in Sessions : open[t] = m}
    /\ UNCHANGED <<exclusive, metaSeq, files, snapshotFiles, pc, work, job, unsaved,
                   begun, spawnedOn, created, committed>>

\* What is written goes to the file that was opened, which another session
\* may have renamed into place or replaced there meanwhile.  Of two that write
\* one file the last is read: the parser stops at the end of the first value.
WriteAside(s) ==
    /\ open[s] # None /\ ~written[s]
    /\ written' = [written EXCEPT ![s] = TRUE]
    /\ IF place[s] = "aside"
       THEN aside' = With(aside, open[s], Content(s, open[s]))
       ELSE UNCHANGED aside
    /\ IF place[s] = "inPlace"
       THEN InPlace(open[s], Content(s, open[s]))
       ELSE UNCHANGED <<metaSeq, files>>
    /\ UNCHANGED <<exclusive, snapshotFiles, pc, work, job, unsaved, begun, open, place,
                   history>>

\* Where the open files are after a rename by s.
Moves(s) ==
    [t \in Sessions |-> IF t = s THEN "aside"
                        ELSE IF open[t] # open[s] THEN place[t]
                        ELSE IF place[t] = "aside" THEN "inPlace" ELSE "lost"]

\* The rename takes what has the name now; when nothing has, it throws.
RenameAside(s) ==
    /\ open[s] # None /\ written[s] /\ open[s] \in DOMAIN aside
    /\ InPlace(open[s], aside[open[s]])
    /\ aside' = Without(aside, {open[s]})
    /\ place' = Moves(s)
    /\ IF open[s] = Metadata
       THEN Moved(s, "files") /\ unsaved' = [unsaved EXCEPT ![s] = Known(work[s])]
       ELSE UNCHANGED pc /\ unsaved' = [unsaved EXCEPT ![s] = @ \ {open[s]}]
    /\ open' = [open EXCEPT ![s] = None]
    /\ written' = [written EXCEPT ![s] = FALSE]
    /\ UNCHANGED <<exclusive, snapshotFiles, work, job, begun, history>>

Ended(s) ==
    /\ Moved(s, "idle")
    /\ work' = [work EXCEPT ![s] = Blank]
    /\ job' = [job EXCEPT ![s] = None]
    /\ unsaved' = [unsaved EXCEPT ![s] = {}]
    /\ open' = [open EXCEPT ![s] = None]
    /\ place' = [place EXCEPT ![s] = "aside"]
    /\ written' = [written EXCEPT ![s] = FALSE]
    /\ UNCHANGED begun

\* Mutant of Report: success is reported with files still to write.
ReportEarly(s) ==
    /\ pc[s] = "files" /\ open[s] = None
    /\ IF work[s].branch[job[s]].status = "Merged"
       THEN committed' = committed \cup {job[s]} /\ UNCHANGED created
       ELSE created' = created \cup {job[s]} /\ UNCHANGED committed
    /\ Ended(s)
    /\ UNCHANGED <<disk, spawnedOn, mixed>>

\* The command reports success.
Report(s) ==
    /\ pc[s] = "files" /\ unsaved[s] = {}
    /\ IF work[s].branch[job[s]].status = "Merged"
       THEN committed' = committed \cup {job[s]} /\ UNCHANGED created
       ELSE created' = created \cup {job[s]} /\ UNCHANGED committed
    /\ Ended(s)
    /\ UNCHANGED <<disk, spawnedOn, mixed>>

\* The session dies, or gives up on an error.  An aside file that nobody else
\* has open is forgotten: whoever opens it again truncates it.
Die(s) ==
    /\ pc[s] # "idle"
    /\ aside' = Without(aside, {n \in Names : \A t \in Sessions \ {s} : open[t] # n})
    /\ Ended(s)
    /\ UNCHANGED <<exclusive, metaSeq, files, snapshotFiles, history>>

SessionsNext ==
    \E s \in Sessions :
      \/ \E b \in Branches, g \in Graphs : BeginCreate(s, b, g)
      \/ \E source, target \in Branches : BeginCommit(s, source, target)
      \/ OpenObject(s) \/ SaveObject(s) \/ OpenChain(s) \/ SaveChain(s)
      \/ \E n \in Names : OpenAside(s, n)
      \/ WriteAside(s) \/ RenameAside(s)
      \/ Report(s) \/ Die(s)

SessionsSpec == SessionsInit /\ [][SessionsNext]_sessionVars

-----------------------------------------------------------------------------
OnDisk == {b \in Branches : files[b].status # "Unknown"}

(* The object file of every branch on disk is the graph the branch was     *)
(* spawned on, whatever sessions died before it was written or since: the  *)
(* metadata goes to disk before any branch file, so a snapshot id is taken *)
(* again only if no branch file names it.                                  *)
SnapshotsIntact ==
    exclusive => \A b \in OnDisk :
        files[b].snap \in DOMAIN objectFiles /\ objectFiles[files[b].snap] = spawnedOn[b]

(* A commit that was reported is not undone by a session that died         *)
(* half way through its own save, nor by any later command.                *)
CommitsDurable == exclusive => \A b \in committed : files[b].status = "Merged"

(* A branch whose creation was reported stays on disk, with its snapshot,  *)
(* whatever other sessions save or leave half saved, unless two of them    *)
(* were writing its file at the same time: they share the file they write  *)
(* aside, and one may rename what the other has just truncated.            *)
CreationsDurable ==
    \A b \in created \ mixed : b \in OnDisk /\ files[b].snap # NoSnapshot

-----------------------------------------------------------------------------
(* BranchPersistence.cpp:74, "Write file with proper path joining (atomic  *)
(* write)": what is reported as saved can be loaded.                       *)
SavesAreAtomic == created \subseteq OnDisk
=============================================================================

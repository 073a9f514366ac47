------------------------------ MODULE BranchOps ------------------------------
(***************************************************************************)
(* What BranchLifecycle (src/src/intelligence/BranchLifecycle.cpp) does to *)
(* a branch store, a snapshot chain and the active graph, as operators on  *)
(* one record k:                                                           *)
(*    k.branch   id -> branch; an id BranchStore does not know answers     *)
(*               like get does, with the default record of status Unknown  *)
(*    k.chain    the retained snapshots, oldest first (SnapshotChain)      *)
(*    k.graph    the active StateGraph                                     *)
(*    k.current  activeBranchId_                                           *)
(*    k.seq      the store's globalSequence_, which numbers mutations and  *)
(*               snapshots alike                                           *)
(* The snapshot objects on disk (SnapshotPersistence) are passed as a      *)
(* partial function from snapshot ids to graphs; without a                 *)
(* SnapshotPersistence it has no snapshot at all.                          *)
(*                                                                         *)
(* BranchStore keeps each branch in an overlay or in a base map and reads  *)
(* the overlay first; "resident" says which of the two answers.  A parent's *)
(* list of children is left out: recording a child there takes a sequence  *)
(* number and nothing else.  The retention score of the eviction policy is *)
(* data: any eligible branch may score lowest.                             *)
(***************************************************************************)
EXTENDS Naturals, Sequences, FiniteSets

CONSTANTS Branches,      \* ids BranchIdGenerator may return
          Executing,     \* branches whose currentExecutionNodeId is set
          Graphs,        \* contents of a state graph
          None,          \* no branch: the empty id
          Torn,          \* an object file whose writing failed half way
          MaxActive,     \* kMaxActiveBranches
          MaxTracked,    \* kMaxTrackedBranches
          MaxRetained,   \* kMaxSnapshotsRetained
          MaxSeq         \* bound: sequence numbers handed out

ASSUME BranchAssumption ==
    /\ IsFiniteSet(Branches)
    /\ Executing \subseteq Branches
    /\ None \notin Branches
    /\ Torn \notin Graphs
    /\ MaxActive \in Nat \ {0}
    /\ MaxTracked \in Nat \ {0}
    /\ MaxRetained \in Nat \ {0}

Status == {"Unknown", "Active", "Suspended", "Merged", "Archived", "RolledBack"}

\* memorySnapshotId, empty in the code, is 0 here: no snapshot has that id.
NoSnapshot == 0

BranchRecord == [status : Status, resident : BOOLEAN, snap : Nat]

SnapshotRecord == [id : Nat \ {0}, graph : Graphs]

NoBranch == [status |-> "Unknown", resident |-> FALSE, snap |-> NoSnapshot]

\* A partial function with one more, or one other, value.
With(f, x, v) == [y \in DOMAIN f \cup {x} |-> IF y = x THEN v ELSE f[y]]

-----------------------------------------------------------------------------
(* BranchStore and SnapshotChain.                                          *)

Known(k) == {b \in Branches : k.branch[b].status # "Unknown"}

\* BranchStore::update of a branch already there; every mutation is numbered.
Update(k, b, record) ==
    [k EXCEPT !.branch[b] = record, !.seq = @ + 1]

Resident(k)       == {b \in Known(k) : k.branch[b].resident}
ActiveResident(k) == {b \in Resident(k) : k.branch[b].status = "Active"}

\* Mutant of Retain: one snapshot too many.
RetainOneMore(chain) ==
    IF Len(chain) > MaxRetained + 1
    THEN SubSeq(chain, Len(chain) - MaxRetained, Len(chain))
    ELSE chain

\* enforceRetentionCap drops the oldest.
Retain(chain) ==
    IF Len(chain) > MaxRetained
    THEN SubSeq(chain, Len(chain) - MaxRetained + 1, Len(chain))
    ELSE chain

Appended(chain, snapshot) == Retain(Append(chain, snapshot))

Positions(chain, id) == {i \in DOMAIN chain : chain[i].id = id}
InChain(chain, id)   == Positions(chain, id) # {}

\* find_if: the first snapshot with the id.
FirstPosition(chain, id) ==
    CHOOSE i \in Positions(chain, id) : \A j \in Positions(chain, id) : i <= j

\* rollback(id) keeps the snapshot and what is older.
RolledBackTo(chain, id) == SubSeq(chain, 1, FirstPosition(chain, id))

-----------------------------------------------------------------------------
(* Where a snapshot can be read from.                                      *)

\* Mutant of HasReference: the disk is not asked.
HasReferenceInChain(k, objects, id) == InChain(k.chain, id)

\* hasSnapshotReference: the file need only exist.
HasReference(k, objects, id) ==
    \/ InChain(k.chain, id)
    \/ id \in DOMAIN objects

\* loadSnapshot: the chain, or else an object file that can be read whole.
Loadable(k, objects, id) ==
    \/ InChain(k.chain, id)
    \/ id \in DOMAIN objects /\ objects[id] # Torn

\* Mutant of Loaded: the newest snapshot, whichever was asked for.
LoadedNewest(k, objects, id) ==
    IF k.chain # <<>> THEN k.chain[Len(k.chain)]
                      ELSE [id |-> id, graph |-> objects[id]]

Loaded(k, objects, id) ==
    IF InChain(k.chain, id)
    THEN k.chain[FirstPosition(k.chain, id)]
    ELSE [id |-> id, graph |-> objects[id]]

-----------------------------------------------------------------------------
(* runMemoryGovernance, which ends every operation that succeeds.          *)

\* The branches an eviction loop may remove: it stops when the pool fits the
\* cap or only protected branches are left.
EvictionChoices(pool, protected, cap) ==
    LET candidates == pool \ protected
        excess     == IF Cardinality(pool) > cap THEN Cardinality(pool) - cap
                                                 ELSE 0
    IN  {victims \in SUBSET candidates :
           \/ Cardinality(victims) = excess
           \/ Cardinality(victims) < excess /\ victims = candidates}

\* evictBranch: out of the overlay, and an active branch becomes suspended.
Demoted(record) ==
    [record EXCEPT !.resident = FALSE,
                   !.status = IF @ = "Active" THEN "Suspended" ELSE @]

Evicted(k, victims) ==
    [k EXCEPT
       !.branch = [b \in Branches |-> IF b \in victims THEN Demoted(k.branch[b])
                                      ELSE k.branch[b]],
       !.current = IF @ \in victims THEN None ELSE @,
       !.seq = @ + Cardinality(victims)]

\* invalidateStaleSnapshotReferences.
Stale(k, objects) ==
    {b \in Known(k) : /\ k.branch[b].snap # NoSnapshot
                      /\ ~HasReference(k, objects, k.branch[b].snap)}

Invalidated(k, objects) ==
    [k EXCEPT
       !.branch = [b \in Branches |->
                     IF b \in Stale(k, objects)
                     THEN [k.branch[b] EXCEPT !.snap = NoSnapshot]
                     ELSE k.branch[b]],
       !.seq = @ + Cardinality(Stale(k, objects))]

Governed(k, objects, protectedBranch) ==
    LET keep   == {protectedBranch, k.current} \cup Executing
        capped == {Evicted(k, v) :
                     v \in EvictionChoices(ActiveResident(k), keep, MaxActive)}
    IN  UNION {{Invalidated(Evicted(c, v), objects) :
                  v \in EvictionChoices(Resident(c), keep, MaxTracked)} :
               c \in capped}

-----------------------------------------------------------------------------
(* The operations.  Each "X" gives the state, or the set of states, that a *)
(* call whose guard "CanX" holds leads to; a call whose guard fails returns *)
(* false and changes nothing.                                              *)

\* spawn, up to the point where the new snapshot is in the chain: the store
\* takes one sequence number for the branch and the lifecycle the next one for
\* the snapshot.
Spawning(k, b) ==
    [k EXCEPT
       !.branch[b] = [status |-> "Active", resident |-> TRUE,
                      snap |-> NoSnapshot],
       !.chain = Appended(@, [id |-> k.seq + 2, graph |-> k.graph]),
       !.seq = @ + 2]

\* The snapshot could not be saved: the chain is put back and the branch
\* removed; the sequence numbers are gone.
SpawnUndone(k) == [k EXCEPT !.seq = @ + 2]

\* The rest of spawn: the branch records its snapshot, and its parent, when
\* there is one in the store, its child.
Spawned(k, objects, b, hasParent) ==
    LET recorded == Update(k, b, [k.branch[b] EXCEPT !.snap = k.seq])
        linked   == IF hasParent THEN [recorded EXCEPT !.seq = @ + 1]
                                 ELSE recorded
    IN  Governed([linked EXCEPT !.current = b], objects, b)

CanSuspend(k, b) == b \in Known(k) /\ k.branch[b].status = "Active"

LeaveCurrent(k, b) == [k EXCEPT !.current = IF @ = b THEN None ELSE @]

\* The shape suspend, archive and rollback share: a new status, the branch no
\* longer current, and the governance with whatever is current protected.
Retired(k, objects, b, status) ==
    LET changed == LeaveCurrent(
                       Update(k, b, [k.branch[b] EXCEPT !.status = status]), b)
    IN  Governed(changed, objects, changed.current)

Suspended(k, objects, b) == Retired(k, objects, b, "Suspended")

\* Mutant of CanResume: any branch with a snapshot.
CanResumeAny(k, objects, b) ==
    /\ b \in Known(k)
    /\ k.branch[b].snap # NoSnapshot
    /\ Loadable(k, objects, k.branch[b].snap)

CanResume(k, objects, b) ==
    /\ b \in Known(k) /\ k.branch[b].status = "Suspended"
    /\ k.branch[b].snap # NoSnapshot
    /\ Loadable(k, objects, k.branch[b].snap)

\* resume puts a snapshot it found on disk back into the chain.
PutBack(chain, snapshot) ==
    IF InChain(chain, snapshot.id) THEN chain ELSE Appended(chain, snapshot)

Resumed(k, objects, b) ==
    LET snapshot == Loaded(k, objects, k.branch[b].snap)
        restored == [k EXCEPT !.graph = snapshot.graph,
                              !.chain = PutBack(@, snapshot)]
        active   == Update(restored, b, [k.branch[b] EXCEPT !.status = "Active",
                                                            !.resident = TRUE])
    IN  Governed([active EXCEPT !.current = b], objects, b)

CanMerge(k, source, target) ==
    /\ source \in Known(k) /\ target \in Known(k)
    /\ k.branch[source].status \notin {"Merged", "RolledBack"}

\* Both copies were read before either is written: merging a branch into
\* itself writes the old copy last.
Merged(k, objects, source, target) ==
    LET marked == Update(k, source, [k.branch[source] EXCEPT !.status = "Merged"])
        both   == Update(marked, target, k.branch[target])
    IN  Governed([both EXCEPT !.current = target], objects, target)

CanArchive(k, b) == b \in Known(k) /\ k.branch[b].status # "Archived"

Archived(k, objects, b) == Retired(k, objects, b, "Archived")

CanRollback(k, objects, b) ==
    /\ b \in Known(k) /\ k.branch[b].snap # NoSnapshot
    /\ Loadable(k, objects, k.branch[b].snap)

RolledBack(k, objects, b) ==
    LET id       == k.branch[b].snap
        restored == [k EXCEPT !.graph = Loaded(k, objects, id).graph,
                              !.chain = IF InChain(@, id)
                                        THEN RolledBackTo(@, id)
                                        ELSE <<Loaded(k, objects, id)>>]
    IN  Retired(restored, objects, b, "RolledBack")
=============================================================================

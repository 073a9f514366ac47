--------------------------- MODULE BranchLifecycle ---------------------------
(***************************************************************************)
(* One BranchLifecycle object and its caller: the calls of its public      *)
(* interface in any order, with or without a disk, whose writes may fail,  *)
(* and a caller that edits the active graph between them (the lifecycle    *)
(* holds it by reference).  The operations themselves are in BranchOps.                *)
(***************************************************************************)
EXTENDS BranchOps

VARIABLES
    persistent, \* constructed with a SnapshotPersistence?
    k,          \* store, chain, active graph, current branch, sequence
    objects,    \* snapshot id -> content of its object file
    origin      \* history: branch -> the graph when it was spawned

vars == <<persistent, k, objects, origin>>

Init ==
    /\ persistent \in BOOLEAN
    /\ k \in [branch : {[b \in Branches |-> NoBranch]}, chain : {<<>>},
              graph : Graphs, current : {None}, seq : {0}]
    /\ objects = <<>>
    /\ origin = <<>>

TypeOK ==
    /\ persistent \in BOOLEAN
    /\ k.branch \in [Branches -> BranchRecord]
    /\ k.chain \in Seq(SnapshotRecord) /\ Len(k.chain) <= MaxRetained
    /\ k.graph \in Graphs
    /\ k.current \in Branches \cup {None}
    /\ k.seq \in Nat
    /\ DOMAIN objects \subseteq 1..k.seq
    /\ ~persistent => objects = <<>>
    /\ \A id \in DOMAIN objects : objects[id] \in Graphs \cup {Torn}
    /\ DOMAIN origin = Known(k) /\ \A b \in DOMAIN origin : origin[b] \in Graphs

-----------------------------------------------------------------------------
Bounded == k.seq < MaxSeq

\* spawn and create (create is spawn without a parent); a parent the store does
\* not know is not linked.
Spawn(b, hasParent) ==
    /\ Bounded
    /\ b \notin Known(k)
    /\ hasParent => Known(k) # {}
    /\ LET id == k.seq + 2
           saved == IF persistent THEN With(objects, id, k.graph) ELSE objects
       IN  /\ k' \in Spawned(Spawning(k, b), saved, b, hasParent)
           /\ objects' = saved
    /\ origin' = With(origin, b, k.graph)
    /\ UNCHANGED persistent

\* Mutant of SpawnFails: the result of the save is not looked at.
SpawnFailsUnnoticed ==
    /\ Bounded
    /\ persistent
    /\ objects' = With(objects, k.seq + 2, Torn)
    /\ \E b \in Branches \ Known(k) :
         /\ k' \in Spawned(Spawning(k, b), objects', b, FALSE)
         /\ origin' = With(origin, b, k.graph)
    /\ UNCHANGED persistent

\* saveGraph or saveChain fails: an object file may be left, whole or torn.
SpawnFails ==
    /\ Bounded
    /\ persistent
    /\ k' = SpawnUndone(k)
    /\ \/ UNCHANGED objects
       \/ \E left \in {k.graph, Torn} : objects' = With(objects, k.seq + 2, left)
    /\ UNCHANGED <<persistent, origin>>

Suspend(b) ==
    /\ Bounded
    /\ CanSuspend(k, b)
    /\ k' \in Suspended(k, objects, b)
    /\ UNCHANGED <<persistent, objects, origin>>

\* Here and in Rollback a chain that cannot be saved is put back as it was, and
\* the call changes nothing.
Resume(b) ==
    /\ Bounded
    /\ CanResume(k, objects, b)
    /\ k' \in Resumed(k, objects, b)
    /\ UNCHANGED <<persistent, objects, origin>>

Merge(source, target) ==
    /\ Bounded
    /\ CanMerge(k, source, target)
    /\ k' \in Merged(k, objects, source, target)
    /\ UNCHANGED <<persistent, objects, origin>>

Archive(b) ==
    /\ Bounded
    /\ CanArchive(k, b)
    /\ k' \in Archived(k, objects, b)
    /\ UNCHANGED <<persistent, objects, origin>>

Rollback(b) ==
    /\ Bounded
    /\ CanRollback(k, objects, b)
    /\ k' \in RolledBack(k, objects, b)
    /\ UNCHANGED <<persistent, objects, origin>>

\* The owner of the active graph works on it.
EditGraph ==
    /\ k' \in {[k EXCEPT !.graph = g] : g \in Graphs \ {k.graph}}
    /\ UNCHANGED <<persistent, objects, origin>>

Next ==
    \/ \E b \in Branches : \E hasParent \in BOOLEAN : Spawn(b, hasParent)
    \/ SpawnFails
    \/ \E b \in Branches : Suspend(b) \/ Resume(b) \/ Archive(b) \/ Rollback(b)
    \/ \E source, target \in Branches : Merge(source, target)
    \/ EditGraph

Spec == Init /\ [][Next]_vars

-----------------------------------------------------------------------------
(* Whatever snapshot a branch names can be read back: the retention cap,   *)
(* rollbacks that cut the chain and failed writes never leave a branch     *)
(* pointing at nothing (runMemoryGovernance).                              *)
NoDanglingSnapshot ==
    \A b \in Known(k) : k.branch[b].snap # NoSnapshot
                            => Loadable(k, objects, k.branch[b].snap)

(* With persistence no branch ever loses its snapshot, however long the    *)
(* chain has been and whoever was rolled back.                             *)
PersistenceKeepsSnapshots ==
    persistent => \A b \in Known(k) : k.branch[b].snap # NoSnapshot

(* Rolling a branch back restores the graph recorded when the branch was   *)
(* spawned (BranchLifecycle.h:47), wherever its snapshot was found.        *)
RollbackRestoresOrigin ==
    [][\A b \in Branches : Rollback(b) => k'.graph = origin[b]]_vars

(* A merged or rolled-back branch never runs again, whether its parent is  *)
(* resumed, the governance suspends branches, or it is merged once more.   *)
FinishedStaysFinished ==
    [][\A b \in Known(k) :
          k.branch[b].status \in {"Merged", "RolledBack"}
              => k'.branch[b].status \notin {"Active", "Suspended"}]_vars
=============================================================================

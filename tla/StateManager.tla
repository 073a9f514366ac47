----------------------------- MODULE StateManager -----------------------------
(***************************************************************************)
(* The versioned state of src/src/core/state_manager.cpp and the hot slice *)
(* (src/src/memory/HotSlice.cpp) that shadows it.                          *)
(*                                                                         *)
(* What runs under graphMutex_ is one step.  createCognitiveState takes    *)
(* the lock twice and touches the hot slice after it, so it is four.       *)
(*                                                                         *)
(* A graph gives each symbol a node, here a shape, or None.  state_ and    *)
(* graph_ always change together and are one variable; a change of bodies  *)
(* alone shows in neither.  Left out: files, edges, the snapshot chain,    *)
(* and the rollback of a mutation, which needs two hashes of one immutable *)
(* graph to differ.                                                        *)
(***************************************************************************)
EXTENDS Naturals

CONSTANTS Threads, Symbols, Shapes,
          None,         \* no such symbol
          Unread,       \* a thread without a snapshot
          MaxVersion    \* bound: versions

VARIABLES
    graph,      \* graph_ and state_
    version,    \* globalVersion_
    hot,        \* the hot slice: symbol -> its node and versionStamp
    bound,      \* boundSnapshotVersion_
    snap,       \* thread -> the GraphSnapshot it holds
    pc,         \* thread -> where createCognitiveState is
    outcome     \* thread -> how its last applyOverlayMutation ended

slice  == <<hot, bound>>
locals == <<snap, pc, outcome>>
vars   == <<graph, version, slice, locals>>

Graphs == [Symbols -> Shapes \cup {None}]
Empty  == [s \in Symbols |-> None]
NoEntry == [node |-> None, stamp |-> 0]

Snapshots == [version : Nat, graph : Graphs]

ASSUME StateAssumption ==
    /\ None \notin Shapes
    /\ MaxVersion \in Nat
    /\ Unread \notin Snapshots
    /\ Unread \notin [version : Nat, value : Graphs]

TypeOK ==
    /\ graph \in Graphs
    /\ version \in Nat
    /\ hot \in [Symbols -> [node : Shapes \cup {None}, stamp : 0..version]]
    /\ bound \in 0..version
    /\ snap \in [Threads -> Snapshots \cup {Unread}]
    /\ pc \in [Threads -> {"idle", "refresh", "bind", "sync"}]
    /\ outcome \in [Threads -> {"none", "applied", "refused", "declined"}]

Init ==
    /\ graph = Empty
    /\ version = 0
    /\ hot = [s \in Symbols |-> NoEntry]
    /\ bound = 0
    /\ snap = [t \in Threads |-> Unread]
    /\ pc = [t \in Threads |-> "idle"]
    /\ outcome = [t \in Threads |-> "none"]

-----------------------------------------------------------------------------
(* The hot slice.                                                          *)

\* getNode and containsNode: an entry older than the bound version is a miss.
Serves(s) == hot[s].node # None /\ (bound = 0 \/ hot[s].stamp >= bound)

\* syncVersions: all entries, live or stale, get the version.
Synced(h, v) == [s \in Symbols |-> IF h[s].node = None THEN h[s]
                       ELSE [h[s] EXCEPT !.stamp = v]]

\* markStale.
Staled(h, S, v) ==
    [s \in Symbols |-> IF s \in S /\ h[s].node # None
                       THEN [h[s] EXCEPT !.stamp = v - 1] ELSE h[s]]

\* Mutant of Stored: the node of a symbol already there is kept.
StoredNew(h, S, g, v) ==
    [s \in Symbols |-> IF s \in S /\ g[s] # None /\ h[s].node = None
                       THEN [node |-> g[s], stamp |-> v] ELSE h[s]]

\* storeNode, for those of the symbols that the graph still has.
Stored(h, S, g, v) ==
    [s \in Symbols |-> IF s \in S /\ g[s] # None
                       THEN [node |-> g[s], stamp |-> v] ELSE h[s]]

\* storeNode above the capacity and the memory governance that ends a write drop
\* the least relevant entries, here any.
Trimmed(h, gone) == [s \in Symbols |-> IF s \in gone THEN NoEntry ELSE h[s]]

-----------------------------------------------------------------------------
(* Writers.                                                                *)

\* replaceState and loadPersistedGraph; updateCore and setActiveBranch do the
\* same with the state there is.  rebuildGraphLocked starts a new hot slice.
Rebuild(g, gone) ==
    /\ version < MaxVersion
    /\ graph' = g
    /\ version' = version + 1
    /\ hot' = Trimmed(Stored([s \in Symbols |-> NoEntry], Symbols, g,
                             version + 1), gone)
    /\ bound' = 0
    /\ UNCHANGED locals

Answer(t, result) == outcome' = [outcome EXCEPT ![t] = result]

\* The checks that open applyOverlayMutation.
Fits(t) == snap[t].version = version /\ snap[t].graph = graph

\* Symbols with other bodies alone are marked stale and not stored anew; in a
\* change of another kind they are stored too, as if they had not been marked.
Affected(g, bodies) == {s \in Symbols : g[s] # graph[s]} \cup bodies

\* applyPrecisionInvalidation syncs the slice, marks what is affected stale, and
\* stores it anew where nodes changed.
Invalidated(g, bodies) ==
    LET v == version + 1
    IN  Stored(Staled(Synced(hot, v), Affected(g, bodies), v),
               Affected(g, {}), g, v)

\* Mutant of Commit: the snapshot is not compared.
CommitUnchecked(t, g, bodies, gone) ==
    /\ pc[t] = "idle" /\ snap[t] # Unread /\ version < MaxVersion
    /\ g # graph => bodies = {}
    /\ graph' = g
    /\ version' = version + 1
    /\ hot' = Trimmed(Invalidated(g, bodies), gone)
    /\ bound' = version + 1
    /\ Answer(t, "applied")
    /\ UNCHANGED <<snap, pc>>

\* applyOverlayMutation, applied.
Commit(t, g, bodies, gone) ==
    /\ pc[t] = "idle" /\ snap[t] # Unread /\ version < MaxVersion
    /\ Fits(t)
    /\ g # graph => bodies = {}
    /\ graph' = g
    /\ version' = version + 1
    /\ hot' = Trimmed(Invalidated(g, bodies), gone)
    /\ bound' = version + 1
    /\ Answer(t, "applied")
    /\ UNCHANGED <<snap, pc>>

\* The callback returned false, and its working copies are dropped.
Decline(t) ==
    /\ pc[t] = "idle" /\ snap[t] # Unread
    /\ Fits(t)
    /\ Answer(t, "declined")
    /\ UNCHANGED <<graph, version, slice, snap, pc>>

\* The version or the hash differs: an exception.
Refuse(t) ==
    /\ pc[t] = "idle" /\ snap[t] # Unread
    /\ ~Fits(t)
    /\ Answer(t, "refused")
    /\ UNCHANGED <<graph, version, slice, snap, pc>>

-----------------------------------------------------------------------------
(* Readers.                                                                *)

Whole == [version |-> version, graph |-> graph]

\* getSnapshot; withWriteLock is this and one of the three above.
GetSnapshot(t) ==
    /\ pc[t] = "idle"
    /\ snap' = [snap EXCEPT ![t] = Whole]
    /\ UNCHANGED <<graph, version, slice, pc, outcome>>

\* createCognitiveState.
Create(t) ==
    /\ pc[t] = "idle"
    /\ snap' = [snap EXCEPT ![t] = Whole]
    /\ pc' = [pc EXCEPT ![t] = "refresh"]
    /\ UNCHANGED <<graph, version, slice, outcome>>

\* Mutant of Refresh: the version is left as it was.
RefreshGraphOnly(t) ==
    /\ pc[t] = "refresh"
    /\ snap' = [snap EXCEPT ![t].graph = graph]
    /\ pc' = [pc EXCEPT ![t] = "bind"]
    /\ UNCHANGED <<graph, version, slice, outcome>>

\* Under the lock again: a snapshot overtaken meanwhile gets the new graph and
\* version (its copy of state_ stays the old one and is left out here).
Refresh(t) ==
    /\ pc[t] = "refresh"
    /\ snap' = [snap EXCEPT ![t] = Whole]
    /\ pc' = [pc EXCEPT ![t] = "bind"]
    /\ UNCHANGED <<graph, version, slice, outcome>>

\* Without the lock: the version may be an old one by now.
Bind(t) ==
    /\ pc[t] = "bind"
    /\ bound' = snap[t].version
    /\ pc' = [pc EXCEPT ![t] = "sync"]
    /\ UNCHANGED <<graph, version, hot, snap, outcome>>

Sync(t) ==
    /\ pc[t] = "sync"
    /\ hot' = Synced(hot, snap[t].version)
    /\ bound' = snap[t].version
    /\ pc' = [pc EXCEPT ![t] = "idle"]
    /\ UNCHANGED <<graph, version, snap, outcome>>

Next ==
    \/ \E g \in Graphs, gone \in SUBSET Symbols : Rebuild(g, gone)
    \/ \E t \in Threads :
         \/ \E g \in Graphs, bodies, gone \in SUBSET Symbols :
              Commit(t, g, bodies, gone)
         \/ Decline(t) \/ Refuse(t)
         \/ GetSnapshot(t) \/ Create(t) \/ Refresh(t) \/ Bind(t) \/ Sync(t)

Spec == Init /\ [][Next]_vars

-----------------------------------------------------------------------------
\* What a thread has seen is the snapshot it holds, refreshed or not.
Seen == [t \in Threads |->
           IF snap[t] = Unread THEN Unread
           ELSE [version |-> snap[t].version, value |-> snap[t].graph]]

Store == INSTANCE VersionedStore
             WITH Clients <- Threads, Values <- Graphs, Unread <- Unread,
                  value <- graph, version <- version, seen <- Seen,
                  outcome <- outcome

(* The state manager is a versioned store: a mutation takes effect only on *)
(* the state its author holds a snapshot of, is refused only if another    *)
(* came first, and the two-step read of createCognitiveState is a read.    *)
StoreRefinement == Store!Spec

(* A version names one graph: snapshots of one version, whenever and by    *)
(* whichever way they were taken or refreshed, agree with each other and,  *)
(* at the current version, with the state (what ensureSnapshotCurrent and  *)
(* the check of applyOverlayMutation rely on).                             *)
VersionNamesOneGraph ==
    \A t \in Threads : snap[t] # Unread =>
        /\ snap[t].version = version => snap[t].graph = graph
        /\ \A u \in Threads :
             snap[u] # Unread /\ snap[u].version = snap[t].version
                 => snap[u].graph = snap[t].graph

(* What the hot slice has of a symbol in the graph is the symbol's present *)
(* node, whatever rebuilds, mutations, evictions and late bindings went    *)
(* before.                                                                 *)
HotMirrorsGraph ==
    \A s \in Symbols : graph[s] # None => hot[s].node \in {graph[s], None}

-----------------------------------------------------------------------------
(* HotSlice.h:81, syncVersions is to "align all live entries to the current *)
(* structural version": an entry marked stale because its symbol is gone   *)
(* is no live entry, and is not served again.                              *)
RemovedNotServed == \A s \in Symbols : Serves(s) => graph[s] # None
=============================================================================

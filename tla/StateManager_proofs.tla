------------------------- MODULE StateManager_proofs -------------------------
(***************************************************************************)
(* Proofs about StateManager, for any threads, symbols, shapes and bound.  *)
(*                                                                         *)
(* VersionNamesOneGraph is not inductive: a snapshot of a version to come  *)
(* would break it when that version comes.  IInv adds that there is none,  *)
(* and that a thread inside createCognitiveState holds a snapshot.         *)
(***************************************************************************)
EXTENDS StateManager, TLAPS

\* No snapshot is ahead of the state.
SnapInv == \A t \in Threads : snap[t] # Unread => snap[t].version <= version

\* Inside createCognitiveState a thread has a snapshot.
CallInv == \A t \in Threads : pc[t] # "idle" => snap[t] # Unread

IInv == SnapInv /\ CallInv /\ VersionNamesOneGraph
-----------------------------------------------------------------------------
\* Snapshots are records, and Unread is none of them.
LEMMA WholeIsSnapshot ==
    ASSUME TypeOK
    PROVE  /\ Whole \in Snapshots /\ Whole # Unread
           /\ Whole.version = version /\ Whole.graph = graph
  BY StateAssumption DEF TypeOK, Whole, Snapshots

\* The initial state.
LEMMA InitInv == Init => TypeOK /\ IInv /\ HotMirrorsGraph
  BY StateAssumption
  DEF Init, TypeOK, IInv, SnapInv, CallInv, VersionNamesOneGraph, Graphs,
      Empty, NoEntry, HotMirrorsGraph

\* A step that takes a snapshot, in whole and under the lock, keeps the
\* invariant.
LEMMA TakeSnapshot ==
    ASSUME TypeOK, IInv, NEW t \in Threads,
           snap' = [snap EXCEPT ![t] = Whole],
           UNCHANGED <<graph, version>>
    PROVE  /\ snap' \in [Threads -> Snapshots \cup {Unread}]
           /\ SnapInv' /\ VersionNamesOneGraph'
           /\ snap'[t] # Unread
           /\ \A u \in Threads : snap[u] # Unread => snap'[u] # Unread
  <1>1. snap' \in [Threads -> Snapshots \cup {Unread}]
    BY WholeIsSnapshot DEF TypeOK
  <1>2. \A u \in Threads : snap'[u] = IF u = t THEN Whole ELSE snap[u]
    BY DEF TypeOK
  <1>3. SnapInv'
    BY <1>2, WholeIsSnapshot DEF TypeOK, IInv, SnapInv
  <1>4. VersionNamesOneGraph'
    BY <1>2, WholeIsSnapshot DEF IInv, VersionNamesOneGraph
  <1> QED
    BY <1>1, <1>2, <1>3, <1>4, WholeIsSnapshot

\* A step to a new version with no change of snapshots keeps it too: no
\* snapshot is of that version yet.
LEMMA NewVersion ==
    ASSUME TypeOK, IInv, version' = version + 1, UNCHANGED <<snap, pc>>
    PROVE  IInv'
  <1>1. \A t \in Threads : snap[t] # Unread =>
           snap[t].version \in Nat /\ snap[t].version <= version
    BY DEF TypeOK, Snapshots, IInv, SnapInv
  <1>2. version \in Nat
    BY DEF TypeOK
  <1>3. SnapInv'
    BY <1>1, <1>2 DEF SnapInv
  <1>4. CallInv'
    BY DEF IInv, CallInv
  <1>5. VersionNamesOneGraph'
    BY <1>1, <1>2 DEF IInv, VersionNamesOneGraph
  <1> QED
    BY <1>3, <1>4, <1>5 DEF IInv
-----------------------------------------------------------------------------
\* The slices whose stamps do not pass a version.
Slices(v) == [Symbols -> [node : Shapes \cup {None}, stamp : 0..v]]

\* What syncVersions, markStale and storeNode make of a slice is a slice.
LEMMA SyncedType ==
    ASSUME NEW w \in Nat, NEW v \in Nat, NEW u \in 0..v, w <= v,
           NEW h \in Slices(w)
    PROVE  Synced(h, u) \in Slices(v)
  <1>1. SUFFICES ASSUME NEW s \in Symbols
                 PROVE  Synced(h, u)[s] \in [node : Shapes \cup {None}, stamp : 0..v]
    BY DEF Slices, Synced
  <1>2. h[s] \in [node : Shapes \cup {None}, stamp : 0..v]
    BY DEF Slices
  <1>3. [h[s] EXCEPT !.stamp = u] \in [node : Shapes \cup {None}, stamp : 0..v]
    BY <1>2
  <1> QED
    BY <1>2, <1>3 DEF Synced

LEMMA StaledType ==
    ASSUME NEW v \in Nat \ {0}, NEW h \in Slices(v), NEW S
    PROVE  Staled(h, S, v) \in Slices(v)
  <1>1. SUFFICES ASSUME NEW s \in Symbols
                 PROVE  Staled(h, S, v)[s] \in [node : Shapes \cup {None}, stamp : 0..v]
    BY DEF Slices, Staled
  <1>2. h[s] \in [node : Shapes \cup {None}, stamp : 0..v]
    BY DEF Slices
  <1>3. [h[s] EXCEPT !.stamp = v - 1] \in [node : Shapes \cup {None}, stamp : 0..v]
    BY <1>2
  <1> QED
    BY <1>2, <1>3 DEF Staled

LEMMA StoredType ==
    ASSUME NEW v \in Nat, NEW h \in Slices(v), NEW S, NEW g \in Graphs
    PROVE  Stored(h, S, g, v) \in Slices(v)
  BY DEF Slices, Stored, Graphs

LEMMA TrimmedType ==
    ASSUME NEW v \in Nat, NEW h \in Slices(v), NEW S
    PROVE  Trimmed(h, S) \in Slices(v)
  BY DEF Slices, Trimmed, NoEntry

LEMMA EmptyType == ASSUME NEW v \in Nat
                   PROVE  [s \in Symbols |-> NoEntry] \in Slices(v)
  BY DEF Slices, NoEntry

\* What syncVersions and markStale leave alone: the nodes.
LEMMA NodesKept ==
    ASSUME NEW w \in Nat, NEW h \in Slices(w), NEW v \in Nat, NEW S,
           NEW s \in Symbols
    PROVE  /\ Synced(h, v)[s].node = h[s].node
           /\ Staled(h, S, v)[s].node = h[s].node
  <1>1. h[s] \in [node : Shapes \cup {None}, stamp : 0..w]
    BY DEF Slices
  <1>2. [h[s] EXCEPT !.stamp = v].node = h[s].node
    BY <1>1
  <1>3. [h[s] EXCEPT !.stamp = v - 1].node = h[s].node
    BY <1>1
  <1> QED
    BY <1>2, <1>3 DEF Synced, Staled

\* A mutation's passage over the slice, of any version.
LEMMA CommitSlice ==
    ASSUME TypeOK, HotMirrorsGraph, NEW g \in Graphs, NEW B \in SUBSET Symbols,
           NEW h, h = Invalidated(g, B)
    PROVE  /\ h \in Slices(version + 1)
           /\ \A s \in Symbols : g[s] # None => h[s].node \in {g[s], None}
  <1>1. /\ version \in Nat /\ version + 1 \in Nat \ {0}
        /\ version <= version + 1 /\ version + 1 \in 0..(version + 1)
    BY DEF TypeOK
  <1>2. hot \in Slices(version)
    BY DEF TypeOK, Slices
  <1> DEFINE a == Synced(hot, version + 1)
             b == Staled(a, Affected(g, B), version + 1)
  <1>3. a \in Slices(version + 1)
    BY <1>1, <1>2, SyncedType
  <1>4. b \in Slices(version + 1)
    BY <1>1, <1>3, StaledType
  <1> DEFINE c == Stored(b, Affected(g, {}), g, version + 1)
  <1>0. h = c
    BY DEF Invalidated
  <1>5. h \in Slices(version + 1)
    BY <1>0, <1>1, <1>4, StoredType
  <1>6. ASSUME NEW s \in Symbols, g[s] # None
        PROVE  h[s].node \in {g[s], None}
    <2>1. b[s].node = hot[s].node
      BY <1>1, <1>2, <1>3, NodesKept
    <2>2. CASE g[s] # graph[s]
      BY <1>0, <1>6, <2>2 DEF Stored, Affected
    <2>3. CASE g[s] = graph[s]
      <3>1. h[s] = b[s]
        BY <1>0, <2>3 DEF Stored, Affected
      <3> QED
        BY <1>6, <2>1, <2>3, <3>1 DEF HotMirrorsGraph
    <2> QED
      BY <2>2, <2>3
  <1> QED
    BY <1>5, <1>6
-----------------------------------------------------------------------------
\* The strengthened invariant, with its types, and what the slice has.
SInv == TypeOK /\ IInv /\ HotMirrorsGraph

\* A new state: replaceState, loadPersistedGraph, updateCore, setActiveBranch.
LEMMA RebuildStep ==
    ASSUME SInv, NEW g \in Graphs, NEW gone \in SUBSET Symbols,
           Rebuild(g, gone)
    PROVE  SInv'
  <1> USE DEF SInv
  <1>1. version \in Nat /\ version + 1 \in Nat
    BY DEF TypeOK
  <1>2. hot' \in Slices(version + 1)
    BY <1>1, EmptyType, StoredType, TrimmedType DEF Rebuild
  <1>3. TypeOK'
    BY <1>1, <1>2 DEF TypeOK, Rebuild, locals, Slices
  <1>4. IInv'
    BY NewVersion DEF Rebuild, locals
  <1>5. \A s \in Symbols : g[s] # None => hot'[s].node \in {g[s], None}
    BY DEF Rebuild, Stored, Trimmed, NoEntry
  <1>6. HotMirrorsGraph'
    BY <1>5 DEF HotMirrorsGraph, Rebuild
  <1> QED
    BY <1>3, <1>4, <1>6

\* A mutation that takes effect.
LEMMA CommitStep ==
    ASSUME SInv, NEW t \in Threads, NEW g \in Graphs,
           NEW B \in SUBSET Symbols, NEW gone \in SUBSET Symbols,
           Commit(t, g, B, gone)
    PROVE  SInv'
  <1> USE DEF SInv
  <1> DEFINE h == Invalidated(g, B)
  <1>0. /\ h \in Slices(version + 1)
        /\ \A s \in Symbols : g[s] # None => h[s].node \in {g[s], None}
    BY CommitSlice
  <1>1. /\ hot' \in Slices(version + 1)
        /\ \A s \in Symbols : g[s] # None => hot'[s].node \in {g[s], None}
    <2>1. hot' = Trimmed(h, gone) /\ version + 1 \in Nat
      BY DEF Commit, TypeOK
    <2> QED
      BY <1>0, <2>1, TrimmedType DEF Trimmed, NoEntry
  <1>2. version' = version + 1 /\ version' \in Nat /\ graph' = g
    BY DEF TypeOK, Commit
  <1>3. TypeOK'
    BY <1>1, <1>2 DEF TypeOK, Commit, Answer, Slices
  <1>4. IInv'
    BY <1>2, NewVersion DEF Commit
  <1>5. HotMirrorsGraph'
    BY <1>1, <1>2 DEF HotMirrorsGraph
  <1> QED
    BY <1>3, <1>4, <1>5

\* A mutation that does not.
LEMMA NoMutationStep ==
    ASSUME SInv, NEW t \in Threads, Decline(t) \/ Refuse(t)
    PROVE  SInv'
  <1> USE DEF SInv, Decline, Refuse, Answer, slice
  <1>1. TypeOK'
    BY DEF TypeOK
  <1>2. IInv'
    BY DEF IInv, SnapInv, CallInv, VersionNamesOneGraph
  <1>3. HotMirrorsGraph'
    BY DEF HotMirrorsGraph
  <1> QED
    BY <1>1, <1>2, <1>3

\* The three steps that take a snapshot.
LEMMA SnapshotStep ==
    ASSUME SInv, NEW t \in Threads, GetSnapshot(t) \/ Create(t) \/ Refresh(t)
    PROVE  SInv'
  <1> USE DEF SInv, GetSnapshot, Create, Refresh, slice
  <1>1. snap' = [snap EXCEPT ![t] = Whole] /\ UNCHANGED <<graph, version>>
    OBVIOUS
  <1>2. /\ snap' \in [Threads -> Snapshots \cup {Unread}]
        /\ SnapInv' /\ VersionNamesOneGraph'
        /\ snap'[t] # Unread
        /\ \A u \in Threads : snap[u] # Unread => snap'[u] # Unread
    BY <1>1, TakeSnapshot
  <1>3. TypeOK'
    BY <1>2 DEF TypeOK
  <1>4. CallInv'
    BY <1>2 DEF IInv, CallInv, TypeOK
  <1>5. HotMirrorsGraph'
    BY DEF HotMirrorsGraph
  <1> QED
    BY <1>2, <1>3, <1>4, <1>5 DEF IInv

\* The two steps on the slice, after the lock.
LEMMA SliceStep ==
    ASSUME SInv,
           NEW u \in Threads, Bind(u) \/ Sync(u)
    PROVE  SInv'
  <1> USE DEF SInv
  <1>1. ASSUME NEW t \in Threads, Bind(t)
        PROVE  SInv'
    <2>1. snap[t].version \in 0..version
      BY <1>1 DEF IInv, CallInv, SnapInv, TypeOK, Snapshots, Bind
    <2>2. TypeOK'
      BY <1>1, <2>1 DEF TypeOK, Bind
    <2>3. IInv'
      BY <1>1 DEF IInv, SnapInv, CallInv, VersionNamesOneGraph, Bind, TypeOK
    <2>4. HotMirrorsGraph'
      BY <1>1 DEF HotMirrorsGraph, Bind
    <2> QED
      BY <2>2, <2>3, <2>4
  <1>2. ASSUME NEW t \in Threads, Sync(t)
        PROVE  SInv'
    <2>1. snap[t].version \in 0..version /\ version \in Nat
      BY <1>2 DEF IInv, CallInv, SnapInv, TypeOK, Snapshots, Sync
    <2>2. hot \in Slices(version)
      BY DEF TypeOK, Slices
    <2>3. hot' \in Slices(version)
      BY <1>2, <2>1, <2>2, SyncedType DEF Sync
    <2>4. TypeOK'
      BY <1>2, <2>1, <2>3 DEF TypeOK, Sync, Slices
    <2>5. IInv'
      BY <1>2 DEF IInv, SnapInv, CallInv, VersionNamesOneGraph, Sync, TypeOK
    <2>6. \A s \in Symbols : hot'[s].node = hot[s].node
      BY <1>2, <2>1, <2>2, NodesKept DEF Sync
    <2>7. HotMirrorsGraph'
      BY <1>2, <2>6 DEF HotMirrorsGraph, Sync
    <2> QED
      BY <2>4, <2>5, <2>7
  <1> QED
    BY <1>1, <1>2

\* Every step keeps the strengthened invariant.
LEMMA StepInv == SInv /\ [Next]_vars => SInv'
  <1> SUFFICES ASSUME SInv, [Next]_vars
               PROVE  SInv'
    OBVIOUS
  <1>1. CASE UNCHANGED vars
    BY <1>1 DEF vars, slice, locals, SInv, TypeOK, IInv, SnapInv, CallInv,
                VersionNamesOneGraph, HotMirrorsGraph
  <1>2. CASE Next
    BY <1>2, RebuildStep, CommitStep, NoMutationStep, SnapshotStep, SliceStep
       DEF Next
  <1> QED
    BY <1>1, <1>2

-----------------------------------------------------------------------------
(* The state manager's variables keep their types: no stamp and no bound   *)
(* version is ahead of globalVersion_, whatever threads come late with one.*)
THEOREM TypeCorrect == Spec => []TypeOK
  <1>1. Init => SInv
    BY InitInv DEF SInv
  <1>2. SInv => TypeOK
    BY DEF SInv
  <1> QED
    BY <1>1, <1>2, StepInv, PTL DEF Spec

(* Snapshots of one version agree, with each other and with the state at   *)
(* that version: comparing versions is enough to know that a snapshot is   *)
(* current (ensureSnapshotCurrent, applyOverlayMutation).                  *)
THEOREM VersionsIdentify == Spec => []VersionNamesOneGraph
  <1>1. Init => SInv
    BY InitInv DEF SInv
  <1>2. SInv => VersionNamesOneGraph
    BY DEF SInv, IInv
  <1> QED
    BY <1>1, <1>2, StepInv, PTL DEF Spec

(* The hot slice never has another node than the graph's of a symbol the   *)
(* graph has, with any number of threads binding late.                     *)
THEOREM HotMirrors == Spec => []HotMirrorsGraph
  <1>1. Init => SInv
    BY InitInv DEF SInv
  <1>2. SInv => HotMirrorsGraph
    BY DEF SInv
  <1> QED
    BY <1>1, <1>2, StepInv, PTL DEF Spec
-----------------------------------------------------------------------------
(* The refinement of VersionedStore.                                       *)

\* A snapshot is current for the store iff its version is that of the state.
LEMMA SeenCurrent ==
    ASSUME SInv, NEW t \in Threads
    PROVE  /\ Seen[t] = Unread <=> snap[t] = Unread
           /\ snap[t] # Unread => Seen[t].version = snap[t].version
           /\ Fits(t) /\ snap[t] # Unread => Store!Current(t)
           /\ ~Fits(t) /\ snap[t] # Unread => ~Store!Current(t)
  <1>1. snap[t] # Unread =>
           [version |-> snap[t].version, value |-> snap[t].graph]
               \in [version : Nat, value : Graphs]
    BY DEF SInv, TypeOK, Snapshots
  <1>2. Seen[t] = Unread <=> snap[t] = Unread
    BY <1>1, StateAssumption DEF Seen
  <1>3. snap[t] # Unread => Seen[t].version = snap[t].version
    BY DEF Seen
  <1>4. Fits(t) /\ snap[t] # Unread => Store!Current(t)
    BY <1>2, <1>3 DEF Fits, Store!Current
  <1>5. ~Fits(t) /\ snap[t] # Unread => ~Store!Current(t)
    BY <1>3 DEF Fits, Store!Current, SInv, IInv, VersionNamesOneGraph
  <1> QED
    BY <1>2, <1>3, <1>4, <1>5

\* Taking a snapshot is a read.
LEMMA SnapshotIsRead ==
    ASSUME SInv, NEW t \in Threads, GetSnapshot(t) \/ Create(t) \/ Refresh(t)
    PROVE  Store!Read(t)
  <1>1. /\ snap' = [snap EXCEPT ![t] = Whole]
        /\ UNCHANGED <<graph, version, outcome>>
    BY DEF GetSnapshot, Create, Refresh, slice
  <1>2. \A u \in Threads : snap'[u] = IF u = t THEN Whole ELSE snap[u]
    BY <1>1 DEF SInv, TypeOK
  <1>3. Whole # Unread /\ Whole.version = version /\ Whole.graph = graph
    BY WholeIsSnapshot DEF SInv
  <1>4. Seen' = [Seen EXCEPT ![t] = [version |-> version, value |-> graph]]
    BY <1>2, <1>3 DEF Seen
  <1> QED
    BY <1>1, <1>4 DEF Store!Read

\* Every step is a step of the store or leaves it alone.
LEMMA StoreStep == SInv /\ [Next]_vars => [Store!Next]_(Store!vars)
  <1> SUFFICES ASSUME SInv, [Next]_vars
               PROVE  Store!Next \/ UNCHANGED Store!vars
    OBVIOUS
  <1>1. SInv'
    BY StepInv
  <1>2. ASSUME NEW g \in Graphs, NEW gone \in SUBSET Symbols,
               Rebuild(g, gone)
        PROVE  Store!Replace
    BY <1>2 DEF Rebuild, locals, Store!Replace, Store!NewValue, Seen
  <1>3. ASSUME NEW t \in Threads, NEW g \in Graphs,
               NEW B \in SUBSET Symbols, NEW gone \in SUBSET Symbols,
               Commit(t, g, B, gone)
        PROVE  Store!Apply(t)
    <2>1. Store!Current(t)
      BY <1>3, SeenCurrent DEF Commit
    <2> QED
      BY <1>3, <2>1 DEF Commit, Answer, Store!Apply, Store!NewValue, Seen
  <1>4. ASSUME NEW t \in Threads, Decline(t)
        PROVE  Store!Decline(t)
    <2>1. Store!Current(t)
      BY <1>4, SeenCurrent DEF Decline
    <2> QED
      BY <1>4, <2>1 DEF Decline, Answer, Store!Decline, Seen
  <1>5. ASSUME NEW t \in Threads, Refuse(t)
        PROVE  Store!Refuse(t)
    <2>1. Seen[t] # Unread /\ ~Store!Current(t)
      BY <1>5, SeenCurrent DEF Refuse
    <2> QED
      BY <1>5, <2>1 DEF Refuse, Answer, Store!Refuse, Seen
  <1>6. ASSUME NEW t \in Threads, GetSnapshot(t) \/ Create(t) \/ Refresh(t)
        PROVE  Store!Read(t)
    BY <1>6, SnapshotIsRead
  <1>7. ASSUME \/ UNCHANGED vars
               \/ \E t \in Threads : Bind(t) \/ Sync(t)
        PROVE  UNCHANGED Store!vars
    BY <1>7 DEF vars, slice, locals, Bind, Sync, Store!vars, Seen
  <1> QED
    BY <1>2, <1>3, <1>4, <1>5, <1>6, <1>7 DEF Next, Store!Next

(* The state manager, with its two-step reads and its checks of version    *)
(* and hash, implements the versioned store: no mutation takes effect on a *)
(* state its author has not seen, and none is refused that has.            *)
THEOREM ImplementsStore == Spec => StoreRefinement
  <1>1. Init => SInv
    BY InitInv DEF SInv
  <1>2. Init => Store!Init
    BY DEF Init, Store!Init, Seen, Graphs, Empty
  <1> QED
    BY <1>1, <1>2, StepInv, StoreStep, PTL
       DEF Spec, StoreRefinement, Store!Spec
=============================================================================

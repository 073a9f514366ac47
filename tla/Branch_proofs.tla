--------------------------- MODULE Branch_proofs ----------------------------
(***************************************************************************)
(* Proofs about BranchLifecycle, for any branches, graphs and caps, with   *)
(* and without a disk, and, in the second half, about the branch commands  *)
(* of BranchSessions: both are built from the operations of BranchOps.     *)
(*                                                                         *)
(* None of the properties is inductive.  What makes a snapshot loadable is *)
(* that the governance, which ends every operation, clears what has neither *)
(* a place in the chain nor a file (Backed), and that a file a branch names *)
(* is never torn; that in turn holds because every copy of a snapshot is   *)
(* the graph its branch was spawned on (SnapshotsTrue), which needs the    *)
(* number of a new snapshot to be one that no file, no chain entry and no  *)
(* branch has (Numbered).  The parts are stated of a state, a disk and a   *)
(* history, so that the intermediate states of an operation have them too. *)
(***************************************************************************)
EXTENDS BranchLifecycle, BranchSessions,
        FiniteSetTheorems, SequenceTheorems, WellFoundedInduction, TLAPS

\* The states of a branch store whose chain is one of some given chains.
Store(Chains) == [branch : [Branches -> BranchRecord], chain : Chains,
                  graph : Graphs, current : Branches \cup {None}, seq : Nat]

\* What the record k always is.
Core == Store(Seq(SnapshotRecord))

-----------------------------------------------------------------------------
(* Sequences of snapshots.                                                 *)

\* A set of numbers that is not empty has a least element.
LEMMA LeastNumber ==
    ASSUME NEW T \in SUBSET Nat, T # {}
    PROVE  \E x \in T : \A y \in T : x <= y
<1>1. PICK x \in T : \A y \in T : ~(<<y, x>> \in OpToRel(<, Nat))
    BY NatLessThanWellFounded, WFMin, Zenon
<1>2. ASSUME NEW y \in T
      PROVE  x <= y
  <2>1. <<y, x>> \in Nat \X Nat
    OBVIOUS
  <2> QED
    BY <1>1, <2>1 DEF OpToRel
<1> QED
    BY <1>2

\* A chain holds snapshots.
LEMMA ChainElements ==
    ASSUME NEW chain \in Seq(SnapshotRecord)
    PROVE  \A i \in DOMAIN chain :
              /\ chain[i] \in SnapshotRecord
              /\ chain[i].id \in Nat \ {0} /\ chain[i].graph \in Graphs
<1> TAKE i \in DOMAIN chain
<1>1. chain[i] \in SnapshotRecord
    BY ElementOfSeq, LenProperties
<1> QED
    BY <1>1 DEF SnapshotRecord

\* The first position of an id that occurs is a position of it.
LEMMA FirstIsThere ==
    ASSUME NEW chain \in Seq(SnapshotRecord), NEW id, InChain(chain, id)
    PROVE  /\ FirstPosition(chain, id) \in DOMAIN chain
           /\ chain[FirstPosition(chain, id)].id = id
<1>1. /\ Positions(chain, id) \in SUBSET Nat
      /\ Positions(chain, id) # {}
    BY LenProperties DEF Positions, InChain
<1>2. \E i \in Positions(chain, id) : \A j \in Positions(chain, id) : i <= j
    BY <1>1, LeastNumber
<1>3. FirstPosition(chain, id) \in Positions(chain, id)
    BY <1>2 DEF FirstPosition
<1> QED
    BY <1>3 DEF Positions

\* Every snapshot of the one chain is a snapshot of the other.
PartOf(new, old) == \A i \in DOMAIN new : \E j \in DOMAIN old : new[i] = old[j]

IsChain(chain) == chain \in Seq(SnapshotRecord) /\ Len(chain) <= MaxRetained

\* The retention cap drops snapshots and adds none.
LEMMA RetainKeeps ==
    ASSUME NEW chain \in Seq(SnapshotRecord)
    PROVE  IsChain(Retain(chain)) /\ PartOf(Retain(chain), chain)
<1> DEFINE n == Len(chain)
           m == n - MaxRetained + 1
<1>1. n \in Nat /\ DOMAIN chain = 1..n /\ \A i \in 1..n : chain[i] \in SnapshotRecord
    BY LenProperties, ElementOfSeq
<1>2. CASE n <= MaxRetained
    BY <1>1, <1>2, BranchAssumption DEF Retain, IsChain, PartOf
<1>3. CASE n > MaxRetained
  <2>1. m \in 1..n /\ n - m + 1 = MaxRetained
    BY <1>1, <1>3, BranchAssumption
  <2>2. \A i \in m..n : chain[i] \in SnapshotRecord
    BY <1>1, <2>1
  <2>3. /\ SubSeq(chain, m, n) \in Seq(SnapshotRecord)
        /\ Len(SubSeq(chain, m, n)) = MaxRetained
        /\ \A i \in 1..MaxRetained : SubSeq(chain, m, n)[i] = chain[m + i - 1]
    BY <1>1, <2>1, <2>2, SubSeqProperties
  <2>4. DOMAIN SubSeq(chain, m, n) = 1..MaxRetained
    BY <2>3, LenProperties
  <2>5. Retain(chain) = SubSeq(chain, m, n)
    BY <1>3 DEF Retain
  <2>6. \A i \in 1..MaxRetained : m + i - 1 \in 1..n
    BY <1>1, <2>1
  <2>7. PartOf(SubSeq(chain, m, n), chain)
    BY <1>1, <2>3, <2>4, <2>6, Zenon DEF PartOf
  <2> QED
    BY <2>3, <2>5, <2>7, BranchAssumption DEF IsChain
<1> QED
    BY <1>1, <1>2, <1>3, BranchAssumption

\* So does appending under the cap, the new snapshot apart.
LEMMA AppendedKeeps ==
    ASSUME NEW chain \in Seq(SnapshotRecord), NEW snapshot \in SnapshotRecord
    PROVE  /\ IsChain(Appended(chain, snapshot))
           /\ \A i \in DOMAIN Appended(chain, snapshot) :
                 \/ Appended(chain, snapshot)[i] = snapshot
                 \/ \E j \in DOMAIN chain : Appended(chain, snapshot)[i] = chain[j]
<1> DEFINE longer == Append(chain, snapshot)
<1>1. longer \in Seq(SnapshotRecord)
    BY AppendProperties
<1>2. \A j \in DOMAIN longer :
         longer[j] = snapshot \/ \E i \in DOMAIN chain : longer[j] = chain[i]
    BY AppendProperties, LenProperties
<1>3. IsChain(Retain(longer)) /\ PartOf(Retain(longer), longer)
    BY <1>1, RetainKeeps
<1> QED
    BY <1>2, <1>3 DEF Appended, PartOf

\* A rollback in the chain cuts it.
LEMMA RolledBackToKeeps ==
    ASSUME NEW chain, IsChain(chain), NEW id, InChain(chain, id)
    PROVE  IsChain(RolledBackTo(chain, id)) /\ PartOf(RolledBackTo(chain, id), chain)
<1> DEFINE n == FirstPosition(chain, id)
<1>1. Len(chain) \in Nat /\ DOMAIN chain = 1..Len(chain)
      /\ \A i \in 1..Len(chain) : chain[i] \in SnapshotRecord
    BY LenProperties, ElementOfSeq DEF IsChain
<1>2. n \in 1..Len(chain)
    BY <1>1, FirstIsThere DEF IsChain
<1> HIDE DEF n
<1>3. /\ SubSeq(chain, 1, n) \in Seq(SnapshotRecord)
      /\ Len(SubSeq(chain, 1, n)) = n
      /\ \A i \in 1..n : SubSeq(chain, 1, n)[i] = chain[1 + i - 1]
    BY <1>1, <1>2, SubSeqProperties
<1>4. DOMAIN SubSeq(chain, 1, n) = 1..n
    BY <1>3, LenProperties
<1>5. RolledBackTo(chain, id) = SubSeq(chain, 1, n)
    BY DEF RolledBackTo, n
<1> QED
    BY <1>1, <1>2, <1>3, <1>4, <1>5, BranchAssumption DEF IsChain, PartOf
-----------------------------------------------------------------------------
(* The governance.                                                         *)

\* A set of branches has a size.
LEMMA BranchesCounted ==
    ASSUME NEW S \in SUBSET Branches
    PROVE  Cardinality(S) \in Nat
BY BranchAssumption, FS_Subset, FS_CardinalityType

\* What governing a store may do to the status of a branch.
StatusGoes(old, new) ==
    \/ new = old
    \/ old = "Active" /\ new = "Suspended"

\* What is the same before and after the governance.
SameSnapshots(s, r) ==
    r.chain = s.chain /\ r.graph = s.graph /\ r.seq >= s.seq

\* An eviction keeps the snapshots and finishes or revives nobody.
LEMMA EvictedIs ==
    ASSUME NEW Chains, NEW s \in Store(Chains), NEW victims \in SUBSET Branches
    PROVE  /\ Evicted(s, victims) \in Store(Chains)
           /\ SameSnapshots(s, Evicted(s, victims))
           /\ \A b \in Branches :
                /\ StatusGoes(s.branch[b].status, Evicted(s, victims).branch[b].status)
                /\ Evicted(s, victims).branch[b].snap = s.branch[b].snap
<1> DEFINE r == Evicted(s, victims)
           left == [b \in Branches |-> IF b \in victims THEN Demoted(s.branch[b])
                                       ELSE s.branch[b]]
<1>1. s.branch \in [Branches -> BranchRecord] /\ s.seq \in Nat
      /\ s.current \in Branches \cup {None}
    BY DEF Store
<1>2. ASSUME NEW x \in BranchRecord
      PROVE  /\ Demoted(x) \in BranchRecord
             /\ Demoted(x).snap = x.snap
             /\ StatusGoes(x.status, Demoted(x).status)
  <2> DEFINE after == IF x.status = "Active" THEN "Suspended" ELSE x.status
  <2>1. after \in Status /\ x.snap \in Nat /\ FALSE \in BOOLEAN
    BY DEF BranchRecord, Status
  <2>2. StatusGoes(x.status, after)
    BY DEF StatusGoes
  <2>3. Demoted(x) = [x EXCEPT !.resident = FALSE, !.status = after]
    BY DEF Demoted
  <2> HIDE DEF after
  <2>4. /\ Demoted(x).status = after
        /\ Demoted(x).snap = x.snap
    BY <2>3 DEF BranchRecord
  <2>5. Demoted(x) \in BranchRecord
    BY <2>1, <2>3 DEF BranchRecord
  <2> QED
    BY <2>2, <2>4, <2>5
<1>3. left \in [Branches -> BranchRecord]
    BY <1>1, <1>2
<1>4. \A b \in Branches : /\ StatusGoes(s.branch[b].status, left[b].status)
                          /\ left[b].snap = s.branch[b].snap
  <2> TAKE b \in Branches
  <2>1. CASE b \in victims
    BY <1>1, <1>2, <2>1
  <2>2. CASE b \notin victims
    BY <2>2 DEF StatusGoes
  <2> QED
    BY <2>1, <2>2
<1>5. Cardinality(victims) \in Nat
    BY BranchesCounted
<1>6. r = [s EXCEPT !.branch = left,
                    !.current = IF @ \in victims THEN None ELSE @,
                    !.seq = @ + Cardinality(victims)]
    BY DEF Evicted
<1> HIDE DEF r, left
<1>7. /\ r.branch = left /\ r.chain = s.chain /\ r.graph = s.graph
      /\ r.seq = s.seq + Cardinality(victims)
    BY <1>6 DEF Store
<1>8. r \in Store(Chains)
  <2>1. r = [branch |-> left, chain |-> s.chain, graph |-> s.graph,
             current |-> IF s.current \in victims THEN None ELSE s.current,
             seq |-> s.seq + Cardinality(victims)]
    BY <1>6 DEF Store
  <2> QED
    BY <1>1, <1>3, <1>5, <2>1 DEF Store
<1> QED
    BY <1>1, <1>4, <1>5, <1>7, <1>8 DEF SameSnapshots, r

\* Stale references are cleared and no other is.
LEMMA InvalidatedIs ==
    ASSUME NEW Chains, NEW s \in Store(Chains), NEW o
    PROVE  /\ Invalidated(s, o) \in Store(Chains)
           /\ SameSnapshots(s, Invalidated(s, o))
           /\ \A b \in Branches :
                /\ Invalidated(s, o).branch[b].status = s.branch[b].status
                /\ Invalidated(s, o).branch[b].snap =
                      IF b \in Stale(s, o) THEN NoSnapshot ELSE s.branch[b].snap
<1> DEFINE r == Invalidated(s, o)
           kept == [b \in Branches |->
                      IF b \in Stale(s, o) THEN [s.branch[b] EXCEPT !.snap = NoSnapshot]
                      ELSE s.branch[b]]
<1>1. s.branch \in [Branches -> BranchRecord] /\ s.seq \in Nat
    BY DEF Store
<1>2. kept \in [Branches -> BranchRecord]
    BY <1>1 DEF BranchRecord, NoSnapshot
<1>3. \A b \in Branches :
         /\ kept[b].status = s.branch[b].status
         /\ kept[b].snap = IF b \in Stale(s, o) THEN NoSnapshot ELSE s.branch[b].snap
    BY <1>1 DEF BranchRecord
<1>4. Cardinality(Stale(s, o)) \in Nat
    BY BranchesCounted DEF Stale, Known
<1>5. r = [s EXCEPT !.branch = kept, !.seq = @ + Cardinality(Stale(s, o))]
    BY DEF Invalidated
<1> HIDE DEF r, kept
<1>6. /\ r.branch = kept /\ r.chain = s.chain /\ r.graph = s.graph
      /\ r.seq = s.seq + Cardinality(Stale(s, o))
    BY <1>5 DEF Store
<1>7. r \in Store(Chains)
  <2>1. r = [branch |-> kept, chain |-> s.chain, graph |-> s.graph,
             current |-> s.current, seq |-> s.seq + Cardinality(Stale(s, o))]
    BY <1>5 DEF Store
  <2> QED
    BY <1>1, <1>2, <1>4, <2>1 DEF Store
<1> QED
    BY <1>1, <1>3, <1>4, <1>6, <1>7 DEF SameSnapshots, r

\* runMemoryGovernance, its two evictions and the invalidation together; the chain
\* is only asked which ids it has.
LEMMA GovernedIsAny ==
    ASSUME NEW Chains, NEW s \in Store(Chains), NEW o, NEW p, NEW r \in Governed(s, o, p)
    PROVE  /\ r \in Store(Chains)
           /\ SameSnapshots(s, r)
           /\ \A b \in Branches :
                /\ StatusGoes(s.branch[b].status, r.branch[b].status)
                /\ \/ r.branch[b].snap = s.branch[b].snap
                   \/ /\ r.branch[b].snap = NoSnapshot
                      /\ ~HasReference(s, o, s.branch[b].snap)
                /\ b \in Known(s) /\ r.branch[b].snap # NoSnapshot
                      => HasReference(s, o, r.branch[b].snap)
<1> DEFINE keep == {p, s.current} \cup Executing
<1>1. PICK v1 \in EvictionChoices(ActiveResident(s), keep, MaxActive) :
         \E v2 \in EvictionChoices(Resident(Evicted(s, v1)), keep, MaxTracked) :
            r = Invalidated(Evicted(Evicted(s, v1), v2), o)
    BY DEF Governed
<1> DEFINE c == Evicted(s, v1)
<1>2. PICK v2 \in EvictionChoices(Resident(c), keep, MaxTracked) :
         r = Invalidated(Evicted(c, v2), o)
    BY <1>1
<1>3. v1 \in SUBSET Branches /\ v2 \in SUBSET Branches
    BY DEF EvictionChoices, ActiveResident, Resident, Known
<1> DEFINE d == Evicted(c, v2)
<1>4. /\ c \in Store(Chains) /\ SameSnapshots(s, c)
      /\ \A b \in Branches : /\ StatusGoes(s.branch[b].status, c.branch[b].status)
                             /\ c.branch[b].snap = s.branch[b].snap
    BY <1>3, EvictedIs
<1> HIDE DEF c
<1>5. /\ d \in Store(Chains) /\ SameSnapshots(c, d)
      /\ \A b \in Branches : /\ StatusGoes(c.branch[b].status, d.branch[b].status)
                             /\ d.branch[b].snap = c.branch[b].snap
    BY <1>3, <1>4, EvictedIs
<1> HIDE DEF d
<1>6. /\ r \in Store(Chains) /\ SameSnapshots(d, r)
      /\ \A b \in Branches :
           /\ r.branch[b].status = d.branch[b].status
           /\ r.branch[b].snap = IF b \in Stale(d, o) THEN NoSnapshot
                                                      ELSE d.branch[b].snap
    BY <1>2, <1>5, InvalidatedIs DEF d
<1>7. SameSnapshots(s, r) /\ d.chain = s.chain
    BY <1>4, <1>5, <1>6 DEF SameSnapshots, Store
<1>8. ASSUME NEW b \in Branches
      PROVE  StatusGoes(s.branch[b].status, r.branch[b].status)
    BY <1>4, <1>5, <1>6 DEF StatusGoes
<1>9. ASSUME NEW b \in Branches
      PROVE  /\ \/ r.branch[b].snap = s.branch[b].snap
                \/ /\ r.branch[b].snap = NoSnapshot
                   /\ ~HasReference(s, o, s.branch[b].snap)
             /\ b \in Known(s) /\ r.branch[b].snap # NoSnapshot
                   => HasReference(s, o, r.branch[b].snap)
  <2>1. d.branch[b].snap = s.branch[b].snap
      BY <1>4, <1>5
  <2>2. \A id : HasReference(d, o, id) <=> HasReference(s, o, id)
      BY <1>7 DEF HasReference
  <2>3. b \in Known(s) => b \in Known(d)
      BY <1>4, <1>5 DEF Known, StatusGoes
  <2>4. b \in Stale(d, o) => ~HasReference(s, o, s.branch[b].snap)
      BY <2>1, <2>2 DEF Stale
  <2>5. b \in Known(s) /\ b \notin Stale(d, o) /\ s.branch[b].snap # NoSnapshot
           => HasReference(s, o, s.branch[b].snap)
      BY <2>1, <2>2, <2>3 DEF Stale
  <2> QED
      BY <1>6, <2>1, <2>4, <2>5
<1> QED
    BY <1>6, <1>7, <1>8, <1>9

\* The same of a chain of snapshots.
LEMMA GovernedIs ==
    ASSUME NEW s \in Core, NEW o, NEW p, NEW r \in Governed(s, o, p)
    PROVE  /\ r \in Core
           /\ SameSnapshots(s, r)
           /\ \A b \in Branches :
                /\ StatusGoes(s.branch[b].status, r.branch[b].status)
                /\ \/ r.branch[b].snap = s.branch[b].snap
                   \/ /\ r.branch[b].snap = NoSnapshot
                      /\ ~HasReference(s, o, s.branch[b].snap)
                /\ b \in Known(s) /\ r.branch[b].snap # NoSnapshot
                      => HasReference(s, o, r.branch[b].snap)
<1> DEFINE Chains == Seq(SnapshotRecord)
<1>1. s \in Store(Chains)
    BY DEF Core
<1> HIDE DEF Chains
<1>2. r \in Store(Chains)
    BY <1>1, GovernedIsAny
<1>3. r \in Core
    BY <1>2 DEF Core, Chains
<1> QED
    BY <1>1, <1>3, GovernedIsAny
-----------------------------------------------------------------------------
(* The inductive invariant, its parts stated of any state s, disk o and    *)
(* history g.                                                              *)

\* TypeOK of a state.
Typed(s, o, g) ==
    /\ s \in Core /\ IsChain(s.chain)
    /\ \A id \in DOMAIN o : o[id] \in Graphs \cup {Torn}
    /\ DOMAIN g = Known(s) /\ \A b \in DOMAIN g : g[b] \in Graphs

\* No snapshot has a number that is still to be handed out.
Numbered(s, o) ==
    /\ \A i \in DOMAIN s.chain : s.chain[i].id <= s.seq
    /\ DOMAIN o \subseteq 1..s.seq

\* Every copy of a branch's snapshot is the graph the branch was spawned on.
SnapshotTrue(s, o, g, b) ==
    LET id == s.branch[b].snap
    IN  /\ id <= s.seq
        /\ \A i \in DOMAIN s.chain : s.chain[i].id = id => s.chain[i].graph = g[b]
        /\ id \in DOMAIN o => o[id] = g[b]

SnapshotsTrue(s, o, g) ==
    \A b \in Known(s) : s.branch[b].snap # NoSnapshot => SnapshotTrue(s, o, g, b)

Sound(s, o, g) == Typed(s, o, g) /\ Numbered(s, o) /\ SnapshotsTrue(s, o, g)

\* What a branch names is in the chain or has a file.
Backed(s, o) ==
    \A b \in Known(s) : s.branch[b].snap # NoSnapshot
                            => HasReference(s, o, s.branch[b].snap)

\* Every branch names a snapshot that has a file.
Kept(s, o) ==
    \A b \in Known(s) : /\ s.branch[b].snap # NoSnapshot
                        /\ s.branch[b].snap \in DOMAIN o

\* The governance keeps a state sound, and what it leaves is backed.
LEMMA GovernedSound ==
    ASSUME NEW s, NEW o, NEW g, NEW p, Sound(s, o, g), NEW r \in Governed(s, o, p)
    PROVE  /\ Sound(r, o, g) /\ Backed(r, o)
           /\ Kept(s, o) => Kept(r, o)
<1>1. s \in Core
    BY DEF Sound, Typed
<1>2. /\ r \in Core
      /\ SameSnapshots(s, r)
      /\ \A b \in Branches :
           /\ StatusGoes(s.branch[b].status, r.branch[b].status)
           /\ \/ r.branch[b].snap = s.branch[b].snap
              \/ /\ r.branch[b].snap = NoSnapshot
                 /\ ~HasReference(s, o, s.branch[b].snap)
           /\ b \in Known(s) /\ r.branch[b].snap # NoSnapshot
                 => HasReference(s, o, r.branch[b].snap)
    BY <1>1, GovernedIs
<1>3. Known(r) = Known(s) /\ Known(s) \subseteq Branches
    BY <1>2 DEF Known, StatusGoes
<1>4. Typed(r, o, g)
    BY <1>2, <1>3 DEF Sound, Typed, SameSnapshots
<1>5. s.seq \in Nat /\ r.seq \in Nat /\ r.seq >= s.seq /\ r.chain = s.chain
    BY <1>1, <1>2 DEF Core, Store, SameSnapshots
<1>6. \A i \in DOMAIN s.chain : s.chain[i].id \in Nat
    BY <1>1, ChainElements DEF Core, Store
<1>7. Numbered(r, o)
    BY <1>5, <1>6 DEF Sound, Numbered
<1>8. SnapshotsTrue(r, o, g)
  <2> SUFFICES ASSUME NEW b \in Known(r), r.branch[b].snap # NoSnapshot
               PROVE  SnapshotTrue(r, o, g, b)
      BY DEF SnapshotsTrue
  <2>1. b \in Known(s) /\ r.branch[b].snap = s.branch[b].snap
      BY <1>2, <1>3
  <2>2. SnapshotTrue(s, o, g, b) /\ s.branch[b].snap \in Nat
      BY <1>1, <1>3, <2>1 DEF Sound, SnapshotsTrue, Core, Store, BranchRecord
  <2> QED
      BY <1>5, <2>1, <2>2 DEF SnapshotTrue
<1>9. Backed(r, o)
    BY <1>2, <1>3, <1>5 DEF Backed, HasReference
<1>10. Kept(s, o) => Kept(r, o)
    BY <1>2, <1>3 DEF Kept, HasReference
<1> QED
    BY <1>4, <1>7, <1>8, <1>9, <1>10 DEF Sound

\* The snapshots of the chain ch come from s or from the disk.
Sourced(ch, s, o) ==
    \A i \in DOMAIN ch :
        \/ \E j \in DOMAIN s.chain : ch[i] = s.chain[j]
        \/ ch[i].id \in DOMAIN o /\ ch[i].graph = o[ch[i].id]

\* What every operation on a branch in the store does before the governance:
\* a new record with the old snapshot, a chain with no new snapshot, and
\* whatever graph, current branch and higher sequence number.
LEMMA ChangedSound ==
    ASSUME NEW s, NEW o, NEW g, Sound(s, o, g), NEW b \in Known(s),
           NEW rec \in BranchRecord, rec.status # "Unknown",
           rec.snap = s.branch[b].snap,
           NEW ch, IsChain(ch), Sourced(ch, s, o),
           NEW gr \in Graphs, NEW cur \in Branches \cup {None},
           NEW n \in Nat, n >= s.seq,
           NEW m, m = [branch |-> [s.branch EXCEPT ![b] = rec], chain |-> ch,
                       graph |-> gr, current |-> cur, seq |-> n]
    PROVE  Sound(m, o, g) /\ (Kept(s, o) => Kept(m, o))
<1>1. s \in Core /\ s.branch \in [Branches -> BranchRecord] /\ s.seq \in Nat
    BY DEF Sound, Typed, Core, Store
<1>2. /\ m.branch = [s.branch EXCEPT ![b] = rec] /\ m.chain = ch /\ m.seq = n
      /\ b \in Branches /\ Known(s) \subseteq Branches
    BY DEF Known
<1>3. m.branch \in [Branches -> BranchRecord]
    BY <1>1, <1>2
<1>4. m \in Core
    BY <1>2, <1>3 DEF Core, Store, IsChain
<1>5. \A c \in Branches : m.branch[c].snap = s.branch[c].snap
    BY <1>1, <1>2
<1>6. Known(m) = Known(s)
    BY <1>1, <1>2 DEF Known
<1>7. Typed(m, o, g)
    BY <1>2, <1>4, <1>6 DEF Sound, Typed
<1>8. \A i \in DOMAIN s.chain : s.chain[i].id \in Nat /\ s.chain[i].id <= s.seq
    BY <1>1, ChainElements DEF Core, Store, Sound, Numbered
<1>9. DOMAIN o \subseteq 1..s.seq
    BY DEF Sound, Numbered
<1>10. Numbered(m, o)
    BY <1>1, <1>2, <1>8, <1>9 DEF Numbered, Sourced
<1>11. SnapshotsTrue(m, o, g)
  <2> SUFFICES ASSUME NEW c \in Known(m), m.branch[c].snap # NoSnapshot
               PROVE  SnapshotTrue(m, o, g, c)
      BY DEF SnapshotsTrue
  <2>1. c \in Known(s) /\ m.branch[c].snap = s.branch[c].snap
      BY <1>2, <1>5, <1>6
  <2>2. SnapshotTrue(s, o, g, c) /\ s.branch[c].snap \in Nat
      BY <1>1, <1>2, <2>1 DEF Sound, SnapshotsTrue, BranchRecord
  <2> QED
      BY <1>1, <1>2, <2>1, <2>2 DEF SnapshotTrue, Sourced
<1> QED
    BY <1>2, <1>5, <1>6, <1>7, <1>10, <1>11 DEF Sound, Kept

\* A snapshot that can be loaded is the graph its branch was spawned on.
LEMMA LoadedIs ==
    ASSUME NEW s, NEW o, NEW g, Sound(s, o, g), NEW b \in Known(s),
           s.branch[b].snap # NoSnapshot, Loadable(s, o, s.branch[b].snap)
    PROVE  LET id == s.branch[b].snap
           IN  /\ Loaded(s, o, id) \in SnapshotRecord
               /\ Loaded(s, o, id).id = id
               /\ Loaded(s, o, id).graph = g[b]
               /\ Sourced(<<Loaded(s, o, id)>>, s, o)
<1> DEFINE id == s.branch[b].snap
           found == Loaded(s, o, id)
<1>1. /\ s \in Core /\ s.chain \in Seq(SnapshotRecord) /\ id \in Nat \ {0}
      /\ SnapshotTrue(s, o, g, b) /\ g[b] \in Graphs
    BY DEF Sound, Typed, Core, Store, SnapshotsTrue, NoSnapshot, Known, BranchRecord
<1>2. CASE InChain(s.chain, id)
  <2> DEFINE i == FirstPosition(s.chain, id)
  <2>1. i \in DOMAIN s.chain /\ s.chain[i].id = id /\ found = s.chain[i]
      BY <1>1, <1>2, FirstIsThere DEF Loaded
  <2>2. found \in SnapshotRecord /\ found.graph = g[b]
      BY <1>1, <2>1, ChainElements DEF SnapshotTrue
  <2> HIDE DEF i, found
  <2>3. Sourced(<<found>>, s, o)
      BY <2>1 DEF Sourced
  <2> QED
      BY <2>1, <2>2, <2>3 DEF found
<1>3. CASE ~InChain(s.chain, id)
  <2>1. id \in DOMAIN o /\ found = [id |-> id, graph |-> o[id]]
      BY <1>3 DEF Loaded, Loadable
  <2>2. o[id] = g[b]
      BY <1>1, <2>1 DEF SnapshotTrue
  <2> HIDE DEF id, found
  <2>3. found \in SnapshotRecord /\ found.id = id /\ found.graph = g[b]
      BY <1>1, <2>1, <2>2 DEF SnapshotRecord
  <2>4. Sourced(<<found>>, s, o)
      BY <2>1, <2>2, <2>3 DEF Sourced
  <2> QED
      BY <2>3, <2>4 DEF found, id
<1> QED
    BY <1>2, <1>3
-----------------------------------------------------------------------------
(* The operations.                                                         *)

Running  == {"Active", "Suspended"}
Finished == {"Merged", "RolledBack"}

StaysFinished(s, r) ==
    \A b \in Known(s) : s.branch[b].status \in Finished
                            => r.branch[b].status \notin Running

\* What a call that succeeds leaves of a sound state.
Outcome(s, r, o, g) ==
    /\ Sound(r, o, g) /\ Backed(r, o)
    /\ Kept(s, o) => Kept(r, o)
    /\ StaysFinished(s, r)

\* An operation on one branch: the change ChangedSound is about, of a status
\* that does not revive it, and the governance.
LEMMA OperationSound ==
    ASSUME NEW s, NEW o, NEW g, Sound(s, o, g), NEW b \in Known(s),
           NEW rec \in BranchRecord, rec.status # "Unknown",
           rec.snap = s.branch[b].snap,
           s.branch[b].status \in Finished => rec.status \notin Running,
           NEW ch, IsChain(ch), Sourced(ch, s, o),
           NEW gr \in Graphs, NEW cur \in Branches \cup {None},
           NEW n \in Nat, n >= s.seq,
           NEW m, m = [branch |-> [s.branch EXCEPT ![b] = rec], chain |-> ch,
                       graph |-> gr, current |-> cur, seq |-> n],
           NEW p, NEW r \in Governed(m, o, p)
    PROVE  Outcome(s, r, o, g) /\ r.graph = gr
<1>1. Sound(m, o, g) /\ (Kept(s, o) => Kept(m, o))
    BY ChangedSound
<1>2. m \in Core /\ s \in Core
    BY <1>1 DEF Sound, Typed
<1>3. Sound(r, o, g) /\ Backed(r, o) /\ (Kept(m, o) => Kept(r, o))
    BY <1>1, GovernedSound
<1>4. /\ SameSnapshots(m, r)
      /\ \A c \in Branches : StatusGoes(m.branch[c].status, r.branch[c].status)
    BY <1>2, GovernedIs
<1>5. r.graph = gr
    BY <1>4 DEF SameSnapshots
<1>6. ASSUME NEW c \in Known(s), s.branch[c].status \in Finished
      PROVE  r.branch[c].status \notin Running
  <2>1. c \in Branches /\ s.branch \in [Branches -> BranchRecord]
      BY <1>2 DEF Known, Core, Store
  <2>2. m.branch[c] = IF c = b THEN rec ELSE s.branch[c]
      BY <2>1
  <2>3. m.branch[c].status \notin Running
      BY <1>6, <2>2 DEF Finished, Running
  <2> QED
      BY <1>4, <2>1, <2>3 DEF StatusGoes, Running
<1> QED
    BY <1>1, <1>3, <1>5, <1>6 DEF Outcome, StaysFinished

\* A record whose status, and perhaps whose overlay, changes.
LEMMA RecordIs ==
    ASSUME NEW x \in BranchRecord, NEW status \in Status
    PROVE  /\ [x EXCEPT !.status = status] \in BranchRecord
           /\ [x EXCEPT !.status = status].status = status
           /\ [x EXCEPT !.status = status].snap = x.snap
           /\ [x EXCEPT !.status = status, !.resident = TRUE] \in BranchRecord
           /\ [x EXCEPT !.status = status, !.resident = TRUE].status = status
           /\ [x EXCEPT !.status = status, !.resident = TRUE].snap = x.snap
BY DEF BranchRecord

\* The chain as it is comes from itself.
LEMMA OwnChain ==
    ASSUME NEW s, NEW o, NEW g, Sound(s, o, g)
    PROVE  IsChain(s.chain) /\ Sourced(s.chain, s, o)
BY DEF Sound, Typed, Sourced

\* An update, field by field.
LEMMA UpdateIsAny ==
    ASSUME NEW Chains, NEW s \in Store(Chains), NEW b, NEW rec
    PROVE  Update(s, b, rec) = [branch |-> [s.branch EXCEPT ![b] = rec],
                                chain |-> s.chain, graph |-> s.graph,
                                current |-> s.current, seq |-> s.seq + 1]
<1> DEFINE u     == Update(s, b, rec)
           after == [s.branch EXCEPT ![b] = rec]
<1>1. u = [s EXCEPT !.branch = after, !.seq = s.seq + 1]
    BY DEF Update
<1> HIDE DEF u, after
<1>2. u = [branch |-> after, chain |-> s.chain, graph |-> s.graph,
           current |-> s.current, seq |-> s.seq + 1]
    BY <1>1 DEF Store
<1> QED
    BY <1>2 DEF u, after

\* The same of a chain of snapshots.
LEMMA UpdateIs ==
    ASSUME NEW s \in Core, NEW b, NEW rec
    PROVE  Update(s, b, rec) = [branch |-> [s.branch EXCEPT ![b] = rec],
                                chain |-> s.chain, graph |-> s.graph,
                                current |-> s.current, seq |-> s.seq + 1]
<1> DEFINE Chains == Seq(SnapshotRecord)
<1>1. s \in Store(Chains)
    BY DEF Core
<1> HIDE DEF Chains
<1> QED
    BY <1>1, UpdateIsAny

\* What suspend, archive and rollback share.
LEMMA RetiredSound ==
    ASSUME NEW s, NEW o, NEW g, Sound(s, o, g), NEW b \in Known(s),
           NEW status \in Status \ {"Unknown"},
           s.branch[b].status \in Finished => status \notin Running,
           NEW r \in Retired(s, o, b, status)
    PROVE  Outcome(s, r, o, g) /\ r.graph = s.graph
<1> DEFINE rec == [s.branch[b] EXCEPT !.status = status]
           cur == IF s.current = b THEN None ELSE s.current
           m   == LeaveCurrent(Update(s, b, rec), b)
<1>1. s \in Core /\ s.branch[b] \in BranchRecord /\ s.seq \in Nat
    BY DEF Sound, Typed, Core, Store, Known
<1>2. rec \in BranchRecord /\ rec.status = status /\ rec.snap = s.branch[b].snap
    BY <1>1, RecordIs
<1>3. r \in Governed(m, o, m.current)
    BY DEF Retired
<1> HIDE DEF rec
<1>4. m = [branch |-> [s.branch EXCEPT ![b] = rec], chain |-> s.chain,
           graph |-> s.graph, current |-> cur, seq |-> s.seq + 1]
    BY <1>1, UpdateIs DEF LeaveCurrent
<1>5. cur \in Branches \cup {None} /\ s.graph \in Graphs /\ s.seq + 1 \in Nat
      /\ s.seq + 1 >= s.seq
    BY <1>1 DEF Core, Store
<1> HIDE DEF m, cur
<1> QED
    BY <1>2, <1>3, <1>4, <1>5, OwnChain, OperationSound

LEMMA SuspendSound ==
    ASSUME NEW s, NEW o, NEW g, Sound(s, o, g), NEW b, CanSuspend(s, b),
           NEW r \in Suspended(s, o, b)
    PROVE  Outcome(s, r, o, g)
BY RetiredSound DEF CanSuspend, Suspended, Status, Finished

LEMMA ArchiveSound ==
    ASSUME NEW s, NEW o, NEW g, Sound(s, o, g), NEW b, CanArchive(s, b),
           NEW r \in Archived(s, o, b)
    PROVE  Outcome(s, r, o, g)
BY RetiredSound DEF CanArchive, Archived, Status, Running

\* A rollback also restores the graph the branch was spawned on.
LEMMA RollbackSound ==
    ASSUME NEW s, NEW o, NEW g, Sound(s, o, g), NEW b, CanRollback(s, o, b),
           NEW r \in RolledBack(s, o, b)
    PROVE  Outcome(s, r, o, g) /\ r.graph = g[b]
<1> DEFINE id    == s.branch[b].snap
           found == Loaded(s, o, id)
           ch    == IF InChain(s.chain, id) THEN RolledBackTo(s.chain, id) ELSE <<found>>
           m     == [s EXCEPT !.graph = found.graph, !.chain = ch]
<1>1. b \in Known(s) /\ id # NoSnapshot /\ Loadable(s, o, id)
    BY DEF CanRollback
<1>2. found \in SnapshotRecord /\ found.graph = g[b] /\ Sourced(<<found>>, s, o)
    BY <1>1, LoadedIs
<1>3. r \in Retired(m, o, b, "RolledBack")
    BY DEF RolledBack
<1>4. /\ s \in Core /\ IsChain(s.chain) /\ s.seq \in Nat /\ b \in Branches
      /\ s.branch \in [Branches -> BranchRecord] /\ s.branch[b] \in BranchRecord
      /\ s.branch[b].status # "Unknown" /\ s.current \in Branches \cup {None}
      /\ g[b] \in Graphs
    BY <1>1 DEF Sound, Typed, Core, Store, Known
<1> HIDE DEF found
<1>5. IsChain(ch) /\ Sourced(ch, s, o)
  <2>1. CASE InChain(s.chain, id)
      BY <1>4, <2>1, RolledBackToKeeps DEF PartOf, Sourced
  <2>2. CASE ~InChain(s.chain, id)
      BY <1>2, <2>2, BranchAssumption DEF IsChain
  <2> QED
      BY <2>1, <2>2
<1>6. m = [branch |-> [s.branch EXCEPT ![b] = s.branch[b]], chain |-> ch,
           graph |-> g[b], current |-> s.current, seq |-> s.seq]
  <2>1. s.branch = [s.branch EXCEPT ![b] = s.branch[b]]
      BY <1>4
  <2>2. m = [s EXCEPT !.graph = g[b], !.chain = ch]
      BY <1>2
  <2> HIDE DEF ch, m
  <2>3. m = [branch |-> s.branch, chain |-> ch, graph |-> g[b],
             current |-> s.current, seq |-> s.seq]
      BY <1>4, <2>2 DEF Core, Store
  <2> QED
      BY <2>1, <2>3
<1>7. m.branch = s.branch /\ m.graph = g[b]
    BY <1>4, <1>6
<1> HIDE DEF m, ch, id
<1>8. Sound(m, o, g) /\ (Kept(s, o) => Kept(m, o))
    BY <1>1, <1>4, <1>5, <1>6, ChangedSound
<1>9. Known(m) = Known(s)
    BY <1>7 DEF Known
<1>10. Outcome(m, r, o, g) /\ r.graph = g[b]
    BY <1>1, <1>3, <1>7, <1>8, <1>9, RetiredSound DEF Status, Running
<1> QED
    BY <1>7, <1>8, <1>9, <1>10 DEF Outcome, StaysFinished
\* The snapshot a resume finds on disk goes back into the chain.
LEMMA ResumeSound ==
    ASSUME NEW s, NEW o, NEW g, Sound(s, o, g), NEW b, CanResume(s, o, b),
           NEW r \in Resumed(s, o, b)
    PROVE  Outcome(s, r, o, g)
<1> DEFINE id       == s.branch[b].snap
           found    == Loaded(s, o, id)
           ch       == PutBack(s.chain, found)
           rec      == [s.branch[b] EXCEPT !.status = "Active", !.resident = TRUE]
           restored == [s EXCEPT !.graph = found.graph, !.chain = PutBack(@, found)]
           m        == [Update(restored, b, rec) EXCEPT !.current = b]
<1>1. b \in Known(s) /\ id # NoSnapshot /\ Loadable(s, o, id)
      /\ s.branch[b].status = "Suspended"
    BY DEF CanResume
<1>2. found \in SnapshotRecord /\ found.graph \in Graphs /\ Sourced(<<found>>, s, o)
    BY <1>1, LoadedIs DEF SnapshotRecord
<1>3. /\ s \in Core /\ IsChain(s.chain) /\ s.chain \in Seq(SnapshotRecord)
      /\ s.seq \in Nat /\ b \in Branches /\ s.branch[b] \in BranchRecord
    BY <1>1 DEF Sound, Typed, Core, Store, Known
<1>4. rec \in BranchRecord /\ rec.status = "Active" /\ rec.snap = id
    BY <1>3, RecordIs DEF Status
<1>5. r \in Governed(m, o, b)
    BY DEF Resumed
<1> HIDE DEF rec, found
<1>6. IsChain(ch) /\ Sourced(ch, s, o)
  <2>1. CASE InChain(s.chain, found.id)
      BY <2>1, OwnChain DEF PutBack
  <2>2. CASE ~InChain(s.chain, found.id)
    <3>1. ch = Appended(s.chain, found)
        BY <2>2 DEF PutBack
    <3>2. /\ IsChain(ch)
          /\ \A i \in DOMAIN ch : \/ ch[i] = found
                                  \/ \E j \in DOMAIN s.chain : ch[i] = s.chain[j]
        BY <1>2, <1>3, <3>1, AppendedKeeps
    <3>3. \/ \E j \in DOMAIN s.chain : found = s.chain[j]
          \/ found.id \in DOMAIN o /\ found.graph = o[found.id]
        BY <1>2 DEF Sourced
    <3> HIDE DEF ch
    <3> QED
        BY <3>2, <3>3 DEF Sourced
  <2> QED
      BY <2>1, <2>2
<1>7. restored = [s EXCEPT !.graph = found.graph, !.chain = ch]
    OBVIOUS
<1> HIDE DEF restored, ch
<1>8. restored = [branch |-> s.branch, chain |-> ch, graph |-> found.graph,
                  current |-> s.current, seq |-> s.seq]
    BY <1>3, <1>7 DEF Core, Store
<1>9. restored \in Core
    BY <1>2, <1>3, <1>6, <1>8 DEF Core, Store, IsChain
<1>10. m = [branch |-> [s.branch EXCEPT ![b] = rec], chain |-> ch,
            graph |-> found.graph, current |-> b, seq |-> s.seq + 1]
    BY <1>8, <1>9, UpdateIs
<1>11. s.seq + 1 \in Nat /\ s.seq + 1 >= s.seq /\ b \in Branches \cup {None}
    BY <1>3
<1> HIDE DEF m
<1> QED
    BY <1>1, <1>2, <1>4, <1>5, <1>6, <1>10, <1>11, OperationSound DEF Finished

\* A merge finishes its source; merged into itself a branch stays what it was.
LEMMA MergeSound ==
    ASSUME NEW s, NEW o, NEW g, Sound(s, o, g), NEW source, NEW target,
           CanMerge(s, source, target), NEW r \in Merged(s, o, source, target)
    PROVE  Outcome(s, r, o, g)
<1> DEFINE done   == [s.branch[source] EXCEPT !.status = "Merged"]
           marked == Update(s, source, done)
           both   == Update(marked, target, s.branch[target])
           m      == [both EXCEPT !.current = target]
           rec    == IF source = target THEN s.branch[source] ELSE done
<1>1. /\ source \in Known(s) /\ target \in Known(s)
      /\ s.branch[source].status \notin Finished
    BY DEF CanMerge, Finished
<1>2. /\ s \in Core /\ s.seq \in Nat /\ s.graph \in Graphs
      /\ s.branch \in [Branches -> BranchRecord]
      /\ source \in Branches /\ target \in Branches
      /\ s.branch[source] \in BranchRecord
      /\ s.branch[source].status # "Unknown"
    BY <1>1 DEF Sound, Typed, Core, Store, Known
<1>3. done \in BranchRecord /\ done.status = "Merged" /\ done.snap = s.branch[source].snap
    BY <1>2, RecordIs DEF Status
<1>4. r \in Governed(m, o, target)
    BY DEF Merged
<1> HIDE DEF done
<1>5. marked = [branch |-> [s.branch EXCEPT ![source] = done], chain |-> s.chain,
                graph |-> s.graph, current |-> s.current, seq |-> s.seq + 1]
    BY <1>2, UpdateIs
<1>6. marked \in Core
    BY <1>2, <1>3, <1>5 DEF Core, Store
<1> HIDE DEF marked
<1>7. both = [branch |-> [[s.branch EXCEPT ![source] = done]
                             EXCEPT ![target] = s.branch[target]],
              chain |-> s.chain, graph |-> s.graph, current |-> s.current,
              seq |-> s.seq + 1 + 1]
    BY <1>5, <1>6, UpdateIs
<1>8. [[s.branch EXCEPT ![source] = done] EXCEPT ![target] = s.branch[target]]
         = [s.branch EXCEPT ![source] = rec]
    BY <1>2
<1>9. m = [branch |-> [s.branch EXCEPT ![source] = rec], chain |-> s.chain,
           graph |-> s.graph, current |-> target, seq |-> s.seq + 1 + 1]
    BY <1>7, <1>8
<1>10. rec \in BranchRecord /\ rec.status # "Unknown" /\ rec.snap = s.branch[source].snap
    BY <1>2, <1>3
<1>11. s.seq + 1 + 1 \in Nat /\ s.seq + 1 + 1 >= s.seq /\ target \in Branches \cup {None}
    BY <1>2
<1> HIDE DEF m, rec
<1> QED
    BY <1>1, <1>2, <1>4, <1>9, <1>10, <1>11, OwnChain, OperationSound

\* A record of a branch that gets its snapshot.
LEMMA NamedIs ==
    ASSUME NEW status, NEW resident, NEW old, NEW id
    PROVE  [[status |-> status, resident |-> resident, snap |-> old] EXCEPT !.snap = id]
              = [status |-> status, resident |-> resident, snap |-> id]
<1> DEFINE x == [status |-> status, resident |-> resident, snap |-> old]
           y == [x EXCEPT !.snap = id]
<1>1. x = [status |-> status, resident |-> resident, snap |-> old]
    OBVIOUS
<1>2. y = [x EXCEPT !.snap = id]
    OBVIOUS
<1> HIDE DEF x, y
<1>3. y = [status |-> status, resident |-> resident, snap |-> id]
    BY <1>1, <1>2
<1> QED
    BY <1>3 DEF x, y

\* A new branch takes a snapshot number that nothing has: its snapshot is the
\* graph of that moment, and everybody else's is untouched.
LEMMA SpawnSound ==
    ASSUME NEW s, NEW o, NEW g, Sound(s, o, g),
           NEW b \in Branches, b \notin Known(s), NEW hasParent,
           NEW saved, saved \in {o, With(o, s.seq + 2, s.graph)},
           NEW r \in Spawned(Spawning(s, b), saved, b, hasParent)
    PROVE  LET h == With(g, b, s.graph)
           IN  /\ Sound(r, saved, h) /\ Backed(r, saved)
               /\ Kept(s, o) /\ saved = With(o, s.seq + 2, s.graph) => Kept(r, saved)
               /\ StaysFinished(s, r)
<1> DEFINE h      == With(g, b, s.graph)
           id     == s.seq + 2
           new    == [id |-> id, graph |-> s.graph]
           blank  == [status |-> "Active", resident |-> TRUE, snap |-> NoSnapshot]
           fresh  == [status |-> "Active", resident |-> TRUE, snap |-> id]
           ch     == Appended(s.chain, new)
           a      == Spawning(s, b)
           linked == LET recorded == Update(a, b, [a.branch[b] EXCEPT !.snap = a.seq])
                     IN  IF hasParent THEN [recorded EXCEPT !.seq = @ + 1] ELSE recorded
           n      == IF hasParent THEN id + 1 + 1 ELSE id + 1
           m      == [linked EXCEPT !.current = b]
<1>1. /\ s \in Core /\ s.chain \in Seq(SnapshotRecord) /\ s.seq \in Nat
      /\ s.graph \in Graphs /\ s.branch \in [Branches -> BranchRecord]
      /\ DOMAIN g = Known(s) /\ DOMAIN o \subseteq 1..s.seq
      /\ \A i \in DOMAIN o : o[i] \in Graphs \cup {Torn}
      /\ \A c \in Known(s) : g[c] \in Graphs
    BY DEF Sound, Typed, Core, Store, Numbered
<1>2. r \in Governed(m, saved, b)
    BY DEF Spawned
<1>3. id \in Nat \ {0} /\ n \in Nat /\ n > id /\ id > s.seq
    BY <1>1
<1>4. new \in SnapshotRecord /\ fresh \in BranchRecord
    BY <1>1, <1>3 DEF SnapshotRecord, BranchRecord, Status
<1>5. /\ IsChain(ch)
      /\ \A i \in DOMAIN ch : ch[i] = new \/ \E j \in DOMAIN s.chain : ch[i] = s.chain[j]
    BY <1>1, <1>4, AppendedKeeps
<1>6. a = [branch |-> [s.branch EXCEPT ![b] = blank], chain |-> ch, graph |-> s.graph,
           current |-> s.current, seq |-> id]
  <2> DEFINE branches == [s.branch EXCEPT ![b] = blank]
  <2>1. a = [s EXCEPT !.branch = branches, !.chain = ch, !.seq = id]
      BY DEF Spawning
  <2> HIDE DEF a, branches, ch, id
  <2> QED
      BY <1>1, <2>1 DEF Core, Store, branches
<1>7. [a.branch[b] EXCEPT !.snap = a.seq] = fresh
  <2>1. a.branch[b] = blank /\ a.seq = id
      BY <1>1, <1>6
  <2> HIDE DEF a
  <2>2. [blank EXCEPT !.snap = id] = fresh
      BY NamedIs, Zenon
  <2> HIDE DEF blank, fresh, id
  <2> QED
      BY <2>1, <2>2
<1>8. a \in Core
  <2>1. blank \in BranchRecord
      BY DEF BranchRecord, Status, NoSnapshot
  <2> QED
      BY <1>1, <1>3, <1>5, <1>6, <2>1 DEF Core, Store, IsChain
<1> HIDE DEF a, ch, fresh, new, blank
<1>9. Update(a, b, fresh) = [branch |-> [a.branch EXCEPT ![b] = fresh], chain |-> ch,
                             graph |-> s.graph, current |-> s.current, seq |-> id + 1]
    BY <1>6, <1>8, UpdateIs
<1>10. [a.branch EXCEPT ![b] = fresh] = [s.branch EXCEPT ![b] = fresh]
    BY <1>1, <1>6
<1>11. m = [branch |-> [s.branch EXCEPT ![b] = fresh], chain |-> ch,
            graph |-> s.graph, current |-> b, seq |-> n]
    BY <1>7, <1>9, <1>10
<1> HIDE DEF m, n, id
<1>12. m \in Core /\ m.branch[b] = fresh /\ m.chain = ch /\ m.seq = n
       /\ \A c \in Branches \ {b} : m.branch[c] = s.branch[c]
    BY <1>1, <1>3, <1>4, <1>5, <1>11 DEF Core, Store, IsChain
<1>13. fresh.status = "Active" /\ fresh.snap = id /\ new.id = id /\ new.graph = s.graph
    BY DEF fresh, new
<1>14. Known(m) = Known(s) \cup {b} /\ Known(s) \subseteq Branches \ {b}
    BY <1>12, <1>13 DEF Known
<1>15. /\ DOMAIN h = Known(m) /\ h[b] = s.graph
       /\ \A c \in Known(s) : h[c] = g[c]
  <2>1. /\ DOMAIN h = DOMAIN g \cup {b} /\ h[b] = s.graph
        /\ \A c \in DOMAIN g : c # b => h[c] = g[c]
      BY DEF With
  <2> HIDE DEF h
  <2> QED
      BY <1>1, <1>14, <2>1
<1>16. /\ DOMAIN saved \subseteq DOMAIN o \cup {id}
       /\ DOMAIN o \subseteq DOMAIN saved
       /\ \A i \in DOMAIN o : saved[i] = o[i]
       /\ id \in DOMAIN saved => saved[id] = s.graph
       /\ saved = With(o, id, s.graph) => id \in DOMAIN saved
  <2>1. id \notin DOMAIN o
      BY <1>1, <1>3
  <2> DEFINE longer == With(o, id, s.graph)
  <2>2. saved = o \/ saved = longer
      BY DEF id
  <2>3. /\ DOMAIN longer = DOMAIN o \cup {id} /\ longer[id] = s.graph
        /\ \A i \in DOMAIN o : i # id => longer[i] = o[i]
      BY DEF With
  <2> HIDE DEF longer
  <2>4. CASE saved = o
      BY <2>1, <2>3, <2>4 DEF longer
  <2>5. CASE saved = longer
      BY <2>1, <2>3, <2>5 DEF longer
  <2> QED
      BY <2>2, <2>4, <2>5 DEF longer
<1> HIDE DEF h
<1>17. Typed(m, saved, h)
    BY <1>1, <1>5, <1>12, <1>14, <1>15, <1>16 DEF Typed
<1>18. \A i \in DOMAIN s.chain : s.chain[i].id \in Nat /\ s.chain[i].id <= s.seq
    BY <1>1, ChainElements DEF Sound, Numbered
<1>19. Numbered(m, saved)
  <2>1. \A i \in DOMAIN ch : ch[i].id <= n
      BY <1>1, <1>3, <1>5, <1>13, <1>18
  <2>2. DOMAIN saved \subseteq 1..n
      BY <1>1, <1>3, <1>16
  <2> QED
      BY <1>12, <2>1, <2>2 DEF Numbered
<1>20. SnapshotsTrue(m, saved, h)
  <2> SUFFICES ASSUME NEW c \in Known(m), m.branch[c].snap # NoSnapshot
               PROVE  SnapshotTrue(m, saved, h, c)
      BY DEF SnapshotsTrue
  <2>1. CASE c = b
      BY <1>1, <1>3, <1>5, <1>12, <1>13, <1>15, <1>16, <1>18, <2>1 DEF SnapshotTrue
  <2>2. CASE c # b
    <3>1. c \in Known(s) /\ m.branch[c] = s.branch[c] /\ s.branch[c].snap \in Nat
        BY <1>1, <1>12, <1>14, <2>2 DEF BranchRecord
    <3>2. SnapshotTrue(s, o, g, c)
        BY <3>1 DEF Sound, SnapshotsTrue
    <3>3. s.branch[c].snap # id /\ s.branch[c].snap <= n
        BY <1>1, <1>3, <3>1, <3>2 DEF SnapshotTrue
    <3> QED
        BY <1>1, <1>5, <1>12, <1>13, <1>15, <1>16, <3>1, <3>2, <3>3 DEF SnapshotTrue
  <2> QED
      BY <2>1, <2>2
<1>21. Sound(m, saved, h)
    BY <1>17, <1>19, <1>20 DEF Sound
<1>22. Sound(r, saved, h) /\ Backed(r, saved) /\ (Kept(m, saved) => Kept(r, saved))
    BY <1>2, <1>21, GovernedSound
<1>23. Kept(s, o) /\ saved = With(o, id, s.graph) => Kept(m, saved)
    BY <1>3, <1>12, <1>13, <1>14, <1>16 DEF Kept, NoSnapshot
<1>24. StaysFinished(s, r)
  <2>1. \A c \in Branches : StatusGoes(m.branch[c].status, r.branch[c].status)
      BY <1>2, <1>12, GovernedIs
  <2> QED
      BY <1>12, <1>14, <2>1 DEF StaysFinished, StatusGoes, Finished, Running
<1> QED
    BY <1>22, <1>23, <1>24 DEF h, id
-----------------------------------------------------------------------------
(* The invariant and the theorems.                                         *)

IInv ==
    /\ persistent \in BOOLEAN
    /\ Sound(k, objects, origin)
    /\ Backed(k, objects)
    /\ persistent => Kept(k, objects)
    /\ ~persistent => objects = <<>>

LEMMA InitSound == Init => IInv
<1> SUFFICES ASSUME Init
             PROVE  IInv
    OBVIOUS
<1>1. /\ k.branch = [b \in Branches |-> NoBranch] /\ k.chain = <<>>
      /\ k.graph \in Graphs /\ k.current = None /\ k.seq = 0
      /\ k \in [branch : {[b \in Branches |-> NoBranch]}, chain : {<<>>},
                graph : Graphs, current : {None}, seq : {0}]
    BY DEF Init
<1>2. NoBranch \in BranchRecord /\ NoBranch.status = "Unknown"
    BY DEF NoBranch, BranchRecord, Status, NoSnapshot
<1>3. /\ k.branch \in [Branches -> BranchRecord]
      /\ \A b \in Branches : k.branch[b] = NoBranch
    BY <1>1, <1>2
<1>4. Known(k) = {}
    BY <1>2, <1>3 DEF Known
<1>5. <<>> \in Seq(SnapshotRecord) /\ Len(<<>>) = 0 /\ DOMAIN <<>> = {}
    OBVIOUS
<1>6. k \in Core
  <2>1. k = [branch |-> k.branch, chain |-> k.chain, graph |-> k.graph,
             current |-> k.current, seq |-> k.seq]
      BY <1>1
  <2>2. k.chain \in Seq(SnapshotRecord) /\ k.current \in Branches \cup {None} /\ k.seq \in Nat
      BY <1>1, <1>5
  <2> QED
      BY <1>1, <1>3, <2>1, <2>2, Zenon DEF Core, Store
<1>7. IsChain(k.chain)
    BY <1>1, <1>5, BranchAssumption DEF IsChain
<1>8. objects = <<>> /\ origin = <<>> /\ persistent \in BOOLEAN
    BY DEF Init
<1>9. Typed(k, objects, origin)
    BY <1>4, <1>5, <1>6, <1>7, <1>8 DEF Typed
<1>10. Numbered(k, objects)
    BY <1>1, <1>5, <1>8 DEF Numbered
<1> QED
    BY <1>4, <1>8, <1>9, <1>10 DEF IInv, Sound, SnapshotsTrue, Backed, Kept

\* The steps that are operations on branches in the store.
LEMMA OutcomeStep ==
    ASSUME IInv, Outcome(k, k', objects, origin), UNCHANGED <<persistent, objects, origin>>
    PROVE  IInv' /\ StaysFinished(k, k')
BY DEF IInv, Outcome

LEMMA SpawnStep ==
    ASSUME IInv, NEW b \in Branches, NEW hasParent \in BOOLEAN, Spawn(b, hasParent)
    PROVE  IInv' /\ StaysFinished(k, k')
<1> DEFINE saved == IF persistent THEN With(objects, k.seq + 2, k.graph) ELSE objects
<1>1. /\ b \notin Known(k) /\ persistent' = persistent
      /\ k' \in Spawned(Spawning(k, b), saved, b, hasParent)
      /\ objects' = saved /\ origin' = With(origin, b, k.graph)
    BY DEF Spawn
<1>2. saved \in {objects, With(objects, k.seq + 2, k.graph)} /\ Sound(k, objects, origin)
    BY DEF IInv
<1>3. /\ persistent => saved = With(objects, k.seq + 2, k.graph)
      /\ ~persistent => saved = objects
    OBVIOUS
<1> HIDE DEF saved
<1>4. /\ Sound(k', saved, With(origin, b, k.graph)) /\ Backed(k', saved)
      /\ Kept(k, objects) /\ saved = With(objects, k.seq + 2, k.graph) => Kept(k', saved)
      /\ StaysFinished(k, k')
    BY <1>1, <1>2, SpawnSound
<1> QED
    BY <1>1, <1>3, <1>4 DEF IInv

\* A failed spawn leaves a file whose number nobody has.
LEMMA SpawnFailsStep ==
    ASSUME IInv, SpawnFails
    PROVE  IInv' /\ StaysFinished(k, k')
<1> DEFINE id == k.seq + 2
<1>1. k' = [k EXCEPT !.seq = id] /\ persistent /\ UNCHANGED <<persistent, origin>>
    BY DEF SpawnFails, SpawnUndone
<1>2. /\ k \in Core /\ k.seq \in Nat /\ DOMAIN objects \subseteq 1..k.seq
      /\ \A i \in DOMAIN objects : objects[i] \in Graphs \cup {Torn}
      /\ k.graph \in Graphs /\ Kept(k, objects) /\ Backed(k, objects)
    BY <1>1 DEF IInv, Sound, Typed, Numbered, Core, Store
<1>3. /\ DOMAIN objects \subseteq DOMAIN objects'
      /\ DOMAIN objects' \subseteq DOMAIN objects \cup {id}
      /\ \A i \in DOMAIN objects : objects'[i] = objects[i]
      /\ \A i \in DOMAIN objects' : objects'[i] \in Graphs \cup {Torn}
  <2>1. CASE UNCHANGED objects
      BY <1>2, <2>1
  <2>2. ASSUME NEW left \in {k.graph, Torn}, objects' = With(objects, id, left)
        PROVE  /\ DOMAIN objects \subseteq DOMAIN objects'
               /\ DOMAIN objects' \subseteq DOMAIN objects \cup {id}
               /\ \A i \in DOMAIN objects : objects'[i] = objects[i]
               /\ \A i \in DOMAIN objects' : objects'[i] \in Graphs \cup {Torn}
      BY <1>2, <2>2 DEF With
  <2>3. UNCHANGED objects \/ \E left \in {k.graph, Torn} : objects' = With(objects, id, left)
      BY DEF SpawnFails
  <2> QED
      BY <2>1, <2>2, <2>3
<1>4. /\ k'.branch = k.branch /\ k'.chain = k.chain /\ k'.seq = id /\ k' \in Core
      /\ id \in Nat /\ id > k.seq
    BY <1>1, <1>2 DEF Core, Store
<1>5. Known(k') = Known(k) /\ id \notin DOMAIN objects
    BY <1>2, <1>4 DEF Known
<1> HIDE DEF id
<1>6. Typed(k', objects', origin')
    BY <1>1, <1>3, <1>4, <1>5 DEF IInv, Sound, Typed
<1>7. \A i \in DOMAIN k.chain : k.chain[i].id \in Nat /\ k.chain[i].id <= k.seq
    BY <1>2, ChainElements DEF IInv, Sound, Numbered, Core, Store
<1>8. Numbered(k', objects')
    BY <1>2, <1>3, <1>4, <1>7 DEF Numbered
<1>9. SnapshotsTrue(k', objects', origin')
  <2> SUFFICES ASSUME NEW b \in Known(k), k.branch[b].snap # NoSnapshot
               PROVE  SnapshotTrue(k', objects', origin', b)
      BY <1>4, <1>5 DEF SnapshotsTrue
  <2>1. SnapshotTrue(k, objects, origin, b) /\ k.branch[b].snap \in Nat
      BY <1>2 DEF IInv, Sound, SnapshotsTrue, Known, Core, Store, BranchRecord
  <2> QED
      BY <1>1, <1>2, <1>3, <1>4, <2>1 DEF SnapshotTrue
<1>10. Backed(k', objects') /\ Kept(k', objects')
    BY <1>2, <1>3, <1>4, <1>5 DEF Backed, Kept, HasReference
<1>11. StaysFinished(k, k')
    BY <1>4 DEF StaysFinished, Finished, Running
<1> QED
    BY <1>1, <1>6, <1>8, <1>9, <1>10, <1>11 DEF IInv, Sound

LEMMA EditStep ==
    ASSUME IInv, EditGraph
    PROVE  IInv' /\ StaysFinished(k, k')
<1>1. PICK gr \in Graphs : k' = [k EXCEPT !.graph = gr]
    BY DEF EditGraph
<1>2. k \in Core /\ UNCHANGED <<persistent, objects, origin>>
    BY DEF IInv, Sound, Typed, EditGraph
<1>3. /\ k'.branch = k.branch /\ k'.chain = k.chain /\ k'.seq = k.seq /\ k' \in Core
    BY <1>1, <1>2 DEF Core, Store
<1>4. Known(k') = Known(k)
    BY <1>3 DEF Known
<1>5. Sound(k', objects', origin')
    BY <1>2, <1>3, <1>4 DEF IInv, Sound, Typed, Numbered, SnapshotsTrue, SnapshotTrue
<1>6. Backed(k', objects') /\ (Kept(k, objects) => Kept(k', objects'))
    BY <1>2, <1>3, <1>4 DEF IInv, Backed, Kept, HasReference
<1> QED
    BY <1>2, <1>3, <1>5, <1>6 DEF IInv, StaysFinished, Finished, Running

\* Every step keeps the invariant and revives nobody.
LEMMA StepSound ==
    IInv /\ [Next]_vars => IInv' /\ StaysFinished(k, k')
<1> SUFFICES ASSUME IInv, [Next]_vars
             PROVE  IInv' /\ StaysFinished(k, k')
    OBVIOUS
<1>1. Sound(k, objects, origin)
    BY DEF IInv
<1>2. ASSUME NEW b \in Branches, NEW hasParent \in BOOLEAN, Spawn(b, hasParent)
      PROVE  IInv' /\ StaysFinished(k, k')
    BY <1>2, SpawnStep
<1>3. CASE SpawnFails
    BY <1>3, SpawnFailsStep
<1>4. ASSUME NEW b \in Branches, Suspend(b)
      PROVE  IInv' /\ StaysFinished(k, k')
    BY <1>1, <1>4, SuspendSound, OutcomeStep DEF Suspend
<1>5. ASSUME NEW b \in Branches, Resume(b)
      PROVE  IInv' /\ StaysFinished(k, k')
    BY <1>1, <1>5, ResumeSound, OutcomeStep DEF Resume
<1>6. ASSUME NEW b \in Branches, Archive(b)
      PROVE  IInv' /\ StaysFinished(k, k')
    BY <1>1, <1>6, ArchiveSound, OutcomeStep DEF Archive
<1>7. ASSUME NEW b \in Branches, Rollback(b)
      PROVE  IInv' /\ StaysFinished(k, k')
    BY <1>1, <1>7, RollbackSound, OutcomeStep DEF Rollback
<1>8. ASSUME NEW source \in Branches, NEW target \in Branches, Merge(source, target)
      PROVE  IInv' /\ StaysFinished(k, k')
    BY <1>1, <1>8, MergeSound, OutcomeStep DEF Merge
<1>9. CASE EditGraph
    BY <1>9, EditStep
<1>10. CASE UNCHANGED vars
    BY <1>10 DEF vars, IInv, StaysFinished, Finished, Running
<1> QED
    BY <1>2, <1>3, <1>4, <1>5, <1>6, <1>7, <1>8, <1>9, <1>10 DEF Next

\* The invariant holds in every reachable state, for any branches, caps and
\* graphs.
THEOREM Invariant == Spec => []IInv
BY InitSound, StepSound, PTL DEF Spec

\* The store, the chain and the files stay what they are said to be.
THEOREM TypeCorrect == Spec => []TypeOK
<1>1. IInv => TypeOK
  <2> SUFFICES ASSUME IInv
               PROVE  TypeOK
      OBVIOUS
  <2>1. /\ k \in Core /\ IsChain(k.chain) /\ DOMAIN objects \subseteq 1..k.seq
        /\ \A id \in DOMAIN objects : objects[id] \in Graphs \cup {Torn}
        /\ DOMAIN origin = Known(k) /\ \A b \in DOMAIN origin : origin[b] \in Graphs
      BY DEF IInv, Sound, Typed, Numbered
  <2>2. /\ k.branch \in [Branches -> BranchRecord] /\ k.graph \in Graphs
        /\ k.current \in Branches \cup {None} /\ k.seq \in Nat
      BY <2>1 DEF Core, Store
  <2> QED
      BY <2>1, <2>2 DEF TypeOK, IInv, IsChain
<1> QED
    BY <1>1, Invariant, PTL

\* Whatever the retention cap, the rollbacks and the failed writes did, the
\* snapshot a branch names can be loaded (runMemoryGovernance).
THEOREM SnapshotsCanBeLoaded == Spec => []NoDanglingSnapshot
<1>1. IInv => NoDanglingSnapshot
  <2> SUFFICES ASSUME IInv, NEW b \in Known(k), k.branch[b].snap # NoSnapshot
               PROVE  Loadable(k, objects, k.branch[b].snap)
      BY DEF NoDanglingSnapshot
  <2>1. HasReference(k, objects, k.branch[b].snap)
      BY DEF IInv, Backed
  <2>2. SnapshotTrue(k, objects, origin, b) /\ origin[b] \in Graphs
      BY DEF IInv, Sound, SnapshotsTrue, Typed
  <2> QED
      BY <2>1, <2>2, BranchAssumption DEF HasReference, Loadable, SnapshotTrue
<1> QED
    BY <1>1, Invariant, PTL

\* On a disk no branch loses its snapshot.
THEOREM SnapshotsAreKept == Spec => []PersistenceKeepsSnapshots
<1>1. IInv => PersistenceKeepsSnapshots
    BY DEF IInv, Kept, PersistenceKeepsSnapshots
<1> QED
    BY <1>1, Invariant, PTL

\* A rollback restores the graph the branch was spawned on.
THEOREM RollbackRestores == Spec => RollbackRestoresOrigin
<1>1. IInv /\ [Next]_vars => [\A b \in Branches : Rollback(b) => k'.graph = origin[b]]_vars
  <2> SUFFICES ASSUME IInv, NEW b \in Branches, Rollback(b)
               PROVE  k'.graph = origin[b]
      OBVIOUS
  <2> QED
      BY RollbackSound DEF IInv, Rollback
<1> QED
    BY <1>1, Invariant, PTL DEF Spec, RollbackRestoresOrigin

\* A merged or rolled-back branch never runs again.
THEOREM FinishedForGood == Spec => FinishedStaysFinished
<1>1. IInv /\ [Next]_vars =>
        [\A b \in Known(k) :
            k.branch[b].status \in {"Merged", "RolledBack"}
                => k'.branch[b].status \notin {"Active", "Suspended"}]_vars
    BY StepSound DEF StaysFinished, Finished, Running
<1> QED
    BY <1>1, Invariant, PTL DEF Spec, FinishedStaysFinished
-----------------------------------------------------------------------------
(* Branch commands (BranchSessions).  The same operations, of a store that *)
(* was loaded: what its chain holds does not matter, because every branch  *)
(* on disk has an object file.                                             *)

\* The snapshot a branch names after an operation that wanted it to name id:
\* the governance leaves a name alone that has a file.
NameKept(r, b, id, o) == id \in DOMAIN o => r.branch[b].snap = id

\* spawn up to the snapshot: a branch without a name, and the next number but one.
LEMMA SpawningIs ==
    ASSUME NEW Chains, NEW s \in Store(Chains), NEW b \in Branches
    PROVE  /\ Spawning(s, b) \in Store({Spawning(s, b).chain})
           /\ Spawning(s, b).graph = s.graph
           /\ Spawning(s, b).seq = s.seq + 2
           /\ Spawning(s, b).branch[b].status = "Active"
           /\ \A c \in Branches \ {b} : Spawning(s, b).branch[c] = s.branch[c]
<1> DEFINE a        == Spawning(s, b)
           blank    == [status |-> "Active", resident |-> TRUE, snap |-> NoSnapshot]
           branches == [s.branch EXCEPT ![b] = blank]
           ch       == Appended(s.chain, [id |-> s.seq + 2, graph |-> s.graph])
<1>1. a = [s EXCEPT !.branch = branches, !.chain = ch, !.seq = s.seq + 2]
    BY DEF Spawning
<1>2. blank \in BranchRecord /\ blank.status = "Active"
    BY DEF BranchRecord, Status, NoSnapshot
<1>3. s.branch \in [Branches -> BranchRecord]
    BY DEF Store
<1> HIDE DEF a, blank, ch
<1>4. /\ branches \in [Branches -> BranchRecord] /\ branches[b] = blank
      /\ \A c \in Branches \ {b} : branches[c] = s.branch[c]
    BY <1>2, <1>3
<1> HIDE DEF branches
<1>5. a = [branch |-> branches, chain |-> ch, graph |-> s.graph,
           current |-> s.current, seq |-> s.seq + 2]
    BY <1>1 DEF Store
<1>6. a \in Store({a.chain})
    BY <1>4, <1>5 DEF Store
<1> QED
    BY <1>2, <1>4, <1>5, <1>6 DEF a

\* The rest of spawn: the new branch names its snapshot.
LEMMA SpawnedIs ==
    ASSUME NEW Chains, NEW s \in Store(Chains), NEW b \in Branches, NEW o, NEW hasParent,
           NEW r \in Spawned(s, o, b, hasParent)
    PROVE  /\ r \in Store(Chains) /\ r.seq >= s.seq
           /\ \A c \in Branches :
                /\ StatusGoes(s.branch[c].status, r.branch[c].status)
                /\ NameKept(r, c, IF c = b THEN s.seq ELSE s.branch[c].snap, o)
<1> DEFINE rec    == [s.branch[b] EXCEPT !.snap = s.seq]
           linked == LET recorded == Update(s, b, rec)
                     IN  IF hasParent THEN [recorded EXCEPT !.seq = @ + 1] ELSE recorded
           n      == IF hasParent THEN s.seq + 1 + 1 ELSE s.seq + 1
           m      == [linked EXCEPT !.current = b]
           names(c) == IF c = b THEN s.seq ELSE s.branch[c].snap
<1>1. /\ s.branch \in [Branches -> BranchRecord] /\ s.seq \in Nat /\ s.graph \in Graphs
      /\ s.chain \in Chains
    BY DEF Store
<1>2. r \in Governed(m, o, b)
    BY DEF Spawned
<1>3. rec \in BranchRecord /\ rec.status = s.branch[b].status /\ rec.snap = s.seq
    BY <1>1 DEF BranchRecord
<1> HIDE DEF rec
<1>4. Update(s, b, rec) = [branch |-> [s.branch EXCEPT ![b] = rec], chain |-> s.chain,
                           graph |-> s.graph, current |-> s.current, seq |-> s.seq + 1]
    BY UpdateIsAny
<1>5. m = [branch |-> [s.branch EXCEPT ![b] = rec], chain |-> s.chain,
           graph |-> s.graph, current |-> b, seq |-> n]
    BY <1>4
<1>6. n \in Nat /\ n >= s.seq
    BY <1>1
<1> HIDE DEF m, n
<1>7. /\ m \in Store(Chains) /\ m.seq = n
      /\ \A c \in Branches : /\ m.branch[c].status = s.branch[c].status
                             /\ m.branch[c].snap = names(c)
    BY <1>1, <1>3, <1>5, <1>6 DEF Store
<1>8. /\ r \in Store(Chains) /\ SameSnapshots(m, r)
      /\ \A c \in Branches :
           /\ StatusGoes(m.branch[c].status, r.branch[c].status)
           /\ \/ r.branch[c].snap = m.branch[c].snap
              \/ ~HasReference(m, o, m.branch[c].snap)
    BY <1>2, <1>7, GovernedIsAny
<1>9. r.seq >= s.seq
    BY <1>1, <1>6, <1>7, <1>8 DEF SameSnapshots, Store
<1>10. \A c \in Branches : NameKept(r, c, names(c), o)
    BY <1>7, <1>8 DEF NameKept, HasReference
<1> QED
    BY <1>7, <1>8, <1>9, <1>10

\* merge: the source is merged, and every branch names what it named.
LEMMA MergedIs ==
    ASSUME NEW Chains, NEW s \in Store(Chains), NEW o,
           NEW source \in Branches, NEW target \in Branches, source # target,
           NEW r \in Merged(s, o, source, target)
    PROVE  /\ r \in Store(Chains) /\ r.seq >= s.seq
           /\ r.branch[source].status = "Merged"
           /\ \A c \in Branches :
                /\ c # source => StatusGoes(s.branch[c].status, r.branch[c].status)
                /\ NameKept(r, c, s.branch[c].snap, o)
<1> DEFINE done   == [s.branch[source] EXCEPT !.status = "Merged"]
           marked == Update(s, source, done)
           both   == Update(marked, target, s.branch[target])
           m      == [both EXCEPT !.current = target]
<1>1. /\ s.branch \in [Branches -> BranchRecord] /\ s.seq \in Nat /\ s.graph \in Graphs
      /\ s.chain \in Chains /\ s.current \in Branches \cup {None}
    BY DEF Store
<1>2. done \in BranchRecord /\ done.status = "Merged" /\ done.snap = s.branch[source].snap
    BY <1>1, RecordIs DEF Status
<1>3. r \in Governed(m, o, target)
    BY DEF Merged
<1> HIDE DEF done
<1>4. marked = [branch |-> [s.branch EXCEPT ![source] = done], chain |-> s.chain,
                graph |-> s.graph, current |-> s.current, seq |-> s.seq + 1]
    BY UpdateIsAny
<1>5. marked \in Store(Chains)
    BY <1>1, <1>2, <1>4 DEF Store
<1> HIDE DEF marked
<1>6. both = [branch |-> [marked.branch EXCEPT ![target] = s.branch[target]],
              chain |-> marked.chain, graph |-> marked.graph, current |-> marked.current,
              seq |-> marked.seq + 1]
    BY <1>5, UpdateIsAny
<1>7. [[s.branch EXCEPT ![source] = done] EXCEPT ![target] = s.branch[target]]
         = [s.branch EXCEPT ![source] = done]
    BY <1>1
<1>8. m = [branch |-> [s.branch EXCEPT ![source] = done], chain |-> s.chain,
           graph |-> s.graph, current |-> target, seq |-> s.seq + 1 + 1]
    BY <1>4, <1>6, <1>7
<1> HIDE DEF both, m
<1>9. /\ m \in Store(Chains) /\ m.seq = s.seq + 1 + 1
      /\ \A c \in Branches : /\ m.branch[c].snap = s.branch[c].snap
                             /\ m.branch[c].status =
                                   IF c = source THEN "Merged" ELSE s.branch[c].status
    BY <1>1, <1>2, <1>8 DEF Store
<1>10. /\ r \in Store(Chains) /\ SameSnapshots(m, r)
       /\ \A c \in Branches :
            /\ StatusGoes(m.branch[c].status, r.branch[c].status)
            /\ \/ r.branch[c].snap = m.branch[c].snap
               \/ ~HasReference(m, o, m.branch[c].snap)
    BY <1>3, <1>9, GovernedIsAny
<1>11. r.seq >= s.seq
    BY <1>1, <1>9, <1>10 DEF SameSnapshots, Store
<1>12. /\ r.branch[source].status = "Merged"
       /\ \A c \in Branches :
             /\ c # source => StatusGoes(s.branch[c].status, r.branch[c].status)
             /\ NameKept(r, c, s.branch[c].snap, o)
    BY <1>9, <1>10 DEF NameKept, HasReference, StatusGoes
<1> QED
    BY <1>10, <1>11, <1>12
-----------------------------------------------------------------------------
(* The invariant of the commands.  Without knowing whether sessions        *)
(* overlap: a branch file, in place or aside, names a snapshot that has an *)
(* object file, and so does every branch a session has in memory but the   *)
(* one it is creating (FilesNamed, AsideNamed, WorkNamed), and a file that *)
(* was never mixed is renamed with what its session wrote (OpenSafe).      *)
(* When they do not: that object is the graph of the branch (FilesTrue,    *)
(* WorkTrue), because the number a session gives to its snapshot is above  *)
(* what the metadata on disk says, and the metadata is never below what a  *)
(* branch file names.                                                      *)

Busy(s)   == pc[s] # "idle"
Spawns(s) == pc[s] \in {"object", "objectOpen", "chain", "chainOpen"}

\* The branches in the memory of a session that name their snapshot.
Named(s) == {b \in Known(work[s]) : Spawns(s) => b # job[s]}

SessionTyped(s) == Busy(s) => work[s] \in Store({work[s].chain}) /\ job[s] \in Branches

AsideTyped == /\ DOMAIN aside \subseteq Names
              /\ Metadata \in DOMAIN aside => aside[Metadata] \in Nat
              /\ \A b \in Branches : b \in DOMAIN aside => aside[b] \in BranchRecord

SessionTypes ==
    /\ metaSeq \in Nat
    /\ files \in [Branches -> BranchRecord]
    /\ AsideTyped
    /\ spawnedOn \in [Branches -> Graphs \cup {None}]
    /\ pc \in [Sessions -> Steps]
    /\ work = [s \in Sessions |-> work[s]]
    /\ job = [s \in Sessions |-> job[s]]
    /\ unsaved = [s \in Sessions |-> unsaved[s]]
    /\ begun \in Nat
    /\ open \in [Sessions -> Names \cup {None}]
    /\ place \in [Sessions -> {"aside", "inPlace", "lost"}]
    /\ written \in [Sessions -> BOOLEAN]
    /\ \A s \in Sessions : SessionTyped(s)
    /\ created \subseteq Branches /\ committed \subseteq Branches
    /\ mixed \subseteq Names

FilesNamed == \A b \in OnDisk : files[b].snap \in DOMAIN objectFiles \ {NoSnapshot}

AsideNamed ==
    \A b \in Branches : b \in DOMAIN aside /\ aside[b].status # "Unknown"
                           => aside[b].snap \in DOMAIN objectFiles \ {NoSnapshot}

WorkNamed(s) == Busy(s) =>
    /\ job[s] \in Known(work[s])
    /\ \A b \in Named(s) : work[s].branch[b].snap \in DOMAIN objectFiles \ {NoSnapshot}
    /\ Spawns(s) => work[s].seq # NoSnapshot
    /\ pc[s] \in {"chain", "chainOpen"} => work[s].seq \in DOMAIN objectFiles
    /\ pc[s] = "files" => /\ unsaved[s] \subseteq Known(work[s])
                          /\ (Known(work[s]) \ unsaved[s]) \ mixed \subseteq OnDisk

\* A file that a session has open is one it has to save, and no other session
\* has it open and what was written is in it, unless the file was mixed.
OpenSafe(s) == open[s] # None =>
    /\ ToSave(s, open[s])
    /\ open[s] \notin mixed =>
         /\ place[s] = "aside" /\ open[s] \in DOMAIN aside
         /\ written[s] => aside[open[s]] = Content(s, open[s])
         /\ \A t \in Sessions \ {s} : open[t] # open[s]

Alone == /\ \A s, t \in Sessions : Busy(s) /\ Busy(t) => s = t
         /\ mixed = {}

FilesTrue ==
    /\ \A b \in OnDisk : objectFiles[files[b].snap] = spawnedOn[b] /\ files[b].snap <= metaSeq
    /\ \A b \in committed : files[b].status = "Merged"

WorkTrue(s) == Busy(s) =>
    /\ \A b \in Named(s) :
          /\ objectFiles[work[s].branch[b].snap] = spawnedOn[b]
          /\ work[s].branch[b].snap <= IF Spawns(s) THEN metaSeq ELSE work[s].seq
    /\ Spawns(s) => work[s].seq > metaSeq /\ work[s].graph = spawnedOn[job[s]]
    /\ pc[s] \in {"chain", "chainOpen"} => objectFiles[work[s].seq] = work[s].graph
    /\ pc[s] = "meta" => work[s].seq >= metaSeq
    /\ pc[s] = "files" => /\ work[s].seq = metaSeq
                          /\ \A b \in Known(work[s]) \ unsaved[s] :
                                files[b] = work[s].branch[b]
    /\ \A b \in committed : work[s].branch[b].status = "Merged"

CommandInv ==
    /\ SessionTypes
    /\ FilesNamed /\ AsideNamed
    /\ \A s \in Sessions : WorkNamed(s) /\ OpenSafe(s)
    /\ created \ mixed \subseteq OnDisk
    /\ exclusive => Alone /\ FilesTrue /\ \A s \in Sessions : WorkTrue(s)

LEMMA CommandInit == SessionsInit => CommandInv
<1> SUFFICES ASSUME SessionsInit PROVE CommandInv
    OBVIOUS
<1>1. \A b \in Branches : files[b] = NoBranch
    BY DEF SessionsInit, NoBranch, NoSnapshot
<1>2. \A s \in Sessions : ~Busy(s)
    BY DEF SessionsInit, Busy
<1>3. OnDisk = {}
    BY <1>1 DEF OnDisk, NoBranch
<1>4. NoBranch \in BranchRecord
    BY DEF NoBranch, NoSnapshot, BranchRecord, Status
<1>5. files \in [Branches -> BranchRecord]
    BY <1>1, <1>4 DEF SessionsInit
<1>6. SessionTypes
  <2>1. AsideTyped
      BY DEF SessionsInit, AsideTyped
  <2> QED
      BY <1>2, <1>5, <2>1 DEF SessionsInit, SessionTypes, SessionTyped, Steps
<1>7. /\ FilesNamed /\ AsideNamed /\ created \ mixed \subseteq OnDisk
      /\ \A s \in Sessions : WorkNamed(s) /\ OpenSafe(s)
    BY <1>2, <1>3 DEF SessionsInit, FilesNamed, AsideNamed, WorkNamed, OpenSafe
<1>8. Alone /\ FilesTrue /\ \A s \in Sessions : WorkTrue(s)
    BY <1>2, <1>3 DEF SessionsInit, Alone, FilesTrue, WorkTrue
<1> QED
    BY <1>6, <1>7, <1>8 DEF CommandInv

\* A step of session s: the others have still what they had, and need no more
\* than that object files and branch files that are not mixed are still there.
LEMMA SessionStep ==
    ASSUME CommandInv, NEW s \in Sessions, exclusive' = exclusive, SessionTypes',
           \A t \in Sessions \ {s} : /\ pc'[t] = pc[t] /\ work'[t] = work[t]
                                     /\ job'[t] = job[t] /\ unsaved'[t] = unsaved[t],
           DOMAIN objectFiles \subseteq DOMAIN objectFiles',
           mixed \subseteq mixed', OnDisk \ mixed' \subseteq OnDisk',
           FilesNamed', AsideNamed', WorkNamed(s)', created' \ mixed' \subseteq OnDisk',
           \A t \in Sessions : OpenSafe(t)',
           exclusive => \A t \in Sessions \ {s} : ~Busy(t),
           exclusive => mixed' = {} /\ FilesTrue' /\ WorkTrue(s)'
    PROVE  CommandInv'
<1>1. ASSUME NEW t \in Sessions, t # s
      PROVE  WorkNamed(t)' /\ (exclusive => ~Busy(t)')
  <2>1. /\ pc'[t] = pc[t] /\ work'[t] = work[t]
        /\ job'[t] = job[t] /\ unsaved'[t] = unsaved[t]
      BY <1>1
  <2>2. WorkNamed(t)
      BY DEF CommandInv
  <2>3. Known(work'[t]) = Known(work[t])
      BY <2>1
  <2>4. \A b \in Branches : b \in OnDisk \ mixed' => b \in OnDisk'
      OBVIOUS
  <2>5. WorkNamed(t)'
      BY <2>1, <2>2, <2>3, <2>4 DEF WorkNamed, Busy, Spawns, Named
  <2> QED
      BY <1>1, <2>1, <2>5 DEF Busy
<1>2. \A t \in Sessions : WorkNamed(t)'
    BY <1>1
<1>3. exclusive => Alone' /\ \A t \in Sessions : WorkTrue(t)'
    BY <1>1 DEF Alone, WorkTrue
<1> QED
    BY <1>2, <1>3 DEF CommandInv

\* A step of a session that has no file open, and opens none.
LEMMA OpenKept ==
    ASSUME CommandInv, NEW s \in Sessions, pc[s] \notin {"meta", "files"},
           UNCHANGED <<aside, open, place, written, mixed>>,
           \A t \in Sessions \ {s} : /\ pc'[t] = pc[t] /\ work'[t] = work[t]
                                     /\ job'[t] = job[t] /\ unsaved'[t] = unsaved[t]
    PROVE  \A t \in Sessions : OpenSafe(t)'
<1>1. open[s] = None
    BY DEF CommandInv, OpenSafe, ToSave
<1>2. ASSUME NEW t \in Sessions, t # s
      PROVE  OpenSafe(t)'
  <2>1. /\ pc'[t] = pc[t] /\ work'[t] = work[t] /\ unsaved'[t] = unsaved[t]
        /\ OpenSafe(t)
      BY <1>2 DEF CommandInv
  <2>2. \A n : ToSave(t, n)' = ToSave(t, n) /\ Content(t, n)' = Content(t, n)
      BY <2>1 DEF ToSave, Content
  <2> QED
      BY <2>1, <2>2 DEF OpenSafe
<1>3. OpenSafe(s)'
    BY <1>1 DEF OpenSafe
<1> QED
    BY <1>2, <1>3

\* A busy session is alone, when sessions do not overlap.
LEMMA BusyAlone ==
    ASSUME CommandInv, NEW s \in Sessions, Busy(s)
    PROVE  exclusive => \A t \in Sessions \ {s} : ~Busy(t)
BY DEF CommandInv, Alone

\* What a session has that loads the branches.
LEMMA LoadedStateIs ==
    ASSUME SessionTypes, NEW g \in Graphs
    PROVE  /\ LoadedState(g) \in Store({LoadedState(g).chain})
           /\ LoadedState(g).graph = g
           /\ LoadedState(g).seq = metaSeq
           /\ Known(LoadedState(g)) = OnDisk
           /\ \A b \in Branches :
                /\ LoadedState(g).branch[b].status = files[b].status
                /\ LoadedState(g).branch[b].snap = files[b].snap
<1> DEFINE x  == LoadedState(g)
           br == LoadedBranches
           ch == LoadedChain
<1>1. x = [branch |-> br, chain |-> ch, graph |-> g, current |-> None, seq |-> metaSeq]
    BY DEF LoadedState
<1>2. /\ br \in [Branches -> BranchRecord]
      /\ \A b \in Branches : br[b].status = files[b].status /\ br[b].snap = files[b].snap
    BY DEF LoadedBranches, SessionTypes, BranchRecord
<1> HIDE DEF x, br, ch
<1>3. x \in Store({x.chain}) /\ x.graph = g /\ x.seq = metaSeq /\ x.branch = br
    BY <1>1, <1>2 DEF Store, SessionTypes
<1>4. Known(x) = OnDisk
    BY <1>2, <1>3 DEF Known, OnDisk
<1> QED
    BY <1>2, <1>3, <1>4 DEF x

LEMMA BeginCreateStep ==
    ASSUME CommandInv, NEW s \in Sessions, NEW b \in Branches, NEW g \in Graphs,
           BeginCreate(s, b, g)
    PROVE  CommandInv'
<1> DEFINE x == LoadedState(g)
           w == Spawning(x, b)
<1>1. /\ pc[s] = "idle" /\ files[b].status = "Unknown"
      /\ exclusive => \A t \in Sessions : ~Busy(t)
      /\ work' = [work EXCEPT ![s] = w]
      /\ job' = [job EXCEPT ![s] = b]
      /\ spawnedOn' = [spawnedOn EXCEPT ![b] = g]
      /\ pc' = [pc EXCEPT ![s] = "object"]
      /\ UNCHANGED <<exclusive, metaSeq, files, chainFile, objectFiles, unsaved, created,
                     committed>>
      /\ UNCHANGED <<aside, open, place, written, mixed>>
      /\ begun' \in {begun, begun + 1}
    BY DEF BeginCreate, MayStart, Moved, disk, storeFiles, snapshotFiles, handles, Busy
<1>2. /\ SessionTypes /\ FilesNamed /\ AsideNamed /\ created \ mixed \subseteq OnDisk
      /\ exclusive => mixed = {} /\ FilesTrue
    BY DEF CommandInv, Alone
<1>3. /\ x \in Store({x.chain}) /\ x.seq = metaSeq /\ x.graph = g
      /\ Known(x) = OnDisk
      /\ \A c \in Branches : /\ x.branch[c].status = files[c].status
                             /\ x.branch[c].snap = files[c].snap
    BY <1>2, LoadedStateIs
<1> HIDE DEF x
<1>4. /\ w \in Store({w.chain}) /\ w.graph = g /\ w.seq = metaSeq + 2
      /\ w.branch[b].status = "Active"
      /\ \A c \in Branches \ {b} : /\ w.branch[c].status = files[c].status
                                   /\ w.branch[c].snap = files[c].snap
    BY <1>3, SpawningIs
<1> HIDE DEF w
<1>5. /\ pc'[s] = "object" /\ work'[s] = w /\ job'[s] = b
      /\ \A t \in Sessions \ {s} : /\ pc'[t] = pc[t] /\ work'[t] = work[t]
                                   /\ job'[t] = job[t] /\ unsaved'[t] = unsaved[t]
    BY <1>1, <1>2 DEF SessionTypes, Steps
<1>6. /\ metaSeq \in Nat /\ metaSeq' = metaSeq /\ committed \subseteq Branches
      /\ b \notin OnDisk /\ OnDisk' = OnDisk
      /\ spawnedOn'[b] = g /\ \A c \in Branches \ {b} : spawnedOn'[c] = spawnedOn[c]
    BY <1>1, <1>2 DEF SessionTypes, OnDisk
<1>7. SessionTypes'
  <2>1. \A t \in Sessions : SessionTyped(t)'
      BY <1>2, <1>4, <1>5 DEF SessionTypes, SessionTyped, Busy
  <2>2. begun' \in Nat
      BY <1>1, <1>2 DEF SessionTypes
  <2>3. AsideTyped' /\ mixed' \subseteq Names
      BY <1>1, <1>2 DEF SessionTypes, AsideTyped
  <2>4. /\ open' \in [Sessions -> Names \cup {None}]
        /\ place' \in [Sessions -> {"aside", "inPlace", "lost"}]
        /\ written' \in [Sessions -> BOOLEAN]
      BY <1>1, <1>2 DEF SessionTypes
  <2> QED
      BY <1>1, <1>2, <2>1, <2>2, <2>3, <2>4 DEF SessionTypes, Steps
<1>8. Known(w) = OnDisk \cup {b} /\ Named(s)' = OnDisk
  <2>1. Known(w) = OnDisk \cup {b}
      BY <1>4 DEF Known, OnDisk
  <2> QED
      BY <1>5, <1>6, <2>1 DEF Named, Spawns
<1>9. WorkNamed(s)'
  <2>1. \A c \in OnDisk : w.branch[c].snap \in DOMAIN objectFiles \ {NoSnapshot}
      BY <1>2, <1>4, <1>6 DEF FilesNamed, OnDisk
  <2> QED
      BY <1>1, <1>4, <1>5, <1>6, <1>8, <2>1 DEF WorkNamed, Busy, Spawns, NoSnapshot
<1>10. ASSUME exclusive
       PROVE  FilesTrue' /\ WorkTrue(s)'
  <2>1. FilesTrue
      BY <1>2, <1>10
  <2>2. FilesTrue'
      BY <1>1, <1>6, <2>1 DEF FilesTrue, OnDisk
  <2>3. \A c \in OnDisk : /\ objectFiles[w.branch[c].snap] = spawnedOn'[c]
                          /\ w.branch[c].snap <= metaSeq
      BY <1>4, <1>6, <2>1 DEF FilesTrue, OnDisk
  <2>4. \A c \in committed : w.branch[c].status = "Merged"
      BY <1>1, <1>4, <1>6, <2>1 DEF FilesTrue
  <2> QED
      BY <1>1, <1>4, <1>5, <1>6, <1>8, <2>2, <2>3, <2>4 DEF WorkTrue, Spawns
<1>11. FilesNamed' /\ AsideNamed' /\ created' \ mixed' \subseteq OnDisk'
    BY <1>1, <1>2, <1>6 DEF FilesNamed, AsideNamed
<1>12. \A t \in Sessions : OpenSafe(t)'
    BY <1>1, <1>5, OpenKept
<1> QED
    BY <1>1, <1>2, <1>5, <1>6, <1>7, <1>9, <1>10, <1>11, <1>12, SessionStep

LEMMA BeginCommitStep ==
    ASSUME CommandInv, NEW s \in Sessions, NEW source \in Branches, NEW target \in Branches,
           BeginCommit(s, source, target)
    PROVE  CommandInv'
<1>1. PICK g \in Graphs :
         /\ CommitGates(LoadedState(g), source, target)
         /\ \E w \in Merged(LoadedState(g), objectFiles, source, target) :
               work' = [work EXCEPT ![s] = w]
    BY DEF BeginCommit
<1> DEFINE x == LoadedState(g)
<1>2. PICK w \in Merged(x, objectFiles, source, target) : work' = [work EXCEPT ![s] = w]
    BY <1>1
<1>3. /\ pc[s] = "idle"
      /\ exclusive => \A t \in Sessions : ~Busy(t)
      /\ job' = [job EXCEPT ![s] = source]
      /\ pc' = [pc EXCEPT ![s] = "meta"]
      /\ UNCHANGED <<exclusive, metaSeq, files, chainFile, objectFiles, unsaved, spawnedOn,
                     created, committed>>
      /\ UNCHANGED <<aside, open, place, written, mixed>>
      /\ begun' \in {begun, begun + 1}
    BY DEF BeginCommit, MayStart, Moved, disk, storeFiles, snapshotFiles, handles,
           history, Busy
<1>4. /\ SessionTypes /\ FilesNamed /\ AsideNamed /\ created \ mixed \subseteq OnDisk
      /\ exclusive => mixed = {} /\ FilesTrue
    BY DEF CommandInv, Alone
<1>5. /\ x \in Store({x.chain}) /\ x.seq = metaSeq /\ Known(x) = OnDisk
      /\ \A c \in Branches : /\ x.branch[c].status = files[c].status
                             /\ x.branch[c].snap = files[c].snap
    BY <1>4, LoadedStateIs
<1>6. source # target /\ source \in OnDisk
    BY <1>1, <1>5 DEF CommitGates, Known
<1> DEFINE Chains == {x.chain}
<1>7. w \in Merged(x, objectFiles, source, target) /\ x \in Store(Chains)
    BY <1>2, <1>5
<1> HIDE DEF x, Chains
<1>8. /\ w \in Store({x.chain}) /\ w.seq >= metaSeq
      /\ w.branch[source].status = "Merged"
      /\ \A c \in Branches :
           /\ c # source => StatusGoes(files[c].status, w.branch[c].status)
           /\ NameKept(w, c, files[c].snap, objectFiles)
  <2>1. /\ w \in Store(Chains) /\ w.seq >= x.seq
        /\ w.branch[source].status = "Merged"
        /\ \A c \in Branches :
             /\ c # source => StatusGoes(x.branch[c].status, w.branch[c].status)
             /\ NameKept(w, c, x.branch[c].snap, objectFiles)
    BY <1>6, <1>7, MergedIs
  <2> QED
    BY <1>5, <2>1 DEF Chains
<1>9. w \in Store({w.chain}) /\ w.seq \in Nat /\ metaSeq \in Nat
    BY <1>4, <1>8 DEF Store, SessionTypes
<1>10. /\ pc'[s] = "meta" /\ work'[s] = w /\ job'[s] = source
       /\ \A t \in Sessions \ {s} : /\ pc'[t] = pc[t] /\ work'[t] = work[t]
                                    /\ job'[t] = job[t] /\ unsaved'[t] = unsaved[t]
    BY <1>2, <1>3, <1>4 DEF SessionTypes, Steps
<1>11. OnDisk' = OnDisk /\ metaSeq' = metaSeq /\ committed \subseteq Branches
    BY <1>3, <1>4 DEF OnDisk, SessionTypes
<1>12. SessionTypes'
  <2>1. \A t \in Sessions : SessionTyped(t)'
      BY <1>4, <1>9, <1>10 DEF SessionTypes, SessionTyped, Busy
  <2>2. begun' \in Nat
      BY <1>2, <1>3, <1>4 DEF SessionTypes
  <2>3. AsideTyped' /\ mixed' \subseteq Names
      BY <1>2, <1>3, <1>4 DEF SessionTypes, AsideTyped
  <2>4. /\ open' \in [Sessions -> Names \cup {None}]
        /\ place' \in [Sessions -> {"aside", "inPlace", "lost"}]
        /\ written' \in [Sessions -> BOOLEAN]
      BY <1>2, <1>3, <1>4 DEF SessionTypes
  <2> QED
      BY <1>2, <1>3, <1>4, <2>1, <2>2, <2>3, <2>4 DEF SessionTypes, Steps
<1>13. /\ Known(w) \subseteq OnDisk /\ source \in Known(w)
       /\ Named(s)' = Known(w)
       /\ \A c \in OnDisk : /\ w.branch[c].snap = files[c].snap
                            /\ files[c].snap \in DOMAIN objectFiles \ {NoSnapshot}
  <2>1. Known(w) \subseteq OnDisk /\ source \in Known(w)
      BY <1>6, <1>8 DEF Known, OnDisk, StatusGoes
  <2> QED
      BY <1>4, <1>8, <1>10, <2>1 DEF Named, Spawns, FilesNamed, NameKept, OnDisk
<1>14. WorkNamed(s)'
    BY <1>3, <1>10, <1>13 DEF WorkNamed, Busy, Spawns
<1>15. ASSUME exclusive
       PROVE  FilesTrue' /\ WorkTrue(s)'
  <2>1. FilesTrue
      BY <1>4, <1>15
  <2>2. FilesTrue'
      BY <1>3, <1>11, <2>1 DEF FilesTrue
  <2>3. \A c \in OnDisk : files[c].snap \in Nat
      BY <1>4 DEF SessionTypes, BranchRecord, OnDisk
  <2>4. \A c \in Known(w) : /\ objectFiles[w.branch[c].snap] = spawnedOn[c]
                            /\ w.branch[c].snap <= w.seq
      BY <1>8, <1>9, <1>13, <2>1, <2>3 DEF FilesTrue
  <2>5. \A c \in committed : w.branch[c].status = "Merged"
      BY <1>8, <1>11, <2>1 DEF FilesTrue, StatusGoes
  <2> QED
      BY <1>3, <1>8, <1>10, <1>11, <1>13, <2>2, <2>4, <2>5 DEF WorkTrue, Spawns
<1>16. FilesNamed' /\ AsideNamed' /\ created' \ mixed' \subseteq OnDisk'
    BY <1>3, <1>4, <1>11 DEF FilesNamed, AsideNamed
<1>17. \A t \in Sessions : OpenSafe(t)'
    BY <1>3, <1>10, OpenKept
<1> QED
    BY <1>3, <1>4, <1>10, <1>11, <1>12, <1>14, <1>15, <1>16, <1>17, SessionStep

\* What a step of a busy session starts from.
LEMMA BusyHas ==
    ASSUME CommandInv, NEW s \in Sessions, Busy(s)
    PROVE  /\ work[s] \in Store({work[s].chain}) /\ work[s].seq \in Nat
           /\ work[s].graph \in Graphs
           /\ job[s] \in Branches /\ job[s] \in Known(work[s])
           /\ WorkNamed(s) /\ metaSeq \in Nat
           /\ OpenSafe(s)
           /\ exclusive => mixed = {} /\ FilesTrue /\ WorkTrue(s)
BY DEF CommandInv, SessionTypes, SessionTyped, WorkNamed, Store, Alone

\* The object is written under a number nothing names.
LEMMA SaveObjectStep ==
    ASSUME CommandInv, NEW s \in Sessions, OpenObject(s) \/ SaveObject(s)
    PROVE  CommandInv'
<1> DEFINE id == work[s].seq
           w  == work[s]
<1>1. /\ pc[s] \in {"object", "objectOpen"}
      /\ \/ pc' = [pc EXCEPT ![s] = "objectOpen"]
         \/ pc' = [pc EXCEPT ![s] = "chain"] /\ objectFiles'[id] = work[s].graph
      /\ DOMAIN objectFiles' = DOMAIN objectFiles \cup {id}
      /\ \A i \in DOMAIN objectFiles : i # id => objectFiles'[i] = objectFiles[i]
      /\ UNCHANGED <<exclusive, metaSeq, files, chainFile, work, job, unsaved, spawnedOn, created,
                     committed>>
      /\ UNCHANGED <<aside, open, place, written, mixed, begun>>
    BY DEF OpenObject, SaveObject, With, Moved, history, storeFiles, handles
<1>2. /\ Busy(s) /\ SessionTypes /\ FilesNamed /\ AsideNamed
      /\ created \ mixed \subseteq OnDisk
    BY <1>1 DEF CommandInv, Busy
<1>3. /\ id \in Nat /\ metaSeq \in Nat /\ WorkNamed(s)
      /\ exclusive => mixed = {} /\ FilesTrue /\ WorkTrue(s)
      /\ exclusive => \A t \in Sessions \ {s} : ~Busy(t)
    BY <1>2, BusyHas, BusyAlone
<1>4. /\ \/ pc'[s] = "objectOpen"
         \/ pc'[s] = "chain" /\ objectFiles'[id] = w.graph
      /\ \A t \in Sessions \ {s} : pc'[t] = pc[t]
      /\ OnDisk' = OnDisk /\ Known(work'[s]) = Known(w) /\ Named(s)' = Named(s)
  <2>1. /\ \/ pc'[s] = "objectOpen"
           \/ pc'[s] = "chain" /\ objectFiles'[id] = w.graph
        /\ \A t \in Sessions \ {s} : pc'[t] = pc[t]
      BY <1>1, <1>2 DEF SessionTypes
  <2>2. OnDisk' = OnDisk /\ Known(work'[s]) = Known(w)
      BY <1>1 DEF OnDisk
  <2> QED
      BY <1>1, <2>1, <2>2 DEF Named, Spawns
<1>5. SessionTypes'
  <2>1. \A t \in Sessions : SessionTyped(t)'
      BY <1>1, <1>2, <1>4 DEF SessionTypes, SessionTyped, Busy
  <2> QED
      BY <1>1, <1>2, <2>1 DEF SessionTypes, AsideTyped, Steps
<1>6. FilesNamed' /\ AsideNamed' /\ created' \ mixed' \subseteq OnDisk'
    BY <1>1, <1>2, <1>4 DEF FilesNamed, AsideNamed
<1>7. WorkNamed(s)'
    BY <1>1, <1>2, <1>3, <1>4 DEF WorkNamed, Busy, Spawns
<1>8. ASSUME exclusive
      PROVE  FilesTrue' /\ WorkTrue(s)'
  <2>1. /\ FilesTrue
        /\ \A b \in Named(s) : /\ objectFiles[w.branch[b].snap] = spawnedOn[b]
                               /\ w.branch[b].snap <= metaSeq
        /\ id > metaSeq /\ w.graph = spawnedOn[job[s]]
        /\ \A b \in committed : w.branch[b].status = "Merged"
      BY <1>1, <1>2, <1>3, <1>8 DEF WorkTrue, Spawns
  <2>2. /\ \A b \in OnDisk : files[b].snap \in DOMAIN objectFiles \ {id}
        /\ \A b \in Named(s) : w.branch[b].snap \in DOMAIN objectFiles \ {id}
    <3>1. /\ \A b \in OnDisk : files[b].snap \in DOMAIN objectFiles /\ files[b].snap \in Nat
          /\ \A b \in Named(s) : /\ w.branch[b].snap \in DOMAIN objectFiles
                                 /\ w.branch[b].snap \in Nat
        BY <1>2, <1>3, BusyHas
           DEF FilesNamed, WorkNamed, SessionTypes, BranchRecord, OnDisk, Named, Known, Store
    <3> QED
        BY <1>3, <2>1, <3>1 DEF FilesTrue
  <2>3. FilesTrue'
      BY <1>1, <1>4, <2>1, <2>2 DEF FilesTrue
  <2> QED
      BY <1>1, <1>4, <2>1, <2>2, <2>3 DEF WorkTrue, Spawns
<1>9. \A t \in Sessions : OpenSafe(t)'
    BY <1>1, <1>4, OpenKept
<1> QED
    BY <1>1, <1>3, <1>4, <1>5, <1>6, <1>7, <1>8, <1>9, SessionStep

LEMMA OpenChainStep ==
    ASSUME CommandInv, NEW s \in Sessions, OpenChain(s)
    PROVE  CommandInv'
<1>1. /\ pc[s] = "chain" /\ pc' = [pc EXCEPT ![s] = "chainOpen"]
      /\ UNCHANGED <<exclusive, metaSeq, files, objectFiles, work, job, unsaved, spawnedOn,
                     created, committed>>
      /\ UNCHANGED <<aside, open, place, written, mixed, begun>>
    BY DEF OpenChain, Moved, history, storeFiles, handles
<1>2. /\ Busy(s) /\ SessionTypes /\ FilesNamed /\ AsideNamed
      /\ created \ mixed \subseteq OnDisk
    BY <1>1 DEF CommandInv, Busy
<1>3. /\ WorkNamed(s)
      /\ exclusive => mixed = {} /\ FilesTrue /\ WorkTrue(s)
      /\ exclusive => \A t \in Sessions \ {s} : ~Busy(t)
    BY <1>2, BusyHas, BusyAlone
<1>4. /\ pc'[s] = "chainOpen" /\ \A t \in Sessions \ {s} : pc'[t] = pc[t]
      /\ OnDisk' = OnDisk /\ Known(work'[s]) = Known(work[s]) /\ Named(s)' = Named(s)
    BY <1>1, <1>2 DEF SessionTypes, OnDisk, Named, Spawns
<1>5. SessionTypes'
  <2>1. \A t \in Sessions : SessionTyped(t)'
      BY <1>1, <1>2, <1>4 DEF SessionTypes, SessionTyped, Busy
  <2> QED
      BY <1>1, <1>2, <2>1 DEF SessionTypes, AsideTyped, Steps
<1>6. FilesNamed' /\ AsideNamed' /\ created' \ mixed' \subseteq OnDisk'
    BY <1>1, <1>2, <1>4 DEF FilesNamed, AsideNamed
<1>7. WorkNamed(s)'
    BY <1>1, <1>2, <1>3, <1>4 DEF WorkNamed, Busy, Spawns
<1>8. ASSUME exclusive
      PROVE  FilesTrue' /\ WorkTrue(s)'
  <2>1. FilesTrue'
      BY <1>1, <1>3, <1>4, <1>8 DEF FilesTrue
  <2> QED
      BY <1>1, <1>2, <1>3, <1>4, <1>8, <2>1 DEF WorkTrue, Busy, Spawns
<1>9. \A t \in Sessions : OpenSafe(t)'
    BY <1>1, <1>4, OpenKept
<1> QED
    BY <1>1, <1>3, <1>4, <1>5, <1>6, <1>7, <1>8, <1>9, SessionStep

LEMMA SaveChainStep ==
    ASSUME CommandInv, NEW s \in Sessions, SaveChain(s)
    PROVE  CommandInv'
<1> DEFINE w == work[s]
           b == job[s]
<1>1. PICK hasParent \in BOOLEAN :
         \E done \in Spawned(w, objectFiles, b, hasParent) :
            work' = [work EXCEPT ![s] = done]
    BY DEF SaveChain
<1>2. PICK done \in Spawned(w, objectFiles, b, hasParent) :
         work' = [work EXCEPT ![s] = done]
    BY <1>1
<1>3. /\ pc[s] = "chainOpen" /\ pc' = [pc EXCEPT ![s] = "meta"]
      /\ UNCHANGED <<exclusive, metaSeq, files, objectFiles, job, unsaved, spawnedOn, created,
                     committed>>
      /\ UNCHANGED <<aside, open, place, written, mixed, begun>>
    BY DEF SaveChain, Moved, history, storeFiles, handles
<1>4. /\ Busy(s) /\ SessionTypes /\ FilesNamed /\ AsideNamed
      /\ created \ mixed \subseteq OnDisk
    BY <1>3 DEF CommandInv, Busy
<1>5. /\ w \in Store({w.chain}) /\ w.seq \in Nat /\ b \in Known(w) /\ b \in Branches
      /\ metaSeq \in Nat /\ WorkNamed(s)
      /\ exclusive => mixed = {} /\ FilesTrue /\ WorkTrue(s)
      /\ exclusive => \A t \in Sessions \ {s} : ~Busy(t)
    BY <1>4, BusyHas, BusyAlone
<1>6. done \in Spawned(w, objectFiles, b, hasParent)
    BY <1>1
<1> HIDE DEF w, b
<1>7. /\ done \in Store({w.chain}) /\ done.seq >= w.seq
      /\ \A c \in Branches :
           /\ StatusGoes(w.branch[c].status, done.branch[c].status)
           /\ NameKept(done, c, IF c = b THEN w.seq ELSE w.branch[c].snap, objectFiles)
    BY <1>5, <1>6, SpawnedIs
<1>8. done \in Store({done.chain}) /\ done.seq \in Nat
    BY <1>7 DEF Store
<1>9. /\ pc'[s] = "meta" /\ work'[s] = done /\ job'[s] = b
      /\ \A t \in Sessions \ {s} : /\ pc'[t] = pc[t] /\ work'[t] = work[t]
                                   /\ job'[t] = job[t] /\ unsaved'[t] = unsaved[t]
    BY <1>2, <1>3, <1>4 DEF SessionTypes, b
<1>10. OnDisk' = OnDisk /\ metaSeq' = metaSeq /\ committed \subseteq Branches
    BY <1>3, <1>4 DEF OnDisk, SessionTypes
<1>11. SessionTypes'
  <2>1. \A t \in Sessions : SessionTyped(t)'
      BY <1>4, <1>5, <1>8, <1>9 DEF SessionTypes, SessionTyped, Busy
  <2> QED
      BY <1>2, <1>3, <1>4, <2>1 DEF SessionTypes, AsideTyped, Steps
<1>12. /\ w.seq \in DOMAIN objectFiles \ {NoSnapshot}
       /\ \A c \in Known(w) \ {b} : w.branch[c].snap \in DOMAIN objectFiles \ {NoSnapshot}
    BY <1>3, <1>4, <1>5 DEF WorkNamed, Named, Spawns, w, b
<1>13. /\ Known(done) = Known(w) /\ Named(s)' = Known(done)
       /\ done.branch[b].snap = w.seq
       /\ \A c \in Known(w) \ {b} : done.branch[c].snap = w.branch[c].snap
  <2>1. Known(done) = Known(w)
      BY <1>7 DEF Known, StatusGoes
  <2> QED
      BY <1>5, <1>7, <1>9, <1>12, <2>1 DEF Named, Spawns, NameKept, Known
<1>14. WorkNamed(s)'
    BY <1>3, <1>5, <1>9, <1>12, <1>13 DEF WorkNamed, Busy, Spawns
<1>15. ASSUME exclusive
       PROVE  FilesTrue' /\ WorkTrue(s)'
  <2>1. /\ FilesTrue
        /\ \A c \in Known(w) \ {b} : /\ objectFiles[w.branch[c].snap] = spawnedOn[c]
                                     /\ w.branch[c].snap <= metaSeq
        /\ w.seq > metaSeq /\ objectFiles[w.seq] = spawnedOn[b]
        /\ \A c \in committed : w.branch[c].status = "Merged"
      BY <1>3, <1>4, <1>5, <1>15 DEF WorkTrue, Spawns, Named, w, b
  <2>2. FilesTrue'
      BY <1>3, <1>10, <2>1 DEF FilesTrue
  <2>3. \A c \in Known(w) : w.branch[c].snap \in Nat
      BY <1>5 DEF Store, BranchRecord, Known
  <2>4. \A c \in Known(done) : /\ objectFiles[done.branch[c].snap] = spawnedOn[c]
                               /\ done.branch[c].snap <= done.seq
      BY <1>5, <1>7, <1>8, <1>13, <2>1, <2>3
  <2>5. \A c \in committed : done.branch[c].status = "Merged"
      BY <1>7, <1>10, <2>1 DEF StatusGoes
  <2> QED
      BY <1>3, <1>5, <1>7, <1>8, <1>9, <1>10, <1>13, <2>1, <2>2, <2>4, <2>5 DEF WorkTrue, Spawns
<1>16. FilesNamed' /\ AsideNamed' /\ created' \ mixed' \subseteq OnDisk'
    BY <1>3, <1>4, <1>10 DEF FilesNamed, AsideNamed
<1>17. \A t \in Sessions : OpenSafe(t)'
    BY <1>3, <1>9, OpenKept
<1> QED
    BY <1>3, <1>5, <1>9, <1>10, <1>11, <1>14, <1>15, <1>16, <1>17, SessionStep

\* A file that is to be saved, and what it is given, in each of the two cases.
LEMMA ToSaveIs ==
    ASSUME CommandInv, NEW s \in Sessions, NEW n \in Names, ToSave(s, n)
    PROVE  /\ Busy(s) /\ pc[s] \in {"meta", "files"} /\ Named(s) = Known(work[s])
           /\ \/ n = Metadata /\ n \notin Branches /\ pc[s] = "meta"
                 /\ Content(s, n) = work[s].seq /\ Content(s, n) \in Nat
              \/ /\ n \in Branches /\ n # Metadata /\ pc[s] = "files"
                 /\ n \in unsaved[s] /\ n \in Known(work[s])
                 /\ Content(s, n) = work[s].branch[n] /\ Content(s, n) \in BranchRecord
                 /\ Content(s, n).status # "Unknown"
                 /\ Content(s, n).snap \in DOMAIN objectFiles \ {NoSnapshot}
<1>1. Busy(s) /\ pc[s] \in {"meta", "files"} /\ Named(s) = Known(work[s])
    BY DEF ToSave, Busy, Named, Spawns
<1>2. work[s] \in Store({work[s].chain}) /\ work[s].seq \in Nat /\ WorkNamed(s)
    BY <1>1, BusyHas
<1>3. CASE n = Metadata
    BY <1>1, <1>2, <1>3, MetadataAssumption DEF ToSave, Content
<1>4. CASE n # Metadata
  <2>1. n \in Branches /\ pc[s] = "files" /\ n \in unsaved[s]
      BY <1>4 DEF ToSave, Names
  <2>2. n \in Known(work[s])
      BY <1>1, <1>2, <2>1 DEF WorkNamed
  <2>3. work[s].branch[n] \in BranchRecord /\ work[s].branch[n].status # "Unknown"
      BY <1>2, <2>1, <2>2 DEF Store, Known
  <2>4. work[s].branch[n].snap \in DOMAIN objectFiles \ {NoSnapshot}
      BY <1>1, <1>2, <2>2 DEF WorkNamed
  <2> QED
      BY <1>1, <1>4, <2>1, <2>2, <2>3, <2>4 DEF Content
<1> QED
    BY <1>3, <1>4

LEMMA OpenAsideStep ==
    ASSUME CommandInv, NEW s \in Sessions, NEW n \in Names, OpenAside(s, n)
    PROVE  CommandInv'
<1>1. /\ open[s] = None /\ ToSave(s, n)
      /\ aside' = With(aside, n, Unreadable(n))
      /\ open' = [open EXCEPT ![s] = n]
      /\ place' = [place EXCEPT ![s] = "aside"]
      /\ written' = [written EXCEPT ![s] = FALSE]
      /\ mixed' = mixed \cup {m \in {n} : \E t \in Sessions : open[t] = m}
      /\ UNCHANGED <<exclusive, metaSeq, files, chainFile, objectFiles, pc, work, job, unsaved,
                     begun, spawnedOn, created, committed>>
    BY DEF OpenAside, snapshotFiles
<1>2. /\ Busy(s) /\ SessionTypes /\ FilesNamed /\ AsideNamed
      /\ created \ mixed \subseteq OnDisk
    BY <1>1, ToSaveIs DEF CommandInv
<1>3. /\ WorkNamed(s)
      /\ exclusive => mixed = {} /\ FilesTrue /\ WorkTrue(s)
      /\ exclusive => \A t \in Sessions \ {s} : ~Busy(t)
    BY <1>2, BusyHas, BusyAlone
<1>4. /\ open'[s] = n /\ place'[s] = "aside" /\ written'[s] = FALSE
      /\ \A t \in Sessions \ {s} : open'[t] = open[t] /\ place'[t] = place[t]
                                   /\ written'[t] = written[t]
      /\ DOMAIN aside' = DOMAIN aside \cup {n} /\ aside'[n] = Unreadable(n)
      /\ \A m \in DOMAIN aside : m # n => aside'[m] = aside[m]
    BY <1>1, <1>2 DEF SessionTypes, With
<1>5. mixed \subseteq mixed' /\ n # None /\ mixed' \subseteq Names
      /\ (n \notin mixed' => \A t \in Sessions : open[t] # n)
    BY <1>1, <1>2, MetadataAssumption, BranchAssumption DEF SessionTypes, Names
<1>6. OnDisk' = OnDisk /\ Known(work'[s]) = Known(work[s]) /\ Named(s)' = Named(s)
    BY <1>1 DEF OnDisk, Named, Spawns
<1>7. SessionTypes'
  <2>1. \A t \in Sessions : SessionTyped(t)'
      BY <1>1, <1>2 DEF SessionTypes, SessionTyped, Busy
  <2>2. AsideTyped'
    <3>1. NoBranch \in BranchRecord
        BY DEF NoBranch, NoSnapshot, BranchRecord, Status
    <3>2. IF n = Metadata THEN Unreadable(n) = 0 ELSE Unreadable(n) \in BranchRecord
        BY <3>1 DEF Unreadable
    <3> QED
        BY <1>2, <1>4, <3>2, MetadataAssumption DEF AsideTyped, SessionTypes
  <2>3. /\ open' \in [Sessions -> Names \cup {None}]
        /\ place' \in [Sessions -> {"aside", "inPlace", "lost"}]
        /\ written' \in [Sessions -> BOOLEAN]
      BY <1>1, <1>2 DEF SessionTypes
  <2> QED
      BY <1>1, <1>2, <1>5, <2>1, <2>2, <2>3 DEF SessionTypes
<1>8. FilesNamed' /\ AsideNamed' /\ created' \ mixed' \subseteq OnDisk'
  <2>1. n \in Branches => Unreadable(n).status = "Unknown"
      BY MetadataAssumption DEF Unreadable, NoBranch
  <2>2. AsideNamed'
      BY <1>1, <1>2, <1>4, <2>1 DEF AsideNamed
  <2> QED
      BY <1>1, <1>2, <1>5, <1>6, <2>2 DEF FilesNamed
<1>9. WorkNamed(s)'
    BY <1>1, <1>3, <1>5, <1>6 DEF WorkNamed, Busy, Spawns
<1>10. ASSUME NEW t \in Sessions
       PROVE  OpenSafe(t)'
  <2>1. \A m : ToSave(t, m)' = ToSave(t, m) /\ Content(t, m)' = Content(t, m)
      BY <1>1 DEF ToSave, Content
  <2>2. CASE t = s
      BY <1>1, <1>4, <1>5, <2>1, <2>2 DEF OpenSafe
  <2>3. CASE t # s
    <3>1. OpenSafe(t) /\ open'[t] = open[t] /\ place'[t] = place[t] /\ written'[t] = written[t]
        BY <1>4, <2>3 DEF CommandInv
    <3> QED
        BY <1>4, <1>5, <2>1, <2>3, <3>1 DEF OpenSafe
  <2> QED
      BY <2>2, <2>3
<1>11. ASSUME exclusive
       PROVE  mixed' = {} /\ FilesTrue' /\ WorkTrue(s)'
  <2>1. \A t \in Sessions : open[t] # n
    <3>1. \A t \in Sessions : t # s => open[t] = None
      <4> TAKE t \in Sessions
      <4>1. OpenSafe(t) /\ (t # s => ~Busy(t))
          BY <1>3, <1>11 DEF CommandInv
      <4> QED
          BY <4>1 DEF OpenSafe, ToSave, Busy
    <3> QED
        BY <1>1, <1>5, <3>1
  <2>2. mixed' = {}
      BY <1>1, <1>3, <1>11, <2>1
  <2>3. FilesTrue'
      BY <1>1, <1>3, <1>6, <1>11 DEF FilesTrue
  <2> QED
      BY <1>1, <1>2, <1>3, <1>6, <1>11, <2>2, <2>3 DEF WorkTrue, Busy, Spawns
<1> QED
    BY <1>1, <1>3, <1>5, <1>6, <1>7, <1>8, <1>9, <1>10, <1>11, SessionStep

\* A file that a session has open has a name.
LEMMA OpenHas ==
    ASSUME CommandInv, NEW s \in Sessions, open[s] # None
    PROVE  /\ open[s] \in Names /\ ToSave(s, open[s]) /\ OpenSafe(s)
           /\ \A t \in Sessions : OpenSafe(t)
BY DEF CommandInv, SessionTypes, OpenSafe

\* What is written in place, where another session renamed the file, is still
\* a branch that names its snapshot.
LEMMA WriteAsideStep ==
    ASSUME CommandInv, NEW s \in Sessions, WriteAside(s)
    PROVE  CommandInv'
<1> DEFINE n == open[s]
           content == Content(s, n)
<1>1. /\ n # None
      /\ written' = [written EXCEPT ![s] = TRUE]
      /\ \/ place[s] = "aside" /\ aside' = With(aside, n, content)
         \/ place[s] # "aside" /\ aside' = aside
      /\ \/ place[s] = "inPlace" /\ InPlace(n, content)
         \/ place[s] # "inPlace" /\ metaSeq' = metaSeq /\ files' = files
      /\ UNCHANGED <<exclusive, chainFile, objectFiles, pc, work, job, unsaved, begun, open,
                     place, spawnedOn, created, committed, mixed>>
    BY DEF WriteAside, snapshotFiles, history
<1>2. n \in Names /\ ToSave(s, n) /\ \A t \in Sessions : OpenSafe(t)
    BY <1>1, OpenHas
<1>3. /\ Busy(s) /\ pc[s] \in {"meta", "files"}
      /\ \/ n = Metadata /\ n \notin Branches /\ content \in Nat
         \/ /\ n \in Branches /\ n # Metadata
            /\ content \in BranchRecord /\ content.status # "Unknown"
            /\ content.snap \in DOMAIN objectFiles \ {NoSnapshot}
    BY <1>2, ToSaveIs
<1>4. /\ SessionTypes /\ FilesNamed /\ AsideNamed
      /\ created \ mixed \subseteq OnDisk
    BY DEF CommandInv
<1>5. /\ WorkNamed(s)
      /\ exclusive => mixed = {} /\ FilesTrue /\ WorkTrue(s)
      /\ exclusive => \A t \in Sessions \ {s} : ~Busy(t)
    BY <1>3, BusyHas, BusyAlone
<1>6. n \notin mixed => place[s] = "aside" /\ n \in DOMAIN aside
    BY <1>1, <1>2 DEF OpenSafe
<1>7. /\ written'[s] = TRUE
      /\ \A t \in Sessions \ {s} : written'[t] = written[t]
      /\ place[s] = "aside" => aside'[n] = content
      /\ DOMAIN aside \subseteq DOMAIN aside' /\ DOMAIN aside' \subseteq DOMAIN aside \cup {n}
      /\ n \in DOMAIN aside'
           => (aside'[n] = content \/ (n \in DOMAIN aside /\ aside'[n] = aside[n]))
      /\ \A m \in DOMAIN aside : m # n => aside'[m] = aside[m]
  <2>1. written'[s] = TRUE /\ \A t \in Sessions \ {s} : written'[t] = written[t]
      BY <1>1, <1>4 DEF SessionTypes
  <2> HIDE DEF content
  <2>2. CASE place[s] = "aside"
    <3>1. aside' = With(aside, n, content)
        BY <1>1, <2>2
    <3>2. /\ DOMAIN aside' = DOMAIN aside \cup {n} /\ aside'[n] = content
          /\ \A m \in DOMAIN aside : m # n => aside'[m] = aside[m]
        BY <3>1 DEF With
    <3> QED
        BY <2>1, <2>2, <3>2
  <2>3. CASE place[s] # "aside"
      BY <1>1, <2>1, <2>3
  <2> QED
      BY <2>2, <2>3
<1> HIDE DEF content
<1>8. /\ metaSeq' \in Nat /\ files' \in [Branches -> BranchRecord]
      /\ OnDisk \subseteq OnDisk' /\ FilesNamed'
  <2>1. CASE metaSeq' = metaSeq /\ files' = files
      BY <1>1, <1>4, <2>1 DEF SessionTypes, FilesNamed, OnDisk
  <2>2. CASE InPlace(n, content) /\ n = Metadata
      BY <1>1, <1>3, <1>4, <2>2 DEF SessionTypes, FilesNamed, OnDisk, InPlace
  <2>3. CASE InPlace(n, content) /\ n # Metadata
    <3>1. metaSeq' = metaSeq /\ files' = [files EXCEPT ![n] = content]
        BY <2>3 DEF InPlace
    <3>2. /\ files' \in [Branches -> BranchRecord] /\ files'[n] = content
          /\ \A b \in Branches : b # n => files'[b] = files[b]
        BY <1>3, <1>4, <2>3, <3>1 DEF SessionTypes
    <3>3. OnDisk' = OnDisk \cup {n}
        BY <1>3, <2>3, <3>2 DEF OnDisk
    <3> QED
        BY <1>1, <1>3, <1>4, <2>3, <3>1, <3>2, <3>3 DEF SessionTypes, FilesNamed, OnDisk
  <2> QED
      BY <1>1, <2>1, <2>2, <2>3
<1>9. SessionTypes'
  <2>1. \A t \in Sessions : SessionTyped(t)'
      BY <1>1, <1>4 DEF SessionTypes, SessionTyped, Busy
  <2>2. AsideTyped'
      BY <1>2, <1>3, <1>4, <1>7 DEF AsideTyped, SessionTypes
  <2>3. written' \in [Sessions -> BOOLEAN]
      BY <1>1, <1>4 DEF SessionTypes
  <2> QED
      BY <1>1, <1>4, <1>8, <2>1, <2>2, <2>3 DEF SessionTypes
<1>10. AsideNamed' /\ created' \ mixed' \subseteq OnDisk'
    BY <1>1, <1>3, <1>4, <1>7, <1>8 DEF AsideNamed
<1>11. WorkNamed(s)'
    BY <1>1, <1>5, <1>8 DEF WorkNamed, Busy, Spawns, Named
<1>12. ASSUME NEW t \in Sessions
       PROVE  OpenSafe(t)'
  <2>1. \A m : ToSave(t, m)' = ToSave(t, m) /\ Content(t, m)' = Content(t, m)
      BY <1>1 DEF ToSave, Content
  <2>2. CASE t = s
      BY <1>1, <1>2, <1>6, <1>7, <2>1, <2>2 DEF OpenSafe, content
  <2>3. CASE t # s
    <3>1. OpenSafe(t) /\ written'[t] = written[t]
        BY <1>2, <1>7, <2>3
    <3> QED
        BY <1>1, <1>7, <2>1, <2>3, <3>1 DEF OpenSafe
  <2> QED
      BY <2>2, <2>3
<1>13. ASSUME exclusive
       PROVE  mixed' = {} /\ FilesTrue' /\ WorkTrue(s)'
  <2>1. mixed = {} /\ FilesTrue /\ WorkTrue(s) /\ metaSeq' = metaSeq /\ files' = files
      BY <1>1, <1>5, <1>6, <1>13
  <2>2. OnDisk' = OnDisk /\ Named(s)' = Named(s)
      BY <1>1, <2>1 DEF OnDisk, Named, Spawns
  <2>3. FilesTrue'
      BY <1>1, <2>1, <2>2 DEF FilesTrue
  <2> QED
      BY <1>1, <1>3, <2>1, <2>2, <2>3 DEF WorkTrue, Busy, Spawns
<1> QED
    BY <1>1, <1>5, <1>8, <1>9, <1>10, <1>11, <1>12, <1>13, SessionStep

\* What is renamed into place is what the session wrote, unless it was mixed.
LEMMA RenameAsideStep ==
    ASSUME CommandInv, NEW s \in Sessions, RenameAside(s)
    PROVE  CommandInv'
<1> DEFINE n == open[s]
           w == work[s]
           content == Content(s, n)
<1>1. /\ n # None /\ written[s] /\ n \in DOMAIN aside
      /\ InPlace(n, aside[n])
      /\ aside' = Without(aside, {n})
      /\ place' = Moves(s)
      /\ \/ n = Metadata /\ pc' = [pc EXCEPT ![s] = "files"]
                         /\ unsaved' = [unsaved EXCEPT ![s] = Known(w)]
         \/ n # Metadata /\ pc' = pc
                         /\ unsaved' = [unsaved EXCEPT ![s] = unsaved[s] \ {n}]
      /\ open' = [open EXCEPT ![s] = None]
      /\ written' = [written EXCEPT ![s] = FALSE]
      /\ UNCHANGED <<exclusive, chainFile, objectFiles, work, job, begun, spawnedOn, created,
                     committed, mixed>>
    BY DEF RenameAside, Moved, snapshotFiles, history
<1>2. n \in Names /\ ToSave(s, n) /\ \A t \in Sessions : OpenSafe(t)
    BY <1>1, OpenHas
<1>3. /\ Busy(s) /\ pc[s] \in {"meta", "files"} /\ Named(s) = Known(w)
      /\ \/ n = Metadata /\ n \notin Branches /\ pc[s] = "meta"
            /\ content = w.seq /\ content \in Nat
         \/ /\ n \in Branches /\ n # Metadata /\ pc[s] = "files"
            /\ n \in unsaved[s] /\ n \in Known(w)
            /\ content = w.branch[n] /\ content \in BranchRecord
            /\ content.status # "Unknown"
            /\ content.snap \in DOMAIN objectFiles \ {NoSnapshot}
    BY <1>2, ToSaveIs
<1>4. /\ SessionTypes /\ FilesNamed /\ AsideNamed
      /\ created \ mixed \subseteq OnDisk
    BY DEF CommandInv
<1>5. /\ WorkNamed(s) /\ w.seq \in Nat /\ metaSeq \in Nat
      /\ w \in Store({w.chain}) /\ job[s] \in Branches
      /\ exclusive => mixed = {} /\ FilesTrue /\ WorkTrue(s)
      /\ exclusive => \A t \in Sessions \ {s} : ~Busy(t)
    BY <1>3, BusyHas, BusyAlone
<1>6. n \notin mixed => aside[n] = content
    BY <1>1, <1>2 DEF OpenSafe
<1>7. /\ open'[s] = None /\ \A t \in Sessions \ {s} : open'[t] = open[t]
      /\ \A t \in Sessions \ {s} : written'[t] = written[t] /\ pc'[t] = pc[t]
                                   /\ unsaved'[t] = unsaved[t]
      /\ \A t \in Sessions \ {s} : open[t] # n => place'[t] = place[t]
      /\ DOMAIN aside' = DOMAIN aside \ {n}
      /\ \A m \in DOMAIN aside' : aside'[m] = aside[m]
    BY <1>1, <1>4 DEF SessionTypes, Without, Moves
<1>8. /\ n = Metadata => aside[n] \in Nat
      /\ n # Metadata => aside[n] \in BranchRecord
      /\ n # Metadata /\ aside[n].status # "Unknown"
            => aside[n].snap \in DOMAIN objectFiles \ {NoSnapshot}
    BY <1>1, <1>3, <1>4 DEF SessionTypes, AsideTyped, AsideNamed
<1> HIDE DEF content
<1>9. ASSUME n = Metadata
      PROVE  /\ metaSeq' \in Nat /\ files' \in [Branches -> BranchRecord]
             /\ pc' \in [Sessions -> Steps] /\ unsaved' = [t \in Sessions |-> unsaved'[t]]
             /\ FilesNamed' /\ OnDisk \ mixed \subseteq OnDisk' /\ WorkNamed(s)'
             /\ exclusive => FilesTrue' /\ WorkTrue(s)'
  <2>1. /\ pc[s] = "meta" /\ pc'[s] = "files" /\ unsaved'[s] = Known(w)
        /\ metaSeq' = aside[n] /\ files' = files
      BY <1>1, <1>3, <1>4, <1>9 DEF InPlace, SessionTypes
  <2>2. OnDisk' = OnDisk /\ Known(work'[s]) = Known(w) /\ Named(s)' = Known(w)
      BY <1>1, <2>1 DEF OnDisk, Named, Spawns
  <2>3. /\ metaSeq' \in Nat /\ files' \in [Branches -> BranchRecord]
        /\ pc' \in [Sessions -> Steps] /\ unsaved' = [t \in Sessions |-> unsaved'[t]]
      BY <1>1, <1>3, <1>4, <1>8, <1>9, <2>1 DEF SessionTypes, Steps
  <2>4. FilesNamed' /\ OnDisk \ mixed \subseteq OnDisk'
      BY <1>1, <1>4, <2>1, <2>2 DEF FilesNamed
  <2>5. WorkNamed(s)'
      BY <1>1, <1>3, <1>5, <2>1, <2>2 DEF WorkNamed, Busy, Spawns
  <2>6. ASSUME exclusive
        PROVE  FilesTrue' /\ WorkTrue(s)'
    <3>1. FilesTrue /\ WorkTrue(s) /\ w.seq >= metaSeq /\ metaSeq' = w.seq
        BY <1>3, <1>5, <1>6, <1>9, <2>1, <2>6 DEF WorkTrue
    <3>2. \A b \in OnDisk : files[b].snap \in Nat
        BY <1>4 DEF SessionTypes, BranchRecord, OnDisk
    <3>3. FilesTrue'
        BY <1>1, <1>5, <2>1, <2>2, <3>1, <3>2 DEF FilesTrue
    <3> QED
        BY <1>1, <1>3, <2>1, <2>2, <3>1, <3>3 DEF WorkTrue, Spawns
  <2> QED
      BY <2>3, <2>4, <2>5, <2>6
<1>10. ASSUME n # Metadata
       PROVE  /\ metaSeq' \in Nat /\ files' \in [Branches -> BranchRecord]
              /\ pc' \in [Sessions -> Steps] /\ unsaved' = [t \in Sessions |-> unsaved'[t]]
              /\ FilesNamed' /\ OnDisk \ mixed \subseteq OnDisk' /\ WorkNamed(s)'
              /\ exclusive => FilesTrue' /\ WorkTrue(s)'
  <2>1. /\ pc[s] = "files" /\ pc' = pc /\ unsaved'[s] = unsaved[s] \ {n}
        /\ n \in Branches /\ n \in Known(w)
        /\ metaSeq' = metaSeq /\ files' = [files EXCEPT ![n] = aside[n]]
      BY <1>1, <1>3, <1>4, <1>10 DEF InPlace, SessionTypes
  <2>2. /\ files' \in [Branches -> BranchRecord] /\ files'[n] = aside[n]
        /\ \A b \in Branches : b # n => files'[b] = files[b]
      BY <1>4, <1>8, <1>10, <2>1 DEF SessionTypes
  <2>3. OnDisk \ {n} \subseteq OnDisk' /\ OnDisk' \subseteq OnDisk \cup {n}
        /\ (aside[n].status # "Unknown" => n \in OnDisk')
        /\ (n \in OnDisk' => aside[n].status # "Unknown")
      BY <2>1, <2>2 DEF OnDisk
  <2>4. n \notin mixed => n \in OnDisk'
      BY <1>3, <1>6, <1>10, <2>3
  <2>5. Known(work'[s]) = Known(w) /\ Named(s)' = Known(w)
      BY <1>1, <2>1 DEF Named, Spawns
  <2>6. /\ metaSeq' \in Nat /\ pc' \in [Sessions -> Steps]
        /\ unsaved' = [t \in Sessions |-> unsaved'[t]]
      BY <1>1, <1>4, <1>10, <2>1 DEF SessionTypes
  <2>7. FilesNamed' /\ OnDisk \ mixed \subseteq OnDisk'
    <3>1. \A b \in OnDisk' : files'[b].snap \in DOMAIN objectFiles' \ {NoSnapshot}
        BY <1>1, <1>4, <1>8, <1>10, <2>1, <2>2, <2>3 DEF FilesNamed, OnDisk
    <3> QED
        BY <2>3, <2>4, <3>1 DEF FilesNamed
  <2>8. WorkNamed(s)'
    <3>1. /\ unsaved[s] \subseteq Known(w)
          /\ (Known(w) \ unsaved[s]) \ mixed \subseteq OnDisk
        BY <1>3, <1>5, <2>1 DEF WorkNamed
    <3>2. /\ unsaved'[s] \subseteq Known(w)
          /\ (Known(w) \ unsaved'[s]) \ mixed \subseteq OnDisk'
        BY <2>1, <2>4, <2>7, <3>1
    <3> QED
        BY <1>1, <1>3, <1>5, <2>1, <2>5, <3>2 DEF WorkNamed, Busy, Spawns
  <2>9. ASSUME exclusive
        PROVE  FilesTrue' /\ WorkTrue(s)'
    <3>1. FilesTrue /\ WorkTrue(s) /\ aside[n] = w.branch[n]
        BY <1>3, <1>5, <1>6, <1>10, <2>9
    <3>2. /\ objectFiles[w.branch[n].snap] = spawnedOn[n] /\ w.branch[n].snap <= metaSeq
          /\ \A c \in committed : w.branch[c].status = "Merged"
          /\ \A c \in Known(w) \ unsaved[s] : files[c] = w.branch[c]
        BY <1>3, <2>1, <3>1 DEF WorkTrue, Spawns
    <3>3. committed \subseteq Branches
        BY <1>4 DEF SessionTypes
    <3>4. FilesTrue'
      <4>1. \A b \in OnDisk' : /\ objectFiles[files'[b].snap] = spawnedOn[b]
                                 /\ files'[b].snap <= metaSeq
          BY <2>1, <2>2, <2>3, <3>1, <3>2 DEF FilesTrue, OnDisk
      <4>2. \A b \in committed : files'[b].status = "Merged"
          BY <2>1, <2>2, <3>1, <3>2, <3>3 DEF FilesTrue
      <4> QED
          BY <1>1, <2>1, <4>1, <4>2 DEF FilesTrue
    <3>5. \A c \in Known(w) \ unsaved'[s] : files'[c] = w.branch[c]
        BY <2>1, <2>2, <3>1, <3>2 DEF Known
    <3> QED
        BY <1>1, <1>3, <2>1, <2>5, <3>1, <3>4, <3>5 DEF WorkTrue, Spawns
  <2> QED
      BY <2>2, <2>6, <2>7, <2>8, <2>9
<1>11. /\ metaSeq' \in Nat /\ files' \in [Branches -> BranchRecord]
       /\ pc' \in [Sessions -> Steps] /\ unsaved' = [t \in Sessions |-> unsaved'[t]]
       /\ FilesNamed' /\ OnDisk \ mixed \subseteq OnDisk' /\ WorkNamed(s)'
       /\ exclusive => FilesTrue' /\ WorkTrue(s)'
    BY <1>9, <1>10
<1>12. SessionTypes'
  <2>1. \A t \in Sessions : SessionTyped(t)'
      BY <1>1, <1>3, <1>4, <1>5, <1>7 DEF SessionTypes, SessionTyped, Busy
  <2>2. AsideTyped'
      BY <1>4, <1>7 DEF AsideTyped, SessionTypes
  <2>3. /\ open' \in [Sessions -> Names \cup {None}]
        /\ place' \in [Sessions -> {"aside", "inPlace", "lost"}]
        /\ written' \in [Sessions -> BOOLEAN]
      BY <1>1, <1>4 DEF SessionTypes, Moves
  <2> QED
      BY <1>1, <1>4, <1>11, <2>1, <2>2, <2>3 DEF SessionTypes
<1>13. AsideNamed' /\ created' \ mixed' \subseteq OnDisk'
    BY <1>1, <1>4, <1>7, <1>11 DEF AsideNamed
<1>14. ASSUME NEW t \in Sessions
       PROVE  OpenSafe(t)'
  <2>1. CASE t = s
      BY <1>7, <2>1 DEF OpenSafe
  <2>2. CASE t # s
    <3>1. /\ OpenSafe(t) /\ open'[t] = open[t] /\ written'[t] = written[t]
          /\ \A m : ToSave(t, m)' = ToSave(t, m) /\ Content(t, m)' = Content(t, m)
        BY <1>1, <1>2, <1>7, <2>2 DEF ToSave, Content
    <3>2. CASE open[t] = n
        BY <1>1, <2>2, <3>1, <3>2 DEF OpenSafe
    <3>3. CASE open[t] # n
      <4>1. /\ place'[t] = place[t]
            /\ \A m \in DOMAIN aside : m # n => m \in DOMAIN aside' /\ aside'[m] = aside[m]
          BY <1>7, <2>2, <3>3
      <4>2. \A u \in Sessions \ {t} : open'[u] = None \/ open'[u] = open[u]
          BY <1>7
      <4> QED
          BY <1>1, <3>1, <3>3, <4>1, <4>2 DEF OpenSafe
    <3> QED
        BY <3>2, <3>3
  <2> QED
      BY <2>1, <2>2
<1> QED
    BY <1>1, <1>5, <1>7, <1>11, <1>12, <1>13, <1>14, SessionStep

\* A session that ends has nothing left in memory.
LEMMA EndedIs ==
    ASSUME CommandInv, NEW s \in Sessions, Ended(s)
    PROVE  /\ pc'[s] = "idle" /\ ~Busy(s)'
           /\ pc' \in [Sessions -> Steps]
           /\ \A t \in Sessions \ {s} : /\ pc'[t] = pc[t] /\ work'[t] = work[t]
                                        /\ job'[t] = job[t] /\ unsaved'[t] = unsaved[t]
           /\ work' = [t \in Sessions |-> work'[t]]
           /\ job' = [t \in Sessions |-> job'[t]]
           /\ unsaved' = [t \in Sessions |-> unsaved'[t]]
           /\ \A t \in Sessions : SessionTyped(t)'
           /\ open' \in [Sessions -> Names \cup {None}]
           /\ place' \in [Sessions -> {"aside", "inPlace", "lost"}]
           /\ written' \in [Sessions -> BOOLEAN]
           /\ begun' = begun
           /\ open'[s] = None
           /\ \A t \in Sessions \ {s} : /\ open'[t] = open[t] /\ place'[t] = place[t]
                                        /\ written'[t] = written[t]
<1> DEFINE blank == Blank
<1>1. /\ pc' = [pc EXCEPT ![s] = "idle"]
      /\ work' = [work EXCEPT ![s] = blank]
      /\ job' = [job EXCEPT ![s] = None]
      /\ unsaved' = [unsaved EXCEPT ![s] = {}]
      /\ open' = [open EXCEPT ![s] = None]
      /\ place' = [place EXCEPT ![s] = "aside"]
      /\ written' = [written EXCEPT ![s] = FALSE]
      /\ begun' = begun
    BY DEF Ended, Moved
<1> HIDE DEF blank
<1>2. SessionTypes
    BY DEF CommandInv
<1>3. /\ open' \in [Sessions -> Names \cup {None}]
      /\ place' \in [Sessions -> {"aside", "inPlace", "lost"}]
      /\ written' \in [Sessions -> BOOLEAN]
      /\ open'[s] = None
      /\ \A t \in Sessions \ {s} : /\ open'[t] = open[t] /\ place'[t] = place[t]
                                   /\ written'[t] = written[t]
    BY <1>1, <1>2 DEF SessionTypes
<1> QED
    BY <1>1, <1>2, <1>3 DEF SessionTypes, SessionTyped, Busy, Steps

\* The others keep the files they have open.
LEMMA EndedOpen ==
    ASSUME CommandInv, NEW s \in Sessions, Ended(s), mixed' = mixed,
           \A m \in DOMAIN aside : (\E t \in Sessions \ {s} : open[t] = m)
                                    => m \in DOMAIN aside' /\ aside'[m] = aside[m]
    PROVE  \A t \in Sessions : OpenSafe(t)'
<1>1. OpenSafe(s)'
    BY EndedIs DEF OpenSafe
<1>2. ASSUME NEW t \in Sessions, t # s
      PROVE  OpenSafe(t)'
  <2>1. /\ OpenSafe(t) /\ open'[t] = open[t] /\ place'[t] = place[t] /\ written'[t] = written[t]
        /\ pc'[t] = pc[t] /\ work'[t] = work[t] /\ unsaved'[t] = unsaved[t]
      BY <1>2, EndedIs DEF CommandInv
  <2>2. \A m : ToSave(t, m)' = ToSave(t, m) /\ Content(t, m)' = Content(t, m)
      BY <2>1 DEF ToSave, Content
  <2>3. open'[s] = None /\ \A u \in Sessions \ {s} : open'[u] = open[u]
      BY EndedIs
  <2> QED
      BY <1>2, <2>1, <2>2, <2>3 DEF OpenSafe
<1> QED
    BY <1>1, <1>2

LEMMA ReportStep ==
    ASSUME CommandInv, NEW s \in Sessions, Report(s)
    PROVE  CommandInv'
<1> DEFINE w == work[s]
           b == job[s]
<1>1. /\ pc[s] = "files" /\ unsaved[s] = {} /\ Ended(s)
      /\ \/ w.branch[b].status = "Merged" /\ committed' = committed \cup {b} /\ created' = created
         \/ created' = created \cup {b} /\ committed' = committed
      /\ UNCHANGED <<exclusive, metaSeq, files, aside, chainFile, objectFiles, spawnedOn, mixed>>
    BY DEF Report, disk, storeFiles, snapshotFiles
<1>2. /\ Busy(s) /\ SessionTypes /\ FilesNamed /\ AsideNamed
      /\ created \ mixed \subseteq OnDisk
    BY <1>1 DEF CommandInv, Busy
<1>3. /\ b \in Branches /\ b \in Known(w) /\ WorkNamed(s)
      /\ exclusive => mixed = {} /\ FilesTrue /\ WorkTrue(s)
      /\ exclusive => \A t \in Sessions \ {s} : ~Busy(t)
    BY <1>2, BusyHas, BusyAlone
<1>4. b \in OnDisk \cup mixed /\ OnDisk' = OnDisk
    BY <1>1, <1>2, <1>3 DEF WorkNamed, OnDisk
<1>5. SessionTypes'
    BY <1>1, <1>2, <1>3, EndedIs DEF SessionTypes, AsideTyped
<1>6. WorkNamed(s)' /\ WorkTrue(s)'
    BY <1>1, EndedIs DEF WorkNamed, WorkTrue
<1>7. FilesNamed' /\ AsideNamed' /\ created' \ mixed' \subseteq OnDisk'
    BY <1>1, <1>2, <1>4 DEF FilesNamed, AsideNamed
<1>8. exclusive => FilesTrue'
  <2> SUFFICES ASSUME exclusive PROVE FilesTrue'
      OBVIOUS
  <2>1. FilesTrue /\ files[b] = w.branch[b]
      BY <1>1, <1>2, <1>3 DEF WorkTrue
  <2>2. \A c \in committed' : files[c].status = "Merged"
      BY <1>1, <2>1 DEF FilesTrue
  <2> QED
      BY <1>1, <1>4, <2>1, <2>2 DEF FilesTrue
<1>9. \A t \in Sessions : OpenSafe(t)'
    BY <1>1, EndedOpen
<1> QED
    BY <1>1, <1>3, <1>4, <1>5, <1>6, <1>7, <1>8, <1>9, EndedIs, SessionStep

LEMMA DieStep ==
    ASSUME CommandInv, NEW s \in Sessions, Die(s)
    PROVE  CommandInv'
<1> DEFINE gone == {n \in Names : \A t \in Sessions \ {s} : open[t] # n}
<1>1. /\ Busy(s) /\ Ended(s)
      /\ aside' = Without(aside, gone)
      /\ UNCHANGED <<exclusive, metaSeq, files, objectFiles, spawnedOn, created, committed,
                     mixed>>
    BY DEF Die, snapshotFiles, history, Busy
<1>2. /\ SessionTypes /\ FilesNamed /\ AsideNamed
      /\ created \ mixed \subseteq OnDisk
    BY DEF CommandInv
<1>3. /\ exclusive => mixed = {} /\ FilesTrue
      /\ exclusive => \A t \in Sessions \ {s} : ~Busy(t)
    BY <1>1, BusyHas, BusyAlone
<1>4. OnDisk' = OnDisk
    BY <1>1 DEF OnDisk
<1>5. /\ DOMAIN aside' \subseteq DOMAIN aside /\ \A m \in DOMAIN aside' : aside'[m] = aside[m]
      /\ \A m \in DOMAIN aside : m \notin gone => m \in DOMAIN aside'
    BY <1>1 DEF Without
<1>6. SessionTypes'
  <2>1. AsideTyped'
      BY <1>2, <1>5 DEF AsideTyped, SessionTypes
  <2> QED
      BY <1>1, <1>2, <2>1, EndedIs DEF SessionTypes
<1>7. WorkNamed(s)' /\ WorkTrue(s)'
    BY <1>1, EndedIs DEF WorkNamed, WorkTrue
<1>8. FilesNamed' /\ AsideNamed' /\ created' \ mixed' \subseteq OnDisk'
    BY <1>1, <1>2, <1>4, <1>5 DEF FilesNamed, AsideNamed
<1>9. exclusive => FilesTrue'
    BY <1>1, <1>3, <1>4 DEF FilesTrue
<1>10. \A t \in Sessions : OpenSafe(t)'
    BY <1>1, <1>5, EndedOpen
<1> QED
    BY <1>1, <1>3, <1>4, <1>6, <1>7, <1>8, <1>9, <1>10, EndedIs, SessionStep

LEMMA CommandStep ==
    ASSUME CommandInv, [SessionsNext]_sessionVars
    PROVE  CommandInv'
<1>1. CASE UNCHANGED sessionVars
  <2>1. /\ UNCHANGED <<exclusive, metaSeq, files, objectFiles, pc, work, job, unsaved, spawnedOn,
                       created, committed>>
        /\ UNCHANGED <<aside, open, place, written, begun, mixed>>
      BY <1>1 DEF sessionVars, disk, memory, history, storeFiles, snapshotFiles, handles
  <2>2. OnDisk' = OnDisk
      BY <2>1 DEF OnDisk
  <2>3. SessionTypes'
      BY <2>1 DEF CommandInv, SessionTypes, SessionTyped, AsideTyped, Busy
  <2>4. ASSUME NEW s \in Sessions
        PROVE  /\ Named(s)' = Named(s)
               /\ WorkNamed(s) => WorkNamed(s)'
               /\ WorkTrue(s) => WorkTrue(s)'
               /\ OpenSafe(s) => OpenSafe(s)'
    <3>1. Known(work'[s]) = Known(work[s])
        BY <2>1
    <3>2. Named(s)' = Named(s)
        BY <2>1, <3>1 DEF Named, Spawns
    <3> QED
        BY <2>1, <2>2, <3>1, <3>2 DEF WorkNamed, WorkTrue, OpenSafe, ToSave, Content, Busy,
                                      Spawns
  <2> QED
      BY <2>1, <2>2, <2>3, <2>4
         DEF CommandInv, FilesNamed, AsideNamed, FilesTrue, Alone, Busy
<1>2. CASE SessionsNext
    BY <1>2, BeginCreateStep, BeginCommitStep, SaveObjectStep, OpenChainStep, SaveChainStep,
       OpenAsideStep, WriteAsideStep, RenameAsideStep, ReportStep, DieStep
       DEF SessionsNext
<1> QED
    BY <1>1, <1>2

\* What every command finds and leaves, whatever sessions died before it.
THEOREM CommandInvariant == SessionsSpec => []CommandInv
<1> QED
    BY CommandInit, CommandStep, PTL DEF SessionsSpec

\* The object file of a branch on disk is the graph it was spawned on, for any
\* number of branches, sessions and graphs and any caps, wherever sessions
\* die, as long as they do not overlap (BranchPersistence::save, the metadata
\* before the branch files).
THEOREM SnapshotsOnDisk == SessionsSpec => []SnapshotsIntact
<1>1. CommandInv => SnapshotsIntact
    BY DEF CommandInv, FilesNamed, FilesTrue, SnapshotsIntact, OnDisk
<1> QED
    BY <1>1, CommandInvariant, PTL

\* A reported commit stays, for any number of sessions that run one at a time
\* (CommitCoordinator::commit).
THEOREM CommitsStay == SessionsSpec => []CommitsDurable
<1>1. CommandInv => CommitsDurable
    BY DEF CommandInv, FilesTrue, CommitsDurable
<1> QED
    BY <1>1, CommandInvariant, PTL

\* A reported creation stays on disk with its snapshot, even where any number
\* of sessions overlap, unless two of them had the aside file of that branch
\* open at the same time (UltraAuthorityAPI::createBranch).
THEOREM CreationsStay == SessionsSpec => []CreationsDurable
<1>1. CommandInv => CreationsDurable
  <2> SUFFICES ASSUME CommandInv, NEW b \in created \ mixed
               PROVE  b \in OnDisk /\ files[b].snap # NoSnapshot
      BY DEF CreationsDurable
  <2>1. b \in OnDisk /\ files[b].snap \in DOMAIN objectFiles \ {NoSnapshot}
      BY DEF CommandInv, FilesNamed
  <2> QED
      BY <2>1 DEF OnDisk, NoSnapshot
<1> QED
    BY <1>1, CommandInvariant, PTL
-----------------------------------------------------------------------------
(* What the commands keep on disk and in memory has its type.  A session   *)
(* that is busy has a chain of snapshots, so that the file it writes is a  *)
(* list of ids and what the next session loads is a chain again; a session *)
(* that is idle has nothing.                                               *)

\* The ranks of the positions I are 1 .. Cardinality(I), each once.
LEMMA Ranks ==
    ASSUME NEW n \in Nat, NEW I \in SUBSET (1 .. n)
    PROVE  /\ Cardinality(I) \in Nat
           /\ \A i \in I : Cardinality({j \in I : j <= i}) \in 1 .. Cardinality(I)
           /\ \A i, j \in I : Cardinality({h \in I : h <= i}) = Cardinality({h \in I : h <= j})
                                 => i = j
           /\ \A m \in 1 .. Cardinality(I) :
                 \E i \in I : Cardinality({j \in I : j <= i}) = m
<1> DEFINE UpTo(i) == {j \in I : j <= i}
           rank == [i \in I |-> Cardinality(UpTo(i))]
<1>1. IsFiniteSet(I) /\ Cardinality(I) \in Nat
  <2>1. IsFiniteSet(1 .. n)
    BY FS_Interval
  <2> QED
    BY <2>1, FS_Subset, FS_CardinalityType
<1>2. ASSUME NEW i \in I
      PROVE  /\ IsFiniteSet(UpTo(i))
             /\ Cardinality(UpTo(i)) \in 1 .. Cardinality(I)
  <2>1. UpTo(i) \in SUBSET I /\ i \in UpTo(i)
    OBVIOUS
  <2>2. IsFiniteSet(UpTo(i)) /\ Cardinality(UpTo(i)) <= Cardinality(I)
    BY <1>1, <2>1, FS_Subset
  <2>3. Cardinality(UpTo(i)) \in Nat /\ Cardinality(UpTo(i)) # 0
    BY <2>1, <2>2, FS_CardinalityType, FS_EmptySet
  <2> QED
    BY <1>1, <2>2, <2>3
<1>3. ASSUME NEW i \in I, NEW j \in I, i < j
      PROVE  Cardinality(UpTo(i)) # Cardinality(UpTo(j))
  <2>1. UpTo(i) \in SUBSET UpTo(j) /\ j \in UpTo(j) /\ j \notin UpTo(i)
    <3>1. i \in Nat /\ j \in Nat /\ \A h \in I : h \in Nat
      OBVIOUS
    <3>2. \A h \in I : h <= i => h <= j
      BY <1>3, <3>1
    <3>3. j <= j /\ ~(j <= i)
      BY <1>3, <3>1
    <3> QED
      BY <3>2, <3>3
  <2> HIDE DEF UpTo
  <2> QED
    BY <1>2, <2>1, FS_Subset
<1>4. \A i, j \in I : Cardinality(UpTo(i)) = Cardinality(UpTo(j)) => i = j
  <2> SUFFICES ASSUME NEW i \in I, NEW j \in I, i # j
               PROVE  Cardinality(UpTo(i)) # Cardinality(UpTo(j))
    OBVIOUS
  <2>1. i < j \/ j < i
    OBVIOUS
  <2> HIDE DEF UpTo
  <2> QED
    BY <1>3, <2>1
<1>5. rank \in Injection(I, 1 .. Cardinality(I))
  <2> HIDE DEF UpTo
  <2> QED
    BY <1>2, <1>4 DEF Injection, IsInjective
<1>6. rank \in Surjection(I, 1 .. Cardinality(I))
  <2>1. IsFiniteSet(1 .. Cardinality(I)) /\ Cardinality(1 .. Cardinality(I)) = Cardinality(I)
    BY <1>1, FS_Interval
  <2> HIDE DEF rank
  <2> QED
    BY <1>5, <2>1, FS_Injection
<1>7. \A m \in 1 .. Cardinality(I) : \E i \in I : Cardinality(UpTo(i)) = m
  <2> HIDE DEF UpTo
  <2> QED
    BY <1>6 DEF Surjection
<1> QED
    BY <1>1, <1>2, <1>4, <1>7

\* What stands at some positions of a sequence, when all of it is of one kind.
LEMMA SubsequenceIs ==
    ASSUME NEW s, Len(s) \in Nat, NEW I \in SUBSET (1 .. Len(s)), NEW S,
           \A i \in I : s[i] \in S
    PROVE  Subsequence(s, I) \in Seq(S)
<1> DEFINE Rank(i) == Cardinality({j \in I : j <= i})
           At(m) == CHOOSE i \in I : Rank(i) = m
           n == Cardinality(I)
           r == [m \in 1 .. n |-> s[At(m)]]
<1>1. n \in Nat /\ \A m \in 1 .. n : \E i \in I : Rank(i) = m
    BY Ranks
<1>2. Subsequence(s, I) = r
    BY DEF Subsequence
<1> HIDE DEF Rank, n
<1>3. \A m \in 1 .. n : At(m) \in I
    BY <1>1
<1> HIDE DEF At
<1>4. r \in [1 .. n -> S]
    BY <1>3
<1> QED
    BY <1>1, <1>2, <1>4, IsASeq

Ids == Nat \ {0}

ChainFileTyped == chainFile = Torn \/ chainFile \in Seq(Ids)

ObjectsTyped == \A id \in DOMAIN objectFiles : /\ id \in Nat
                                               /\ objectFiles[id] \in Graphs \cup {Torn}

\* What a session has in memory.
MemoryTyped(s) ==
    IF Busy(s) THEN work[s] \in Core /\ unsaved[s] \subseteq Branches
               ELSE work[s] = Blank /\ job[s] = None /\ unsaved[s] = {}

DataInv == /\ exclusive \in BOOLEAN
           /\ ChainFileTyped
           /\ ObjectsTyped
           /\ \A s \in Sessions : MemoryTyped(s)

\* What can be read of the chain file is a chain.
LEMMA LoadedChainIs ==
    ASSUME ChainFileTyped, ObjectsTyped
    PROVE  LoadedChain \in Seq(SnapshotRecord)
<1>1. CASE chainFile = Torn
    BY <1>1 DEF LoadedChain
<1>2. CASE chainFile # Torn
  <2> DEFINE good  == {id \in Ids : id \in DOMAIN objectFiles /\ objectFiles[id] \in Graphs}
             ids   == Subsequence(chainFile, Readable)
             chain == LoadedFrom(Readable)
  <2>1. /\ Len(chainFile) \in Nat /\ DOMAIN chainFile = 1 .. Len(chainFile)
        /\ \A i \in DOMAIN chainFile : chainFile[i] \in Ids
    BY <1>2, LenProperties, ElementOfSeq DEF ChainFileTyped
  <2>2. Readable \in SUBSET (1 .. Len(chainFile)) /\ \A i \in Readable : chainFile[i] \in good
    BY <2>1 DEF Readable, ObjectsTyped
  <2> HIDE DEF good
  <2>3. ids \in Seq(good)
    BY <2>1, <2>2, SubsequenceIs
  <2> HIDE DEF ids
  <2>4. Len(ids) \in Nat /\ DOMAIN ids = 1 .. Len(ids) /\ \A i \in DOMAIN ids : ids[i] \in good
    BY <2>3, LenProperties, ElementOfSeq
  <2>5. chain = [i \in 1 .. Len(ids) |-> [id |-> ids[i], graph |-> objectFiles[ids[i]]]]
    BY <2>4 DEF LoadedFrom, ids
  <2>6. chain \in [1 .. Len(ids) -> SnapshotRecord]
    BY <2>4, <2>5 DEF good, SnapshotRecord, Ids
  <2>7. chain \in Seq(SnapshotRecord)
    BY <2>4, <2>6, IsASeq
  <2> HIDE DEF chain
  <2> QED
    BY <1>2, <2>7, RetainKeeps DEF LoadedChain, IsChain, chain
<1> QED
    BY <1>1, <1>2

\* So a session that starts has a store of branches and snapshots.
LEMMA LoadedStateTyped ==
    ASSUME SessionTypes, ChainFileTyped, ObjectsTyped, NEW g \in Graphs
    PROVE  LoadedState(g) \in Core
<1>1. LoadedState(g) \in Store({LoadedState(g).chain})
    BY LoadedStateIs
<1>2. LoadedState(g).chain = LoadedChain
    BY DEF LoadedState
<1>3. LoadedChain \in Seq(SnapshotRecord)
    BY LoadedChainIs
<1> HIDE DEF LoadedState
<1> QED
    BY <1>1, <1>2, <1>3 DEF Core, Store

LEMMA DataInit == SessionsInit => DataInv
<1> SUFFICES ASSUME SessionsInit PROVE DataInv
    OBVIOUS
<1>1. exclusive \in BOOLEAN /\ ChainFileTyped /\ ObjectsTyped
    BY DEF SessionsInit, ChainFileTyped, ObjectsTyped
<1>2. \A s \in Sessions : MemoryTyped(s)
    BY Zenon DEF SessionsInit, MemoryTyped, Busy
<1> QED
    BY <1>1, <1>2 DEF DataInv

\* A step of session s: the others still have what they had.
LEMMA MemoryStep ==
    ASSUME DataInv, NEW s \in Sessions, exclusive' = exclusive,
           \A t \in Sessions \ {s} : /\ pc'[t] = pc[t] /\ work'[t] = work[t]
                                     /\ job'[t] = job[t] /\ unsaved'[t] = unsaved[t],
           ChainFileTyped', ObjectsTyped', MemoryTyped(s)'
    PROVE  DataInv'
<1>1. ASSUME NEW t \in Sessions, t # s
      PROVE  MemoryTyped(t)'
  <2>1. MemoryTyped(t) /\ pc'[t] = pc[t] /\ work'[t] = work[t] /\ job'[t] = job[t]
        /\ unsaved'[t] = unsaved[t]
    BY <1>1 DEF DataInv
  <2> QED
    BY <2>1 DEF MemoryTyped, Busy
<1> QED
    BY <1>1 DEF DataInv

LEMMA BeginCreateTyped ==
    ASSUME CommandInv, DataInv, NEW s \in Sessions, NEW b \in Branches, NEW g \in Graphs,
           BeginCreate(s, b, g)
    PROVE  DataInv'
<1> DEFINE x == LoadedState(g)
           w == Spawning(x, b)
<1>1. /\ pc[s] = "idle"
      /\ work' = [work EXCEPT ![s] = w]
      /\ job' = [job EXCEPT ![s] = b]
      /\ pc' = [pc EXCEPT ![s] = "object"]
      /\ UNCHANGED <<exclusive, chainFile, objectFiles, unsaved>>
    BY DEF BeginCreate, MayStart, Moved, disk, snapshotFiles
<1>2. SessionTypes /\ ChainFileTyped /\ ObjectsTyped /\ unsaved[s] = {}
    BY <1>1 DEF CommandInv, DataInv, MemoryTyped, Busy
<1>3. x \in Core
    BY <1>2, LoadedStateTyped
<1> HIDE DEF x
<1>4. w.chain = Appended(x.chain, [id |-> x.seq + 2, graph |-> x.graph])
    BY <1>3 DEF Spawning, Core, Store
<1>5. x.chain \in Seq(SnapshotRecord)
      /\ [id |-> x.seq + 2, graph |-> x.graph] \in SnapshotRecord
    BY <1>3 DEF Core, Store, SnapshotRecord
<1>6. w.chain \in Seq(SnapshotRecord)
    BY <1>4, <1>5, AppendedKeeps DEF IsChain
<1>7. w \in Store({w.chain})
    BY <1>3, SpawningIs DEF Core
<1> HIDE DEF w
<1>8. w \in Core
    BY <1>6, <1>7 DEF Core, Store
<1>9. /\ pc'[s] = "object" /\ work'[s] = w /\ unsaved'[s] = {}
      /\ \A t \in Sessions \ {s} : /\ pc'[t] = pc[t] /\ work'[t] = work[t]
                                   /\ job'[t] = job[t] /\ unsaved'[t] = unsaved[t]
    BY <1>1, <1>2 DEF SessionTypes
<1>10. ChainFileTyped' /\ ObjectsTyped' /\ MemoryTyped(s)'
    BY <1>1, <1>2, <1>8, <1>9 DEF ChainFileTyped, ObjectsTyped, MemoryTyped, Busy
<1> QED
    BY <1>1, <1>9, <1>10, MemoryStep

LEMMA BeginCommitTyped ==
    ASSUME CommandInv, DataInv, NEW s \in Sessions, NEW source \in Branches,
           NEW target \in Branches, BeginCommit(s, source, target)
    PROVE  DataInv'
<1>1. PICK g \in Graphs :
         /\ CommitGates(LoadedState(g), source, target)
         /\ \E w \in Merged(LoadedState(g), objectFiles, source, target) :
               work' = [work EXCEPT ![s] = w]
    BY DEF BeginCommit
<1> DEFINE x == LoadedState(g)
<1>2. PICK w \in Merged(x, objectFiles, source, target) : work' = [work EXCEPT ![s] = w]
    BY <1>1
<1>3. /\ pc[s] = "idle"
      /\ job' = [job EXCEPT ![s] = source]
      /\ pc' = [pc EXCEPT ![s] = "meta"]
      /\ UNCHANGED <<exclusive, chainFile, objectFiles, unsaved>>
      /\ source # target
    BY <1>1 DEF BeginCommit, MayStart, Moved, disk, snapshotFiles, CommitGates
<1>4. SessionTypes /\ ChainFileTyped /\ ObjectsTyped /\ unsaved[s] = {}
    BY <1>3 DEF CommandInv, DataInv, MemoryTyped, Busy
<1>5. x \in Core
    BY <1>4, LoadedStateTyped
<1> HIDE DEF x
<1>6. w \in Core
    BY <1>2, <1>3, <1>5, MergedIs DEF Core
<1>7. /\ pc'[s] = "meta" /\ work'[s] = w /\ unsaved'[s] = {}
      /\ \A t \in Sessions \ {s} : /\ pc'[t] = pc[t] /\ work'[t] = work[t]
                                   /\ job'[t] = job[t] /\ unsaved'[t] = unsaved[t]
    BY <1>2, <1>3, <1>4 DEF SessionTypes
<1>8. ChainFileTyped' /\ ObjectsTyped' /\ MemoryTyped(s)'
    BY <1>3, <1>4, <1>6, <1>7 DEF ChainFileTyped, ObjectsTyped, MemoryTyped, Busy
<1> QED
    BY <1>3, <1>7, <1>8, MemoryStep

\* What a step of a busy session starts from.
LEMMA BusyTyped ==
    ASSUME CommandInv, DataInv, NEW s \in Sessions, Busy(s)
    PROVE  /\ SessionTypes /\ ChainFileTyped /\ ObjectsTyped
           /\ work[s] \in Core /\ work[s].chain \in Seq(SnapshotRecord)
           /\ work[s].seq \in Nat /\ work[s].graph \in Graphs
           /\ unsaved[s] \subseteq Branches /\ job[s] \in Branches
BY DEF CommandInv, SessionTypes, SessionTyped, DataInv, MemoryTyped, Core, Store

\* An object file is a graph, or torn.
LEMMA WrittenObject ==
    ASSUME ObjectsTyped, NEW id \in Nat, NEW g \in Graphs \cup {Torn},
           objectFiles' = With(objectFiles, id, g)
    PROVE  ObjectsTyped'
BY DEF ObjectsTyped, With

LEMMA SaveObjectTyped ==
    ASSUME CommandInv, DataInv, NEW s \in Sessions,
           OpenObject(s) \/ SaveObject(s) \/ OpenChain(s)
    PROVE  DataInv'
<1>1. /\ Busy(s) /\ \E step \in Steps \ {"idle"} : pc' = [pc EXCEPT ![s] = step]
      /\ \/ /\ \E g \in {work[s].graph, Torn} : objectFiles' = With(objectFiles, work[s].seq, g)
            /\ chainFile' = chainFile
         \/ objectFiles' = objectFiles /\ chainFile' = Torn
      /\ UNCHANGED <<exclusive, work, job, unsaved>>
    BY DEF OpenObject, SaveObject, OpenChain, Moved, Busy, Steps
<1>2. /\ SessionTypes /\ ChainFileTyped /\ ObjectsTyped
      /\ work[s] \in Core /\ work[s].seq \in Nat /\ work[s].graph \in Graphs
      /\ unsaved[s] \subseteq Branches
    BY <1>1, BusyTyped
<1>3. ObjectsTyped'
  <2>1. CASE objectFiles' = objectFiles
    BY <1>2, <2>1 DEF ObjectsTyped
  <2>2. CASE \E g \in {work[s].graph, Torn} : objectFiles' = With(objectFiles, work[s].seq, g)
    BY <1>2, <2>2, WrittenObject
  <2> QED
    BY <1>1, <2>1, <2>2
<1>4. ChainFileTyped'
    BY <1>1, <1>2 DEF ChainFileTyped
<1>5. pc'[s] # "idle" /\ \A t \in Sessions \ {s} : pc'[t] = pc[t]
    BY <1>1, <1>2 DEF SessionTypes
<1>6. MemoryTyped(s)'
    BY <1>1, <1>2, <1>5 DEF MemoryTyped, Busy
<1> QED
    BY <1>1, <1>3, <1>4, <1>5, <1>6, MemoryStep

LEMMA SaveChainTyped ==
    ASSUME CommandInv, DataInv, NEW s \in Sessions, SaveChain(s)
    PROVE  DataInv'
<1> DEFINE w   == work[s]
           ids == [i \in DOMAIN w.chain |-> w.chain[i].id]
<1>1. PICK hasParent \in BOOLEAN :
         \E done \in Spawned(w, objectFiles, job[s], hasParent) :
            work' = [work EXCEPT ![s] = done]
    BY DEF SaveChain
<1>2. PICK done \in Spawned(w, objectFiles, job[s], hasParent) :
         work' = [work EXCEPT ![s] = done]
    BY <1>1
<1>3. /\ pc[s] = "chainOpen" /\ pc' = [pc EXCEPT ![s] = "meta"]
      /\ chainFile' = ids
      /\ UNCHANGED <<exclusive, objectFiles, job, unsaved>>
    BY DEF SaveChain, Moved
<1>4. /\ Busy(s) /\ SessionTypes /\ ObjectsTyped
      /\ w \in Core /\ w.chain \in Seq(SnapshotRecord)
      /\ unsaved[s] \subseteq Branches /\ job[s] \in Branches
    BY <1>3, BusyTyped DEF Busy
<1>5. Len(w.chain) \in Nat /\ DOMAIN w.chain = 1 .. Len(w.chain)
      /\ \A i \in DOMAIN w.chain : w.chain[i].id \in Ids
    BY <1>4, LenProperties, ChainElements DEF Ids
<1>6. done \in Spawned(w, objectFiles, job[s], hasParent)
    BY <1>2
<1> HIDE DEF w
<1>7. ids \in [1 .. Len(w.chain) -> Ids]
    BY <1>5
<1>8. ids \in Seq(Ids)
    BY <1>5, <1>7, IsASeq
<1> HIDE DEF ids
<1>9. ChainFileTyped' /\ ObjectsTyped'
    BY <1>3, <1>4, <1>8 DEF ChainFileTyped, ObjectsTyped
<1>10. done \in Core
    BY <1>4, <1>6, SpawnedIs DEF Core
<1>11. /\ pc'[s] = "meta" /\ work'[s] = done
       /\ \A t \in Sessions \ {s} : /\ pc'[t] = pc[t] /\ work'[t] = work[t]
                                    /\ job'[t] = job[t] /\ unsaved'[t] = unsaved[t]
    BY <1>2, <1>3, <1>4 DEF SessionTypes
<1>12. MemoryTyped(s)'
    BY <1>3, <1>4, <1>10, <1>11 DEF MemoryTyped, Busy
<1> QED
    BY <1>3, <1>9, <1>11, <1>12, MemoryStep

LEMMA SaveStoreTyped ==
    ASSUME CommandInv, DataInv, NEW s \in Sessions,
           (\E n \in Names : OpenAside(s, n)) \/ WriteAside(s) \/ RenameAside(s)
    PROVE  DataInv'
<1>1. /\ UNCHANGED <<exclusive, chainFile, objectFiles, work, job>>
      /\ \/ UNCHANGED <<pc, unsaved>>
         \/ pc' = [pc EXCEPT ![s] = "files"] /\ unsaved' = [unsaved EXCEPT ![s] = Known(work[s])]
         \/ pc' = pc /\ unsaved' = [unsaved EXCEPT ![s] = unsaved[s] \ {open[s]}]
    BY DEF OpenAside, WriteAside, RenameAside, Moved, snapshotFiles
<1>2. Busy(s)
  <2>1. CASE \E n \in Names : OpenAside(s, n)
    BY <2>1 DEF OpenAside, ToSave, Busy
  <2>2. CASE open[s] # None
    BY <2>2, OpenHas DEF ToSave, Busy
  <2> QED
    BY <2>1, <2>2 DEF WriteAside, RenameAside
<1>3. /\ SessionTypes /\ ChainFileTyped /\ ObjectsTyped /\ work[s] \in Core
      /\ unsaved[s] \subseteq Branches
    BY <1>2, BusyTyped
<1>4. Known(work[s]) \subseteq Branches
    BY DEF Known
<1>5. /\ pc'[s] # "idle" /\ unsaved'[s] \subseteq Branches
      /\ \A t \in Sessions \ {s} : pc'[t] = pc[t] /\ unsaved'[t] = unsaved[t]
    BY <1>1, <1>2, <1>3, <1>4 DEF SessionTypes, Busy
<1>6. ChainFileTyped' /\ ObjectsTyped' /\ MemoryTyped(s)'
    BY <1>1, <1>3, <1>5 DEF ChainFileTyped, ObjectsTyped, MemoryTyped, Busy
<1> QED
    BY <1>1, <1>5, <1>6, MemoryStep

LEMMA EndTyped ==
    ASSUME CommandInv, DataInv, NEW s \in Sessions, Report(s) \/ Die(s)
    PROVE  DataInv'
<1>1. Busy(s) /\ Ended(s) /\ UNCHANGED <<exclusive, chainFile, objectFiles>>
    BY DEF Report, Die, disk, snapshotFiles, Busy
<1>2. SessionTypes /\ ChainFileTyped /\ ObjectsTyped
    BY <1>1, BusyTyped
<1>3. ChainFileTyped' /\ ObjectsTyped'
    BY <1>1, <1>2 DEF ChainFileTyped, ObjectsTyped
<1>4. work'[s] = Blank /\ job'[s] = None /\ unsaved'[s] = {}
  <2> DEFINE blank == Blank
  <2>1. /\ work' = [work EXCEPT ![s] = blank]
        /\ job' = [job EXCEPT ![s] = None]
        /\ unsaved' = [unsaved EXCEPT ![s] = {}]
    BY <1>1 DEF Ended
  <2> HIDE DEF blank
  <2>2. work'[s] = blank /\ job'[s] = None /\ unsaved'[s] = {}
    BY <1>2, <2>1 DEF SessionTypes
  <2> QED
    BY <2>2 DEF blank
<1>5. MemoryTyped(s)'
    BY <1>1, <1>4, EndedIs DEF MemoryTyped
<1> QED
    BY <1>1, <1>3, <1>5, EndedIs, MemoryStep

LEMMA DataStep ==
    ASSUME CommandInv, DataInv, [SessionsNext]_sessionVars
    PROVE  DataInv'
<1>1. CASE UNCHANGED sessionVars
    BY <1>1 DEF sessionVars, disk, snapshotFiles, memory, DataInv, ChainFileTyped,
                ObjectsTyped, MemoryTyped, Busy
<1>2. CASE SessionsNext
    BY <1>2, BeginCreateTyped, BeginCommitTyped, SaveObjectTyped, SaveChainTyped,
       SaveStoreTyped, EndTyped
       DEF SessionsNext
<1> QED
    BY <1>1, <1>2

\* What the commands keep has its type, for any number of sessions that overlap
\* or do not and die anywhere: a chain file a session wrote is a list of
\* snapshot ids, and what loadChain makes of it, with some objects gone or torn,
\* is a chain of snapshots again.
THEOREM SessionsTyped == SessionsSpec => []SessionsTypeOK
<1>1. ASSUME CommandInv, DataInv
      PROVE  SessionsTypeOK
  <2>1. Blank \in State
    BY DEF Blank, State, NoBranch, NoSnapshot, BranchRecord, Status
  <2>2. \A s \in Core : s \in State
    BY DEF Core, Store, State
  <2> DEFINE blank == Blank
  <2> HIDE DEF blank
  <2>3. ASSUME NEW s \in Sessions
        PROVE  /\ work[s] \in State /\ job[s] \in Branches \cup {None}
               /\ unsaved[s] \subseteq Branches
    <3>1. CASE Busy(s)
      BY <1>1, <2>2, <3>1, BusyTyped
    <3>2. CASE ~Busy(s)
      <4>1. work[s] = Blank /\ job[s] = None /\ unsaved[s] = {}
        BY <1>1, <3>2 DEF DataInv, MemoryTyped
      <4> QED
        BY <2>1, <4>1, Zenon
    <3> QED
      BY <3>1, <3>2
  <2>4. SessionTypes
    BY <1>1 DEF CommandInv
  <2>5. /\ work \in [Sessions -> State] /\ job \in [Sessions -> Branches \cup {None}]
        /\ unsaved \in [Sessions -> SUBSET Branches]
    BY <2>3, <2>4 DEF SessionTypes
  <2> QED
    BY <1>1, <2>4, <2>5
       DEF SessionsTypeOK, SessionTypes, AsideTyped, Names, DataInv, ChainFileTyped,
           ObjectsTyped, Ids
<1> QED
    BY <1>1, CommandInvariant, DataInit, DataStep, PTL DEF SessionsSpec
=============================================================================

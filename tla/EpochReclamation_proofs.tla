----------------------- MODULE EpochReclamation_proofs -----------------------
(***************************************************************************)
(* Proofs about EpochReclamation, for any threads, objects and thresholds. *)
(*                                                                         *)
(* TypeOK is inductive by itself.  IInv adds what the safety argument      *)
(* needs; its parts are stated in the order they depend on one another.    *)
(***************************************************************************)
EXTENDS EpochReclamation, FiniteSetTheorems, TLAPS

\* A thread inside a read section is registered, idle, and has published an
\* epoch no later than the global one; outside it holds nothing.
ReaderInv ==
    \A t \in Threads :
        /\ Reading(t) <=> activeEpoch[t] # Inactive
        /\ Reading(t) => pc[t] = "idle" /\ t \in registered
        /\ holds[t] # {} => Reading(t)
        /\ pc[t] = "entering" =>
              ~Reading(t) /\ t \in registered /\ loaded[t] # Inactive
        /\ activeEpoch[t] <= globalEpoch
        /\ loaded[t] <= globalEpoch

\* The slot's object is the only live one.
SlotInv == \A o \in Objects : place[o] = "live" <=> o = slot

\* Under one lock, whoever is past the start of a write holds the lock, and
\* only a writer about to tag has an unlinked object.
LockInv ==
    Serialized =>
        /\ \A t \in Threads : pc[t] \notin {"idle", "entering"} => writeLock = t
        /\ \A o \in Objects : place[o] = "unlinked" =>
              owner[o] \in Threads /\ pc[owner[o]] = "tagging"

\* A scan under the lock: whatever a reader it has passed holds is either the
\* live object or covered by the scan's bound, because the slot cannot change
\* before the reclaimer is done.
ScanInv ==
    /\ \A t \in Threads : pc[t] = "take" => toScan[t] = {}
    /\ Serialized =>
          \A t, r \in Threads : \A o \in holds[r] :
              /\ pc[t] \in {"scan", "take"}
              /\ place[o] \in {"local", "global"}
              /\ r \notin toScan[t]
              => oldest[t] <= activeEpoch[r]

\* No reader holds an object a reclaimer has picked.
HeldInv ==
    Serialized =>
        \A r \in Threads : \A o \in holds[r] :
            place[o] \notin {"reclaimable", "freed"}

IInv == ReaderInv /\ SlotInv /\ TagsCoverReaders /\ LockInv /\ ScanInv /\ HeldInv
-----------------------------------------------------------------------------
\* A part of the objects is finite, so that its cardinality is a number.
LEMMA ObjectsFinite ==
    ASSUME NEW S \in SUBSET Objects
    PROVE  Cardinality(S) \in Nat
  BY EpochAssumption, FS_Subset, FS_CardinalityType

\* The steps of a reader keep every variable in its set.
LEMMA ReaderType ==
    ASSUME TypeOK, NEW t \in Threads, Reader(t)
    PROVE  TypeOK'
  <1> USE EpochAssumption DEF TypeOK, Phases, readerVars, objectVars,
          reclaimVars, Goto, Register, Reading, Inactive
  <1>1. CASE EnterLoad(t)
    BY <1>1 DEF EnterLoad
  <1>2. CASE EnterPublish(t)
    BY <1>2 DEF EnterPublish
  <1>3. CASE EnterNested(t)
    BY <1>3 DEF EnterNested
  <1>4. CASE Dereference(t)
    BY <1>4 DEF Dereference
  <1>5. CASE ExitRead(t)
    BY <1>5 DEF ExitRead
  <1> QED
    BY <1>1, <1>2, <1>3, <1>4, <1>5 DEF Reader

\* A flush keeps the places and the counter in their sets.
LEMMA FlushType ==
    ASSUME TypeOK, NEW t \in Threads, Flush(t)
    PROVE  place' \in [Objects -> Places] /\ approx' \in Nat
  <1>1. At("global") \cup Mine("local", t) \in SUBSET Objects
    BY DEF At, Mine
  <1> QED
    BY <1>1, ObjectsFinite DEF Flush, TypeOK, Places

\* The steps of a writer keep every variable in its set.
LEMMA WriterType ==
    ASSUME TypeOK, NEW t \in Threads, Writer(t)
    PROVE  TypeOK'
  <1> USE EpochAssumption DEF TypeOK, Phases, readerVars, objectVars,
          reclaimVars, Goto, Register, Reading, EndWrite
  <1>1. CASE Replace(t)
    BY <1>1 DEF Replace, At, Places
  <1>2. CASE Retire(t)
    BY <1>2 DEF Retire, At, Mine, Places
  <1>3. CASE FlushInRetire(t)
    BY <1>3, FlushType DEF FlushInRetire
  <1>4. CASE CheckThreshold(t)
    BY <1>4 DEF CheckThreshold
  <1> QED
    BY <1>1, <1>2, <1>3, <1>4 DEF Writer

\* The steps of a reclaimer, and the end of a thread, do too.
LEMMA ReclaimerType ==
    ASSUME TypeOK, NEW t \in Threads, Reclaimer(t) \/ ThreadExit(t)
    PROVE  TypeOK'
  <1> USE EpochAssumption DEF TypeOK, Phases, readerVars, objectVars,
          reclaimVars, Goto, EndWrite
  <1>1. CASE ReclaimStart(t)
    BY <1>1, FlushType DEF ReclaimStart
  <1>2. ASSUME NEW r \in Threads, ScanRecord(t, r)
        PROVE  TypeOK'
    BY <1>2 DEF ScanRecord, Inactive
  <1>3. CASE ScanDone(t)
    BY <1>3 DEF ScanDone
  <1>4. CASE TakeReclaimable(t)
    <2>1. At("global") \ Reclaimable(t) \in SUBSET Objects
      BY DEF At
    <2> QED
      BY <1>4, <2>1, ObjectsFinite DEF TakeReclaimable, Places, Reclaimable, At
  <1>5. ASSUME NEW o \in Objects, Free(t, o)
        PROVE  TypeOK'
    BY <1>5 DEF Free, Places, Mine, At
  <1>6. CASE FreeDone(t)
    BY <1>6 DEF FreeDone
  <1>7. CASE ThreadExit(t)
    BY <1>7 DEF ThreadExit, Places, Mine, At
  <1> QED
    BY <1>1, <1>2, <1>3, <1>4, <1>5, <1>6, <1>7 DEF Reclaimer

\* Every reachable state of the manager is well typed: in particular nesting
\* stays within its bound and the retired counter is a natural number.
THEOREM TypeCorrect == Spec => []TypeOK
  <1>1. Init => TypeOK
    BY EpochAssumption
    DEF Init, TypeOK, Phases, Places, Inactive
  <1>2. TypeOK /\ [Next]_vars => TypeOK'
    <2> SUFFICES ASSUME TypeOK, [Next]_vars PROVE TypeOK'
      OBVIOUS
    <2>1. CASE Next
      BY <2>1, ReaderType, WriterType, ReclaimerType DEF Next
    <2>2. CASE UNCHANGED vars
      BY <2>2 DEF vars, readerVars, objectVars, reclaimVars, TypeOK
    <2> QED
      BY <2>1, <2>2
  <1> QED
    BY <1>1, <1>2, PTL DEF Spec

-----------------------------------------------------------------------------
\* A reader's steps: only Dereference adds to what a thread holds, and it adds
\* the live object; only EnterPublish raises an epoch, and its thread holds
\* nothing yet.
LEMMA ReaderStep ==
    ASSUME TypeOK, IInv, NEW t \in Threads, Reader(t)
    PROVE  IInv'
  <1> USE DEF TypeOK, IInv, readerVars, objectVars, reclaimVars, Goto, Reading,
          Inactive, Phases, Retired
  <1>1. CASE EnterLoad(t)
    <2> USE <1>1 DEF EnterLoad, Register
    <2>1. ReaderInv'
      BY DEF ReaderInv
    <2>2. LockInv'
      BY DEF LockInv
    <2>3. ScanInv'
      BY DEF ScanInv
    <2>4. SlotInv' /\ TagsCoverReaders' /\ HeldInv'
      BY DEF SlotInv, TagsCoverReaders, HeldInv
    <2> QED
      BY <2>1, <2>2, <2>3, <2>4
  <1>2. CASE EnterPublish(t)
    <2> USE <1>2 DEF EnterPublish
    <2>1. holds[t] = {}
      BY DEF ReaderInv
    <2>2. ReaderInv'
      BY DEF ReaderInv
    <2>3. TagsCoverReaders'
      BY <2>1 DEF TagsCoverReaders
    <2>4. LockInv'
      BY DEF LockInv
    <2>5. ScanInv'
      BY <2>1 DEF ScanInv
    <2>6. SlotInv' /\ HeldInv'
      BY DEF SlotInv, HeldInv
    <2> QED
      BY <2>2, <2>3, <2>4, <2>5, <2>6
  <1>3. CASE EnterNested(t)
    <2> USE <1>3 DEF EnterNested
    <2>1. ReaderInv'
      BY DEF ReaderInv
    <2>2. SlotInv' /\ TagsCoverReaders' /\ LockInv' /\ ScanInv' /\ HeldInv'
      BY DEF SlotInv, TagsCoverReaders, LockInv, ScanInv, HeldInv
    <2> QED
      BY <2>1, <2>2
  <1>4. CASE Dereference(t)
    <2> USE <1>4 DEF Dereference
    <2>1. place[slot] = "live"
      BY DEF SlotInv
    <2>2. ReaderInv'
      BY DEF ReaderInv
    <2>3. TagsCoverReaders'
      BY <2>1 DEF TagsCoverReaders
    <2>4. ScanInv'
      BY <2>1 DEF ScanInv
    <2>5. HeldInv'
      BY <2>1 DEF HeldInv
    <2>6. SlotInv' /\ LockInv'
      BY DEF SlotInv, LockInv
    <2> QED
      BY <2>2, <2>3, <2>4, <2>5, <2>6
  <1>5. CASE ExitRead(t)
    <2> USE <1>5 DEF ExitRead
    <2>1. \A r \in Threads :
             /\ holds'[r] \subseteq holds[r]
             /\ \A o \in holds'[r] : activeEpoch'[r] = activeEpoch[r]
      OBVIOUS
    <2>2. ReaderInv'
      BY DEF ReaderInv
    <2>3. TagsCoverReaders'
      BY <2>1 DEF TagsCoverReaders
    <2>4. ScanInv'
      BY <2>1 DEF ScanInv
    <2>5. HeldInv'
      BY <2>1 DEF HeldInv
    <2>6. SlotInv' /\ LockInv'
      BY DEF SlotInv, LockInv
    <2> QED
      BY <2>2, <2>3, <2>4, <2>5, <2>6
  <1> QED
    BY <1>1, <1>2, <1>3, <1>4, <1>5 DEF Reader

\* A flush moves the thread's own retired objects and leaves their tags: no
\* part of the invariant can tell the two lists apart.
LEMMA FlushStep ==
    ASSUME TypeOK, IInv, NEW t \in Threads, Flush(t)
    PROVE  \A o \in Objects :
              \/ place'[o] = place[o]
              \/ place[o] = "local" /\ place'[o] = "global"
  BY DEF Flush, Mine, At, TypeOK

\* A writer's steps: the unlinked object was live, so no scan under the lock
\* bounds it yet, and it is tagged with the global epoch of a later moment
\* than any reader that holds it published.
LEMMA WriterStep ==
    ASSUME TypeOK, IInv, NEW t \in Threads, Writer(t)
    PROVE  IInv'
  <1> USE EpochAssumption
      DEF TypeOK, IInv, readerVars, objectVars, reclaimVars, Goto, Reading,
          Inactive, Phases, Places, Retired
  <1>1. CASE Replace(t)
    <2> USE <1>1 DEF Replace, At
    <2>1. PICK o \in At("fresh") :
             /\ slot' = o
             /\ place' = [place EXCEPT ![o] = "live", ![slot] = "unlinked"]
             /\ owner' = [owner EXCEPT ![slot] = t]
      OBVIOUS
    <2>2. place[slot] = "live" /\ o # slot
      BY <2>1 DEF SlotInv
    <2>3. ReaderInv'
      BY DEF ReaderInv
    <2>4. SlotInv'
      BY <2>1, <2>2 DEF SlotInv
    <2>5. TagsCoverReaders'
      BY <2>1, <2>2 DEF TagsCoverReaders
    <2>6. LockInv'
      BY <2>1, <2>2 DEF LockInv
    <2>7. ScanInv'
      BY <2>1, <2>2 DEF ScanInv
    <2>8. HeldInv'
      BY <2>1, <2>2 DEF HeldInv
    <2> QED
      BY <2>3, <2>4, <2>5, <2>6, <2>7, <2>8
  <1>2. CASE Retire(t)
    <2> USE <1>2 DEF Retire, Register, At, Mine
    <2>1. ReaderInv'
      BY DEF ReaderInv
    <2>2. SlotInv'
      BY DEF SlotInv
    <2>3. TagsCoverReaders'
      BY DEF TagsCoverReaders, ReaderInv
    <2>4. LockInv'
      BY DEF LockInv
    <2>5. ScanInv'
      <3>1. Serialized => \A s \in Threads : pc'[s] \notin {"scan", "take"}
        BY DEF LockInv
      <3> QED
        BY <3>1 DEF ScanInv
    <2>6. HeldInv'
      BY DEF HeldInv
    <2> QED
      BY <2>1, <2>2, <2>3, <2>4, <2>5, <2>6
  <1>3. CASE FlushInRetire(t)
    <2> USE <1>3, FlushStep DEF FlushInRetire
    <2>1. ReaderInv'
      BY DEF ReaderInv
    <2>2. SlotInv'
      BY DEF SlotInv
    <2>3. TagsCoverReaders'
      BY DEF TagsCoverReaders
    <2>4. LockInv'
      BY DEF LockInv
    <2>5. ScanInv'
      BY DEF ScanInv
    <2>6. HeldInv'
      BY DEF HeldInv
    <2> QED
      BY <2>1, <2>2, <2>3, <2>4, <2>5, <2>6
  <1>4. CASE CheckThreshold(t)
    <2> USE <1>4 DEF CheckThreshold, EndWrite
    <2>1. ReaderInv'
      BY DEF ReaderInv
    <2>2. LockInv'
      BY DEF LockInv
    <2>3. ScanInv'
      BY DEF ScanInv
    <2>4. SlotInv' /\ TagsCoverReaders' /\ HeldInv'
      BY DEF SlotInv, TagsCoverReaders, HeldInv
    <2> QED
      BY <2>1, <2>2, <2>3, <2>4
  <1> QED
    BY <1>1, <1>2, <1>3, <1>4 DEF Writer

\* A reclaimer's steps.  ReclaimStart lists every reader that holds anything,
\* ScanRecord lowers the bound to what it reads, and TakeReclaimable picks
\* only what is tagged below the bound, so below every holder's epoch.
LEMMA ReclaimerStep ==
    ASSUME TypeOK, IInv, NEW t \in Threads, Reclaimer(t) \/ ThreadExit(t)
    PROVE  IInv'
  <1> USE EpochAssumption
      DEF TypeOK, IInv, readerVars, objectVars, reclaimVars, Goto, Reading,
          Inactive, Phases, Places, Retired
  <1>1. CASE ReclaimStart(t)
    <2> USE <1>1, FlushStep DEF ReclaimStart
    <2>1. ReaderInv'
      BY DEF ReaderInv
    <2>2. SlotInv'
      BY DEF SlotInv
    <2>3. TagsCoverReaders'
      BY DEF TagsCoverReaders
    <2>4. LockInv'
      BY DEF LockInv
    <2>5. ScanInv'
      <3>1. \A r \in Threads : holds[r] # {} => r \in toScan'[t]
        BY DEF ReaderInv
      <3> QED
        BY <3>1 DEF ScanInv
    <2>6. HeldInv'
      BY DEF HeldInv
    <2> QED
      BY <2>1, <2>2, <2>3, <2>4, <2>5, <2>6
  <1>2. ASSUME NEW r \in Threads, ScanRecord(t, r)
        PROVE  IInv'
    <2> USE <1>2 DEF ScanRecord
    <2>1. /\ oldest'[t] <= oldest[t]
          /\ activeEpoch[r] # Inactive => oldest'[t] <= activeEpoch[r]
          /\ \A s \in Threads \ {t} :
                oldest'[s] = oldest[s] /\ toScan'[s] = toScan[s]
      OBVIOUS
    <2>2. ScanInv'
      <3>1. holds[r] # {} => activeEpoch[r] # Inactive
        BY DEF ReaderInv
      <3> QED
        BY <2>1, <3>1 DEF ScanInv
    <2>3. ReaderInv' /\ SlotInv' /\ TagsCoverReaders' /\ LockInv' /\ HeldInv'
      BY DEF ReaderInv, SlotInv, TagsCoverReaders, LockInv, HeldInv
    <2> QED
      BY <2>2, <2>3
  <1>3. CASE ScanDone(t)
    <2> USE <1>3 DEF ScanDone
    <2>1. ReaderInv'
      BY DEF ReaderInv
    <2>2. LockInv'
      BY DEF LockInv
    <2>3. ScanInv'
      BY DEF ScanInv
    <2>4. SlotInv' /\ TagsCoverReaders' /\ HeldInv'
      BY DEF SlotInv, TagsCoverReaders, HeldInv
    <2> QED
      BY <2>1, <2>2, <2>3, <2>4
  <1>4. CASE TakeReclaimable(t)
    <2> USE <1>4 DEF TakeReclaimable, Reclaimable, At
    <2>1. ReaderInv'
      BY DEF ReaderInv
    <2>2. SlotInv'
      BY DEF SlotInv
    <2>3. TagsCoverReaders'
      BY DEF TagsCoverReaders
    <2>4. LockInv'
      BY DEF LockInv
    <2>5. ScanInv'
      BY DEF ScanInv
    <2>6. HeldInv'
      <3> SUFFICES ASSUME Serialized, NEW r \in Threads, NEW o \in holds[r]
                   PROVE  o \notin Reclaimable(t)
        BY DEF HeldInv
      <3> SUFFICES ASSUME place[o] = "global"
                   PROVE  ~(tag[o] < oldest[t])
        OBVIOUS
      <3>1. toScan[t] = {}
        BY DEF ScanInv
      <3>2. oldest[t] <= activeEpoch[r]
        BY <3>1 DEF ScanInv
      <3>3. activeEpoch[r] <= tag[o]
        BY DEF TagsCoverReaders
      <3> QED
        BY <3>2, <3>3
    <2> QED
      BY <2>1, <2>2, <2>3, <2>4, <2>5, <2>6
  <1>5. ASSUME NEW o \in Objects, Free(t, o)
        PROVE  IInv'
    <2> USE <1>5 DEF Free, Mine, At
    <2>1. HeldInv'
      BY DEF HeldInv
    <2>2. ReaderInv' /\ SlotInv' /\ TagsCoverReaders' /\ LockInv' /\ ScanInv'
      BY DEF ReaderInv, SlotInv, TagsCoverReaders, LockInv, ScanInv
    <2> QED
      BY <2>1, <2>2
  <1>6. CASE FreeDone(t)
    <2> USE <1>6 DEF FreeDone, EndWrite
    <2>1. ReaderInv'
      BY DEF ReaderInv
    <2>2. LockInv'
      BY DEF LockInv
    <2>3. ScanInv'
      BY DEF ScanInv
    <2>4. SlotInv' /\ TagsCoverReaders' /\ HeldInv'
      BY DEF SlotInv, TagsCoverReaders, HeldInv
    <2> QED
      BY <2>1, <2>2, <2>3, <2>4
  <1>7. CASE ThreadExit(t)
    <2> USE <1>7 DEF ThreadExit, Mine, At
    <2>1. ReaderInv' /\ SlotInv' /\ TagsCoverReaders'
      BY DEF ReaderInv, SlotInv, TagsCoverReaders
    <2>2. LockInv' /\ ScanInv' /\ HeldInv'
      BY DEF LockInv, ScanInv, HeldInv
    <2> QED
      BY <2>1, <2>2
  <1> QED
    BY <1>1, <1>2, <1>3, <1>4, <1>5, <1>6, <1>7 DEF Reclaimer

-----------------------------------------------------------------------------
\* The invariant that carries the argument holds in every reachable state.
THEOREM Invariant == Spec => []IInv
  <1>1. Init => IInv
    BY DEF Init, IInv, ReaderInv, SlotInv, TagsCoverReaders, LockInv, ScanInv,
           HeldInv, Reading, Inactive, Retired
  <1>2. TypeOK /\ IInv /\ [Next]_vars => IInv'
    <2> SUFFICES ASSUME TypeOK, IInv, [Next]_vars PROVE IInv'
      OBVIOUS
    <2>1. CASE Next
      BY <2>1, ReaderStep, WriterStep, ReclaimerStep DEF Next
    <2>2. CASE UNCHANGED vars
      BY <2>2 DEF vars, readerVars, objectVars, reclaimVars, IInv, ReaderInv,
          SlotInv, TagsCoverReaders, LockInv, ScanInv, HeldInv, Reading, Retired
    <2> QED
      BY <2>1, <2>2
  <1> QED
    BY <1>1, <1>2, TypeCorrect, PTL DEF Spec

\* A retired object a reader still holds is tagged no earlier than the epoch
\* the reader published, whether or not the writers are serialised.
THEOREM RetireTagsCoverReaders == Spec => []TagsCoverReaders
  <1>1. IInv => TagsCoverReaders
    BY DEF IInv
  <1> QED
    BY <1>1, Invariant, PTL

\* With the writers under one lock, nothing is deleted under a reader: the
\* guarantee EpochGuard's users rely on.
THEOREM Safety == Spec => []NoUseAfterFree
  <1>1. IInv => NoUseAfterFree
    BY DEF IInv, HeldInv, NoUseAfterFree
  <1> QED
    BY <1>1, Invariant, PTL

-----------------------------------------------------------------------------
\* A flush adds to the shared list what it takes from the local one, and
\* counts the result.
LEMMA FlushCounts ==
    ASSUME TypeOK, ApproxExact, NEW t \in Threads, Flush(t)
    PROVE  ApproxExact'
  <1>1. CASE Mine("local", t) = {}
    BY <1>1 DEF Flush, ApproxExact, At
  <1>2. CASE Mine("local", t) # {}
    <2>1. At("global")' = At("global") \cup Mine("local", t)
      BY <1>2 DEF Flush, At, Mine, TypeOK
    <2> QED
      BY <1>2, <2>1 DEF Flush, ApproxExact
  <1> QED
    BY <1>1, <1>2

\* retiredApprox_ is exact in every state, so the unlocked read in retire sees
\* a length the shared list really had.
THEOREM CounterExact == Spec => []ApproxExact
  <1>1. Init => ApproxExact
    <2> SUFFICES ASSUME Init PROVE ApproxExact
      OBVIOUS
    <2>1. At("global") = {}
      BY DEF Init, At
    <2> QED
      BY <2>1, FS_EmptySet DEF Init, ApproxExact
  <1>2. TypeOK /\ IInv /\ ApproxExact /\ [Next]_vars => ApproxExact'
    <2> SUFFICES ASSUME TypeOK, IInv, ApproxExact, [Next]_vars
                 PROVE  ApproxExact'
      OBVIOUS
    <2> USE DEF readerVars, objectVars, reclaimVars, TypeOK
    <2>1. At("global")' = At("global") /\ approx' = approx => ApproxExact'
      BY DEF ApproxExact
    <2>2. CASE UNCHANGED vars
      BY <2>1, <2>2 DEF vars, At
    <2>3. ASSUME NEW t \in Threads, Reader(t)
          PROVE  ApproxExact'
      BY <2>1, <2>3 DEF Reader, EnterLoad, EnterPublish, EnterNested,
                        Dereference, ExitRead, At
    <2>4. ASSUME NEW t \in Threads, Writer(t)
          PROVE  ApproxExact'
      <3>1. CASE Replace(t)
        BY <2>1, <3>1 DEF Replace, At, IInv, SlotInv
      <3>2. CASE Retire(t)
        BY <2>1, <3>2 DEF Retire, At, Mine
      <3>3. CASE FlushInRetire(t)
        BY <3>3, FlushCounts DEF FlushInRetire
      <3>4. CASE CheckThreshold(t)
        BY <2>1, <3>4 DEF CheckThreshold, At
      <3> QED
        BY <2>4, <3>1, <3>2, <3>3, <3>4 DEF Writer
    <2>5. ASSUME NEW t \in Threads, Reclaimer(t) \/ ThreadExit(t)
          PROVE  ApproxExact'
      <3>1. CASE ReclaimStart(t)
        BY <3>1, FlushCounts DEF ReclaimStart
      <3>2. CASE ScanDone(t) \/ FreeDone(t) \/ \E r \in Threads : ScanRecord(t, r)
        BY <2>1, <3>2 DEF ScanDone, FreeDone, ScanRecord, At
      <3>3. CASE TakeReclaimable(t)
        <4>1. At("global")' = At("global") \ Reclaimable(t)
          BY <3>3 DEF TakeReclaimable, Reclaimable, At
        <4> QED
          BY <3>3, <4>1 DEF TakeReclaimable, ApproxExact
      <3>4. CASE ThreadExit(t) \/ \E o \in Objects : Free(t, o)
        BY <2>1, <3>4 DEF ThreadExit, Free, Mine, At
      <3> QED
        BY <2>5, <3>1, <3>2, <3>3, <3>4 DEF Reclaimer
    <2> QED
      BY <2>2, <2>3, <2>4, <2>5 DEF Next
  <1> QED
    BY <1>1, <1>2, TypeCorrect, Invariant, PTL DEF Spec
=============================================================================

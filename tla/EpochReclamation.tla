-------------------------- MODULE EpochReclamation --------------------------
(***************************************************************************)
(* Epoch-based reclamation: src/src/memory/epoch/EpochManager.cpp with the *)
(* RAII reader of EpochGuard.h and the pointer replacement of              *)
(* state_manager.cpp (replaceSharedPtr / retireSharedPtr).                 *)
(*                                                                         *)
(* One published slot stands for the pointers the manager protects.  A     *)
(* reader enters a read section and dereferences the slot; a writer        *)
(* installs a new object and retires the previous one.  Each atomic load   *)
(* or store and each critical section is one step; atomics are taken to be *)
(* sequentially consistent.                                                *)
(*                                                                         *)
(* Serialized says whether all writers run under one lock, as those of     *)
(* StateManager do under graphMutex_; BranchStore retires through the same *)
(* process-wide manager with no lock of its own.                           *)
(***************************************************************************)
EXTENDS Naturals, FiniteSets

CONSTANTS Threads,           \* threads that read and write
          Objects,           \* every object ever published
          NoThread,          \* nobody holds the writers' lock
          Serialized,        \* do writers share one lock?
          MaxDepth,          \* bound: nesting of read sections
          FlushThreshold,    \* kLocalRetireFlushThreshold
          ReclaimThreshold   \* kGlobalReclaimThreshold

ASSUME EpochAssumption ==
    /\ Threads # {}
    /\ NoThread \notin Threads
    /\ IsFiniteSet(Objects)
    /\ Objects # {}
    /\ Serialized \in BOOLEAN
    /\ MaxDepth \in Nat \ {0}
    /\ FlushThreshold \in Nat \ {0}
    /\ ReclaimThreshold \in Nat \ {0}

\* kInactiveEpoch is the largest 64-bit value; epochs start at 1, so 0 is free
\* to stand for it.
Inactive == 0

Phases == {"idle", "entering", "tagging", "flush", "check",
           "reclaimFlush", "scan", "take", "free"}

\* Where an object is: never published, in the slot, unlinked by a writer that
\* has not tagged it yet, in a thread's local list, in the shared list, picked
\* by a reclaimer, deleted, or lost with the local list of a thread that ended.
Places == {"fresh", "live", "unlinked", "local", "global",
           "reclaimable", "freed", "leaked"}

VARIABLES
    globalEpoch,   \* globalEpoch_
    activeEpoch,   \* thread -> ThreadRecord::activeEpoch
    depth,         \* thread -> localReadDepth_
    registered,    \* threads with a record in threadRecords_
    loaded,        \* thread -> localEpoch_, the epoch enterRead loaded
    holds,         \* thread -> objects it dereferenced in its read section
    pc,            \* thread -> phase of the operation it is in
    slot,          \* the published object
    place,         \* object -> where it is
    owner,         \* object -> thread whose list or whose reclaim has it
    tag,           \* object -> RetiredObject::retireEpoch
    approx,        \* retiredApprox_
    writeLock,     \* holder of the writers' lock
    toScan,        \* thread -> records its scan has still to read
    oldest         \* thread -> oldest epoch its scan has seen

readerVars  == <<activeEpoch, depth, registered, loaded, holds>>
objectVars  == <<slot, place, owner, tag, approx>>
reclaimVars == <<toScan, oldest>>
vars == <<globalEpoch, readerVars, pc, objectVars, writeLock, reclaimVars>>

-----------------------------------------------------------------------------
At(where)         == {o \in Objects : place[o] = where}
Mine(where, t)    == {o \in At(where) : owner[o] = t}
Reading(t)        == depth[t] > 0
ScanInProgress    == \E t \in Threads : pc[t] = "scan"

TypeOK ==
    /\ globalEpoch \in Nat \ {0}
    /\ activeEpoch \in [Threads -> Nat]
    /\ depth \in [Threads -> 0..MaxDepth]
    /\ registered \subseteq Threads
    /\ loaded \in [Threads -> Nat]
    /\ holds \in [Threads -> SUBSET Objects]
    /\ pc \in [Threads -> Phases]
    /\ slot \in Objects
    /\ place \in [Objects -> Places]
    /\ owner \in [Objects -> Threads \cup {NoThread}]
    /\ tag \in [Objects -> Nat]
    /\ approx \in Nat
    /\ writeLock \in Threads \cup {NoThread}
    /\ toScan \in [Threads -> SUBSET Threads]
    /\ oldest \in [Threads -> Nat]

Init ==
    /\ globalEpoch = 1
    /\ activeEpoch = [t \in Threads |-> Inactive]
    /\ depth = [t \in Threads |-> 0]
    /\ registered = {}
    /\ loaded = [t \in Threads |-> Inactive]
    /\ holds = [t \in Threads |-> {}]
    /\ pc = [t \in Threads |-> "idle"]
    /\ slot \in Objects
    /\ place = [o \in Objects |-> IF o = slot THEN "live" ELSE "fresh"]
    /\ owner = [o \in Objects |-> NoThread]
    /\ tag = [o \in Objects |-> 0]
    /\ approx = 0
    /\ writeLock = NoThread
    /\ toScan = [t \in Threads |-> {}]
    /\ oldest = [t \in Threads |-> 0]

Goto(t, phase) == pc' = [pc EXCEPT ![t] = phase]

-----------------------------------------------------------------------------
(* Readers: EpochGuard's constructor calls enterRead, its destructor       *)
(* exitRead.                                                               *)

\* ensureThreadRecord: the first use of the manager by a thread pushes its
\* record under registryMutex_, which a scan holds from start to end.
Register(t) ==
    /\ t \in registered \/ ~ScanInProgress
    /\ registered' = registered \cup {t}

\* The outermost enterRead loads the global epoch ...
EnterLoad(t) ==
    /\ pc[t] = "idle" /\ ~Reading(t)
    /\ Register(t)
    /\ loaded' = [loaded EXCEPT ![t] = globalEpoch]
    /\ Goto(t, "entering")
    /\ UNCHANGED <<globalEpoch, activeEpoch, depth, holds, objectVars,
                   writeLock, reclaimVars>>

\* ... and publishes it in the thread's record, a step later.
EnterPublish(t) ==
    /\ pc[t] = "entering"
    /\ activeEpoch' = [activeEpoch EXCEPT ![t] = loaded[t]]
    /\ depth' = [depth EXCEPT ![t] = 1]
    /\ Goto(t, "idle")
    /\ UNCHANGED <<globalEpoch, registered, loaded, holds, objectVars,
                   writeLock, reclaimVars>>

\* A nested enterRead only counts.
EnterNested(t) ==
    /\ pc[t] = "idle" /\ Reading(t) /\ depth[t] < MaxDepth
    /\ depth' = [depth EXCEPT ![t] = @ + 1]
    /\ UNCHANGED <<globalEpoch, activeEpoch, registered, loaded, holds, pc,
                   objectVars, writeLock, reclaimVars>>

\* Inside the section the reader follows the published pointer.
Dereference(t) ==
    /\ pc[t] = "idle" /\ Reading(t)
    /\ holds' = [holds EXCEPT ![t] = @ \cup {slot}]
    /\ UNCHANGED <<globalEpoch, activeEpoch, depth, registered, loaded, pc,
                   objectVars, writeLock, reclaimVars>>

\* exitRead: only the outermost one gives the epoch back.
ExitRead(t) ==
    /\ pc[t] = "idle" /\ Reading(t)
    /\ depth' = [depth EXCEPT ![t] = @ - 1]
    /\ IF depth[t] = 1
       THEN /\ activeEpoch' = [activeEpoch EXCEPT ![t] = Inactive]
            /\ loaded' = [loaded EXCEPT ![t] = Inactive]
            /\ holds' = [holds EXCEPT ![t] = {}]
       ELSE UNCHANGED <<activeEpoch, loaded, holds>>
    /\ UNCHANGED <<globalEpoch, registered, pc, objectVars, writeLock,
                   reclaimVars>>

-----------------------------------------------------------------------------
(* Writers.                                                                *)

\* replaceSharedPtr: the new object is in the slot before the old one is
\* handed to retire.
Replace(t) ==
    /\ pc[t] = "idle" /\ ~Reading(t)
    /\ IF Serialized
       THEN writeLock = NoThread /\ writeLock' = t
       ELSE UNCHANGED writeLock
    /\ \E o \in At("fresh") :
         /\ slot' = o
         /\ place' = [place EXCEPT ![o] = "live", ![slot] = "unlinked"]
         /\ owner' = [owner EXCEPT ![slot] = t]
    /\ Goto(t, "tagging")
    /\ UNCHANGED <<globalEpoch, readerVars, tag, approx, reclaimVars>>

\* Mutant of Retire: tagged with the epoch before this one.
RetireTagsPrevious(t) ==
    /\ pc[t] = "tagging"
    /\ Register(t)
    /\ tag' = [o \in Objects |-> IF o \in Mine("unlinked", t)
                                 THEN globalEpoch - 1 ELSE tag[o]]
    /\ place' = [o \in Objects |->
                   IF o \in Mine("unlinked", t) THEN "local" ELSE place[o]]
    /\ Goto(t, "flush")
    /\ UNCHANGED <<globalEpoch, activeEpoch, depth, loaded, holds, slot,
                   owner, approx, writeLock, reclaimVars>>

\* retire tags the object with the epoch of now and keeps it thread-locally.
Retire(t) ==
    /\ pc[t] = "tagging"
    /\ Register(t)
    /\ tag' = [o \in Objects |->
                 IF o \in Mine("unlinked", t) THEN globalEpoch ELSE tag[o]]
    /\ place' = [o \in Objects |->
                   IF o \in Mine("unlinked", t) THEN "local" ELSE place[o]]
    /\ Goto(t, IF Cardinality(Mine("local", t)) + 1 >= FlushThreshold
               THEN "flush" ELSE "check")
    /\ UNCHANGED <<globalEpoch, activeEpoch, depth, loaded, holds, slot,
                   owner, approx, writeLock, reclaimVars>>

\* Mutant of Flush: the counter takes the size of the local list.
FlushCountsLocal(t) ==
    /\ place' = [o \in Objects |->
                   IF o \in Mine("local", t) THEN "global" ELSE place[o]]
    /\ approx' = Cardinality(Mine("local", t))

\* flushThreadLocalRetired, under retiredMutex_; an empty list is left alone,
\* and the counter with it.
Flush(t) ==
    IF Mine("local", t) = {}
    THEN UNCHANGED <<place, approx>>
    ELSE /\ place' = [o \in Objects |->
                        IF o \in Mine("local", t) THEN "global" ELSE place[o]]
         /\ approx' = Cardinality(At("global") \cup Mine("local", t))

FlushInRetire(t) ==
    /\ pc[t] = "flush"
    /\ Flush(t)
    /\ Goto(t, "check")
    /\ UNCHANGED <<globalEpoch, readerVars, slot, owner, tag, writeLock,
                   reclaimVars>>

\* The writer's lock, when there is one, is released as its operation ends.
EndWrite(t) ==
    /\ Goto(t, "idle")
    /\ writeLock' = IF writeLock = t THEN NoThread ELSE writeLock

\* Too many retired objects: advance the epoch and reclaim.
CheckThreshold(t) ==
    /\ pc[t] = "check"
    /\ IF approx >= ReclaimThreshold
       THEN /\ globalEpoch' = globalEpoch + 1
            /\ Goto(t, "reclaimFlush")
            /\ UNCHANGED writeLock
       ELSE /\ EndWrite(t)
            /\ UNCHANGED globalEpoch
    /\ UNCHANGED <<readerVars, objectVars, reclaimVars>>

-----------------------------------------------------------------------------
(* reclaim.                                                                *)

\* The local list joins the shared one, then oldestActiveReaderEpoch loads the
\* global epoch and takes registryMutex_.
ReclaimStart(t) ==
    /\ pc[t] = "reclaimFlush"
    /\ ~ScanInProgress
    /\ Flush(t)
    /\ oldest' = [oldest EXCEPT ![t] = globalEpoch + 1]
    /\ toScan' = [toScan EXCEPT ![t] = registered]
    /\ Goto(t, "scan")
    /\ UNCHANGED <<globalEpoch, readerVars, slot, owner, tag, writeLock>>

\* One record at a time; readers come and go meanwhile.
ScanRecord(t, r) ==
    /\ pc[t] = "scan" /\ r \in toScan[t]
    /\ toScan' = [toScan EXCEPT ![t] = @ \ {r}]
    /\ oldest' = [oldest EXCEPT ![t] =
                    IF activeEpoch[r] # Inactive /\ activeEpoch[r] < @
                    THEN activeEpoch[r] ELSE @]
    /\ UNCHANGED <<globalEpoch, readerVars, pc, objectVars, writeLock>>

ScanDone(t) ==
    /\ pc[t] = "scan" /\ toScan[t] = {}
    /\ Goto(t, "take")
    /\ UNCHANGED <<globalEpoch, readerVars, objectVars, writeLock, reclaimVars>>

\* Mutant of Reclaimable: what the oldest reader may have seen is taken too.
ReclaimableInclusive(t) == {o \in At("global") : tag[o] <= oldest[t]}

\* Under retiredMutex_: everything tagged before the oldest reader is taken.
Reclaimable(t) == {o \in At("global") : tag[o] < oldest[t]}

TakeReclaimable(t) ==
    /\ pc[t] = "take"
    /\ place' = [o \in Objects |->
                   IF o \in Reclaimable(t) THEN "reclaimable" ELSE place[o]]
    /\ owner' = [o \in Objects |->
                   IF o \in Reclaimable(t) THEN t ELSE owner[o]]
    /\ approx' = Cardinality(At("global") \ Reclaimable(t))
    /\ Goto(t, "free")
    /\ UNCHANGED <<globalEpoch, readerVars, slot, tag, writeLock, reclaimVars>>

\* The deleters run outside the lock, one object after the other.
Free(t, o) ==
    /\ pc[t] = "free" /\ o \in Mine("reclaimable", t)
    /\ place' = [place EXCEPT ![o] = "freed"]
    /\ UNCHANGED <<globalEpoch, readerVars, pc, slot, owner, tag, approx,
                   writeLock, reclaimVars>>

FreeDone(t) ==
    /\ pc[t] = "free" /\ Mine("reclaimable", t) = {}
    /\ EndWrite(t)
    /\ UNCHANGED <<globalEpoch, readerVars, objectVars, reclaimVars>>

\* localRetiredObjects_ is thread_local: what it still has when its thread ends
\* is destroyed as a vector of raw pointers, and no deleter ever runs.
ThreadExit(t) ==
    /\ pc[t] = "idle" /\ ~Reading(t) /\ Mine("local", t) # {}
    /\ place' = [o \in Objects |->
                   IF o \in Mine("local", t) THEN "leaked" ELSE place[o]]
    /\ UNCHANGED <<globalEpoch, readerVars, pc, slot, owner, tag, approx,
                   writeLock, reclaimVars>>

-----------------------------------------------------------------------------
Reader(t) == EnterLoad(t) \/ EnterPublish(t) \/ EnterNested(t)
             \/ Dereference(t) \/ ExitRead(t)

Writer(t) == Replace(t) \/ Retire(t) \/ FlushInRetire(t) \/ CheckThreshold(t)

Reclaimer(t) == \/ ReclaimStart(t)
                \/ \E r \in Threads : ScanRecord(t, r)
                \/ ScanDone(t)
                \/ TakeReclaimable(t)
                \/ \E o \in Objects : Free(t, o)
                \/ FreeDone(t)

Next == \E t \in Threads :
          Reader(t) \/ Writer(t) \/ Reclaimer(t) \/ ThreadExit(t)

Spec == Init /\ [][Next]_vars

-----------------------------------------------------------------------------
Retired == {o \in Objects : place[o] \in {"local", "global", "reclaimable"}}

(* A retired object that a reader still holds is tagged no earlier than the *)
(* epoch that reader published: retire loads the epoch after the unlink,    *)
(* enterRead loads it before any dereference.  This holds for any writers.  *)
TagsCoverReaders ==
    \A t \in Threads : \A o \in holds[t] :
        o \in Retired => activeEpoch[t] <= tag[o]

(* No object is deleted while a reader that dereferenced it inside its read *)
(* section is still in that section, when the writers are serialised.       *)
NoUseAfterFree ==
    Serialized => \A t \in Threads : \A o \in holds[t] : place[o] # "freed"

(* retiredApprox_ is read without retiredMutex_ to decide when to reclaim;  *)
(* every path that changes the shared list leaves it exact, early returns   *)
(* and concurrent flushes included.                                         *)
ApproxExact == approx = Cardinality(At("global"))
=============================================================================

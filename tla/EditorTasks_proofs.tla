------------------------- MODULE EditorTasks_proofs -------------------------
(***************************************************************************)
(* What the last attempt to apply a patch has changed can be undone        *)
(* (Recoverable), and is as before once it was (RestoreReverts), for every *)
(* workspace, every patch and every number of tasks and edits.             *)
(*                                                                         *)
(* Recoverable is not inductive: that a file may be changed depends on its *)
(* being in the snapshot (Saved), that the snapshot is still there on no   *)
(* later task having its number (Numbered), and what it holds of the file  *)
(* on the history having been noted from it (Agrees).  RestoreReverts adds *)
(* to that how far a restoration has come: each file is still to be        *)
(* restored or as before (SafeReverts).                                    *)
(***************************************************************************)
EXTENDS EditorTasks, TLAPS

\* Tasks are numbered in the order they were accepted, and a snapshot has
\* the number of its task.
Numbered ==
    /\ latest <= accepted /\ task.n <= accepted
    /\ \A i \in DOMAIN queue :
           latest < queue[i].n /\ task.n < queue[i].n /\ queue[i].n <= accepted
    /\ \A i, j \in DOMAIN queue : i < j => queue[i].n < queue[j].n
    /\ pc # "idle" => task # NoTask
    /\ pc \in {"collect", "save", "latest"} => latest < task.n
    /\ pc \in {"apply", "remove"} => latest = task.n

\* The paths the task is to change, or has changed, are in the snapshot.
Saved ==
    /\ pc = "collect" => \A i \in task.selected \ rest :
                             SnapshotPaths(task.diff[i]) \subseteq DOMAIN entries
    /\ pc \in {"save", "latest"} => \A i \in task.selected :
                             SnapshotPaths(task.diff[i]) \subseteq DOMAIN entries
    /\ pc = "latest" => snapshots[task.n] = entries
    /\ pc \in {"apply", "remove"} => \A i \in task.selected :
                             SnapshotPaths(task.diff[i]) \subseteq DOMAIN snapshots[latest]

\* The snapshot holds what the attempt read.
Agrees == latest # 0 => \A f \in DOMAIN snapshots[latest] : snapshots[latest][f] = before[f]

SafeSnapshots == Numbered /\ Saved /\ Agrees /\ Recoverable

-----------------------------------------------------------------------------
(* Types *)

\* A section of a task names files to read and to write.
LEMMA SectionType ==
    ASSUME task \in Tasks \cup {NoTask}, NEW i \in task.selected
    PROVE  /\ task.diff[i] \in Sections
           /\ Source(task.diff[i]) \in Files
           /\ Target(task.diff[i]) \in Files
           /\ SnapshotPaths(task.diff[i]) \subseteq Files
<1>1. PICK r \in Reviews : task.diff = r /\ task.selected \subseteq DOMAIN r
    BY DEF Tasks, NoTask
<1>2. r \in Seq(Sections)
    BY SectionsAssumption
<1>3. task.diff[i] \in Sections
    BY <1>1, <1>2
<1> QED
    BY <1>3, SectionsAssumption DEF Sections, Source, Target, SnapshotPaths

\* Entries are contents of files, and less of them are entries again.
LEMMA EntriesType ==
    /\ Nothing \in Entries
    /\ \A e \in Entries : \A f \in DOMAIN e :
           Without(f, e) \in Entries /\ f \in Files /\ e[f] \in Contents
<1>1. Nothing \in [{} -> Contents]
    BY DEF Nothing
<1>2. Nothing \in Entries
    BY <1>1 DEF Entries
<1>3. ASSUME NEW e \in Entries, NEW f \in DOMAIN e
      PROVE  Without(f, e) \in Entries /\ f \in Files /\ e[f] \in Contents
    <2>1. DOMAIN e \in SUBSET Files /\ e \in [DOMAIN e -> Contents]
        BY DEF Entries
    <2>2. Without(f, e) \in [DOMAIN e \ {f} -> Contents]
        BY <2>1 DEF Without
    <2>3. DOMAIN e \ {f} \in SUBSET Files
        BY <2>1
    <2> QED
        BY <2>1, <2>2, <2>3 DEF Entries
<1> QED
    BY <1>2, <1>3

\* Reading more files leaves entries, those read before among them.
LEMMA ReadType ==
    ASSUME TypeOK, NEW paths \in SUBSET Files
    PROVE  /\ WithEntries(paths) \in Entries
           /\ DOMAIN WithEntries(paths) = DOMAIN entries \cup paths
<1>1. DOMAIN entries \in SUBSET Files /\ entries \in [DOMAIN entries -> Contents]
    BY DEF TypeOK, Entries
<1>2. WithEntries(paths) \in [DOMAIN entries \cup paths -> Contents]
    BY <1>1 DEF WithEntries, TypeOK
<1>3. DOMAIN entries \cup paths \in SUBSET Files
    BY <1>1
<1> QED
    BY <1>2, <1>3 DEF Entries

\* The initial states are well typed.
LEMMA InitType == Init => TypeOK
<1> SUFFICES ASSUME Init PROVE TypeOK
    OBVIOUS
<1>1. files \in [Files -> Contents]
    BY WorkspacesAssumption DEF Init, Contents
<1>2. snapshots \in [Numbers -> Entries]
    BY EntriesType DEF Init, Numbers
<1>3. rollback \in [n : 0 .. MaxTasks, left : Entries]
    BY EntriesType, BoundsAssumption DEF Init, NoRollback
<1>4. queue \in Seq(Tasks)
    BY DEF Init
<1>5. latest \in 0 .. MaxTasks /\ accepted \in 0 .. MaxTasks /\ edits \in 0 .. MaxEdits
    BY BoundsAssumption DEF Init
<1>6. entries \in Entries /\ left \in Entries
    BY EntriesType DEF Init
<1>7. review \in Reviews \cup {NoReview} /\ task \in Tasks \cup {NoTask} /\ rest \subseteq task.selected
    BY DEF Init
<1>8. before \in [Files -> Contents] /\ touched \subseteq Files /\ foreign \subseteq Files
    BY <1>1 DEF Init
<1>9. patchTaskRunning \in BOOLEAN /\ reverted \in BOOLEAN /\ pc = "idle"
    BY DEF Init
<1> QED
    BY <1>1, <1>2, <1>3, <1>4, <1>5, <1>6, <1>7, <1>8, <1>9 DEF TypeOK

\* Accepting and starting a task.
LEMMA QueueType == TypeOK /\ (RunTask \/ ApplyPatch \/ StartTask) => TypeOK'
<1> SUFFICES ASSUME TypeOK, RunTask \/ ApplyPatch \/ StartTask PROVE TypeOK'
    OBVIOUS
<1>1. ASSUME NEW kind, NEW diff, NEW selected, Enqueue(kind, diff, selected),
             \A n \in Numbers : [n |-> n, kind |-> kind, diff |-> diff, selected |-> selected]
                                    \in Tasks
      PROVE  TypeOK'
    <2>1. accepted + 1 \in Numbers
        BY <1>1, BoundsAssumption DEF TypeOK, Enqueue, Numbers
    <2>2. queue' \in Seq(Tasks)
        BY <1>1, <2>1 DEF TypeOK, Enqueue
    <2> QED
        BY <1>1, <2>1, <2>2 DEF TypeOK, Enqueue, Numbers, store, work, history
<1>2. CASE RunTask
    <2>1. PICK kind \in {"generate", "explain"} : Enqueue(kind, <<>>, {})
        BY <1>2 DEF RunTask
    <2>2. \A n \in Numbers : [n |-> n, kind |-> kind, diff |-> <<>>, selected |-> {}] \in Tasks
        BY <2>1 DEF Tasks
    <2> QED
        BY <1>1, <2>1, <2>2
<1>3. CASE ApplyPatch
    <2>1. PICK accept : Enqueue("apply", review,
                                {i \in DOMAIN review : DisplayPath(review[i]) \in accept})
        BY <1>3 DEF ApplyPatch
    <2>2. review \in Reviews
        BY <1>3 DEF ApplyPatch, TypeOK
    <2>3. \A n \in Numbers : \A sel \in SUBSET DOMAIN review :
              [n |-> n, kind |-> "apply", diff |-> review, selected |-> sel] \in Tasks
        BY <2>2 DEF Tasks
    <2> QED
        BY <1>1, <2>1, <2>3
<1>4. CASE StartTask
    <2>1. task' \in Tasks /\ queue' \in Seq(Tasks)
        BY <1>4 DEF TypeOK, StartTask
    <2>2. patchTaskRunning' \in BOOLEAN
        BY <1>4 DEF StartTask, IsPatchTask
    <2>3. pc' \in {"collect", "generate"} /\ rest' \subseteq task'.selected
        BY <1>4 DEF StartTask
    <2> QED
        BY <1>4, <2>1, <2>2, <2>3 DEF TypeOK, StartTask, store, history
<1> QED
    BY <1>2, <1>3, <1>4

\* The end of a task leaves every variable of its work well typed.
LEMMA SettleType ==
    ASSUME TypeOK, NEW failed, Settle(failed)
    PROVE  /\ queue' \in Seq(Tasks) /\ patchTaskRunning' \in BOOLEAN
           /\ task' \in Tasks \cup {NoTask} /\ pc' = "idle" /\ rest' \subseteq task'.selected
           /\ entries' \in Entries /\ left' \in Entries
           /\ accepted' \in 0 .. MaxTasks
BY EntriesType DEF TypeOK, Settle, FlagAfter

\* A task that goes on keeps its sections, or has fewer of them left.
LEMMA AdvanceType ==
    ASSUME TypeOK, NEW to, Advance(to), rest' \subseteq task.selected
    PROVE  /\ queue' \in Seq(Tasks) /\ patchTaskRunning' \in BOOLEAN
           /\ task' \in Tasks \cup {NoTask} /\ pc' = to /\ rest' \subseteq task'.selected
           /\ accepted' \in 0 .. MaxTasks
BY DEF TypeOK, Advance, tasks

\* Generating, reading the files and saving the snapshot.
LEMMA SnapshotType ==
    TypeOK /\ (GenerateEnds \/ Collect \/ Collected \/ SaveSnapshot \/ SaveLatest
               \/ SnapshotFails \/ LatestFails \/ Applied \/ Validated) => TypeOK'
<1> SUFFICES ASSUME TypeOK PROVE
        (GenerateEnds \/ Collect \/ Collected \/ SaveSnapshot \/ SaveLatest
               \/ SnapshotFails \/ LatestFails \/ Applied \/ Validated) => TypeOK'
    OBVIOUS
<1>1. CASE GenerateEnds
    <2>1. PICK failed : Settle(failed)
        BY <1>1 DEF GenerateEnds
    <2>2. review' \in Reviews \cup {NoReview}
        BY <1>1 DEF GenerateEnds, TypeOK
    <2> QED
        BY <1>1, <2>1, <2>2, SettleType DEF GenerateEnds, TypeOK, store, history
<1>2. CASE Collect
    <2>1. PICK i \in rest :
              /\ entries' = WithEntries(SnapshotPaths(task.diff[i]))
              /\ rest' = rest \ {i}
        BY <1>2 DEF Collect
    <2>2. SnapshotPaths(task.diff[i]) \in SUBSET Files
        BY <2>1, SectionType DEF TypeOK
    <2>3. entries' \in Entries
        BY <2>1, <2>2, ReadType
    <2>4. rest' \subseteq task.selected
        BY <2>1 DEF TypeOK
    <2>5. /\ queue' \in Seq(Tasks) /\ patchTaskRunning' \in BOOLEAN
          /\ task' \in Tasks \cup {NoTask} /\ pc' = "collect" /\ rest' \subseteq task'.selected
          /\ accepted' \in 0 .. MaxTasks
        BY <1>2, <2>4, AdvanceType DEF Collect
    <2>6. UNCHANGED <<files, store, review, left, rollback, edits, history>>
        BY <1>2 DEF Collect
    <2> QED
        BY <2>3, <2>5, <2>6 DEF TypeOK, store, history
<1>3. CASE Collected
    <2>1. rest' \subseteq task.selected
        BY <1>3 DEF Collected
    <2> QED
        BY <1>3, <2>1, AdvanceType DEF Collected, TypeOK, store, history
<1>4. CASE SaveSnapshot
    <2>1. snapshots' \in [Numbers -> Entries] /\ rest' \subseteq task.selected
        BY <1>4 DEF SaveSnapshot, TypeOK
    <2> QED
        BY <1>4, <2>1, AdvanceType DEF SaveSnapshot, TypeOK, history
<1>5. CASE SaveLatest
    <2>1. latest' \in 0 .. MaxTasks /\ rest' \subseteq task.selected
        BY <1>5, BoundsAssumption DEF SaveLatest, TypeOK, Tasks, NoTask, Numbers
    <2>2. before' \in [Files -> Contents]
        BY <1>5, EntriesType DEF SaveLatest, TypeOK
    <2> QED
        BY <1>5, <2>1, <2>2, AdvanceType DEF SaveLatest, Forget, TypeOK
<1>6. CASE SnapshotFails
    BY <1>6, SettleType DEF SnapshotFails, TypeOK, store, history
<1>7. CASE LatestFails
    <2>1. latest' \in 0 .. MaxTasks
        BY <1>7, BoundsAssumption DEF LatestFails
    <2> QED
        BY <1>7, <2>1, SettleType DEF LatestFails, Forget, TypeOK
<1>8. CASE Applied
    <2>1. rest' \subseteq task.selected
        BY <1>8 DEF Applied, TypeOK
    <2> QED
        BY <1>8, <2>1, AdvanceType DEF Applied, TypeOK, store, history
<1>9. CASE Validated
    <2>1. PICK failed : Settle(failed)
        BY <1>9 DEF Validated
    <2>2. review' \in Reviews \cup {NoReview}
        BY <1>9 DEF Validated, TypeOK
    <2> QED
        BY <1>9, <2>1, <2>2, SettleType DEF Validated, TypeOK, store, history
<1> QED
    BY <1>1, <1>2, <1>3, <1>4, <1>5, <1>6, <1>7, <1>8, <1>9

\* Changing a file.
LEMMA ChangeType ==
    ASSUME TypeOK, NEW f \in Files, NEW content \in Contents, Change(f, content)
    PROVE  /\ files' \in [Files -> Contents] /\ before' \in [Files -> Contents]
           /\ touched' \subseteq Files /\ foreign' \subseteq Files /\ reverted' \in BOOLEAN
BY DEF TypeOK, Change

\* A write of the patch that is cut short.
LEMMA CutType ==
    ASSUME TypeOK, CutTarget
    PROVE  /\ files' \in [Files -> Contents] /\ before' \in [Files -> Contents]
           /\ touched' \subseteq Files /\ foreign' \subseteq Files /\ reverted' \in BOOLEAN
<1>1. PICK i \in rest : Change(Target(task.diff[i]), Cut)
    BY DEF CutTarget
<1>2. Target(task.diff[i]) \in Files
    BY <1>1, SectionType DEF TypeOK
<1> QED
    BY <1>1, <1>2, ChangeType DEF Contents

\* Applying the sections, and their failures.
LEMMA ApplyType ==
    TypeOK /\ (DeleteTarget \/ WriteTarget \/ RemoveSource \/ ApplyFails \/ WriteFails) => TypeOK'
<1> SUFFICES ASSUME TypeOK PROVE
        (DeleteTarget \/ WriteTarget \/ RemoveSource \/ ApplyFails \/ WriteFails) => TypeOK'
    OBVIOUS
<1>1. CASE DeleteTarget
    <2>1. PICK i \in rest : Change(Target(task.diff[i]), Absent) /\ rest' = rest \ {i}
        BY <1>1 DEF DeleteTarget
    <2>2. Target(task.diff[i]) \in Files /\ Absent \in Contents /\ rest' \subseteq task.selected
        BY <2>1, SectionType DEF TypeOK, Contents
    <2> QED
        BY <1>1, <2>1, <2>2, ChangeType, AdvanceType DEF DeleteTarget, TypeOK, store
<1>2. CASE WriteTarget
    <2>1. PICK i \in rest, text \in Texts :
              /\ Change(Target(task.diff[i]), text)
              /\ \/ Advance("apply") /\ rest' = rest \ {i}
                 \/ Advance("remove") /\ UNCHANGED rest
        BY <1>2 DEF WriteTarget
    <2>2. Target(task.diff[i]) \in Files /\ text \in Contents /\ rest' \subseteq task.selected
        BY <2>1, SectionType DEF TypeOK, Contents
    <2>3. /\ files' \in [Files -> Contents] /\ before' \in [Files -> Contents]
          /\ touched' \subseteq Files /\ foreign' \subseteq Files /\ reverted' \in BOOLEAN
        BY <2>1, <2>2, ChangeType
    <2>4. /\ queue' \in Seq(Tasks) /\ patchTaskRunning' \in BOOLEAN
          /\ task' \in Tasks \cup {NoTask} /\ pc' \in {"apply", "remove"}
          /\ rest' \subseteq task'.selected /\ accepted' \in 0 .. MaxTasks
        BY <2>1, <2>2, AdvanceType
    <2> QED
        BY <1>2, <2>3, <2>4 DEF WriteTarget, TypeOK, store
<1>3. CASE RemoveSource
    <2>1. PICK i \in rest : Change(Source(task.diff[i]), Absent) /\ rest' = rest \ {i}
        BY <1>3 DEF RemoveSource
    <2>2. Source(task.diff[i]) \in Files /\ Absent \in Contents /\ rest' \subseteq task.selected
        BY <2>1, SectionType DEF TypeOK, Contents
    <2> QED
        BY <1>3, <2>1, <2>2, ChangeType, AdvanceType DEF RemoveSource, TypeOK, store
<1>4. ASSUME pc \in {"apply", "remove"}, rest # {} PROVE snapshots[task.n] \in Entries
    BY <1>4 DEF TypeOK, Tasks, NoTask
<1>5. CASE ApplyFails
    <2>1. left' \in Entries /\ rest' \subseteq task.selected
        BY <1>4, <1>5 DEF ApplyFails, TypeOK
    <2> QED
        BY <1>5, <2>1, AdvanceType DEF ApplyFails, TypeOK, store, history
<1>6. CASE WriteFails
    <2>1. left' \in Entries /\ rest' \subseteq task.selected
        BY <1>4, <1>6 DEF WriteFails, CutTarget, TypeOK
    <2> QED
        BY <1>6, <2>1, CutType, AdvanceType DEF WriteFails, TypeOK, store
<1> QED
    BY <1>1, <1>2, <1>3, <1>5, <1>6

\* Restoring, by the task and by Rollback Last.
LEMMA RestoreType ==
    TypeOK /\ (RestoreFile \/ RestoreDone \/ RestoreFails \/ RollbackLast \/ RollbackFile
               \/ RollbackDone \/ RollbackFails) => TypeOK'
<1> SUFFICES ASSUME TypeOK PROVE
        (RestoreFile \/ RestoreDone \/ RestoreFails \/ RollbackLast \/ RollbackFile
               \/ RollbackDone \/ RollbackFails) => TypeOK'
    OBVIOUS
<1>1. \A e \in Entries : \A f \in DOMAIN e :
          /\ Restored(f, e[f]) \in [Files -> Contents]
          /\ HalfRestored(f, e[f]) \subseteq [Files -> Contents]
          /\ Without(f, e) \in Entries /\ f \in Files
    BY EntriesType DEF TypeOK, Restored, HalfRestored, Contents
<1>2. CASE RestoreFile
    <2>1. /\ files' \in [Files -> Contents] /\ left' \in Entries
          /\ foreign' \subseteq Files /\ rest' \subseteq task.selected
        BY <1>1, <1>2 DEF RestoreFile, TypeOK
    <2> QED
        BY <1>2, <2>1, AdvanceType DEF RestoreFile, TypeOK, store
<1>3. CASE RestoreDone
    BY <1>3, SettleType DEF RestoreDone, TypeOK, store
<1>4. CASE RestoreFails
    <2>1. files' \in [Files -> Contents] /\ foreign' \subseteq Files
        BY <1>1, <1>4 DEF RestoreFails, TypeOK
    <2> QED
        BY <1>4, <2>1, SettleType DEF RestoreFails, TypeOK, store
<1>5. CASE RollbackLast
    <2>1. rollback' \in [n : 0 .. MaxTasks, left : Entries]
        BY <1>5, BoundsAssumption DEF RollbackLast, TypeOK, Numbers
    <2> QED
        BY <1>5, <2>1 DEF RollbackLast, TypeOK, store, tasks, work, history
<1>6. CASE RollbackFile
    <2>1. /\ files' \in [Files -> Contents] /\ foreign' \subseteq Files
          /\ rollback' \in [n : 0 .. MaxTasks, left : Entries]
        BY <1>1, <1>6 DEF RollbackFile, TypeOK
    <2> QED
        BY <1>6, <2>1 DEF RollbackFile, TypeOK, store, tasks, work
<1>7. CASE RollbackDone
    <2>1. rollback' \in [n : 0 .. MaxTasks, left : Entries] /\ reverted' \in BOOLEAN
        BY <1>7, EntriesType, BoundsAssumption DEF RollbackDone, NoRollback, TypeOK
    <2> QED
        BY <1>7, <2>1 DEF RollbackDone, TypeOK, store, tasks, work
<1>8. CASE RollbackFails
    <2>1. /\ files' \in [Files -> Contents] /\ foreign' \subseteq Files
        BY <1>1, <1>8 DEF RollbackFails, TypeOK
    <2>2. rollback' \in [n : 0 .. MaxTasks, left : Entries]
        BY <1>8, EntriesType, BoundsAssumption DEF RollbackFails, NoRollback
    <2> QED
        BY <1>8, <2>1, <2>2 DEF RollbackFails, TypeOK, store, tasks, work
<1> QED
    BY <1>2, <1>3, <1>4, <1>5, <1>6, <1>7, <1>8

\* Edits, and the end of the editor.
LEMMA WorldType ==
    TypeOK /\ (Edit \/ Die \/ DieWriting \/ DieNaming \/ DieRestoring) => TypeOK'
<1> SUFFICES ASSUME TypeOK PROVE
        (Edit \/ Die \/ DieWriting \/ DieNaming \/ DieRestoring) => TypeOK'
    OBVIOUS
<1>1. ASSUME Down
      PROVE  /\ queue' \in Seq(Tasks) /\ patchTaskRunning' \in BOOLEAN
             /\ task' \in Tasks \cup {NoTask} /\ pc' = "idle" /\ rest' \subseteq task'.selected
             /\ entries' \in Entries /\ left' \in Entries
             /\ rollback' \in [n : 0 .. MaxTasks, left : Entries]
             /\ snapshots' \in [Numbers -> Entries] /\ review' \in Reviews \cup {NoReview}
             /\ accepted' \in 0 .. MaxTasks /\ edits' \in 0 .. MaxEdits
    <2>1. Nothing \in Entries
        BY EntriesType
    <2>2. NoRollback \in [n : 0 .. MaxTasks, left : Entries]
        BY <2>1, BoundsAssumption DEF NoRollback
    <2>3. <<>> \in Seq(Tasks)
        OBVIOUS
    <2> QED
        BY <1>1, <2>1, <2>2, <2>3 DEF Down, TypeOK
<1>2. CASE Edit
    <2>1. files' \in [Files -> Contents] /\ foreign' \subseteq Files /\ edits' \in 0 .. MaxEdits
        BY <1>2, BoundsAssumption DEF Edit, TypeOK, Contents
    <2> QED
        BY <1>2, <2>1 DEF Edit, TypeOK, store, tasks, work
<1>3. CASE Die
    BY <1>1, <1>3 DEF Die, TypeOK, history
<1>4. CASE DieWriting
    BY <1>1, <1>4, CutType DEF DieWriting, TypeOK
<1>5. CASE DieNaming
    <2>1. latest' \in 0 .. MaxTasks
        BY <1>5, BoundsAssumption DEF DieNaming
    <2> QED
        BY <1>1, <1>5, <2>1 DEF DieNaming, Forget, TypeOK
<1>6. CASE DieRestoring
    <2>1. files' \in [Files -> Contents]
        BY <1>6 DEF DieRestoring, TypeOK, Contents
    <2> QED
        BY <1>1, <1>6, <2>1 DEF DieRestoring, TypeOK
<1> QED
    BY <1>2, <1>3, <1>4, <1>5, <1>6

(* Every reachable state is well typed: the snapshots hold contents of      *)
(* files, and a task applies sections of a review.                         *)
THEOREM TypeCorrect == Spec => []TypeOK
<1>1. TypeOK /\ [Next]_vars => TypeOK'
    <2> SUFFICES ASSUME TypeOK, [Next]_vars PROVE TypeOK'
        OBVIOUS
    <2>1. CASE Next
        BY <2>1, QueueType, SnapshotType, ApplyType, RestoreType, WorldType DEF Next, TaskStep
    <2>2. CASE UNCHANGED vars
        BY <2>2 DEF vars, TypeOK, store, tasks, work, history
    <2> QED
        BY <2>1, <2>2
<1> QED
    BY InitType, <1>1, PTL DEF Spec

-----------------------------------------------------------------------------
(* What has been changed is in the snapshot *)

\* Numbers of tasks are numbers.
LEMMA NumberType ==
    ASSUME TypeOK
    PROVE  /\ latest \in Nat /\ accepted \in Nat /\ task.n \in Nat
           /\ task # NoTask => task.n \in Numbers
           /\ \A i \in DOMAIN queue : queue[i] \in Tasks /\ queue[i].n \in Nat
           /\ \A i \in DOMAIN queue : queue[i] # NoTask
<1>1. \A t \in Tasks : t.n \in Numbers /\ t.n \in Nat /\ t # NoTask
    BY BoundsAssumption DEF Tasks, Numbers, NoTask
<1> QED
    BY <1>1, BoundsAssumption DEF TypeOK, NoTask

\* No attempt has been made in an initial state.
LEMMA InitSafe == Init => SafeSnapshots
BY DEF Init, SafeSnapshots, Numbered, Saved, Agrees, Recoverable, NoTask

\* Steps that leave the store and the history alone, and let the task be,
\* leave it no more to change, or end it.
LEMMA QuietSafe ==
    ASSUME TypeOK, SafeSnapshots,
           UNCHANGED <<snapshots, latest, touched, before, accepted>>,
           \/ UNCHANGED <<queue, task, pc, rest, entries>>
           \/ UNCHANGED <<queue, task>> /\ task # NoTask /\ pc' \in {"restore", "validate"}
           \/ queue' \in {queue, <<>>} /\ task' = NoTask /\ pc' = "idle"
    PROVE  SafeSnapshots'
<1>1. Numbered'
    BY NumberType DEF SafeSnapshots, Numbered, NoTask
<1>2. Saved'
    BY DEF SafeSnapshots, Saved
<1>3. Agrees' /\ Recoverable'
    BY DEF SafeSnapshots, Agrees, Recoverable
<1> QED
    BY <1>1, <1>2, <1>3 DEF SafeSnapshots

\* Accepting a task gives it a number above all others; the task that
\* starts has the lowest of those that wait.
LEMMA QueueSafe ==
    TypeOK /\ SafeSnapshots /\ (RunTask \/ ApplyPatch \/ StartTask) => SafeSnapshots'
<1> SUFFICES ASSUME TypeOK, SafeSnapshots, RunTask \/ ApplyPatch \/ StartTask
             PROVE  SafeSnapshots'
    OBVIOUS
<1>1. ASSUME NEW kind, NEW diff, NEW selected, Enqueue(kind, diff, selected)
      PROVE  SafeSnapshots'
    <2> DEFINE t == [n |-> accepted + 1, kind |-> kind, diff |-> diff, selected |-> selected]
    <2>1. queue' = Append(queue, t) /\ accepted' = accepted + 1 /\ t.n = accepted + 1
        BY <1>1 DEF Enqueue
    <2>2. UNCHANGED <<store, task, work, history>>
        BY <1>1 DEF Enqueue
    <2>3. DOMAIN queue' = 1 .. Len(queue) + 1 /\ DOMAIN queue = 1 .. Len(queue)
          /\ Len(queue) \in Nat
        BY <2>1 DEF TypeOK
    <2>4. \A i \in DOMAIN queue' : queue'[i] = IF i \in DOMAIN queue THEN queue[i] ELSE t
        BY <2>1, <2>3 DEF TypeOK
    <2> HIDE DEF t
    <2>5. Numbered'
        <3>1. \A i \in DOMAIN queue' :
                  latest < queue'[i].n /\ task.n < queue'[i].n /\ queue'[i].n <= accepted'
            BY <2>1, <2>3, <2>4, NumberType DEF SafeSnapshots, Numbered
        <3>2. \A i, j \in DOMAIN queue' : i < j => queue'[i].n < queue'[j].n
            BY <2>1, <2>3, <2>4, NumberType DEF SafeSnapshots, Numbered
        <3> QED
            BY <2>1, <2>2, <3>1, <3>2, NumberType DEF SafeSnapshots, Numbered, store, work
    <2>6. Saved' /\ Agrees' /\ Recoverable'
        BY <2>2 DEF SafeSnapshots, Saved, Agrees, Recoverable, store, work, history
    <2> QED
        BY <2>5, <2>6 DEF SafeSnapshots
<1>2. CASE StartTask
    <2>1. /\ queue # <<>> /\ task' = queue[1] /\ queue' = Tail(queue)
          /\ rest' = task'.selected
          /\ UNCHANGED <<store, history, entries, accepted>>
        BY <1>2 DEF StartTask
    <2>2. pc' = "generate" \/ pc' = "collect"
        BY <1>2 DEF StartTask
    <2>3. /\ 1 \in DOMAIN queue
          /\ \A i \in DOMAIN queue' : i + 1 \in DOMAIN queue /\ queue'[i] = queue[i + 1]
                                      /\ i \in Nat /\ 1 < i + 1
        BY <2>1 DEF TypeOK
    <2>4. Numbered'
        <3>1. \A i \in DOMAIN queue' :
                  latest < queue'[i].n /\ task'.n < queue'[i].n /\ queue'[i].n <= accepted
            BY <2>1, <2>3 DEF SafeSnapshots, Numbered
        <3>2. \A i, j \in DOMAIN queue' : i < j => queue'[i].n < queue'[j].n
            BY <2>3 DEF SafeSnapshots, Numbered
        <3>3. task'.n <= accepted /\ latest < task'.n /\ task' # NoTask
            BY <2>1, <2>3, NumberType DEF SafeSnapshots, Numbered
        <3> QED
            BY <2>1, <2>2, <3>1, <3>2, <3>3 DEF SafeSnapshots, Numbered, store
    <2>5. Saved' /\ Agrees' /\ Recoverable'
        BY <2>1, <2>2 DEF SafeSnapshots, Saved, Agrees, Recoverable, store, history
    <2> QED
        BY <2>4, <2>5 DEF SafeSnapshots
<1> QED
    BY <1>1, <1>2 DEF RunTask, ApplyPatch

\* Reading the files and saving the snapshot: the number of the task is
\* above that of the last snapshot, which stays as it is.
LEMMA SnapshotSafe ==
    TypeOK /\ SafeSnapshots /\ (Collect \/ Collected \/ SaveSnapshot \/ SaveLatest)
        => SafeSnapshots'
<1> SUFFICES ASSUME TypeOK, SafeSnapshots PROVE
        (Collect \/ Collected \/ SaveSnapshot \/ SaveLatest) => SafeSnapshots'
    OBVIOUS
<1>1. CASE Collect
    <2>1. PICK i \in rest : /\ entries' = WithEntries(SnapshotPaths(task.diff[i]))
                            /\ rest' = rest \ {i}
        BY <1>1 DEF Collect
    <2>2. SnapshotPaths(task.diff[i]) \in SUBSET Files
        BY <2>1, SectionType DEF TypeOK
    <2>3. DOMAIN entries' = DOMAIN entries \cup SnapshotPaths(task.diff[i])
        BY <2>1, <2>2, ReadType
    <2>4. /\ pc = "collect" /\ pc' = "collect"
          /\ UNCHANGED <<store, tasks, history>>
        BY <1>1 DEF Collect, Advance
    <2>5. Numbered' /\ Agrees' /\ Recoverable'
        BY <2>4 DEF SafeSnapshots, Numbered, Agrees, Recoverable, store, tasks, history
    <2>6. Saved'
        BY <2>1, <2>3, <2>4 DEF SafeSnapshots, Saved, tasks
    <2> QED
        BY <2>5, <2>6 DEF SafeSnapshots
<1>2. CASE Collected
    <2>1. /\ pc = "collect" /\ rest = {} /\ pc' = "save"
          /\ UNCHANGED <<store, tasks, history, entries>>
        BY <1>2 DEF Collected, Advance
    <2> QED
        BY <2>1 DEF SafeSnapshots, Numbered, Saved, Agrees, Recoverable, store, tasks, history
<1>3. CASE SaveSnapshot
    <2>1. /\ pc = "save" /\ pc' = "latest"
          /\ snapshots' = [snapshots EXCEPT ![task.n] = entries]
          /\ UNCHANGED <<latest, tasks, history, entries>>
        BY <1>3 DEF SaveSnapshot, Advance
    <2>2. latest < task.n /\ task # NoTask
        BY <2>1 DEF SafeSnapshots, Numbered
    <2>3. snapshots'[task.n] = entries /\ snapshots'[latest] = snapshots[latest]
        BY <2>1, <2>2, NumberType DEF TypeOK
    <2>4. Numbered'
        BY <2>1 DEF SafeSnapshots, Numbered, tasks
    <2>5. Saved' /\ Agrees' /\ Recoverable'
        BY <2>1, <2>3 DEF SafeSnapshots, Saved, Agrees, Recoverable, tasks, history
    <2> QED
        BY <2>4, <2>5 DEF SafeSnapshots
<1>4. CASE SaveLatest
    <2>1. /\ pc = "latest" /\ pc' = "apply" /\ latest' = task.n /\ touched' = {}
          /\ before' = [f \in Files |-> IF f \in DOMAIN entries THEN entries[f] ELSE files[f]]
          /\ UNCHANGED <<snapshots, tasks, entries>>
        BY <1>4 DEF SaveLatest, Advance, Forget
    <2>2. snapshots[task.n] = entries /\ latest < task.n
        BY <2>1 DEF SafeSnapshots, Saved, Numbered
    <2>3. \A f \in DOMAIN entries : before'[f] = entries[f]
        BY <2>1, EntriesType DEF TypeOK
    <2>4. Numbered'
        <3>1. \A k \in DOMAIN queue : task.n < queue[k].n /\ queue[k].n <= accepted
            BY DEF SafeSnapshots, Numbered
        <3>2. task.n <= accepted
            BY DEF SafeSnapshots, Numbered
        <3>3. task # NoTask
            BY <2>1 DEF SafeSnapshots, Numbered
        <3> QED
            BY <2>1, <3>1, <3>2, <3>3 DEF SafeSnapshots, Numbered, tasks
    <2>5. Saved' /\ Agrees' /\ Recoverable'
        BY <2>1, <2>2, <2>3 DEF SafeSnapshots, Saved, Agrees, Recoverable, tasks
    <2> QED
        BY <2>4, <2>5 DEF SafeSnapshots
<1> QED
    BY <1>1, <1>2, <1>3, <1>4

\* latest_snapshot.json ends up with no name: nothing was changed yet.
LEMMA NamelessSafe == TypeOK /\ SafeSnapshots /\ (LatestFails \/ DieNaming) => SafeSnapshots'
<1> SUFFICES ASSUME TypeOK, SafeSnapshots, LatestFails \/ DieNaming PROVE SafeSnapshots'
    OBVIOUS
<1>1. /\ latest' = 0 /\ touched' = {} /\ task' = NoTask /\ pc' = "idle"
      /\ queue' \in {queue, <<>>} /\ UNCHANGED <<snapshots, accepted>>
    BY DEF LatestFails, DieNaming, Forget, Settle, Down
<1>2. \A i \in DOMAIN queue : 0 < queue[i].n
    BY NumberType DEF SafeSnapshots, Numbered
<1>3. Numbered'
    BY <1>1, <1>2, NumberType DEF SafeSnapshots, Numbered, NoTask
<1>4. Saved' /\ Agrees' /\ Recoverable'
    BY <1>1 DEF Saved, Agrees, Recoverable
<1> QED
    BY <1>3, <1>4 DEF SafeSnapshots

\* A file of a section may be changed: the snapshot has it.
LEMMA ChangeSafe ==
    ASSUME TypeOK, SafeSnapshots, pc \in {"apply", "remove"},
           NEW i \in rest, NEW f \in SnapshotPaths(task.diff[i]), NEW content,
           Change(f, content), UNCHANGED store
    PROVE  Agrees' /\ Recoverable'
<1>1. latest # 0 /\ f \in DOMAIN snapshots[latest]
    <2>1. latest = task.n /\ task # NoTask
        BY DEF SafeSnapshots, Numbered
    <2>2. task.n \in Numbers
        BY <2>1, NumberType
    <2>3. i \in task.selected
        BY DEF TypeOK
    <2> QED
        BY <2>1, <2>2, <2>3, BoundsAssumption DEF SafeSnapshots, Saved, Numbers
<1>2. /\ snapshots' = snapshots /\ latest' = latest
      /\ touched' = touched \cup {f} /\ before' = before
    BY DEF Change, store
<1>3. snapshots[latest][f] = before[f]
    BY <1>1 DEF SafeSnapshots, Agrees
<1> QED
    BY <1>1, <1>2, <1>3 DEF SafeSnapshots, Agrees, Recoverable

\* Steps that change a file of the section that is next.
LEMMA ApplySafe ==
    TypeOK /\ SafeSnapshots /\ (DeleteTarget \/ WriteTarget \/ RemoveSource \/ WriteFails
                                \/ DieWriting) => SafeSnapshots'
<1> SUFFICES ASSUME TypeOK, SafeSnapshots,
                    DeleteTarget \/ WriteTarget \/ RemoveSource \/ WriteFails \/ DieWriting
             PROVE  SafeSnapshots'
    OBVIOUS
<1>1. PICK i \in rest : \E f \in SnapshotPaths(task.diff[i]) : \E content : Change(f, content)
    BY DEF DeleteTarget, WriteTarget, RemoveSource, WriteFails, DieWriting, CutTarget,
           SnapshotPaths
<1>2. PICK f \in SnapshotPaths(task.diff[i]) : \E content : Change(f, content)
    BY <1>1
<1>3. PICK content : Change(f, content)
    BY <1>2
<1>4. /\ pc \in {"apply", "remove"}
      /\ UNCHANGED <<store, accepted>>
    BY DEF DeleteTarget, WriteTarget, RemoveSource, WriteFails, DieWriting, CutTarget,
           Advance, Down, store, tasks
<1>5. \/ UNCHANGED <<task, queue>> /\ pc' \in {"apply", "remove", "restore"}
      \/ task' = NoTask /\ queue' = <<>> /\ pc' = "idle"
    BY DEF DeleteTarget, WriteTarget, RemoveSource, WriteFails, DieWriting, Advance, Down, tasks
<1>6. Agrees' /\ Recoverable'
    BY <1>3, <1>4, ChangeSafe
<1>7. Numbered'
    BY <1>4, <1>5, NumberType DEF SafeSnapshots, Numbered, store, NoTask
<1>8. Saved'
    BY <1>4, <1>5 DEF SafeSnapshots, Saved, store
<1> QED
    BY <1>6, <1>7, <1>8 DEF SafeSnapshots

\* All other steps.
LEMMA OtherSafe ==
    TypeOK /\ SafeSnapshots /\ (GenerateEnds \/ SnapshotFails \/ ApplyFails \/ Applied
        \/ Validated \/ RestoreFile \/ RestoreDone \/ RestoreFails \/ RollbackLast
        \/ RollbackFile \/ RollbackDone \/ RollbackFails \/ Edit \/ Die \/ DieRestoring)
        => SafeSnapshots'
<1> SUFFICES ASSUME TypeOK, SafeSnapshots PROVE
        (GenerateEnds \/ SnapshotFails \/ ApplyFails \/ Applied
        \/ Validated \/ RestoreFile \/ RestoreDone \/ RestoreFails \/ RollbackLast
        \/ RollbackFile \/ RollbackDone \/ RollbackFails \/ Edit \/ Die \/ DieRestoring)
        => SafeSnapshots'
    OBVIOUS
<1>1. CASE GenerateEnds \/ SnapshotFails \/ Validated \/ RestoreDone \/ RestoreFails
    <2>1. /\ UNCHANGED <<snapshots, latest, touched, before, accepted>>
          /\ queue' = queue /\ task' = NoTask /\ pc' = "idle"
        BY <1>1 DEF GenerateEnds, SnapshotFails, Validated, RestoreDone, RestoreFails, Settle,
                    store, history
    <2> QED
        BY <2>1, QuietSafe
<1>2. CASE ApplyFails \/ Applied \/ RestoreFile
    <2>1. /\ UNCHANGED <<snapshots, latest, touched, before, accepted, queue, task>>
          /\ pc # "idle" /\ pc' \in {"restore", "validate"}
        BY <1>2 DEF ApplyFails, Applied, RestoreFile, Advance, store, tasks, history
    <2>2. task # NoTask
        BY <2>1 DEF SafeSnapshots, Numbered
    <2> QED
        BY <2>1, <2>2, QuietSafe
<1>3. CASE RollbackLast \/ RollbackFile \/ RollbackDone \/ RollbackFails \/ Edit
    <2>1. UNCHANGED <<snapshots, latest, touched, before, accepted, queue, task, pc, rest, entries>>
        BY <1>3 DEF RollbackLast, RollbackFile, RollbackDone, RollbackFails, Edit, store, tasks,
                    work, history
    <2> QED
        BY <2>1, QuietSafe
<1>4. CASE Die \/ DieRestoring
    <2>1. /\ UNCHANGED <<snapshots, latest, touched, before, accepted>>
          /\ queue' = <<>> /\ task' = NoTask /\ pc' = "idle"
        BY <1>4 DEF Die, DieRestoring, Down, history
    <2> QED
        BY <2>1, QuietSafe
<1> QED
    BY <1>1, <1>2, <1>3, <1>4

\* No step makes what was changed unrecoverable.
LEMMA NextSafe == TypeOK /\ SafeSnapshots /\ [Next]_vars => SafeSnapshots'
<1> SUFFICES ASSUME TypeOK, SafeSnapshots, [Next]_vars PROVE SafeSnapshots'
    OBVIOUS
<1>1. CASE Next
    BY <1>1, QueueSafe, SnapshotSafe, NamelessSafe, ApplySafe, OtherSafe DEF Next, TaskStep
<1>2. CASE UNCHANGED vars
    BY <1>2, QuietSafe DEF vars, store, tasks, work, history
<1> QED
    BY <1>1, <1>2

(* What the last attempt to apply has changed can be undone: the snapshot   *)
(* named last has each file it changed, with what the attempt read of it.  *)
THEOREM ChangesCanBeUndone == Spec => []Recoverable
<1>1. SafeSnapshots => Recoverable
    BY DEF SafeSnapshots
<1> QED
    BY InitSafe, NextSafe, TypeCorrect, <1>1, PTL DEF Spec

-----------------------------------------------------------------------------
(* What was taken back is as it was                                        *)

\* Rollback Last works from a snapshot older than any task to come.
RollbackNumbered ==
    /\ rollback.n <= accepted
    /\ \A i \in DOMAIN queue : rollback.n < queue[i].n
    /\ pc \in {"collect", "save", "latest"} => rollback.n < task.n

\* Whoever restores writes what the attempt read; what the attempt changed and
\* nobody else wrote is still to be restored, or is as before.
Reverts(saved) ==
    /\ \A f \in DOMAIN saved : saved[f] = before[f]
    /\ \A f \in touched \ foreign : f \in DOMAIN saved \/ files[f] = before[f]

TaskReverts == pc = "restore" => latest = task.n /\ Reverts(left)

RollbackReverts == rollback.n # 0 /\ rollback.n = latest => Reverts(rollback.left)

SafeReverts == RollbackNumbered /\ TaskReverts /\ RollbackReverts /\ RestoreReverts

LEMMA InitReverts == Init => SafeReverts
BY DEF Init, SafeReverts, RollbackNumbered, TaskReverts, RollbackReverts, RestoreReverts,
       NoRollback, NoTask

\* A task that is accepted gets a number above that of the rollback, and a
\* rollback that starts has the number of the last snapshot.
LEMMA RollbackNumberedKept ==
    TypeOK /\ SafeSnapshots /\ RollbackNumbered /\ Next => RollbackNumbered'
<1> SUFFICES ASSUME TypeOK, SafeSnapshots, RollbackNumbered, Next
             PROVE  RollbackNumbered'
    OBVIOUS
<1>1. rollback.n \in Nat /\ rollback \in [n : 0 .. MaxTasks, left : Entries]
    BY BoundsAssumption DEF TypeOK
<1>2. ASSUME NEW kind, NEW diff, NEW selected, Enqueue(kind, diff, selected)
      PROVE  RollbackNumbered'
    <2> DEFINE t == [n |-> accepted + 1, kind |-> kind, diff |-> diff, selected |-> selected]
    <2>1. /\ queue' = Append(queue, t) /\ accepted' = accepted + 1 /\ t.n = accepted + 1
          /\ UNCHANGED <<rollback, pc, task>>
        BY <1>2 DEF Enqueue, work
    <2>2. DOMAIN queue' = 1 .. Len(queue) + 1 /\ DOMAIN queue = 1 .. Len(queue)
          /\ Len(queue) \in Nat
        BY <2>1 DEF TypeOK
    <2>3. \A i \in DOMAIN queue' : queue'[i] = IF i \in DOMAIN queue THEN queue[i] ELSE t
        BY <2>1, <2>2 DEF TypeOK
    <2> HIDE DEF t
    <2> QED
        BY <1>1, <2>1, <2>2, <2>3, NumberType DEF RollbackNumbered
<1>3. CASE StartTask
    <2>1. /\ queue # <<>> /\ task' = queue[1] /\ queue' = Tail(queue)
          /\ UNCHANGED <<rollback, accepted>>
        BY <1>3 DEF StartTask
    <2>2. /\ 1 \in DOMAIN queue
          /\ \A i \in DOMAIN queue' : i + 1 \in DOMAIN queue /\ queue'[i] = queue[i + 1]
        BY <2>1 DEF TypeOK
    <2> QED
        BY <2>1, <2>2 DEF RollbackNumbered
<1>4. CASE RollbackLast
    BY <1>4 DEF RollbackLast, RollbackNumbered, SafeSnapshots, Numbered, tasks, work
<1>5. ASSUME UNCHANGED accepted, queue' \in {queue, <<>>}, rollback'.n \in {rollback.n, 0},
             pc' \in {"collect", "save", "latest"} =>
                 pc \in {"collect", "save", "latest"} /\ task' = task
      PROVE  RollbackNumbered'
    <2>1. pc \in {"collect", "save", "latest"} => task # NoTask
        BY DEF SafeSnapshots, Numbered
    <2>2. /\ \A i \in DOMAIN queue : 0 < queue[i].n
          /\ pc \in {"collect", "save", "latest"} => 0 < task.n
        BY <1>1, NumberType DEF RollbackNumbered
    <2> QED
        BY <1>1, <1>5, <2>2, NumberType DEF RollbackNumbered
<1>6. CASE \/ GenerateEnds \/ Collect \/ Collected \/ SaveSnapshot \/ SaveLatest
           \/ SnapshotFails \/ LatestFails \/ Applied \/ Validated
    <2>1. UNCHANGED <<accepted, queue, rollback>>
        BY <1>6 DEF GenerateEnds, Collect, Collected, SaveSnapshot, SaveLatest, SnapshotFails,
                    LatestFails, Applied, Validated, Settle, Advance, tasks
    <2>2. pc' \in {"collect", "save", "latest"} =>
              pc \in {"collect", "save", "latest"} /\ task' = task
        BY <1>6 DEF GenerateEnds, Collect, Collected, SaveSnapshot, SaveLatest, SnapshotFails,
                    LatestFails, Applied, Validated, Settle, Advance, tasks
    <2> QED
        BY <1>5, <2>1, <2>2
<1>7. CASE \/ DeleteTarget \/ WriteTarget \/ RemoveSource \/ ApplyFails \/ WriteFails
           \/ RestoreFile \/ RestoreDone \/ RestoreFails
    <2>1. UNCHANGED <<accepted, queue, rollback>>
        BY <1>7 DEF DeleteTarget, WriteTarget, RemoveSource, ApplyFails, WriteFails,
                    RestoreFile, RestoreDone, RestoreFails, Settle, Advance, tasks
    <2>2. pc' \notin {"collect", "save", "latest"}
        BY <1>7 DEF DeleteTarget, WriteTarget, RemoveSource, ApplyFails, WriteFails,
                    RestoreFile, RestoreDone, RestoreFails, Settle, Advance, tasks
    <2> QED
        BY <1>5, <2>1, <2>2
<1>8. CASE RollbackFile \/ RollbackDone \/ RollbackFails \/ Edit
    <2>1. UNCHANGED <<accepted, queue, pc, task>>
        BY <1>8 DEF RollbackFile, RollbackDone, RollbackFails, Edit, tasks, work
    <2>2. rollback'.n \in {rollback.n, 0}
        BY <1>1, <1>8 DEF RollbackFile, RollbackDone, RollbackFails, Edit, NoRollback
    <2> QED
        BY <1>5, <2>1, <2>2
<1>9. CASE Die \/ DieWriting \/ DieNaming \/ DieRestoring
    <2>1. /\ accepted' = accepted /\ queue' = <<>> /\ rollback' = NoRollback /\ pc' = "idle"
        BY <1>9 DEF Die, DieWriting, DieNaming, DieRestoring, Down
    <2> QED
        BY <1>5, <2>1 DEF NoRollback
<1> QED
    BY <1>2, <1>3, <1>4, <1>6, <1>7, <1>8, <1>9 DEF Next, TaskStep, RunTask, ApplyPatch

\* Steps that write no file, and neither begin nor end a restoring.
LEMMA QuietReverts ==
    ASSUME SafeReverts,
           UNCHANGED <<files, latest, touched, before, foreign, reverted>>,
           rollback' \in {rollback, NoRollback},
           pc' = "restore" => pc = "restore" /\ UNCHANGED <<left, task>>
    PROVE  TaskReverts' /\ RollbackReverts' /\ RestoreReverts'
<1>1. TaskReverts'
    BY DEF SafeReverts, TaskReverts, Reverts
<1>2. RollbackReverts'
    BY DEF SafeReverts, RollbackReverts, Reverts, NoRollback
<1>3. RestoreReverts'
    BY DEF SafeReverts, RestoreReverts
<1> QED
    BY <1>1, <1>2, <1>3

\* The next attempt is about to change its files: nothing is touched, and no
\* rollback is from its snapshot.
LEMMA ForgetReverts ==
    ASSUME TypeOK, SafeReverts, Forget, pc = "latest", pc' # "restore",
           latest' \in {task.n, 0}, rollback' \in {rollback, NoRollback}
    PROVE  TaskReverts' /\ RollbackReverts' /\ RestoreReverts'
<1>1. rollback.n < task.n /\ rollback.n \in Nat
    BY BoundsAssumption DEF SafeReverts, RollbackNumbered, TypeOK
<1>2. rollback'.n # 0 => rollback'.n # latest'
    BY <1>1 DEF NoRollback
<1>3. RestoreReverts' /\ RollbackReverts' /\ TaskReverts'
    BY <1>2 DEF Forget, RestoreReverts, RollbackReverts, TaskReverts
<1> QED
    BY <1>3

\* A file the patch changes while a rollback is under way is somebody else's.
LEMMA ChangeReverts ==
    ASSUME TypeOK, SafeReverts, NEW f \in Files, NEW content, Change(f, content),
           UNCHANGED latest, rollback' \in {rollback, NoRollback}
    PROVE  RollbackReverts' /\ RestoreReverts'
<1>1. /\ \A g \in Files \ {f} : files'[g] = files[g]
      /\ touched' = touched \cup {f} /\ touched \subseteq Files
      /\ foreign' = (IF rollback.n # 0 THEN foreign \cup {f} ELSE foreign)
      /\ reverted' = FALSE /\ before' = before
    BY DEF Change, TypeOK
<1>2. RestoreReverts'
    BY <1>1 DEF RestoreReverts
<1>3. ASSUME rollback'.n # 0, rollback'.n = latest
      PROVE  /\ \A g \in DOMAIN rollback'.left : rollback'.left[g] = before'[g]
             /\ \A g \in touched' \ foreign' :
                    g \in DOMAIN rollback'.left \/ files'[g] = before'[g]
    <2>1. rollback' = rollback
        BY <1>3 DEF NoRollback
    <2>2. Reverts(rollback.left) /\ rollback.n # 0
        BY <1>3, <2>1 DEF SafeReverts, RollbackReverts
    <2> QED
        BY <1>1, <2>1, <2>2 DEF Reverts
<1>4. UNCHANGED latest
    OBVIOUS
<1> QED
    BY <1>2, <1>3, <1>4 DEF RollbackReverts, Reverts

\* When the patch has failed, all it has changed is still to be restored.
LEMMA FailReverts ==
    ASSUME TypeOK, SafeSnapshots, SafeSnapshots', pc \in {"apply", "remove"},
           UNCHANGED <<snapshots, latest, task>>, left' = snapshots[task.n]
    PROVE  TaskReverts'
<1>1. latest = task.n
    BY DEF SafeSnapshots, Numbered
<1>2. latest' # 0 => \A f \in DOMAIN left' : left'[f] = before'[f]
    BY <1>1 DEF SafeSnapshots, Agrees
<1>3. \A f \in touched' : f \in DOMAIN left'
    BY <1>1 DEF SafeSnapshots, Recoverable
<1>4. task.n # 0
    BY NumberType, BoundsAssumption DEF SafeSnapshots, Numbered, Numbers
<1> QED
    BY <1>1, <1>2, <1>3, <1>4 DEF TaskReverts, Reverts

\* The steps of a task that apply a patch.
LEMMA ApplyReverts ==
    TypeOK /\ SafeSnapshots /\ SafeSnapshots' /\ SafeReverts
        /\ (DeleteTarget \/ WriteTarget \/ RemoveSource \/ ApplyFails \/ WriteFails \/ DieWriting)
        => TaskReverts' /\ RollbackReverts' /\ RestoreReverts'
<1> SUFFICES ASSUME TypeOK, SafeSnapshots, SafeSnapshots', SafeReverts,
                    \/ DeleteTarget \/ WriteTarget \/ RemoveSource
                    \/ ApplyFails \/ WriteFails \/ DieWriting
             PROVE  TaskReverts' /\ RollbackReverts' /\ RestoreReverts'
    OBVIOUS
<1>1. ASSUME NEW i \in rest, NEW content,
             \/ Change(Target(task.diff[i]), content)
             \/ Change(Source(task.diff[i]), content),
             UNCHANGED latest, rollback' \in {rollback, NoRollback}
      PROVE  RollbackReverts' /\ RestoreReverts'
    <2>1. Target(task.diff[i]) \in Files /\ Source(task.diff[i]) \in Files
        BY SectionType DEF TypeOK
    <2> QED
        BY <1>1, <2>1, ChangeReverts
<1>2. CASE DeleteTarget \/ WriteTarget \/ RemoveSource
    <2>1. PICK i \in rest : \E content : \/ Change(Target(task.diff[i]), content)
                                         \/ Change(Source(task.diff[i]), content)
        BY <1>2 DEF DeleteTarget, WriteTarget, RemoveSource
    <2>2. pc' # "restore" /\ UNCHANGED <<latest, rollback>>
        BY <1>2 DEF DeleteTarget, WriteTarget, RemoveSource, Advance, store
    <2> QED
        BY <1>1, <2>1, <2>2 DEF TaskReverts
<1>3. CASE WriteFails \/ DieWriting
    <2>1. PICK i \in rest : Change(Target(task.diff[i]), Cut)
        BY <1>3 DEF WriteFails, DieWriting, CutTarget
    <2>2. UNCHANGED latest /\ rollback' \in {rollback, NoRollback}
        BY <1>3 DEF WriteFails, DieWriting, Down, store
    <2>3. TaskReverts'
        <3>1. CASE WriteFails
            BY <3>1, FailReverts DEF WriteFails, CutTarget, Advance, store, tasks
        <3>2. CASE DieWriting
            BY <3>2 DEF DieWriting, Down, TaskReverts
        <3> QED
            BY <1>3, <3>1, <3>2
    <2> QED
        BY <1>1, <2>1, <2>2, <2>3
<1>4. CASE ApplyFails
    <2>1. /\ UNCHANGED <<files, store, task, rollback, touched, before, foreign, reverted>>
          /\ pc \in {"apply", "remove"} /\ left' = snapshots[task.n]
        BY <1>4 DEF ApplyFails, Advance, tasks, history
    <2>2. TaskReverts'
        BY <2>1, FailReverts DEF store
    <2>3. RollbackReverts' /\ RestoreReverts'
        BY <2>1 DEF SafeReverts, RollbackReverts, RestoreReverts, Reverts, store
    <2> QED
        BY <2>2, <2>3
<1> QED
    BY <1>2, <1>3, <1>4

\* A file written back is as before, unless the other one writes it too.
LEMMA WrittenBack ==
    ASSUME TypeOK, NEW saved \in Entries, Reverts(saved), NEW f \in DOMAIN saved,
           files' = Restored(f, saved[f]), UNCHANGED <<touched, before>>,
           foreign' = foreign \cup {f} \/ foreign' = foreign \ {f}
    PROVE  /\ \A g \in touched \ foreign' :
                 g \in DOMAIN Without(f, saved) \/ files'[g] = before[g]
           /\ \A g \in DOMAIN Without(f, saved) : Without(f, saved)[g] = before[g]
           /\ \A g \in touched \ foreign' : g = f \/ files'[g] = files[g]
           /\ \A g \in touched \ foreign' : g = f => files'[g] = before[g]
<1>1. f \in Files /\ saved[f] \in Contents
    BY EntriesType
<1>2. /\ files' \in [Files -> Contents] /\ files'[f] = saved[f]
      /\ \A g \in Files \ {f} : files'[g] = files[g]
    BY <1>1 DEF TypeOK, Restored
<1>3. /\ DOMAIN Without(f, saved) = DOMAIN saved \ {f}
      /\ \A g \in DOMAIN saved \ {f} : Without(f, saved)[g] = saved[g]
    BY DEF Without
<1>4. touched \subseteq Files
    BY DEF TypeOK
<1> QED
    BY <1>1, <1>2, <1>3, <1>4 DEF Reverts

\* The steps of a task that takes a patch back.
LEMMA TakingBack ==
    TypeOK /\ SafeSnapshots /\ SafeReverts /\ (RestoreFile \/ RestoreDone \/ RestoreFails)
        => TaskReverts' /\ RollbackReverts' /\ RestoreReverts'
<1> SUFFICES ASSUME TypeOK, SafeSnapshots, SafeReverts, RestoreFile \/ RestoreDone \/ RestoreFails
             PROVE  TaskReverts' /\ RollbackReverts' /\ RestoreReverts'
    OBVIOUS
<1>1. pc = "restore" /\ UNCHANGED <<latest, rollback, touched, before>>
    BY DEF RestoreFile, RestoreDone, RestoreFails, store
<1>2. latest = task.n /\ Reverts(left) /\ left \in Entries
    BY <1>1 DEF SafeReverts, TaskReverts, TypeOK
<1>3. touched \subseteq Files /\ files \in [Files -> Contents]
    BY DEF TypeOK
<1>4. CASE RestoreFile
    <2>1. PICK f \in DOMAIN left :
              /\ files' = Restored(f, left[f])
              /\ left' = Without(f, left)
              /\ foreign' = IF rollback.n # 0 THEN foreign \cup {f} ELSE foreign \ {f}
        BY <1>4 DEF RestoreFile
    <2>2. UNCHANGED <<task, reverted>> /\ pc' = "restore"
        BY <1>4 DEF RestoreFile, Advance, tasks
    <2>3. foreign' = foreign \cup {f} \/ foreign' = foreign \ {f}
        BY <2>1
    <2>4. /\ \A g \in touched \ foreign' : g \in DOMAIN left' \/ files'[g] = before[g]
          /\ \A g \in DOMAIN left' : left'[g] = before[g]
          /\ \A g \in touched \ foreign' : g = f \/ files'[g] = files[g]
          /\ \A g \in touched \ foreign' : g = f => files'[g] = before[g]
        BY <1>1, <1>2, <2>1, <2>3, WrittenBack
    <2>5. TaskReverts'
        BY <1>1, <1>2, <2>2, <2>4 DEF TaskReverts, Reverts
    <2>6. rollback.n # 0 => foreign' = foreign \cup {f}
        BY <2>1
    <2>7. RollbackReverts'
        BY <1>1, <2>4, <2>6 DEF SafeReverts, RollbackReverts, Reverts
    <2>8. RestoreReverts'
        BY <1>1, <2>2, <2>3, <2>4 DEF SafeReverts, RestoreReverts
    <2> QED
        BY <2>5, <2>7, <2>8
<1>5. CASE RestoreDone
    <2>1. /\ DOMAIN left = {} /\ pc' = "idle" /\ UNCHANGED <<files, foreign>>
        BY <1>5 DEF RestoreDone, Settle
    <2> QED
        BY <1>1, <1>2, <2>1
           DEF SafeReverts, TaskReverts, RollbackReverts, RestoreReverts, Reverts
<1>6. CASE RestoreFails
    <2>1. PICK f \in DOMAIN left :
              /\ files' \in HalfRestored(f, left[f])
              /\ foreign' = IF rollback.n # 0 THEN foreign \cup {f} ELSE foreign
        BY <1>6 DEF RestoreFails
    <2>2. reverted' = FALSE /\ pc' = "idle"
        BY <1>6 DEF RestoreFails, Settle
    <2>3. \A g \in Files \ {f} : files'[g] = files[g]
        BY <1>3, <2>1 DEF HalfRestored
    <2>4. RollbackReverts'
        BY <1>1, <1>3, <2>1, <2>3 DEF SafeReverts, RollbackReverts, Reverts
    <2> QED
        BY <2>2, <2>4 DEF TaskReverts, RestoreReverts
<1> QED
    BY <1>4, <1>5, <1>6

\* The steps of Rollback Last.
LEMMA RollingBack ==
    TypeOK /\ SafeSnapshots /\ SafeReverts
        /\ (RollbackLast \/ RollbackFile \/ RollbackDone \/ RollbackFails)
        => TaskReverts' /\ RollbackReverts' /\ RestoreReverts'
<1> SUFFICES ASSUME TypeOK, SafeSnapshots, SafeReverts,
                    RollbackLast \/ RollbackFile \/ RollbackDone \/ RollbackFails
             PROVE  TaskReverts' /\ RollbackReverts' /\ RestoreReverts'
    OBVIOUS
<1>1. UNCHANGED <<latest, snapshots, pc, left, task, touched, before>>
    BY DEF RollbackLast, RollbackFile, RollbackDone, RollbackFails, store, work, tasks, history
<1>2. touched \subseteq Files /\ files \in [Files -> Contents]
      /\ rollback \in [n : 0 .. MaxTasks, left : Entries]
    BY DEF TypeOK
<1>3. CASE RollbackLast
    <2>1. /\ rollback' = [n |-> latest, left |-> snapshots[latest]] /\ latest # 0
          /\ UNCHANGED <<files, foreign, reverted>>
        BY <1>3 DEF RollbackLast, history
    <2>2. Reverts(snapshots[latest])
        BY <2>1 DEF SafeSnapshots, Agrees, Recoverable, Reverts
    <2>3. RollbackReverts'
        BY <1>1, <2>1, <2>2 DEF RollbackReverts, Reverts
    <2> QED
        BY <1>1, <2>1, <2>3 DEF SafeReverts, TaskReverts, RestoreReverts, Reverts
<1>4. CASE RollbackFile
    <2>1. PICK f \in DOMAIN rollback.left :
              /\ files' = Restored(f, rollback.left[f])
              /\ rollback' = [rollback EXCEPT !.left = Without(f, @)]
              /\ foreign' = IF Interferes THEN foreign \cup {f} ELSE foreign \ {f}
        BY <1>4 DEF RollbackFile
    <2>2. UNCHANGED reverted
        BY <1>4 DEF RollbackFile
    <2>3. rollback'.n = rollback.n /\ rollback'.left = Without(f, rollback.left)
          /\ rollback.left \in Entries
        BY <1>2, <2>1
    <2>4. f \in Files /\ \A g \in Files \ {f} : files'[g] = files[g]
        BY <1>2, <2>1, <2>3, EntriesType DEF Restored
    <2>5. foreign' = foreign \cup {f} \/ foreign' = foreign \ {f}
        BY <2>1
    <2>6. TaskReverts'
        <3> SUFFICES ASSUME pc = "restore"
                     PROVE  TaskReverts'
            BY <1>1 DEF TaskReverts
        <3>1. foreign' = foreign \cup {f}
            BY <2>1 DEF Interferes
        <3> QED
            BY <1>1, <1>2, <2>4, <3>1 DEF SafeReverts, TaskReverts, Reverts
    <2>7. CASE rollback.n # 0 /\ rollback.n = latest
        <3>1. Reverts(rollback.left)
            BY <2>7 DEF SafeReverts, RollbackReverts
        <3>2. /\ \A g \in touched \ foreign' : g \in DOMAIN rollback'.left \/ files'[g] = before[g]
              /\ \A g \in DOMAIN rollback'.left : rollback'.left[g] = before[g]
              /\ \A g \in touched \ foreign' : g = f \/ files'[g] = files[g]
              /\ \A g \in touched \ foreign' : g = f => files'[g] = before[g]
            BY <1>1, <2>1, <2>3, <2>5, <3>1, WrittenBack
        <3>3. RollbackReverts'
            BY <1>1, <3>2 DEF RollbackReverts, Reverts
        <3>4. RestoreReverts'
            BY <1>1, <2>2, <2>5, <3>2 DEF SafeReverts, RestoreReverts
        <3> QED
            BY <2>6, <3>3, <3>4
    <2>8. CASE ~(rollback.n # 0 /\ rollback.n = latest)
        <3>1. touched = {} \/ foreign' = foreign \cup {f}
            <4>1. CASE rollback.n = latest
                BY <2>8, <4>1 DEF SafeSnapshots, Recoverable
            <4>2. CASE rollback.n # latest
                BY <2>1, <4>2 DEF Interferes
            <4> QED
                BY <4>1, <4>2
        <3>2. RollbackReverts'
            BY <1>1, <2>3, <2>8 DEF RollbackReverts
        <3>3. RestoreReverts'
            BY <1>1, <1>2, <2>2, <2>4, <3>1 DEF SafeReverts, RestoreReverts
        <3> QED
            BY <2>6, <3>2, <3>3
    <2> QED
        BY <2>7, <2>8
<1>5. CASE RollbackDone
    <2>1. /\ rollback.n # 0 /\ DOMAIN rollback.left = {} /\ rollback' = NoRollback
          /\ reverted' = (reverted \/ rollback.n = latest) /\ UNCHANGED <<files, foreign>>
        BY <1>5 DEF RollbackDone
    <2>2. TaskReverts' /\ RollbackReverts'
        BY <1>1, <2>1 DEF SafeReverts, TaskReverts, RollbackReverts, Reverts, NoRollback
    <2>3. RestoreReverts'
        BY <1>1, <2>1 DEF SafeReverts, RollbackReverts, RestoreReverts, Reverts
    <2> QED
        BY <2>2, <2>3
<1>6. CASE RollbackFails
    <2>1. PICK f \in DOMAIN rollback.left :
              /\ files' \in HalfRestored(f, rollback.left[f])
              /\ foreign' = IF Interferes THEN foreign \cup {f} ELSE foreign
        BY <1>6 DEF RollbackFails
    <2>2. rollback' = NoRollback /\ reverted' = FALSE
        BY <1>6 DEF RollbackFails
    <2>3. \A g \in Files \ {f} : files'[g] = files[g]
        BY <1>2, <2>1 DEF HalfRestored
    <2>4. TaskReverts'
        BY <1>1, <1>2, <2>1, <2>3 DEF SafeReverts, TaskReverts, Reverts, Interferes
    <2> QED
        BY <2>2, <2>4 DEF RollbackReverts, RestoreReverts, NoRollback
<1> QED
    BY <1>3, <1>4, <1>5, <1>6

\* Somebody else writes a file, or the editor ends while it writes one back.
LEMMA WorldReverts ==
    TypeOK /\ SafeReverts /\ (Edit \/ DieRestoring)
        => TaskReverts' /\ RollbackReverts' /\ RestoreReverts'
<1> SUFFICES ASSUME TypeOK, SafeReverts, Edit \/ DieRestoring
             PROVE  TaskReverts' /\ RollbackReverts' /\ RestoreReverts'
    OBVIOUS
<1>1. CASE Edit
    <2>1. PICK f \in Files, content \in Texts \cup {Absent} :
              /\ files' = [files EXCEPT ![f] = content]
              /\ foreign' = foreign \cup {f}
        BY <1>1 DEF Edit
    <2>2. UNCHANGED <<latest, pc, left, task, rollback, touched, before, reverted>>
        BY <1>1 DEF Edit, store, work, tasks
    <2>3. \A g \in touched \ {f} : files'[g] = files[g]
        BY <2>1 DEF TypeOK
    <2> QED
        BY <2>1, <2>2, <2>3
           DEF SafeReverts, TaskReverts, RollbackReverts, RestoreReverts, Reverts
<1>2. CASE DieRestoring
    BY <1>2 DEF DieRestoring, Down, TaskReverts, RollbackReverts, RestoreReverts, NoRollback
<1> QED
    BY <1>1, <1>2

(* When a patch was taken back, by its task or by Rollback Last, every file *)
(* it changed is as before, unless someone else wrote it since or two wrote *)
(* it at the same time (restoreSnapshot).                                   *)
THEOREM TakenBackIsAsBefore == Spec => []RestoreReverts
<1>1. TypeOK /\ SafeSnapshots /\ SafeSnapshots' /\ SafeReverts /\ [Next]_vars => SafeReverts'
    <2> SUFFICES ASSUME TypeOK, SafeSnapshots, SafeSnapshots', SafeReverts, [Next]_vars
                 PROVE  SafeReverts'
        OBVIOUS
    <2>1. CASE RunTask \/ ApplyPatch \/ StartTask \/ GenerateEnds \/ Collect \/ Collected
                \/ SaveSnapshot \/ SnapshotFails \/ Applied \/ Validated \/ Die
        <3>1. /\ UNCHANGED <<files, latest, touched, before, foreign, reverted>>
              /\ rollback' \in {rollback, NoRollback}
            BY <2>1 DEF RunTask, ApplyPatch, Enqueue, StartTask, GenerateEnds, Collect, Collected,
                        SaveSnapshot, SnapshotFails, Applied, Validated, Die, Down, store, history
        <3>2. pc' = "restore" => pc = "restore" /\ UNCHANGED <<left, task>>
            BY <2>1 DEF RunTask, ApplyPatch, Enqueue, StartTask, GenerateEnds, Collect, Collected,
                        SaveSnapshot, SnapshotFails, Applied, Validated, Die, Down, Advance,
                        Settle, work, tasks
        <3> QED
            BY <2>1, <3>1, <3>2, QuietReverts, RollbackNumberedKept DEF SafeReverts, Next, TaskStep
    <2>2. CASE SaveLatest \/ LatestFails \/ DieNaming
        <3>1. /\ Forget /\ pc = "latest" /\ pc' # "restore" /\ latest' \in {task.n, 0}
              /\ rollback' \in {rollback, NoRollback}
            BY <2>2 DEF SaveLatest, LatestFails, DieNaming, Down, Settle, Advance
        <3> QED
            BY <2>2, <3>1, ForgetReverts, RollbackNumberedKept DEF SafeReverts, Next, TaskStep
    <2>3. CASE \/ DeleteTarget \/ WriteTarget \/ RemoveSource \/ ApplyFails \/ WriteFails
               \/ DieWriting
        BY <2>3, ApplyReverts, RollbackNumberedKept DEF SafeReverts, Next, TaskStep
    <2>4. CASE RestoreFile \/ RestoreDone \/ RestoreFails
        BY <2>4, TakingBack, RollbackNumberedKept DEF SafeReverts, Next, TaskStep
    <2>5. CASE RollbackLast \/ RollbackFile \/ RollbackDone \/ RollbackFails
        BY <2>5, RollingBack, RollbackNumberedKept DEF SafeReverts, Next, TaskStep
    <2>6. CASE Edit \/ DieRestoring
        BY <2>6, WorldReverts, RollbackNumberedKept DEF SafeReverts, Next, TaskStep
    <2>7. CASE UNCHANGED vars
        BY <2>7, QuietReverts
           DEF SafeReverts, RollbackNumbered, vars, store, tasks, work, history
    <2> QED
        BY <2>1, <2>2, <2>3, <2>4, <2>5, <2>6, <2>7 DEF Next, TaskStep
<1>2. TypeOK /\ SafeSnapshots /\ [Next]_vars => SafeSnapshots'
    BY NextSafe
<1>3. SafeReverts => RestoreReverts
    BY DEF SafeReverts
<1> QED
    BY InitSafe, InitReverts, TypeCorrect, <1>1, <1>2, <1>3, PTL DEF Spec
=============================================================================

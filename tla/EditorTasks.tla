----------------------------- MODULE EditorTasks -----------------------------
(***************************************************************************)
(* The tasks of the editor extension and its rollback                      *)
(* (src/vscode-extension/src: extension.js, taskQueue.js, rollbackStore.js *)
(* and diffUtils.js).  A task generates a patch for review or applies the  *)
(* files of the review the user selected; tasks of a workspace run one     *)
(* after the other.  Rollback Last is not a task: it runs beside them.     *)
(*                                                                         *)
(* An action reaches from one await to the next.  The text a patch gives a *)
(* file is any text, and a patch may fail at any section: whether its      *)
(* hunks fit is decided by texts that are not modelled.                    *)
(***************************************************************************)
EXTENDS Naturals, Sequences

CONSTANTS
    Files,       \* paths of the workspace
    NoFile,      \* /dev/null, the old or new path of a file that has none
    Texts,       \* what a file may hold
    Cut,         \* the content of a file whose writing was interrupted
    Absent,      \* the content of a path with no file
    Workspaces,  \* what a workspace may hold at the start
    Reviews,     \* the patches a model may send: sequences of sections
    NoReview,    \* no patch is pending
    MaxTasks,    \* bound: tasks the user starts
    MaxEdits     \* bound: edits by the user or another program

Contents == Texts \cup {Cut, Absent}

\* A section of a diff changes, creates, deletes or renames a file.
Sections ==
    {s \in [old : Files \cup {NoFile}, new : Files \cup {NoFile}] :
         s.old # NoFile \/ s.new # NoFile}

ASSUME SectionsAssumption == NoFile \notin Files /\ Reviews \subseteq Seq(Sections)

ASSUME WorkspacesAssumption == Workspaces \subseteq [Files -> Texts \cup {Absent}]

ASSUME BoundsAssumption == MaxTasks \in Nat /\ MaxEdits \in Nat

VARIABLES
    files,             \* the workspace
    snapshots,         \* the files of the rollback store, by number
    latest,            \* the one latest_snapshot.json names, 0 when it names none
    review,            \* the pending patch of the workspace state
    queue,             \* the chain of tasks that wait
    patchTaskRunning,  \* the flag of the queue
    task,              \* the task that runs
    pc,                \* where it is
    rest,              \* the sections it has still to read or to apply, by number
    entries,           \* what it has read for its snapshot
    left,              \* what it has still to restore
    rollback,          \* what Rollback Last has still to restore, and from which snapshot
    accepted,          \* how many tasks were accepted
    edits,             \* how many edits there were
    touched,           \* history: files changed by the last attempt to apply
    before,            \* history: what each file held when that attempt read it
    foreign,           \* history: files someone else wrote since, or two at once
    reverted           \* history: the changes of that attempt have been undone

store   == <<snapshots, latest>>
tasks   == <<queue, patchTaskRunning, task, accepted>>
work    == <<pc, rest, entries, left>>
history == <<touched, before, foreign, reverted>>
vars    == <<files, store, review, tasks, work, rollback, edits, history>>

Nothing == [f \in {} |-> Absent]

NoTask == [n |-> 0, kind |-> "none", diff |-> <<>>, selected |-> {}]

NoRollback == [n |-> 0, left |-> Nothing]

\* A review may be pending from an earlier session.
Init ==
    /\ files \in Workspaces
    /\ snapshots = [n \in 1 .. MaxTasks |-> Nothing] /\ latest = 0
    /\ review \in Reviews \cup {NoReview}
    /\ queue = <<>> /\ patchTaskRunning = FALSE /\ task = NoTask /\ accepted = 0
    /\ pc = "idle" /\ rest = {} /\ entries = Nothing /\ left = Nothing
    /\ rollback = NoRollback /\ edits = 0
    /\ touched = {} /\ before = files /\ foreign = {} /\ reverted = FALSE

-----------------------------------------------------------------------------
(* The queue *)

IsPatchTask(kind) == kind \in {"generate", "apply"}

\* WorkspaceTaskQueue.run: a patch task is refused while another one runs,
\* not while another one waits.
Enqueue(kind, diff, selected) ==
    /\ accepted < MaxTasks
    /\ IsPatchTask(kind) => ~patchTaskRunning
    /\ accepted' = accepted + 1
    /\ queue' = Append(queue, [n |-> accepted + 1, kind |-> kind, diff |-> diff,
                                selected |-> selected])
    /\ UNCHANGED <<files, store, review, patchTaskRunning, task, work, rollback, edits, history>>

RunTask == \E kind \in {"generate", "explain"} : Enqueue(kind, <<>>, {})

DisplayPath(s) == IF s.new # NoFile THEN s.new ELSE s.old

\* The review is the one pending at the click, whichever it is when the task starts.
ApplyPatch ==
    /\ review # NoReview
    /\ \E accept \in SUBSET {DisplayPath(review[i]) : i \in DOMAIN review} \ {{}} :
           Enqueue("apply", review, {i \in DOMAIN review : DisplayPath(review[i]) \in accept})

StartTask ==
    /\ task = NoTask /\ queue # <<>>
    /\ task' = Head(queue)
    /\ queue' = Tail(queue)
    /\ patchTaskRunning' = IsPatchTask(task'.kind)
    /\ pc' = IF task'.kind = "apply" THEN "collect" ELSE "generate"
    /\ rest' = task'.selected
    /\ UNCHANGED <<files, store, review, accepted, entries, left, rollback, edits, history>>

\* Mutant of FlagAfter: a task that throws leaves the flag set.
FlagAfterSuccess(failed) == failed /\ patchTaskRunning

\* finally: the flag is cleared however the task ends.
FlagAfter(failed) == FALSE

\* The task ends; the next one follows, whether it failed or not.
Settle(failed) ==
    /\ task' = NoTask
    /\ patchTaskRunning' = FlagAfter(failed)
    /\ pc' = "idle" /\ rest' = {} /\ entries' = Nothing /\ left' = Nothing
    /\ UNCHANGED <<queue, accepted>>

\* The model answers, or a timeout or an error ends the task.  A patch
\* becomes the pending review, in place of the one that is.
GenerateEnds ==
    /\ pc = "generate"
    /\ \/ task.kind = "generate" /\ review' \in Reviews /\ Settle(FALSE)
       \/ UNCHANGED review /\ \E failed \in BOOLEAN : Settle(failed)
    /\ UNCHANGED <<files, store, rollback, edits, history>>

-----------------------------------------------------------------------------
(* Applying: the snapshot *)

Source(s) == IF s.old # NoFile THEN s.old ELSE s.new
Target(s) == IF s.new # NoFile THEN s.new ELSE s.old

\* Sections are taken in the order of the diff.
IsNext(i) == i \in rest /\ \A j \in rest : i <= j

Advance(to) == pc' = to /\ UNCHANGED tasks

\* Mutant of SnapshotPaths: saves the file to be written, not the one a
\* rename removes.
SnapshotPathsTarget(s) == {Target(s)}

SnapshotPaths(s) == {Source(s), Target(s)}

\* addEntry: a path read before is not read again.
WithEntries(paths) == [f \in DOMAIN entries \cup paths |->
                           IF f \in DOMAIN entries THEN entries[f] ELSE files[f]]

Collect ==
    /\ pc = "collect"
    /\ \E i \in rest :
           /\ IsNext(i)
           /\ entries' = WithEntries(SnapshotPaths(task.diff[i]))
           /\ rest' = rest \ {i}
    /\ Advance("collect")
    /\ UNCHANGED <<files, store, review, left, rollback, edits, history>>

Collected ==
    /\ pc = "collect" /\ rest = {}
    /\ rest' = task.selected
    /\ Advance("save")
    /\ UNCHANGED <<files, store, review, entries, left, rollback, edits, history>>

\* The snapshot gets a name of its own, so a file half written is never read.
SaveSnapshot ==
    /\ pc = "save"
    /\ snapshots' = [snapshots EXCEPT ![task.n] = entries]
    /\ Advance("latest")
    /\ UNCHANGED <<files, latest, review, rest, entries, left, rollback, edits, history>>

\* From here on Rollback Last is about this attempt.
Forget == touched' = {} /\ foreign' = {} /\ reverted' = FALSE

SaveLatest ==
    /\ pc = "latest"
    /\ latest' = task.n
    /\ Forget
    /\ before' = [f \in Files |-> IF f \in DOMAIN entries THEN entries[f] ELSE files[f]]
    /\ Advance("apply")
    /\ UNCHANGED <<files, snapshots, review, rest, entries, left, rollback, edits>>

\* A read or a write of the snapshot fails: the task ends before it has
\* changed a file.
SnapshotFails ==
    /\ pc \in {"collect", "save", "latest"}
    /\ Settle(TRUE)
    /\ UNCHANGED <<files, store, review, rollback, edits, history>>

\* latest_snapshot.json is written in place: it may end up with no name.
LatestFails ==
    /\ pc = "latest"
    /\ latest' = 0
    /\ Forget
    /\ Settle(TRUE)
    /\ UNCHANGED <<files, snapshots, review, rollback, edits, before>>

-----------------------------------------------------------------------------
(* Applying: the files *)

\* The task changes a file.
Change(f, content) ==
    /\ files' = [files EXCEPT ![f] = content]
    /\ touched' = touched \cup {f}
    /\ foreign' = IF rollback.n # 0 THEN foreign \cup {f} ELSE foreign
    /\ reverted' = FALSE
    /\ UNCHANGED before

DeleteTarget ==
    /\ pc = "apply"
    /\ \E i \in rest :
           /\ IsNext(i) /\ task.diff[i].new = NoFile
           /\ Change(Target(task.diff[i]), Absent)
           /\ rest' = rest \ {i}
    /\ Advance("apply")
    /\ UNCHANGED <<store, review, entries, left, rollback, edits>>

\* A rename has then its old file to remove.
WriteTarget ==
    /\ pc = "apply"
    /\ \E i \in rest, text \in Texts :
           /\ IsNext(i) /\ task.diff[i].new # NoFile
           /\ Change(Target(task.diff[i]), text)
           /\ IF Source(task.diff[i]) = Target(task.diff[i])
              THEN Advance("apply") /\ rest' = rest \ {i}
              ELSE Advance("remove") /\ UNCHANGED rest
    /\ UNCHANGED <<store, review, entries, left, rollback, edits>>

RemoveSource ==
    /\ pc = "remove"
    /\ \E i \in rest :
           /\ IsNext(i)
           /\ Change(Source(task.diff[i]), Absent)
           /\ rest' = rest \ {i}
    /\ Advance("apply")
    /\ UNCHANGED <<store, review, entries, left, rollback, edits>>

\* A hunk does not fit, or a file cannot be read or removed.
ApplyFails ==
    /\ pc \in {"apply", "remove"} /\ rest # {}
    /\ left' = snapshots[task.n]
    /\ Advance("restore")
    /\ UNCHANGED <<files, store, review, rest, entries, rollback, edits, history>>

\* A write that stops after the file was truncated.
CutTarget ==
    /\ pc = "apply"
    /\ \E i \in rest :
           /\ IsNext(i) /\ task.diff[i].new # NoFile
           /\ Change(Target(task.diff[i]), Cut)

WriteFails ==
    /\ CutTarget
    /\ left' = snapshots[task.n]
    /\ Advance("restore")
    /\ UNCHANGED <<store, review, rest, entries, rollback, edits>>

Applied ==
    /\ pc = "apply" /\ rest = {}
    /\ Advance("validate")
    /\ UNCHANGED <<files, store, review, rest, entries, left, rollback, edits, history>>

\* The validation command ends, whatever it says, and the pending review,
\* whichever it is by now, is dropped.  It may never end: its timeout kills the
\* shell alone, and the promise waits for every process that holds the pipes.
\* An exception on the way is reported as a failure, before or after the review
\* was dropped.
Validated ==
    /\ pc = "validate"
    /\ \/ review' = NoReview /\ \E failed \in BOOLEAN : Settle(failed)
       \/ UNCHANGED review /\ Settle(TRUE)
    /\ UNCHANGED <<files, store, rollback, edits, history>>

-----------------------------------------------------------------------------
(* Restoring, after a failure and by Rollback Last *)

\* Mutant of Restored: a file that did not exist stays.
RestoredExisting(f, content) ==
    IF content = Absent THEN files ELSE [files EXCEPT ![f] = content]

Restored(f, content) == [files EXCEPT ![f] = content]

\* A removal or a write that fails; the write may have truncated the file.
HalfRestored(f, content) ==
    IF content = Absent THEN {files} ELSE {files, [files EXCEPT ![f] = Cut]}

Without(f, entrySet) == [g \in DOMAIN entrySet \ {f} |-> entrySet[g]]

\* The order of the files is left open.
RestoreFile ==
    /\ pc = "restore"
    /\ \E f \in DOMAIN left :
           /\ files' = Restored(f, left[f])
           /\ left' = Without(f, left)
           /\ foreign' = IF rollback.n # 0 THEN foreign \cup {f} ELSE foreign \ {f}
    /\ Advance("restore")
    /\ UNCHANGED <<store, review, rest, entries, rollback, edits, touched, before, reverted>>

RestoreDone ==
    /\ pc = "restore" /\ DOMAIN left = {}
    /\ reverted' = TRUE
    /\ Settle(TRUE)
    /\ UNCHANGED <<files, store, review, rollback, edits, touched, before, foreign>>

\* A file cannot be restored; it may be left cut.
RestoreFails ==
    /\ pc = "restore"
    /\ \E f \in DOMAIN left :
           /\ files' \in HalfRestored(f, left[f])
           /\ foreign' = IF rollback.n # 0 THEN foreign \cup {f} ELSE foreign
    /\ reverted' = FALSE
    /\ Settle(TRUE)
    /\ UNCHANGED <<store, review, rollback, edits, touched, before>>

RollbackLast ==
    /\ rollback = NoRollback /\ latest # 0
    /\ rollback' = [n |-> latest, left |-> snapshots[latest]]
    /\ UNCHANGED <<files, store, review, tasks, work, edits, history>>

\* Rollback Last writes a file while a task does, or from an older snapshot.
Interferes ==
    \/ pc \in {"apply", "remove", "restore"}
    \/ rollback.n # latest

RollbackFile ==
    /\ \E f \in DOMAIN rollback.left :
           /\ files' = Restored(f, rollback.left[f])
           /\ rollback' = [rollback EXCEPT !.left = Without(f, @)]
           /\ foreign' = IF Interferes THEN foreign \cup {f} ELSE foreign \ {f}
    /\ UNCHANGED <<store, review, tasks, work, edits, touched, before, reverted>>

RollbackDone ==
    /\ rollback.n # 0 /\ DOMAIN rollback.left = {}
    /\ rollback' = NoRollback
    /\ reverted' = (reverted \/ rollback.n = latest)
    /\ UNCHANGED <<files, store, review, tasks, work, edits, touched, before, foreign>>

RollbackFails ==
    /\ \E f \in DOMAIN rollback.left :
           /\ files' \in HalfRestored(f, rollback.left[f])
           /\ foreign' = IF Interferes THEN foreign \cup {f} ELSE foreign
    /\ rollback' = NoRollback
    /\ reverted' = FALSE
    /\ UNCHANGED <<store, review, tasks, work, edits, touched, before>>

-----------------------------------------------------------------------------
(* The world *)

Edit ==
    /\ edits < MaxEdits
    /\ edits' = edits + 1
    /\ \E f \in Files, content \in Texts \cup {Absent} :
           /\ files' = [files EXCEPT ![f] = content]
           /\ foreign' = foreign \cup {f}
    /\ UNCHANGED <<store, review, tasks, work, rollback, touched, before, reverted>>

\* The editor ends: files and the workspace state stay.
Down ==
    /\ queue' = <<>> /\ patchTaskRunning' = FALSE /\ task' = NoTask
    /\ pc' = "idle" /\ rest' = {} /\ entries' = Nothing /\ left' = Nothing
    /\ rollback' = NoRollback
    /\ UNCHANGED <<snapshots, review, accepted, edits>>

Busy == task # NoTask \/ queue # <<>> \/ rollback # NoRollback

Die == Busy /\ Down /\ UNCHANGED <<files, latest, history>>

\* It dies while it writes a file of the patch, latest_snapshot.json, or a file it restores.
DieWriting ==
    /\ CutTarget
    /\ Down /\ UNCHANGED latest

DieNaming ==
    /\ pc = "latest"
    /\ latest' = 0
    /\ Forget
    /\ Down /\ UNCHANGED <<files, before>>

DieRestoring ==
    /\ \E f \in {g \in DOMAIN left : left[g] # Absent}
              \cup {g \in DOMAIN rollback.left : rollback.left[g] # Absent} :
           files' = [files EXCEPT ![f] = Cut]
    /\ reverted' = FALSE
    /\ Down /\ UNCHANGED <<latest, touched, before, foreign>>

TaskStep ==
    \/ StartTask
    \/ Collect \/ Collected \/ SaveSnapshot \/ SaveLatest \/ SnapshotFails \/ LatestFails
    \/ DeleteTarget \/ WriteTarget \/ RemoveSource \/ ApplyFails \/ WriteFails
    \/ Applied
    \/ RestoreFile \/ RestoreDone \/ RestoreFails

Next ==
    \/ RunTask \/ ApplyPatch \/ TaskStep \/ GenerateEnds \/ Validated
    \/ RollbackLast \/ RollbackFile \/ RollbackDone \/ RollbackFails
    \/ Edit \/ Die \/ DieWriting \/ DieNaming \/ DieRestoring

\* File operations end; a model may never answer, a validation never close.
Spec == Init /\ [][Next]_vars /\ WF_vars(TaskStep)

-----------------------------------------------------------------------------
\* What a snapshot holds: some files, with the content they had.
Entries == UNION {[D -> Contents] : D \in SUBSET Files}

Numbers == 1 .. MaxTasks

Tasks ==
    [n : Numbers, kind : {"generate", "explain"}, diff : {<<>>}, selected : {{}}] \cup
    UNION {[n : Numbers, kind : {"apply"}, diff : {r}, selected : SUBSET DOMAIN r] : r \in Reviews}

(* Types of the state. *)
TypeOK ==
    /\ files \in [Files -> Contents]
    /\ snapshots \in [Numbers -> Entries]
    /\ latest \in 0 .. MaxTasks
    /\ review \in Reviews \cup {NoReview}
    /\ queue \in Seq(Tasks)
    /\ patchTaskRunning \in BOOLEAN
    /\ task \in Tasks \cup {NoTask}
    /\ pc \in {"idle", "generate", "collect", "save", "latest", "apply", "remove", "restore",
               "validate"}
    /\ rest \subseteq task.selected
    /\ entries \in Entries /\ left \in Entries
    /\ rollback \in [n : 0 .. MaxTasks, left : Entries]
    /\ accepted \in 0 .. MaxTasks /\ edits \in 0 .. MaxEdits
    /\ touched \subseteq Files /\ foreign \subseteq Files
    /\ before \in [Files -> Contents]
    /\ reverted \in BOOLEAN

(* What the last attempt to apply has changed can be undone: the snapshot    *)
(* latest_snapshot.json names has every file the attempt has written,      *)
(* removed or cut so far, with the content it had, also when the editor    *)
(* has died in the middle and while other tasks and rollbacks run.         *)
Recoverable ==
    \A f \in touched :
        /\ latest # 0
        /\ f \in DOMAIN snapshots[latest]
        /\ snapshots[latest][f] = before[f]

(* When a patch has failed and was taken back, or Rollback Last has ended, *)
(* every file the attempt changed is as before, unless someone else wrote  *)
(* it since, or a task and a rollback wrote it at the same time.           *)
RestoreReverts == reverted => \A f \in touched \ foreign : files[f] = before[f]

(* Unless a model never answers or a validation command never closes, the  *)
(* tasks that were accepted come to their turn and end, whichever fail     *)
(* before them, and leave the workspace open to patch tasks: the queue is  *)
(* empty again and again, there being a bound on the tasks.                *)
TasksSettle ==
    []<>(pc \notin {"generate", "validate"}) =>
        []<>(task = NoTask /\ queue = <<>> /\ ~patchTaskRunning)

=============================================================================

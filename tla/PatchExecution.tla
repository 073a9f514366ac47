--------------------------- MODULE PatchExecution ---------------------------
(***************************************************************************)
(* A model generates a patch and the execution kernel applies it:          *)
(* the providers are asked in turn, the tool calls of the answer run one   *)
(* by one, apply_patch goes through governance to the patch service with   *)
(* its three strategies, and what counts as failed is asked for again      *)
(* (src/src/runtime/cognitive/ExecutionKernel.cpp,                         *)
(* src/src/runtime/cognitive/tool_router/ToolRouter.cpp,                   *)
(* src/src/patch/UnifiedPatchService.cpp, src/src/patch/PatchManager.cpp,  *)
(* src/src/ai/orchestration/MultiModelOrchestrator.cpp).                   *)
(*                                                                         *)
(* Every step that another process could see between, or that a kill could *)
(* fall between, is an action: the copy to the backup, the truncation, the *)
(* write, the copy back and the removal of the backup.                     *)
(***************************************************************************)
EXTENDS PatchManager, ModelRouting

CONSTANTS
    Files,           \* paths below the project
    Absent,          \* the content of a path with no file
    Contents,        \* the contents a project may start with, [Files -> lines or Absent]
    Diffs,           \* the diffs a model may send
    Responses,       \* the sequences of tool calls a model may send
    Contexts,        \* the routing contexts a request may have
    MaxRetries       \* kApplyPatchMaxRetries

ASSUME BoundAssumption == MaxRetries \in Nat

\* A path without a file is told from every file.
ASSUME AbsentAssumption == Absent \notin Seq(Texts)

\* What a path may hold.
Content == {Absent} \cup Seq(Texts)

ASSUME ContentsAssumption == Contents \subseteq [Files -> Content]

\* Diffs are sequences of sections, each about a file of the project.
ASSUME DiffsAssumption == Diffs \subseteq Seq([file : Files, hunks : Seq(Hunk)])

\* The providers are lists of names, those available not empty ones.
ASSUME ContextsAssumption ==
    \A ctx \in Contexts : /\ ctx.role \in Seq(ToSet(ctx.role))
                          /\ ctx.available \in Seq(ToSet(ctx.available) \ {NoProvider})

VARIABLES
    files,       \* the project's files
    baks,        \* the .ultra.bak file of each
    locked,      \* files that cannot be opened for writing
    unbacked,    \* files whose copy to the backup fails
    repo,        \* the project is a git repository
    backups,     \* PatchManager::backups_
    diff,        \* the diff being applied
    section,     \* the section of it PatchManager is at
    strategy,    \* 1 PatchManager, 2 git apply, 3 exact line replace
    pending,     \* the file about to be written and its new lines
    modified,    \* filesModified > 0
    before,      \* history: the files when the tool was called
    short,       \* history: a write of this apply came up short
    unrestored,  \* history: files this apply failed to copy back
    pc,          \* where the kernel is
    available,   \* the providers of the request
    candidates,  \* those still to be asked
    asked,       \* those asked in vain
    calls,       \* tool calls of the answer still to run
    retryable,   \* retryableApplyPatchSequence
    retries,     \* applyPatchRetryCount
    failures,    \* toolFailureCounts_["apply_patch"]
    reply        \* what the tool said, as the kernel reads it

world   == <<locked, unbacked, repo>>
service == <<backups, diff, section, strategy, pending, modified, before, short,
             unrestored>>
asking  == <<available, candidates, asked>>
kernel  == <<calls, retryable, retries, failures, reply>>
vars    == <<files, baks, world, service, pc, asking, kernel>>

Nothing == [file |-> Absent, lines |-> Absent]

Init ==
    /\ files \in Contents
    /\ baks \in [Files -> {Absent, <<>>}]
    /\ locked \in SUBSET Files
    /\ unbacked \in SUBSET Files
    /\ \E f \in Files : {g \in Files : baks[g] # Absent} \cup locked \cup unbacked \subseteq {f}
    /\ repo \in BOOLEAN
    /\ backups = {} /\ diff = <<>> /\ section = 1 /\ strategy = 1
    /\ pending = Nothing /\ modified = FALSE /\ before = files /\ short = FALSE
    /\ unrestored = {}
    /\ pc = "generate"
    /\ available = <<>> /\ candidates = <<>> /\ asked = <<>>
    /\ calls = <<>> /\ retryable = FALSE /\ retries = 0
    /\ failures \in 0 .. 2
    /\ reply = [ok |-> TRUE]

-----------------------------------------------------------------------------
(* The providers *)

\* generate computes the candidates of the request.
Generate ==
    /\ pc = "generate"
    /\ \E ctx \in Contexts :
           /\ available' = ctx.available
           /\ candidates' = BuildCandidateProviders(ctx)
    /\ asked' = <<>>
    /\ pc' = "ask"
    /\ UNCHANGED <<files, baks, world, service, kernel>>

\* Mutant of FailureCode: takes the code of an error as it comes.
FailureCodeAsGiven(code) == code

\* An error without a code counts as an invalid response.
FailureCode(code) == IF code = "None" THEN "InvalidResponse" ELSE code

IsRetryableFailure(code) == code # "None"

\* The provider cannot be created, or answers with an error.
ProviderFails ==
    /\ pc = "ask" /\ candidates # <<>>
    /\ asked' = Append(asked, Head(candidates))
    /\ \E code \in {"ProviderUnavailable", "None"} :
           candidates' = IF IsRetryableFailure(FailureCode(code)) THEN Tail(candidates)
                         ELSE <<>>
    /\ UNCHANGED <<files, baks, world, service, pc, available, kernel>>

FallbackExhausted ==
    /\ pc = "ask" /\ candidates = <<>>
    /\ pc' = "done"
    /\ UNCHANGED <<files, baks, world, service, asking, kernel>>

AllToolCallsUseApplyPatch(cs) == \A i \in DOMAIN cs : cs[i] = "apply_patch"

\* An answer without a tool call ends the generation.
ProviderAnswers ==
    /\ pc = "ask" /\ candidates # <<>>
    /\ available' = <<>> /\ candidates' = <<>> /\ asked' = <<>>
    /\ \E cs \in Responses :
           /\ calls' = cs
           /\ retryable' = (cs # <<>> /\ AllToolCallsUseApplyPatch(cs))
           /\ pc' = IF cs = <<>> THEN "done" ELSE "calls"
    /\ UNCHANGED <<files, baks, world, service, retries, failures, reply>>

-----------------------------------------------------------------------------
(* The tool calls *)

ToolCallsExecuted ==
    /\ pc = "calls" /\ calls = <<>>
    /\ pc' = "done"
    /\ UNCHANGED <<files, baks, world, service, asking, kernel>>

\* Another tool: it is blocked, fails or succeeds; a call without a name fails.
OtherToolCall ==
    /\ pc = "calls" /\ calls # <<>> /\ Head(calls) # "apply_patch"
    /\ \/ Head(calls) # "" /\ calls' = Tail(calls) /\ pc' = pc
       \/ calls' = <<>> /\ pc' = "done"
    /\ UNCHANGED <<files, baks, world, service, asking, retryable, retries, failures, reply>>

Calling == pc = "calls" /\ calls # <<>> /\ Head(calls) = "apply_patch"

\* Governance refuses a tool that failed twice in a row, or any that changes
\* files while the machine is overloaded; arguments without a diff or with a
\* wrong project path are refused with the same reply.
BlockApplyPatch ==
    /\ Calling
    /\ reply' = [ok |-> FALSE]
    /\ before' = files
    /\ pc' = "reply"
    /\ UNCHANGED <<files, baks, world, backups, diff, section, strategy, pending, modified,
                   short, unrestored, asking, calls, retryable, retries, failures>>

Allowed == failures < 2

\* UnifiedPatchService::apply up to its first strategy.
BeginApply ==
    /\ Calling /\ Allowed
    /\ \E d \in Diffs :
           IF AlreadyApplied(files, Absent, d)
           THEN /\ reply' = [ok |-> TRUE] /\ pc' = "reply"
                /\ UNCHANGED diff
           ELSE /\ diff' = d /\ pc' = "section"
                /\ UNCHANGED reply
    /\ before' = files
    /\ UNCHANGED <<files, baks, world, backups, section, strategy, pending, modified, short,
                   unrestored, asking, calls, retryable, retries, failures>>

-----------------------------------------------------------------------------
(* Strategy 1: PatchManager::applyUnifiedDiff *)

LinesOf(f) == IF files[f] = Absent THEN <<>> ELSE files[f]

\* A section without hunks is left out; the others are patched in memory.
\* Whether the headers of a diff can be read is no part of Diffs: see
\* MalformedHeader.
PatchSection ==
    /\ pc = "section" /\ section <= Len(diff)
    /\ LET s == diff[section]
           new == Patched(LinesOf(s.file), s.hunks)
       IN  \/ /\ s.hunks = <<>>
              /\ section' = section + 1
              /\ UNCHANGED <<pending, pc>>
           \/ /\ s.hunks # <<>> /\ new = Mismatch
              /\ pc' = "rollback"
              /\ UNCHANGED <<pending, section>>
           \/ /\ s.hunks # <<>> /\ new # Mismatch
              /\ pending' = [file |-> s.file, lines |-> new]
              /\ pc' = "backup"
              /\ UNCHANGED section
    /\ UNCHANGED <<files, baks, world, backups, diff, strategy, modified, before, short,
                   unrestored, asking, kernel>>

\* A diff that changes no file is a failure.
EndOfDiff ==
    /\ pc = "section" /\ section > Len(diff)
    /\ pc' = IF modified THEN "clear" ELSE "rollback"
    /\ UNCHANGED <<files, baks, world, service, asking, kernel>>

-----------------------------------------------------------------------------
(* Writing a file, for strategies 1 and 3 *)

\* Mutant of NeedsBackup: does not look whether the file has a backup.
NeedsBackupAgain(f) == files[f] # Absent /\ f \notin unbacked

NeedsBackup(f) == f \notin backups /\ files[f] # Absent /\ f \notin unbacked

\* backupFile goes on when the copy fails.
Backup ==
    /\ pc = "backup"
    /\ LET f == pending.file
       IN  IF NeedsBackup(f)
           THEN /\ baks' = [baks EXCEPT ![f] = files[f]]
                /\ backups' = backups \cup {f}
           ELSE UNCHANGED <<baks, backups>>
    /\ pc' = IF pending.lines = Mismatch THEN "rollback" ELSE "open"
    /\ UNCHANGED <<files, world, diff, section, strategy, pending, modified, before, short,
                   unrestored, asking, kernel>>

\* Opening the file truncates it.
Open ==
    /\ pc = "open"
    /\ IF pending.file \in locked
       THEN pc' = "rollback" /\ UNCHANGED files
       ELSE pc' = "write" /\ files' = [files EXCEPT ![pending.file] = <<>>]
    /\ UNCHANGED <<baks, world, service, asking, kernel>>

\* Nobody looks at the state of the stream: a short write goes unnoticed.
Write ==
    /\ pc = "write"
    /\ \/ files' = [files EXCEPT ![pending.file] = pending.lines] /\ UNCHANGED short
       \/ short' = TRUE /\ UNCHANGED files
    /\ pending' = Nothing
    /\ modified' = TRUE
    /\ IF strategy = 1 THEN section' = section + 1 /\ pc' = "section"
                       ELSE pc' = "clear" /\ UNCHANGED section
    /\ UNCHANGED <<baks, world, backups, diff, strategy, before, unrestored, asking, kernel>>

\* clearBackups after a strategy that succeeded.
ClearBackup ==
    /\ pc = "clear" /\ backups # {}
    /\ \E f \in backups :
           /\ baks' = [baks EXCEPT ![f] = Absent]
           /\ backups' = backups \ {f}
    /\ UNCHANGED <<files, world, diff, section, strategy, pending, modified, before, short, pc,
                   unrestored, asking, kernel>>

Applied ==
    /\ pc = "clear" /\ backups = {}
    /\ reply' = [ok |-> TRUE]
    /\ pc' = "reply"
    /\ UNCHANGED <<files, baks, world, service, asking, calls, retryable, retries, failures>>

\* rollback copies each backup over its file, then removes it, whether or not
\* the copy succeeded: one that fails leaves the file as it is, or empty.
RestoreFile ==
    /\ pc = "rollback" /\ backups # {}
    /\ \E f \in backups : \E left \in {baks[f], files[f], <<>>} :
           /\ files' = [files EXCEPT ![f] = left]
           /\ unrestored' = IF left = baks[f] THEN unrestored ELSE unrestored \cup {f}
           /\ pending' = [file |-> f, lines |-> Absent]
    /\ pc' = "unlink"
    /\ UNCHANGED <<baks, world, backups, diff, section, strategy, modified, before, short,
                   asking, kernel>>

RemoveBackup ==
    /\ pc = "unlink"
    /\ baks' = [baks EXCEPT ![pending.file] = Absent]
    /\ backups' = backups \ {pending.file}
    /\ pending' = Nothing
    /\ pc' = "rollback"
    /\ UNCHANGED <<files, world, diff, section, strategy, modified, before, short,
                   unrestored, asking, kernel>>

\* PatchManager gave up: git is next; the exact replacement gave up: the tool fails.
NextStrategy ==
    /\ pc = "rollback" /\ backups = {}
    /\ IF strategy = 1 THEN strategy' = 2 /\ pc' = "git" /\ UNCHANGED reply
       ELSE reply' = [ok |-> FALSE] /\ pc' = "reply" /\ UNCHANGED strategy
    /\ UNCHANGED <<files, baks, world, backups, diff, section, pending, modified, before, short,
                   unrestored, asking, calls, retryable, retries, failures>>

-----------------------------------------------------------------------------
(* Strategies 2 and 3 *)

\* What git apply may make of the files: all of the diff, or an error.
GitOutcomes ==
    LET Results(f) == IF \E i \in DOMAIN diff : diff[i].file = f /\ diff[i].hunks # <<>>
                      THEN PatchedBy(LinesOf(f), diff, f) ELSE {files[f]}
    IN  {new \in [Files -> UNION {Results(f) : f \in Files}] :
            \A f \in Files : new[f] \in Results(f)}

GitApply ==
    /\ pc = "git" /\ repo
    /\ files' \in GitOutcomes
    /\ reply' = [ok |-> TRUE]
    /\ pc' = "reply"
    /\ UNCHANGED <<baks, world, service, asking, calls, retryable, retries, failures>>

\* No repository, or git refuses the diff.
GitFails ==
    /\ pc = "git"
    /\ strategy' = 3 /\ pc' = "exact"
    /\ UNCHANGED <<files, baks, world, backups, diff, section, pending, modified, before, short,
                   unrestored, asking, kernel>>

\* The one hunk of a diff is put into the file that is named last.
ExactLineReplace ==
    /\ pc = "exact"
    /\ LET f == Last(diff).file
           h == HunkAt(diff, CHOOSE place \in HunkPlaces(diff) : TRUE)
       IN  IF /\ Cardinality(HunkPlaces(diff)) = 1
              /\ h.start > 0 /\ files[f] # Absent
           THEN /\ pending' = [file |-> f, lines |-> Replaced(files[f], h)]
                /\ pc' = "backup"
           ELSE pc' = "rollback" /\ UNCHANGED pending
    /\ UNCHANGED <<files, baks, world, backups, diff, section, strategy, modified, before, short,
                   unrestored, asking, kernel>>

-----------------------------------------------------------------------------
(* A hunk header without a number *)

\* std::stoi throws: PatchManager reads a header when it comes to the hunk, with
\* earlier sections written, the exact replacement before it starts.
MalformedHeader ==
    /\ \/ pc = "section" /\ section <= Len(diff) /\ diff[section].hunks # <<>>
       \/ pc = "exact" /\ HunkPlaces(diff) # {}
    /\ pc' = "thrown"
    /\ UNCHANGED <<files, baks, world, service, asking, kernel>>

\* Nothing below ExecutionKernel::execute catches it: the action has failed, and
\* the service is gone without a rollback, its backups left where they are.
Caught ==
    /\ pc = "thrown"
    /\ reply' = [ok |-> FALSE] /\ calls' = <<>>
    /\ backups' = {}
    /\ pc' = "done"
    /\ UNCHANGED <<files, baks, world, diff, section, strategy, pending, modified, before,
                   short, unrestored, asking, retryable, retries, failures>>

-----------------------------------------------------------------------------
(* What the kernel makes of the reply *)

Says(field) == field \in DOMAIN reply /\ reply[field]

\* applyPatchFailureDetected: the kernel fills "applied" in from "ok", but
\* nothing the tool router says verifies a file.
ApplyPatchFailureDetected == ~Says("ok") \/ ~Says("file_verified")

UpdateToolFailureHistory == failures' = IF Says("ok") THEN 0 ELSE failures + 1

\* Mutant of MayRetry: off by one.
MayRetryOnceMore == retryable /\ retries <= MaxRetries

MayRetry == retryable /\ retries < MaxRetries

\* The service is created anew by the next call.
Forget ==
    /\ diff' = <<>> /\ section' = 1 /\ strategy' = 1
    /\ modified' = FALSE /\ before' = files /\ short' = FALSE
    /\ unrestored' = {}
    /\ UNCHANGED <<files, baks, world, backups, pending>>

\* Mutant of ReadReply: a retry is not counted, nor the failure that led to it.
ReadReplyUncounted ==
    /\ pc = "reply"
    /\ IF ApplyPatchFailureDetected
       THEN calls' = <<>> /\ pc' = IF MayRetry THEN "generate" ELSE "done"
       ELSE calls' = Tail(calls) /\ pc' = "calls"
    /\ Forget
    /\ UNCHANGED <<asking, retryable, retries, failures, reply>>

ReadReply ==
    /\ pc = "reply"
    /\ UpdateToolFailureHistory
    /\ IF ApplyPatchFailureDetected
       THEN /\ calls' = <<>>
            /\ IF MayRetry THEN pc' = "generate" /\ retries' = retries + 1
               ELSE pc' = "done" /\ UNCHANGED retries
       ELSE calls' = Tail(calls) /\ pc' = "calls" /\ UNCHANGED retries
    /\ Forget
    /\ UNCHANGED <<asking, retryable, reply>>

\* The action is over; the behaviour may stay here for ever.
Finished == pc = "done" /\ UNCHANGED vars

Next ==
    \/ Generate \/ ProviderFails \/ FallbackExhausted \/ ProviderAnswers
    \/ ToolCallsExecuted \/ OtherToolCall \/ BlockApplyPatch \/ BeginApply
    \/ PatchSection \/ EndOfDiff \/ Backup \/ Open \/ Write \/ ClearBackup \/ Applied
    \/ RestoreFile \/ RemoveBackup \/ NextStrategy
    \/ GitApply \/ GitFails \/ ExactLineReplace
    \/ MalformedHeader \/ Caught
    \/ ReadReply \/ Finished

\* One thread runs the kernel, and a request to a provider and the git command
\* come back: no step is put off for ever. This is WF_vars(Next): a step that
\* changes something is possible exactly while pc # "done" (no state before is
\* a deadlock), which spares TLC the evaluation of ENABLED.
Progress == []<>(pc = "done") \/ []<><<Next>>_vars

Spec == Init /\ [][Next]_vars /\ Progress

-----------------------------------------------------------------------------
(* Properties *)

\* The variables stay within the program's types: whatever a strategy writes
\* or copies back is lines, and a request is retried at most MaxRetries times.
TypeOK ==
    /\ files \in [Files -> Content] /\ baks \in [Files -> Content]
    /\ before \in [Files -> Content]
    /\ backups \subseteq Files /\ unrestored \subseteq Files
    /\ section \in 1 .. Len(diff) + 1
    /\ strategy \in 1 .. 3
    /\ retries \in 0 .. MaxRetries
    /\ failures \in Nat
    /\ pc \in {"generate", "ask", "calls", "section", "backup", "open", "write", "clear",
               "rollback", "unlink", "git", "exact", "thrown", "reply", "done"}

\* No file that was there is lost: at every moment of an apply that has not
\* succeeded, and when a header it cannot read ends it half way, its lines are
\* in the file or in the backup, and when the apply is reported as failed they
\* are in the file; except where the copy to the backup or back from it failed,
\* which the code does not notice.  (PatchManager::backupFile and rollback.)
Trying == pc \in {"section", "backup", "open", "write", "rollback", "unlink", "git", "exact",
                  "thrown"}

OriginalsKept ==
    \A f \in Files \ (unbacked \cup unrestored) : before[f] # Absent =>
        /\ Trying => before[f] \in {files[f], baks[f]}
        /\ pc = "reply" /\ ~Says("ok") => files[f] = before[f]

\* What PatchManager reports as applied is a reading of the diff: every hunk
\* stands where its old side stood, in the order of the diff, and nothing else
\* of the project has changed, unless the disk took less than was written.
SuccessIsExact ==
    pc = "clear" /\ strategy = 1 /\ ~short =>
        \A f \in Files :
            IF \E i \in DOMAIN diff : diff[i].file = f /\ diff[i].hunks # <<>>
            THEN files[f] \in PatchedBy(IF before[f] = Absent THEN <<>> ELSE before[f], diff, f)
            ELSE files[f] = before[f]

\* A request is given up only after each available provider was asked, once.
EveryProviderAsked ==
    pc = "ask" /\ candidates = <<>> =>
        ToSet(asked) = ToSet(available) /\ IsInjective(asked)

\* The kernel comes to an end of the action: the retries of apply_patch and the
\* cascade of strategies stop.
KernelAnswers == <>(pc = "done")

\* "Previous apply_patch attempt ... failed": a patch is asked for again only
\* when the one before was not applied.
RetryMeansFailure == [][retries' > retries => ~Says("ok")]_vars
=============================================================================

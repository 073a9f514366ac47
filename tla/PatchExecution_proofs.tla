------------------------ MODULE PatchExecution_proofs ------------------------
(***************************************************************************)
(* The types and the bound on the retries (TypeOK), that no file is lost   *)
(* while a patch is tried (OriginalsKept), that what is reported as applied *)
(* is what the diff says (SuccessIsExact), and that a request is given up  *)
(* only after every provider was asked (EveryProviderAsked), for every set *)
(* of files, every diff, every number of retries and every routing.        *)
(*                                                                         *)
(* OriginalsKept is not inductive: that a file may be truncated depends on *)
(* its backup being in the set of backups, and that the set may be trusted *)
(* depends on its being empty when a call begins.  The invariant SafeCopies*)
(* says both.                                                              *)
(*                                                                         *)
(* SuccessIsExact compares PatchManager, which goes through a file once    *)
(* from the front, with the reference, which puts the hunks in from the    *)
(* back (PatchedIsRead); the invariant ReadSoFar says it of the sections   *)
(* that are behind.  That every provider is asked is a fact about the      *)
(* candidates (CandidatesAre): they are the available ones, each once.     *)
(***************************************************************************)
EXTENDS PatchExecution, FiniteSetTheorems, SequenceTheorems, WellFoundedInduction, TLAPS

\* The files that were there, could be copied and were not lost on the way back.
Covered == {f \in Files \ (unbacked \cup unrestored) : before[f] # Absent}

\* Every path has a file and a backup, there or not.
Domains == DOMAIN files = Files /\ DOMAIN baks = Files

\* Between two calls, and while git or the exact replacement is about to be
\* tried, nothing is backed up.
NoneBackedUp ==
    pc \in {"generate", "ask", "calls", "reply", "done", "git", "exact"} => backups = {}

\* A file without a backup is as it was, and a backup is what the file was.
BackupsTrue ==
    Trying => \A f \in Covered : IF f \in backups THEN baks[f] = before[f]
                                 ELSE files[f] = before[f]

\* The file about to be truncated or written has its backup; the one whose
\* backup is about to be removed is as it was.
OneAtATime ==
    /\ pc \in {"open", "write"} => (pending.file \in Covered => pending.file \in backups)
    /\ pc = "unlink" => (pending.file \in Covered => files[pending.file] = before[pending.file])

FailureRestored ==
    pc = "reply" /\ ~Says("ok") => \A f \in Covered : files[f] = before[f]

SafeCopies == Domains /\ NoneBackedUp /\ BackupsTrue /\ OneAtATime /\ FailureRestored

-----------------------------------------------------------------------------
\* The initial states: no call has begun.
LEMMA InitSafe == Init => SafeCopies
BY ContentsAssumption
   DEF Init, SafeCopies, Domains, NoneBackedUp, BackupsTrue, OneAtATime, FailureRestored, Trying

\* The steps that touch neither a file nor a backup and begin no phase of an
\* apply: the providers, the other tools, the end of the action.
LEMMA AskingSafe ==
    SafeCopies /\ (Generate \/ ProviderFails \/ FallbackExhausted \/ ProviderAnswers
                   \/ ToolCallsExecuted \/ OtherToolCall) => SafeCopies'
<1> SUFFICES ASSUME SafeCopies,
                    Generate \/ ProviderFails \/ FallbackExhausted \/ ProviderAnswers
                        \/ ToolCallsExecuted \/ OtherToolCall
             PROVE  SafeCopies'
    OBVIOUS
<1>1. /\ pc \in {"generate", "ask", "calls"}
      /\ pc' \in {"generate", "ask", "calls", "done"}
      /\ UNCHANGED <<files, baks, backups>>
    BY DEF Generate, ProviderFails, FallbackExhausted, ProviderAnswers, ToolCallsExecuted,
           OtherToolCall, service
<1> QED
    BY <1>1 DEF SafeCopies, Domains, NoneBackedUp, BackupsTrue, OneAtATime, FailureRestored, Trying

\* A call that is refused changes nothing, and one that begins has no backups.
LEMMA CallSafe == SafeCopies /\ (BlockApplyPatch \/ BeginApply) => SafeCopies'
<1> SUFFICES ASSUME SafeCopies, BlockApplyPatch \/ BeginApply PROVE SafeCopies'
    OBVIOUS
<1>1. /\ pc = "calls" /\ pc' \in {"reply", "section"}
      /\ before' = files
      /\ UNCHANGED <<files, baks, backups, unbacked, unrestored>>
    BY DEF BlockApplyPatch, BeginApply, Calling, world
<1>2. backups = {}
    BY <1>1 DEF SafeCopies, NoneBackedUp
<1> QED
    BY <1>1, <1>2
       DEF SafeCopies, Domains, NoneBackedUp, BackupsTrue, OneAtATime, FailureRestored, Trying, Covered

\* The steps of strategy 1 and 3 that only decide what comes next.
LEMMA DecideSafe ==
    SafeCopies /\ (PatchSection \/ EndOfDiff \/ GitFails \/ ExactLineReplace \/ MalformedHeader)
        => SafeCopies'
<1> SUFFICES ASSUME SafeCopies,
                    PatchSection \/ EndOfDiff \/ GitFails \/ ExactLineReplace \/ MalformedHeader
             PROVE  SafeCopies'
    OBVIOUS
<1>1. /\ Trying /\ pc' \in {"section", "rollback", "backup", "clear", "exact", "thrown"}
      /\ pc' = "exact" => pc = "git"
      /\ UNCHANGED <<files, baks, backups, before, unbacked, unrestored>>
    BY DEF PatchSection, EndOfDiff, GitFails, ExactLineReplace, MalformedHeader, Trying,
           service, world
<1> QED
    BY <1>1
       DEF SafeCopies, Domains, NoneBackedUp, BackupsTrue, OneAtATime, FailureRestored, Trying, Covered

\* After backupFile the pending file may be opened: it has its backup, or was
\* not there, or cannot be copied.
LEMMA BackupSafe == SafeCopies /\ Backup => SafeCopies'
<1> SUFFICES ASSUME SafeCopies, Backup PROVE SafeCopies'
    OBVIOUS
<1> DEFINE g == pending.file
<1>1. /\ pc = "backup" /\ pc' \in {"open", "rollback"}
      /\ UNCHANGED <<files, pending, before, unbacked, unrestored>>
    BY DEF Backup, world
<1>2. \A f \in Covered : f \notin backups => files[f] = before[f]
    BY <1>1 DEF SafeCopies, BackupsTrue, Trying
<1>3. \A f \in Covered : f \in backups => baks[f] = before[f]
    BY <1>1 DEF SafeCopies, BackupsTrue, Trying
<1>4. /\ DOMAIN baks' = Files
      /\ \A f \in Covered : IF f \in backups' THEN baks'[f] = before[f] ELSE files[f] = before[f]
      /\ g \in Covered => g \in backups'
  <2>1. CASE NeedsBackup(g)
    <3>1. baks' = [baks EXCEPT ![g] = files[g]] /\ backups' = backups \cup {g} /\ g \notin backups
        BY <2>1 DEF Backup, NeedsBackup
    <3> QED
        BY <3>1, <1>2, <1>3 DEF SafeCopies, Domains, Covered
  <2>2. CASE ~NeedsBackup(g)
    <3>1. UNCHANGED <<baks, backups>>
        BY <2>2 DEF Backup
    <3>2. g \in Covered => g \in backups
        BY <2>2, <1>2 DEF NeedsBackup, Covered
    <3> QED
        BY <3>1, <3>2, <1>2, <1>3 DEF SafeCopies, Domains
  <2> QED
      BY <2>1, <2>2
<1> QED
    BY <1>1, <1>4
       DEF SafeCopies, Domains, NoneBackedUp, BackupsTrue, OneAtATime, FailureRestored, Trying, Covered

\* Truncating and writing change one file, whose backup is true.
LEMMA WriteSafe == SafeCopies /\ (Open \/ Write) => SafeCopies'
<1> SUFFICES ASSUME SafeCopies, Open \/ Write PROVE SafeCopies'
    OBVIOUS
<1> DEFINE g == pending.file
<1>1. /\ pc \in {"open", "write"} /\ pc' \in {"rollback", "write", "section", "clear"}
      /\ pc' = "write" => pending' = pending
      /\ UNCHANGED <<baks, backups, before, unbacked, unrestored>>
      /\ \E v : files' = [files EXCEPT ![g] = v] \/ files' = files
    BY DEF Open, Write, service, world
<1>2. /\ DOMAIN files' = Files
      /\ \A f \in Files : f # g => files'[f] = files[f]
    BY <1>1 DEF SafeCopies, Domains
<1>3. g \in Covered => g \in backups
    BY <1>1 DEF SafeCopies, OneAtATime
<1>4. \A f \in Covered : IF f \in backups THEN baks[f] = before[f] ELSE files[f] = before[f]
    BY <1>1 DEF SafeCopies, BackupsTrue, Trying
<1>5. \A f \in Covered : IF f \in backups THEN baks[f] = before[f] ELSE files'[f] = before[f]
    BY <1>2, <1>3, <1>4 DEF Covered
<1> QED
    BY <1>1, <1>2, <1>3, <1>5
       DEF SafeCopies, Domains, NoneBackedUp, BackupsTrue, OneAtATime, FailureRestored, Trying, Covered

\* A file is restored from a true backup, which goes only afterwards; where the
\* copy failed the file is covered no more.
LEMMA RollbackSafe == SafeCopies /\ (RestoreFile \/ RemoveBackup) => SafeCopies'
<1> SUFFICES ASSUME SafeCopies, RestoreFile \/ RemoveBackup PROVE SafeCopies'
    OBVIOUS
<1>1. CASE RestoreFile
  <2>1. PICK g \in backups, left \in UNION {{baks[f], files[f], <<>>} : f \in backups} :
            /\ files' = [files EXCEPT ![g] = left]
            /\ unrestored' = IF left = baks[g] THEN unrestored ELSE unrestored \cup {g}
            /\ pending' = [file |-> g, lines |-> Absent]
      BY <1>1 DEF RestoreFile
  <2>2. /\ pc = "rollback" /\ pc' = "unlink" /\ pending'.file = g
        /\ UNCHANGED <<baks, backups, before, unbacked>>
      BY <1>1, <2>1 DEF RestoreFile, world
  <2>3. \A f \in Covered : IF f \in backups THEN baks[f] = before[f] ELSE files[f] = before[f]
      BY <2>2 DEF SafeCopies, BackupsTrue, Trying
  <2>4. /\ DOMAIN files' = Files
        /\ \A f \in Files : files'[f] = IF f = g THEN left ELSE files[f]
      BY <2>1 DEF SafeCopies, Domains
  <2>5. Covered' \subseteq Covered
      BY <2>1, <2>2 DEF Covered
  <2>6. g \in Covered' => left = baks[g]
      BY <2>1 DEF Covered
  <2>7. \A f \in Covered' : IF f \in backups' THEN baks'[f] = before'[f] ELSE files'[f] = before'[f]
      BY <2>1, <2>2, <2>3, <2>4, <2>5 DEF Covered
  <2>8. pending'.file \in Covered' => files'[pending'.file] = before'[pending'.file]
      BY <2>1, <2>2, <2>3, <2>4, <2>5, <2>6 DEF Covered
  <2> QED
      BY <2>2, <2>4, <2>7, <2>8
         DEF SafeCopies, Domains, NoneBackedUp, BackupsTrue, OneAtATime, FailureRestored, Trying
<1>2. CASE RemoveBackup
  <2> DEFINE g == pending.file
  <2>1. /\ pc = "unlink" /\ pc' = "rollback"
        /\ baks' = [baks EXCEPT ![g] = Absent] /\ backups' = backups \ {g}
        /\ UNCHANGED <<files, before, unbacked, unrestored>>
      BY <1>2 DEF RemoveBackup, world
  <2>2. \A f \in Covered : IF f \in backups THEN baks[f] = before[f] ELSE files[f] = before[f]
      BY <2>1 DEF SafeCopies, BackupsTrue, Trying
  <2>3. g \in Covered => files[g] = before[g]
      BY <2>1 DEF SafeCopies, OneAtATime
  <2>4. /\ DOMAIN baks' = Files
        /\ \A f \in Files : f # g => baks'[f] = baks[f]
      BY <2>1 DEF SafeCopies, Domains
  <2> QED
      BY <2>1, <2>2, <2>3, <2>4
         DEF SafeCopies, Domains, NoneBackedUp, BackupsTrue, OneAtATime, FailureRestored, Trying, Covered
<1> QED
    BY <1>1, <1>2

\* When the strategies are exhausted nothing is backed up any more, so that
\* every file is as it was.
LEMMA StrategySafe == SafeCopies /\ NextStrategy => SafeCopies'
<1> SUFFICES ASSUME SafeCopies, NextStrategy PROVE SafeCopies'
    OBVIOUS
<1>1. /\ pc = "rollback" /\ pc' \in {"git", "reply"} /\ backups = {}
      /\ UNCHANGED <<files, baks, backups, before, unbacked, unrestored>>
    BY DEF NextStrategy, world
<1> QED
    BY <1>1
       DEF SafeCopies, Domains, NoneBackedUp, BackupsTrue, OneAtATime, FailureRestored, Trying, Covered

\* A success leaves no backup behind and promises nothing of the files.
LEMMA SuccessSafe == SafeCopies /\ (ClearBackup \/ Applied \/ GitApply) => SafeCopies'
<1> SUFFICES ASSUME SafeCopies, ClearBackup \/ Applied \/ GitApply PROVE SafeCopies'
    OBVIOUS
<1>1. CASE ClearBackup
  <2>1. pc = "clear" /\ pc' = "clear" /\ DOMAIN files' = Files /\ DOMAIN baks' = Files
      BY <1>1 DEF ClearBackup, SafeCopies, Domains
  <2> QED
      BY <2>1 DEF SafeCopies, Domains, NoneBackedUp, BackupsTrue, OneAtATime, FailureRestored, Trying
<1>2. CASE Applied \/ GitApply
  <2>1. /\ pc' = "reply" /\ reply' = [ok |-> TRUE]
        /\ backups' = {}
        /\ DOMAIN files' = Files /\ DOMAIN baks' = Files
      BY <1>2 DEF Applied, GitApply, GitOutcomes, service, SafeCopies, Domains, NoneBackedUp
  <2>2. Says("ok")'
      BY <2>1 DEF Says
  <2> QED
      BY <2>1, <2>2
         DEF SafeCopies, Domains, NoneBackedUp, BackupsTrue, OneAtATime, FailureRestored, Trying
<1> QED
    BY <1>1, <1>2

\* The kernel reads the reply between two calls; where an exception is caught
\* the service is gone, and its backups are files like others.
LEMMA ReplySafe == SafeCopies /\ (ReadReply \/ Caught) => SafeCopies'
<1> SUFFICES ASSUME SafeCopies, ReadReply \/ Caught PROVE SafeCopies'
    OBVIOUS
<1>1. /\ pc' \in {"generate", "done", "calls"}
      /\ backups' = {}
      /\ UNCHANGED <<files, baks>>
    BY DEF ReadReply, Forget, Caught, SafeCopies, NoneBackedUp
<1> QED
    BY <1>1 DEF SafeCopies, Domains, NoneBackedUp, BackupsTrue, OneAtATime, FailureRestored, Trying

\* A step in which nothing happens.
LEMMA StutterSafe == SafeCopies /\ UNCHANGED vars => SafeCopies'
BY DEF SafeCopies, Domains, NoneBackedUp, BackupsTrue, OneAtATime, FailureRestored, Trying,
       Covered, Says, vars, world, service, kernel

\* No step of the kernel or of the patch service disturbs the copies.
LEMMA NextSafe == SafeCopies /\ [Next]_vars => SafeCopies'
BY AskingSafe, CallSafe, DecideSafe, BackupSafe, WriteSafe, RollbackSafe, StrategySafe,
   SuccessSafe, ReplySafe, StutterSafe
   DEF Next, Finished

\* The copies of the files are safe in every reachable state.
THEOREM CopiesSafe == Spec => []SafeCopies
BY InitSafe, NextSafe, PTL DEF Spec

\* No file is lost: while an apply of a patch has not succeeded the lines of
\* every file that was there are in the file or in its backup, also when a hunk
\* header that cannot be read ends it, and an apply that is answered as failed
\* leaves them in the file; but for the files whose copy, to the backup or back,
\* failed (PatchManager::backupFile, rollback and UnifiedPatchService::apply).
THEOREM NoFileLost == Spec => []OriginalsKept
<1>1. SafeCopies => OriginalsKept
    BY DEF SafeCopies, BackupsTrue, FailureRestored, OriginalsKept, Covered
<1> QED
    BY <1>1, CopiesSafe, PTL

-----------------------------------------------------------------------------
(* The types.  That the section PatchManager is at is one of the diff, or   *)
(* just behind it, needs that a file is only written for a section that is *)
(* there and that a call begins at the first one; that the backups are of  *)
(* files of the project needs that the pending file is one.                *)

SectionThere ==
    /\ pc \in {"backup", "open", "write"} /\ strategy = 1 => section <= Len(diff)
    /\ pc = "section" => strategy = 1
    /\ pc = "exact" => strategy = 3
    /\ pc \in {"generate", "ask", "calls"} => section = 1 /\ strategy = 1

PendingThere == pc \in {"backup", "open", "write", "unlink"} => pending.file \in Files

Shapes ==
    /\ DOMAIN files = Files /\ DOMAIN baks = Files /\ DOMAIN before = Files
    /\ backups \subseteq Files /\ unrestored \subseteq Files
    /\ section \in 1 .. Len(diff) + 1
    /\ strategy \in 1 .. 3
    /\ retries \in 0 .. MaxRetries
    /\ failures \in Nat
    /\ pc \in {"generate", "ask", "calls", "section", "backup", "open", "write", "clear",
               "rollback", "unlink", "git", "exact", "thrown", "reply", "done"}

TypesInv == Shapes /\ diff \in Diffs \cup {<<>>} /\ SectionThere /\ PendingThere

\* What is known of a diff.
LEMMA DiffIs ==
    ASSUME NEW d \in Diffs \cup {<<>>}
    PROVE  /\ Len(d) \in Nat /\ DOMAIN d = 1 .. Len(d)
           /\ \A i \in DOMAIN d : d[i].file \in Files /\ d[i].hunks \in Seq(Hunk)
<1> DEFINE Section == [file : Files, hunks : Seq(Hunk)]
<1>0. Diffs \subseteq Seq(Section)
    BY DiffsAssumption
<1> HIDE DEF Section
<1>1. d \in Seq(Section)
    BY <1>0, EmptySeq
<1>2. Len(d) \in Nat /\ DOMAIN d = 1 .. Len(d)
    BY <1>1, LenProperties
<1>3. \A i \in DOMAIN d : d[i] \in Section
    BY <1>1, <1>2, ElementOfSeq
<1> QED
    BY <1>2, <1>3 DEF Section

LEMMA InitTyped == Init => TypesInv
<1> SUFFICES ASSUME Init PROVE TypesInv
    OBVIOUS
<1>1. Len(diff) = 0
    BY DEF Init
<1> QED
    BY <1>1, ContentsAssumption, BoundAssumption
       DEF Init, TypesInv, Shapes, SectionThere, PendingThere

\* The steps between the calls keep the first section and strategy.
LEMMA AskingTyped ==
    TypesInv /\ (Generate \/ ProviderFails \/ FallbackExhausted \/ ProviderAnswers
                 \/ ToolCallsExecuted \/ OtherToolCall) => TypesInv'
<1> SUFFICES ASSUME TypesInv,
                    Generate \/ ProviderFails \/ FallbackExhausted \/ ProviderAnswers
                        \/ ToolCallsExecuted \/ OtherToolCall
             PROVE  TypesInv'
    OBVIOUS
<1>1. /\ pc \in {"generate", "ask", "calls"}
      /\ pc' \in {"generate", "ask", "calls", "done"}
      /\ UNCHANGED <<files, baks, backups, before, unrestored, section, strategy, diff, retries,
                  failures>>
    BY DEF Generate, ProviderFails, FallbackExhausted, ProviderAnswers, ToolCallsExecuted,
           OtherToolCall, service, kernel
<1> QED
    BY <1>1 DEF TypesInv, Shapes, SectionThere, PendingThere

LEMMA CallTyped == TypesInv /\ (BlockApplyPatch \/ BeginApply) => TypesInv'
<1> SUFFICES ASSUME TypesInv, BlockApplyPatch \/ BeginApply PROVE TypesInv'
    OBVIOUS
<1>1. /\ pc = "calls" /\ pc' \in {"reply", "section"} /\ before' = files
      /\ diff' = diff \/ diff' \in Diffs
      /\ UNCHANGED <<files, baks, backups, unrestored, section, strategy, retries, failures>>
    BY DEF BlockApplyPatch, BeginApply, Calling
<1>2. section = 1 /\ strategy = 1
    BY <1>1 DEF TypesInv, SectionThere
<1>3. diff' \in Diffs \cup {<<>>} /\ section' \in 1 .. Len(diff') + 1
    BY <1>1, <1>2, DiffIs DEF TypesInv
<1> QED
    BY <1>1, <1>2, <1>3 DEF TypesInv, Shapes, SectionThere, PendingThere

\* Strategy 1 goes through the sections one by one.
LEMMA SectionTyped == TypesInv /\ (PatchSection \/ EndOfDiff) => TypesInv'
<1> SUFFICES ASSUME TypesInv, PatchSection \/ EndOfDiff PROVE TypesInv'
    OBVIOUS
<1>1. Len(diff) \in Nat /\ DOMAIN diff = 1 .. Len(diff)
      /\ \A i \in DOMAIN diff : diff[i].file \in Files
    BY DiffIs DEF TypesInv
<1>2. section \in 1 .. Len(diff) + 1 /\ pc = "section" /\ strategy = 1
      /\ UNCHANGED <<files, baks, backups, before, unrestored, strategy, diff, retries, failures>>
    BY DEF PatchSection, EndOfDiff, service, kernel, TypesInv, Shapes, SectionThere
<1>3. CASE PatchSection
  <2>1. section <= Len(diff) /\ section \in DOMAIN diff
      BY <1>1, <1>2, <1>3 DEF PatchSection
  <2>2. \/ section' = section + 1 /\ pc' = "section"
        \/ section' = section /\ pc' = "rollback"
        \/ section' = section /\ pc' = "backup" /\ pending'.file = diff[section].file
      BY <1>2, <1>3 DEF PatchSection
  <2> QED
      BY <1>1, <1>2, <2>1, <2>2 DEF TypesInv, Shapes, SectionThere, PendingThere
<1>4. CASE EndOfDiff
  <2>1. section' = section /\ pc' \in {"clear", "rollback"}
      BY <1>4 DEF EndOfDiff, service
  <2> QED
      BY <1>2, <2>1 DEF TypesInv, Shapes, SectionThere, PendingThere
<1> QED
    BY <1>3, <1>4

\* The pending file is backed up, opened and written.
LEMMA WriteTyped == TypesInv /\ (Backup \/ Open \/ Write) => TypesInv'
<1> SUFFICES ASSUME TypesInv, Backup \/ Open \/ Write PROVE TypesInv'
    OBVIOUS
<1>1. /\ pc \in {"backup", "open", "write"} /\ pending.file \in Files
      /\ UNCHANGED <<before, unrestored, strategy, diff, retries, failures>>
    BY DEF Backup, Open, Write, service, kernel, TypesInv, PendingThere
<1>2. Len(diff) \in Nat /\ section \in 1 .. Len(diff) + 1
      /\ (strategy = 1 => section <= Len(diff))
    BY <1>1, DiffIs DEF TypesInv, Shapes, SectionThere
<1>3. /\ DOMAIN files' = Files /\ DOMAIN baks' = Files /\ backups' \subseteq Files
    BY <1>1 DEF Backup, Open, Write, service, TypesInv, Shapes
<1>4. \/ pc' = "rollback" /\ section' = section
      \/ pc' \in {"open", "write"} /\ section' = section /\ pending' = pending
      \/ pc' = "section" /\ strategy = 1 /\ section' = section + 1
      \/ pc' = "clear" /\ section' = section
    BY DEF Backup, Open, Write, service
<1> QED
    BY <1>1, <1>2, <1>3, <1>4 DEF TypesInv, Shapes, SectionThere, PendingThere

\* Backups are removed, or copied back and removed.
LEMMA RollbackTyped ==
    TypesInv /\ (ClearBackup \/ Applied \/ RestoreFile \/ RemoveBackup) => TypesInv'
<1> SUFFICES ASSUME TypesInv, ClearBackup \/ Applied \/ RestoreFile \/ RemoveBackup
             PROVE  TypesInv'
    OBVIOUS
<1>1. /\ pc' \in {"clear", "reply", "unlink", "rollback"}
      /\ UNCHANGED <<before, section, strategy, diff, retries, failures>>
    BY DEF ClearBackup, Applied, RestoreFile, RemoveBackup, service, kernel
<1>2. /\ DOMAIN files' = Files /\ DOMAIN baks' = Files /\ backups' \subseteq Files
      /\ pc' = "unlink" => pending'.file \in Files
    BY DEF ClearBackup, Applied, RestoreFile, RemoveBackup, service, TypesInv, Shapes
<1>3. unrestored' \subseteq Files
    BY DEF ClearBackup, Applied, RestoreFile, RemoveBackup, service, TypesInv, Shapes
<1> QED
    BY <1>1, <1>2, <1>3 DEF TypesInv, Shapes, SectionThere, PendingThere

\* The strategies follow each other; the last is about one file that is named.
LEMMA StrategyTyped ==
    TypesInv /\ (NextStrategy \/ GitApply \/ GitFails \/ ExactLineReplace) => TypesInv'
<1> SUFFICES ASSUME TypesInv, NextStrategy \/ GitApply \/ GitFails \/ ExactLineReplace
             PROVE  TypesInv'
    OBVIOUS
<1>1. /\ pc' \in {"git", "reply", "exact", "backup", "rollback"}
      /\ strategy' \in {2, 3} \/ strategy' = strategy
      /\ UNCHANGED <<baks, backups, before, unrestored, section, diff, retries, failures>>
    BY DEF NextStrategy, GitApply, GitFails, ExactLineReplace, service, kernel
<1>2. DOMAIN files' = Files
    BY DEF NextStrategy, GitApply, GitFails, ExactLineReplace, GitOutcomes, TypesInv, Shapes
<1>3. strategy' \in 1 .. 3
    BY <1>1 DEF TypesInv, Shapes
<1>4. /\ pc' = "backup" => ExactLineReplace
      /\ pc' = "exact" => strategy' = 3
    BY DEF NextStrategy, GitApply, GitFails, ExactLineReplace
<1>5. pc' = "backup" => pending'.file \in Files /\ strategy' = 3
  <2> SUFFICES ASSUME pc' = "backup" PROVE pending'.file \in Files /\ strategy' = 3
      OBVIOUS
  <2>0. Cardinality(HunkPlaces(diff)) = 1 /\ pending'.file = Last(diff).file
      BY <1>4 DEF ExactLineReplace
  <2>1. diff # <<>>
    <3> SUFFICES ASSUME diff = <<>> PROVE FALSE
        OBVIOUS
    <3>1. HunkPlaces(diff) = {}
        BY DEF HunkPlaces
    <3>2. Cardinality(HunkPlaces(diff)) = 0
        BY <3>1, FS_EmptySet
    <3> QED
        BY <2>0, <3>2
  <2>2. Len(diff) \in DOMAIN diff
      BY <2>1, DiffIs DEF TypesInv
  <2>3. strategy' = 3
      BY <1>4 DEF ExactLineReplace, TypesInv, SectionThere
  <2> QED
      BY <2>0, <2>2, <2>3, DiffIs DEF TypesInv, Last
<1> QED
    BY <1>1, <1>2, <1>3, <1>4, <1>5 DEF TypesInv, Shapes, SectionThere, PendingThere

\* A retry is counted, and is one of those there may be.
LEMMA ReplyTyped == TypesInv /\ ReadReply => TypesInv'
<1> SUFFICES ASSUME TypesInv, ReadReply PROVE TypesInv'
    OBVIOUS
<1>1. /\ pc' \in {"generate", "done", "calls"} /\ section' = 1 /\ strategy' = 1
      /\ diff' = <<>> /\ before' = files /\ unrestored' = {}
      /\ UNCHANGED <<files, baks, backups>>
    BY DEF ReadReply, Forget
<1>2. failures' \in Nat
    BY DEF ReadReply, UpdateToolFailureHistory, TypesInv, Shapes
<1>3. retries' \in 0 .. MaxRetries
    BY BoundAssumption DEF ReadReply, MayRetry, TypesInv, Shapes
<1>4. Len(diff') = 0
    BY <1>1
<1> QED
    BY <1>1, <1>2, <1>3, <1>4 DEF TypesInv, Shapes, SectionThere, PendingThere

\* A header that cannot be read ends the call where it is.
LEMMA ThrownTyped == TypesInv /\ (MalformedHeader \/ Caught) => TypesInv'
<1> SUFFICES ASSUME TypesInv, MalformedHeader \/ Caught PROVE TypesInv'
    OBVIOUS
<1>1. /\ pc' \in {"thrown", "done"} /\ backups' \in {backups, {}}
      /\ UNCHANGED <<files, baks, before, unrestored, section, strategy, diff, retries, failures>>
    BY DEF MalformedHeader, Caught, service, kernel
<1> QED
    BY <1>1 DEF TypesInv, Shapes, SectionThere, PendingThere

LEMMA NextTyped == TypesInv /\ [Next]_vars => TypesInv'
<1>1. TypesInv /\ UNCHANGED vars => TypesInv'
    BY DEF TypesInv, Shapes, SectionThere, PendingThere, vars, service, kernel
<1> QED
    BY <1>1, AskingTyped, CallTyped, SectionTyped, WriteTyped, RollbackTyped, StrategyTyped,
       ThrownTyped, ReplyTyped
       DEF Next, Finished

-----------------------------------------------------------------------------
(* Positions of a sequence *)

\* A set of numbers that is not empty has a least element.
LEMMA LeastNumber ==
    ASSUME NEW T \in SUBSET Nat, T # {}
    PROVE  \E x \in T : \A y \in T : x <= y
<1>1. PICK x \in T : \A y \in T : ~(<<y, x>> \in OpToRel(<, Nat))
    BY NatLessThanWellFounded, WFMin, Zenon
<1>2. ASSUME NEW y \in T
      PROVE  x <= y
  <2>1. <<y, x>> \in Nat \X Nat
    OBVIOUS
  <2> QED
    BY <1>1, <2>1 DEF OpToRel
<1> QED
    BY <1>2

\* The ranks of the positions I are 1 .. Cardinality(I), each once.
LEMMA Ranks ==
    ASSUME NEW n \in Nat, NEW I \in SUBSET (1 .. n)
    PROVE  /\ Cardinality(I) \in Nat
           /\ \A i \in I : Cardinality({j \in I : j <= i}) \in 1 .. Cardinality(I)
           /\ \A i, j \in I : Cardinality({h \in I : h <= i}) = Cardinality({h \in I : h <= j})
                                 => i = j
           /\ \A k \in 1 .. Cardinality(I) :
                 \E i \in I : Cardinality({j \in I : j <= i}) = k
<1> DEFINE UpTo(i) == {j \in I : j <= i}
           rank == [i \in I |-> Cardinality(UpTo(i))]
<1>1. IsFiniteSet(I) /\ Cardinality(I) \in Nat
  <2>1. IsFiniteSet(1 .. n)
    BY FS_Interval
  <2> QED
    BY <2>1, FS_Subset, FS_CardinalityType
<1>2. ASSUME NEW i \in I
      PROVE  /\ IsFiniteSet(UpTo(i))
             /\ Cardinality(UpTo(i)) \in 1 .. Cardinality(I)
  <2>1. UpTo(i) \in SUBSET I /\ i \in UpTo(i)
    OBVIOUS
  <2>2. IsFiniteSet(UpTo(i)) /\ Cardinality(UpTo(i)) <= Cardinality(I)
    BY <1>1, <2>1, FS_Subset
  <2>3. Cardinality(UpTo(i)) \in Nat /\ Cardinality(UpTo(i)) # 0
    BY <2>1, <2>2, FS_CardinalityType, FS_EmptySet
  <2> QED
    BY <1>1, <2>2, <2>3
<1>3. ASSUME NEW i \in I, NEW j \in I, i < j
      PROVE  Cardinality(UpTo(i)) # Cardinality(UpTo(j))
  <2>1. UpTo(i) \in SUBSET UpTo(j) /\ j \in UpTo(j) /\ j \notin UpTo(i)
    <3>1. i \in Nat /\ j \in Nat /\ \A h \in I : h \in Nat
      OBVIOUS
    <3>2. \A h \in I : h <= i => h <= j
      BY <1>3, <3>1
    <3>3. j <= j /\ ~(j <= i)
      BY <1>3, <3>1
    <3> QED
      BY <3>2, <3>3
  <2> HIDE DEF UpTo
  <2> QED
    BY <1>2, <2>1, FS_Subset
<1>4. \A i, j \in I : Cardinality(UpTo(i)) = Cardinality(UpTo(j)) => i = j
  <2> SUFFICES ASSUME NEW i \in I, NEW j \in I, i # j
               PROVE  Cardinality(UpTo(i)) # Cardinality(UpTo(j))
    OBVIOUS
  <2>1. i < j \/ j < i
    OBVIOUS
  <2> HIDE DEF UpTo
  <2> QED
    BY <1>3, <2>1
<1>5. rank \in Injection(I, 1 .. Cardinality(I))
  <2> HIDE DEF UpTo
  <2> QED
    BY <1>2, <1>4 DEF Injection, IsInjective
<1>6. rank \in Surjection(I, 1 .. Cardinality(I))
  <2>1. IsFiniteSet(1 .. Cardinality(I)) /\ Cardinality(1 .. Cardinality(I)) = Cardinality(I)
    BY <1>1, FS_Interval
  <2> HIDE DEF rank
  <2> QED
    BY <1>5, <2>1, FS_Injection
<1>7. \A k \in 1 .. Cardinality(I) : \E i \in I : Cardinality(UpTo(i)) = k
  <2> HIDE DEF UpTo
  <2> QED
    BY <1>6 DEF Surjection
<1> QED
    BY <1>1, <1>2, <1>4, <1>7

\* A subsequence has the elements at its positions and no other, each once
\* when they differ.
LEMMA SubsequenceIs ==
    ASSUME NEW S, NEW s \in Seq(S), NEW I \in SUBSET DOMAIN s
    PROVE  /\ Subsequence(s, I) \in Seq(S)
           /\ ToSet(Subsequence(s, I)) = {s[i] : i \in I}
           /\ (\A i, j \in I : s[i] = s[j] => i = j) => IsInjective(Subsequence(s, I))
<1> DEFINE Rank(i) == Cardinality({j \in I : j <= i})
           At(k) == CHOOSE i \in I : Rank(i) = k
           n == Cardinality(I)
           r == [k \in 1 .. n |-> s[At(k)]]
<1>1. Len(s) \in Nat /\ DOMAIN s = 1 .. Len(s) /\ \A i \in DOMAIN s : s[i] \in S
    BY LenProperties, ElementOfSeq
<1>2. /\ n \in Nat
      /\ \A i \in I : Rank(i) \in 1 .. n
      /\ \A i, j \in I : Rank(i) = Rank(j) => i = j
      /\ \A k \in 1 .. n : \E i \in I : Rank(i) = k
    BY <1>1, Ranks
<1>3. Subsequence(s, I) = r
    BY DEF Subsequence
<1> HIDE DEF Rank, n
<1>4. \A k \in 1 .. n : At(k) \in I /\ Rank(At(k)) = k
    BY <1>2
<1>5. \A i \in I : At(Rank(i)) = i
    BY <1>2, <1>4
<1> HIDE DEF At
<1>6. r \in [1 .. n -> S]
    BY <1>1, <1>4
<1>7. r \in Seq(S)
    BY <1>2, <1>6, IsASeq
<1>8. ToSet(r) = {s[i] : i \in I}
  <2>1. \A i \in I : r[Rank(i)] = s[i]
    BY <1>2, <1>5
  <2>2. DOMAIN r = 1 .. n
    OBVIOUS
  <2>3. \A x \in ToSet(r) : x \in {s[i] : i \in I}
    BY <1>4 DEF ToSet
  <2>4. \A i \in I : s[i] \in ToSet(r)
    BY <1>2, <2>1, <2>2 DEF ToSet
  <2> QED
    BY <2>3, <2>4
<1>9. ASSUME \A i, j \in I : s[i] = s[j] => i = j
      PROVE  IsInjective(r)
    BY <1>4, <1>9 DEF IsInjective
<1> QED
    BY <1>3, <1>7, <1>8, <1>9

\* As long as there are positions.
LEMMA SubsequenceLen ==
    ASSUME NEW s, NEW n \in Nat, NEW I \in SUBSET (1 .. n)
    PROVE  Len(Subsequence(s, I)) = Cardinality(I) /\ Cardinality(I) \in Nat
<1>1. Cardinality(I) \in Nat
    BY Ranks
<1> DEFINE E(k) == s[CHOOSE i \in I : Cardinality({j \in I : j <= i}) = k]
<1>2. Subsequence(s, I) = [k \in 1 .. Cardinality(I) |-> E(k)]
    BY DEF Subsequence
<1> HIDE DEF E
<1>3. DOMAIN [k \in 1 .. Cardinality(I) |-> E(k)] = 1 .. Cardinality(I)
    OBVIOUS
<1>4. \E S : [k \in 1 .. Cardinality(I) |-> E(k)] \in [1 .. Cardinality(I) -> S]
  <2>1. [k \in 1 .. Cardinality(I) |-> E(k)] \in [1 .. Cardinality(I) -> {E(k) : k \in 1 .. Cardinality(I)}]
    OBVIOUS
  <2> QED
    BY <2>1
<1> QED
    BY <1>1, <1>2

-----------------------------------------------------------------------------
(* Functions that are defined by counting up *)

\* Counting up from 0.
LEMMA CountingUp ==
    ASSUME NEW n \in Nat, NEW I, 0 \in I, \A i \in 1 .. n : i - 1 \in I => i \in I
    PROVE  \A i \in 0 .. n : i \in I
<1> SUFFICES ASSUME NEW j \in 0 .. n, j \notin I
             PROVE  FALSE
    OBVIOUS
<1> DEFINE T == {i \in 0 .. n : i \notin I}
<1>1. T \in SUBSET Nat /\ T # {}
    OBVIOUS
<1>2. PICK x \in T : \A y \in T : x <= y
    BY <1>1, LeastNumber
<1>3. x # 0 /\ x - 1 \in 0 .. n
    BY <1>2
<1>4. x - 1 \in I
    BY <1>2, <1>3
<1> QED
    BY <1>2, <1>3, <1>4

\* What the steps of a function keep, it has at every number.
LEMMA AllAlong ==
    ASSUME NEW n \in Nat, NEW T, NEW f, f[0] \in T[0],
           \A i \in 1 .. n : f[i - 1] \in T[i - 1] => f[i] \in T[i]
    PROVE  \A i \in 0 .. n : f[i] \in T[i]
<1> DEFINE I == {i \in 0 .. n : f[i] \in T[i]}
<1>1. 0 \in I /\ \A i \in 1 .. n : i - 1 \in I => i \in I
    OBVIOUS
<1> HIDE DEF I
<1>2. \A i \in 0 .. n : i \in I
    BY <1>1, CountingUp
<1> QED
    BY <1>2 DEF I

\* f starts with base and goes on as step says.
Follows(f, n, base, step) == f = [i \in 0 .. n |-> IF i = 0 THEN base ELSE step[i][f[i - 1]]]

\* Every such recursion has its function: TLA+ defines a recursive function as
\* one that satisfies its equation, if there is one.
LEMMA Recursion ==
    ASSUME NEW n \in Nat, NEW T, NEW base \in T[0], NEW step,
           \A i \in 1 .. n : \A x \in T[i - 1] : step[i][x] \in T[i]
    PROVE  \E f : Follows(f, n, base, step) /\ \A i \in 0 .. n : f[i] \in T[i]
<1> DEFINE Upto(f, m) == Follows(f, m, base, step) /\ \A i \in 0 .. m : f[i] \in T[i]
           I == {m \in 0 .. n : \E f : Upto(f, m)}
<1>1. 0 \in I
  <2> DEFINE f == [i \in 0 .. 0 |-> base]
  <2>1. Upto(f, 0)
    BY DEF Follows
  <2> HIDE DEF Upto, f
  <2> QED
    BY <2>1
<1>2. ASSUME NEW m \in 1 .. n, m - 1 \in I
      PROVE  m \in I
  <2>1. PICK f : Upto(f, m - 1)
    BY <1>2
  <2> DEFINE g == [i \in 0 .. m |-> IF i = m THEN step[m][f[m - 1]] ELSE f[i]]
  <2>2. \A i \in 0 .. m - 1 : f[i] = IF i = 0 THEN base ELSE step[i][f[i - 1]]
    BY <2>1 DEF Follows
  <2>3. \A i \in 0 .. m : g[i] = IF i = 0 THEN base ELSE step[i][g[i - 1]]
    BY <2>2
  <2>4. \A i \in 0 .. m : g[i] \in T[i]
    BY <2>1
  <2>5. g = [i \in 0 .. m |-> g[i]]
    OBVIOUS
  <2> HIDE DEF g
  <2>6. Follows(g, m, base, step)
    BY <2>3, <2>5 DEF Follows
  <2>7. Upto(g, m)
    BY <2>4, <2>6
  <2> HIDE DEF Upto
  <2> QED
    BY <2>7
<1> HIDE DEF I, Upto
<1>3. n \in I
    BY <1>1, <1>2, CountingUp
<1> QED
    BY <1>3 DEF I, Upto

Start == [ok |-> TRUE, from |-> 0, out |-> <<>>]

\* The stages of a section, when all of them are in D.
LEMMA StagesAre ==
    ASSUME NEW lines, NEW hunks, Len(hunks) \in Nat, NEW D, Start \in D,
           \A i \in 1 .. Len(hunks) : \A d \in D : ApplyHunk(lines, d, hunks[i]) \in D
    PROVE  /\ Stages(lines, hunks)[0] = Start
           /\ \A i \in 1 .. Len(hunks) :
                 Stages(lines, hunks)[i] = ApplyHunk(lines, Stages(lines, hunks)[i - 1], hunks[i])
           /\ \A i \in 0 .. Len(hunks) : Stages(lines, hunks)[i] \in D
<1> DEFINE n == Len(hunks)
           Step(i, d) == ApplyHunk(lines, d, hunks[i])
           T == [i \in 0 .. n |-> D]
           step == [i \in 1 .. n |-> [d \in T[i - 1] |-> Step(i, d)]]
           Is(f) == f = [i \in 0 .. n |-> IF i = 0 THEN Start ELSE Step(i, f[i - 1])]
           f == Stages(lines, hunks)
<1>1. f = CHOOSE g : Is(g)
    BY DEF Stages, Start
<1>2. \A i \in 1 .. n : \A d \in D : Step(i, d) \in D
    OBVIOUS
<1>3. n \in Nat /\ Start \in T[0]
    OBVIOUS
<1> HIDE DEF Step, n, f
<1>4. \A i \in 1 .. n : \A d \in T[i - 1] : step[i][d] \in T[i]
    BY <1>2, <1>3
<1>5. \A i \in 1 .. n : \A d \in T[i - 1] : step[i][d] = Step(i, d)
    BY <1>3
<1> HIDE DEF T, step
<1>6. PICK h : Follows(h, n, Start, step) /\ \A i \in 0 .. n : h[i] \in T[i]
    BY <1>3, <1>4, Recursion
<1>7. \A i \in 0 .. n : (IF i = 0 THEN Start ELSE step[i][h[i - 1]])
                           = (IF i = 0 THEN Start ELSE Step(i, h[i - 1]))
  <2>1. \A i \in 1 .. n : i - 1 \in 0 .. n
    BY <1>3
  <2> QED
    BY <1>3, <1>5, <1>6, <2>1
<1>8. Is(h)
    BY <1>6, <1>7 DEF Follows
<1> HIDE DEF Is
<1>9. Is(f)
    BY <1>1, <1>8
<1>10. f[0] = Start /\ \A i \in 1 .. n : f[i] = Step(i, f[i - 1])
    BY <1>3, <1>9 DEF Is
<1>11. \A i \in 1 .. n : f[i - 1] \in T[i - 1] => f[i] \in T[i]
    BY <1>2, <1>3, <1>10 DEF T
<1>12. \A i \in 0 .. n : f[i] \in T[i]
    BY <1>3, <1>10, <1>11, AllAlong
<1> QED
    BY <1>10, <1>12 DEF T, n, Step, f

\* The lines with the last k hunks in place, when those are in T[k].
LEMMA SplicesAre ==
    ASSUME NEW lines, NEW hunks, Len(hunks) \in Nat, NEW at, NEW T, lines \in T[0],
           \A k \in 1 .. Len(hunks) : \A r \in T[k - 1] :
               Put(lines, r, hunks[Len(hunks) + 1 - k], at[Len(hunks) + 1 - k]) \in T[k]
    PROVE  \A k \in 0 .. Len(hunks) : Splices(lines, hunks, at)[k] \in T[k]
<1> DEFINE n == Len(hunks)
           Step(k, r) == Put(lines, r, hunks[n + 1 - k], at[n + 1 - k])
           step == [k \in 1 .. n |-> [r \in T[k - 1] |-> Step(k, r)]]
           Is(f) == f = [k \in 0 .. n |-> IF k = 0 THEN lines ELSE Step(k, f[k - 1])]
           f == Splices(lines, hunks, at)
<1>1. f = CHOOSE g : Is(g)
    BY DEF Splices
<1>2. \A k \in 1 .. n : \A r \in T[k - 1] : Step(k, r) \in T[k]
    OBVIOUS
<1>3. n \in Nat /\ lines \in T[0]
    OBVIOUS
<1> HIDE DEF Step, n, f
<1>4. \A k \in 1 .. n : \A r \in T[k - 1] : step[k][r] \in T[k]
    BY <1>2, <1>3
<1>5. \A k \in 1 .. n : \A r \in T[k - 1] : step[k][r] = Step(k, r)
    BY <1>3
<1> HIDE DEF step
<1>6. PICK h : Follows(h, n, lines, step) /\ \A k \in 0 .. n : h[k] \in T[k]
    BY <1>3, <1>4, Recursion
<1>7. \A k \in 0 .. n : (IF k = 0 THEN lines ELSE step[k][h[k - 1]])
                           = (IF k = 0 THEN lines ELSE Step(k, h[k - 1]))
  <2>1. \A k \in 1 .. n : k - 1 \in 0 .. n
    BY <1>3
  <2> QED
    BY <1>3, <1>5, <1>6, <2>1
<1>8. Is(h)
    BY <1>6, <1>7 DEF Follows
<1> HIDE DEF Is
<1>9. Is(f)
    BY <1>1, <1>8
<1>10. f[0] = lines /\ \A k \in 1 .. n : f[k] = Step(k, f[k - 1])
    BY <1>3, <1>9 DEF Is
<1>11. \A k \in 1 .. n : f[k - 1] \in T[k - 1] => f[k] \in T[k]
    BY <1>2, <1>10
<1>12. \A k \in 0 .. n : f[k] \in T[k]
    BY <1>3, <1>10, <1>11, AllAlong
<1> QED
    BY <1>12 DEF n, f

\* The readings section by section, when each is in D.
LEMMA ReadingsAre ==
    ASSUME NEW lines, NEW d, Len(d) \in Nat, NEW f, NEW D, {lines} \in D,
           \A i \in 1 .. Len(d) : \A R \in D :
               UNION {PatchesOf(r, d[i].hunks) : r \in R} \in D
    PROVE  /\ Readings(lines, d, f)[0] = {lines}
           /\ \A i \in 1 .. Len(d) :
                 Readings(lines, d, f)[i] =
                     IF d[i].file # f THEN Readings(lines, d, f)[i - 1]
                     ELSE UNION {PatchesOf(r, d[i].hunks) : r \in Readings(lines, d, f)[i - 1]}
           /\ \A i \in 0 .. Len(d) : Readings(lines, d, f)[i] \in D
<1> DEFINE n == Len(d)
           All(i, R) == UNION {PatchesOf(r, d[i].hunks) : r \in R}
           Step(i, R) == IF d[i].file # f THEN R ELSE All(i, R)
           T == [i \in 0 .. n |-> D]
           step == [i \in 1 .. n |-> [R \in T[i - 1] |-> Step(i, R)]]
           Is(g) == g = [i \in 0 .. n |-> IF i = 0 THEN {lines} ELSE Step(i, g[i - 1])]
           a == Readings(lines, d, f)
<1>1. a = CHOOSE g : Is(g)
    BY DEF Readings
<1>0. \A i \in 1 .. n : \A R \in D : All(i, R) \in D
    OBVIOUS
<1> HIDE DEF All
<1>2. \A i \in 1 .. n : \A R \in D : Step(i, R) \in D
    BY <1>0
<1>3. n \in Nat /\ {lines} \in T[0]
    OBVIOUS
<1> HIDE DEF Step, n, a
<1>4. \A i \in 1 .. n : \A R \in T[i - 1] : step[i][R] \in T[i]
    BY <1>2, <1>3
<1>5. \A i \in 1 .. n : \A R \in T[i - 1] : step[i][R] = Step(i, R)
    BY <1>3
<1> HIDE DEF T, step
<1>6. PICK h : Follows(h, n, {lines}, step) /\ \A i \in 0 .. n : h[i] \in T[i]
    BY <1>3, <1>4, Recursion
<1>7. \A i \in 0 .. n : (IF i = 0 THEN {lines} ELSE step[i][h[i - 1]])
                           = (IF i = 0 THEN {lines} ELSE Step(i, h[i - 1]))
  <2>1. \A i \in 1 .. n : i - 1 \in 0 .. n
    BY <1>3
  <2> QED
    BY <1>3, <1>5, <1>6, <2>1
<1>8. Is(h)
    BY <1>6, <1>7 DEF Follows
<1> HIDE DEF Is
<1>9. Is(a)
    BY <1>1, <1>8
<1>10. a[0] = {lines} /\ \A i \in 1 .. n : a[i] = Step(i, a[i - 1])
  <2>1. \A i \in 0 .. n : a[i] = IF i = 0 THEN {lines} ELSE Step(i, a[i - 1])
    BY <1>9, Zenon DEF Is
  <2> QED
    BY <1>3, <2>1
<1>11. \A i \in 1 .. n : a[i - 1] \in T[i - 1] => a[i] \in T[i]
    BY <1>2, <1>3, <1>10 DEF T
<1>12. \A i \in 0 .. n : a[i] \in T[i]
    BY <1>3, <1>10, <1>11, AllAlong
<1> QED
    BY <1>10, <1>12 DEF T, n, Step, All, a

\* The parts of a hunk.
LEMMA HunkIs ==
    ASSUME NEW h \in Hunk
    PROVE  /\ h.start \in Nat
           /\ Len(h.lines) \in Nat /\ DOMAIN h.lines = 1 .. Len(h.lines)
           /\ \A i \in DOMAIN h.lines : h.lines[i].kind \in {"keep", "del", "add"} /\ h.lines[i].text \in Texts
<1>1. h.lines \in Seq([kind : {"keep", "del", "add"}, text : Texts]) /\ h.start \in Nat
    BY DEF Hunk
<1>2. Len(h.lines) \in Nat /\ DOMAIN h.lines = 1 .. Len(h.lines)
    BY <1>1, LenProperties
<1>3. \A i \in DOMAIN h.lines : h.lines[i] \in [kind : {"keep", "del", "add"}, text : Texts]
    BY <1>1, <1>2, ElementOfSeq
<1> QED
    BY <1>1, <1>2, <1>3

\* The texts of a hunk of some kinds are texts, as many as it has such lines.
LEMMA SideIs ==
    ASSUME NEW h \in Hunk, NEW kinds
    PROVE  /\ TextsOf(h, kinds) \in Seq(Texts)
           /\ Len(TextsOf(h, kinds)) = Cardinality({i \in DOMAIN h.lines : h.lines[i].kind \in kinds})
<1> DEFINE t == [i \in DOMAIN h.lines |-> h.lines[i].text]
           I == {i \in DOMAIN h.lines : h.lines[i].kind \in kinds}
           n == Len(h.lines)
<1>1. n \in Nat /\ DOMAIN h.lines = 1 .. n /\ \A i \in DOMAIN h.lines : h.lines[i].text \in Texts
    BY HunkIs
<1>2. t \in [1 .. n -> Texts] /\ DOMAIN t = 1 .. n
    BY <1>1
<1>3. I \in SUBSET (1 .. n)
    BY <1>1
<1>4. TextsOf(h, kinds) = Subsequence(t, I)
    BY DEF TextsOf
<1> HIDE DEF t, I, n
<1>5. t \in Seq(Texts)
    BY <1>1, <1>2, SeqDef
<1>6. Subsequence(t, I) \in Seq(Texts)
    BY <1>2, <1>3, <1>5, SubsequenceIs
<1>7. Len(Subsequence(t, I)) = Cardinality(I)
    BY <1>1, <1>3, SubsequenceLen
<1> QED
    BY <1>4, <1>6, <1>7 DEF I

\* The old side of a hunk are texts.
LEMMA OldSideIs ==
    ASSUME NEW h \in Hunk
    PROVE  OldSide(h) \in Seq(Texts) /\ Len(OldSide(h)) \in Nat
BY SideIs, LenProperties DEF OldSide

\* What a hunk leaves are texts, where its old side is within the file.
LEMMA NewSideIs ==
    ASSUME NEW lines \in Seq(Texts), NEW h \in Hunk, NEW p \in Nat,
           p + Len(OldSide(h)) <= Len(lines)
    PROVE  NewSide(lines, h, p) \in Seq(Texts)
<1> DEFINE n == Len(h.lines)
           Of(j) == {i \in 1 .. j : h.lines[i].kind # "add"}
           Old(j) == Cardinality(Of(j))
           K == {i \in DOMAIN h.lines : h.lines[i].kind \in {"keep", "del"}}
           t == [j \in DOMAIN h.lines |-> IF h.lines[j].kind = "keep" THEN lines[p + Old(j)]
                                          ELSE h.lines[j].text]
           I == {j \in DOMAIN h.lines : h.lines[j].kind # "del"}
<1>1. n \in Nat /\ DOMAIN h.lines = 1 .. n
      /\ \A i \in DOMAIN h.lines : h.lines[i].kind \in {"keep", "del", "add"} /\ h.lines[i].text \in Texts
    BY HunkIs
<1>2. IsFiniteSet(K) /\ Cardinality(K) \in Nat
  <2>1. IsFiniteSet(1 .. n)
    BY <1>1, FS_Interval
  <2> QED
    BY <1>1, <2>1, FS_Subset, FS_CardinalityType
<1>3. Len(OldSide(h)) = Cardinality(K)
    BY SideIs DEF OldSide
<1>4. ASSUME NEW j \in DOMAIN h.lines, h.lines[j].kind = "keep"
      PROVE  lines[p + Old(j)] \in Texts
  <2>1. Of(j) \in SUBSET K /\ j \in Of(j)
    BY <1>1, <1>4
  <2>2. IsFiniteSet(Of(j)) /\ Old(j) <= Cardinality(K)
    BY <1>2, <2>1, FS_Subset
  <2>3. Old(j) \in Nat /\ Old(j) # 0
    BY <2>1, <2>2, FS_CardinalityType, FS_EmptySet
  <2> HIDE DEF Of, Old, K
  <2>4. p + Old(j) \in 1 .. Len(lines)
    BY <1>2, <1>3, <2>2, <2>3, LenProperties
  <2> QED
    BY <2>4, ElementOfSeq
<1>5. t \in [1 .. n -> Texts] /\ DOMAIN t = 1 .. n
  <2> HIDE DEF Old
  <2> QED
    BY <1>1, <1>4
<1>6. I \in SUBSET (1 .. n)
    BY <1>1
<1>7. NewSide(lines, h, p) = Subsequence(t, I)
    BY DEF NewSide
<1> HIDE DEF t, I, n
<1>8. t \in Seq(Texts)
    BY <1>1, <1>5, SeqDef
<1>9. I \in SUBSET DOMAIN t
    BY <1>5, <1>6
<1>10. Subsequence(t, I) \in Seq(Texts)
    BY <1>8, <1>9, SubsequenceIs
<1> QED
    BY <1>7, <1>10

\* The place nearest to the target is one of the places.
LEMMA NearestIs ==
    ASSUME NEW P \in SUBSET Nat, P # {}, NEW h \in Hunk
    PROVE  Nearest(P, h) \in P
<1> DEFINE t == Target(h)
           Away == {Distance(p, t) : p \in P}
           Best(p) == \A q \in P \ {p} : \/ Distance(p, t) < Distance(q, t)
                                         \/ Distance(p, t) = Distance(q, t) /\ p > q
<1>1. t \in Nat
    BY HunkIs DEF Target
<1> HIDE DEF t
<1>2. Away \in SUBSET Nat /\ Away # {}
  <2>1. \A p \in P : Distance(p, t) \in Nat
    BY <1>1 DEF Distance
  <2> QED
    BY <2>1
<1>3. PICK d \in Away : \A e \in Away : d <= e
    BY <1>2, LeastNumber
<1>4. \E p \in P : Best(p)
  <2>0. d \in Nat /\ \A q \in P : d <= Distance(q, t) /\ q \in Nat
    BY <1>2, <1>3
  <2>1. PICK p \in P : Distance(p, t) = d
    BY <1>3
  <2>2. CASE t + d \in P
    <3>1. Best(t + d)
      BY <1>1, <1>2, <1>3, <2>0, <2>2 DEF Distance
    <3> HIDE DEF Best
    <3> QED
      BY <2>2, <3>1
  <2>3. CASE t + d \notin P
    <3>1. \A q \in P \ {p} : Distance(q, t) # d
      BY <1>1, <2>0, <2>1, <2>3 DEF Distance
    <3>2. \A q \in P \ {p} : Distance(p, t) < Distance(q, t)
      BY <1>1, <2>0, <2>1, <3>1 DEF Distance
    <3>3. Best(p)
      BY <3>2
    <3> HIDE DEF Best
    <3> QED
      BY <3>3
  <2> QED
    BY <2>2, <2>3
<1>5. Nearest(P, h) = CHOOSE p \in P : Best(p)
    BY DEF Nearest, t
<1> HIDE DEF Best
<1> QED
    BY <1>4, <1>5

\* What is left of s behind its first m elements.
Rest(s, m) == SubSeq(s, m + 1, Len(s))

\* A part of a sequence, element by element.
LEMMA PartIs ==
    ASSUME NEW S, NEW s \in Seq(S), NEW m \in 0 .. Len(s), NEW e \in 0 .. m
    PROVE  /\ SubSeq(s, e + 1, m) \in Seq(S)
           /\ Len(SubSeq(s, e + 1, m)) = m - e
           /\ \A i \in 1 .. m - e : SubSeq(s, e + 1, m)[i] = s[e + i]
<1>1. Len(s) \in Nat /\ \A i \in 1 .. Len(s) : s[i] \in S
    BY LenProperties, ElementOfSeq
<1>2. e + 1 \in Int /\ m \in Int /\ \A i \in e + 1 .. m : s[i] \in S
    BY <1>1
<1>3. /\ SubSeq(s, e + 1, m) \in Seq(S)
      /\ Len(SubSeq(s, e + 1, m)) = IF e + 1 <= m THEN m - (e + 1) + 1 ELSE 0
      /\ \A i \in 1 .. m - (e + 1) + 1 : SubSeq(s, e + 1, m)[i] = s[(e + 1) + i - 1]
    BY <1>2, SubSeqProperties
<1>4. m - (e + 1) + 1 = m - e /\ \A i \in 1 .. m - e : (e + 1) + i - 1 = e + i
    BY <1>1
<1> QED
    BY <1>1, <1>3, <1>4

\* The rest of a sequence, element by element.
LEMMA RestIs ==
    ASSUME NEW S, NEW s \in Seq(S), NEW m \in 0 .. Len(s)
    PROVE  /\ Rest(s, m) \in Seq(S)
           /\ Len(Rest(s, m)) = Len(s) - m
           /\ \A i \in 1 .. Len(s) - m : Rest(s, m)[i] = s[m + i]
<1>1. Len(s) \in 0 .. Len(s)
    BY LenProperties
<1> QED
    BY <1>1, PartIs DEF Rest

\* The rest of two sequences, from a place within the first.
LEMMA RestOfConcat ==
    ASSUME NEW S, NEW s \in Seq(S), NEW t \in Seq(S), NEW m \in 0 .. Len(s)
    PROVE  Rest(s \o t, m) = Rest(s, m) \o t
<1>1. Len(s) \in Nat /\ Len(t) \in Nat
    BY LenProperties
<1>2. /\ s \o t \in Seq(S) /\ Len(s \o t) = Len(s) + Len(t)
      /\ \A i \in 1 .. Len(s) + Len(t) : (s \o t)[i] = IF i <= Len(s) THEN s[i] ELSE t[i - Len(s)]
    BY ConcatProperties
<1>3. m \in 0 .. Len(s \o t)
    BY <1>1, <1>2
<1>4. /\ Rest(s \o t, m) \in Seq(S)
      /\ Len(Rest(s \o t, m)) = Len(s) + Len(t) - m
      /\ \A i \in 1 .. Len(s) + Len(t) - m : Rest(s \o t, m)[i] = (s \o t)[m + i]
  <2> DEFINE w == s \o t
  <2>1. w \in Seq(S) /\ Len(w) = Len(s) + Len(t) /\ m \in 0 .. Len(w)
    BY <1>2, <1>3
  <2> HIDE DEF w
  <2>2. /\ Rest(w, m) \in Seq(S)
        /\ Len(Rest(w, m)) = Len(w) - m
        /\ \A i \in 1 .. Len(w) - m : Rest(w, m)[i] = w[m + i]
    BY <2>1, RestIs
  <2> QED
    BY <2>1, <2>2 DEF w
<1> DEFINE r == Rest(s, m)
<1>5. /\ r \in Seq(S) /\ Len(r) = Len(s) - m
      /\ \A i \in 1 .. Len(s) - m : r[i] = s[m + i]
    BY RestIs
<1> HIDE DEF r
<1>6. /\ r \o t \in Seq(S) /\ Len(r \o t) = Len(s) - m + Len(t)
      /\ \A i \in 1 .. Len(s) - m + Len(t) :
            (r \o t)[i] = IF i <= Len(s) - m THEN r[i] ELSE t[i - (Len(s) - m)]
  <2>1. /\ r \o t \in Seq(S) /\ Len(r \o t) = Len(r) + Len(t)
        /\ \A i \in 1 .. Len(r) + Len(t) : (r \o t)[i] = IF i <= Len(r) THEN r[i] ELSE t[i - Len(r)]
    BY <1>5, ConcatProperties
  <2> QED
    BY <1>5, <2>1
<1>7. \A i \in 1 .. Len(s) + Len(t) - m : Rest(s \o t, m)[i] = (r \o t)[i]
  <2> SUFFICES ASSUME NEW i \in 1 .. Len(s) + Len(t) - m
               PROVE  Rest(s \o t, m)[i] = (r \o t)[i]
    OBVIOUS
  <2>1. m + i \in 1 .. Len(s) + Len(t) /\ i \in 1 .. Len(s) - m + Len(t)
    BY <1>1
  <2>2. CASE i <= Len(s) - m
    <3>1. m + i <= Len(s) /\ i \in 1 .. Len(s) - m
      BY <1>1, <2>2
    <3> QED
      BY <1>2, <1>4, <1>5, <1>6, <2>1, <2>2, <3>1
  <2>3. CASE ~(i <= Len(s) - m)
    <3>1. ~(m + i <= Len(s)) /\ (m + i) - Len(s) = i - (Len(s) - m)
      BY <1>1, <2>3
    <3> QED
      BY <1>2, <1>4, <1>6, <2>1, <2>3, <3>1
  <2> QED
    BY <2>2, <2>3
<1>8. Len(s) + Len(t) - m = Len(s) - m + Len(t)
    BY <1>1
<1>9. Rest(s \o t, m) = r \o t
    BY <1>4, <1>6, <1>7, <1>8, SeqEqual
<1> QED
    BY <1>9 DEF r

\* The first of two sequences stands in front.
LEMMA FrontOfConcat ==
    ASSUME NEW S, NEW s \in Seq(S), NEW t \in Seq(S)
    PROVE  /\ s \o t \in Seq(S)
           /\ Len(s \o t) >= Len(s)
           /\ \A i \in 1 .. Len(s) : (s \o t)[i] = s[i]
<1>1. Len(s) \in Nat /\ Len(t) \in Nat
    BY LenProperties
<1> QED
    BY <1>1, ConcatProperties

\* A hunk that is put into lines changes nothing before it, and behind it
\* only where the lines stand.
LEMMA PutIs ==
    ASSUME NEW lines \in Seq(Texts), NEW out \in Seq(Texts), NEW h \in Hunk, NEW p \in Nat,
           p + Len(OldSide(h)) <= Len(lines), p + Len(OldSide(h)) <= Len(out)
    PROVE  /\ Put(lines, out, h, p) \in Seq(Texts)
           /\ Len(Put(lines, out, h, p)) >= p
           /\ \A j \in 1 .. p : Put(lines, out, h, p)[j] = out[j]
           /\ \A e \in 0 .. p : Rest(Put(lines, out, h, p), e) =
                  SubSeq(out, e + 1, p) \o (NewSide(lines, h, p) \o Rest(out, p + Len(OldSide(h))))
<1> DEFINE A == SubSeq(out, 1, p)
           B == NewSide(lines, h, p)
           q == p + Len(OldSide(h))
           C == Rest(out, q)
           D == B \o C
<1>1. Len(out) \in Nat /\ q \in 0 .. Len(out) /\ p \in 0 .. Len(out) /\ p \in 0 .. q
    BY OldSideIs, LenProperties
<1>2. B \in Seq(Texts)
    BY NewSideIs
<1>3. /\ A \in Seq(Texts) /\ Len(A) = p
      /\ \A i \in 1 .. p : A[i] = out[i]
  <2>1. 0 \in 0 .. p /\ 0 + 1 = 1 /\ p - 0 = p /\ \A i \in 1 .. p : 0 + i = i
    OBVIOUS
  <2> QED
    BY <1>1, <2>1, PartIs
<1>4. C \in Seq(Texts)
    BY <1>1, RestIs
<1>5. Put(lines, out, h, p) = A \o D
    BY DEF Put, Rest
<1> HIDE DEF A, B, C, q, Rest
<1>6. D \in Seq(Texts)
    BY <1>2, <1>4, ConcatProperties
<1> HIDE DEF D
<1>7. A \in Seq(Texts)
    BY <1>3
<1>8. /\ A \o D \in Seq(Texts)
      /\ Len(A \o D) >= Len(A)
      /\ \A i \in 1 .. Len(A) : (A \o D)[i] = A[i]
    BY <1>6, <1>7, FrontOfConcat
<1>9. ASSUME NEW e \in 0 .. p
      PROVE  Rest(A \o D, e) = SubSeq(out, e + 1, p) \o D
  <2>1. Rest(A \o D, e) = Rest(A, e) \o D
    BY <1>3, <1>6, RestOfConcat
  <2>2. e \in 0 .. Len(A)
    BY <1>3
  <2>3. /\ Rest(A, e) \in Seq(Texts) /\ Len(Rest(A, e)) = p - e
        /\ \A i \in 1 .. p - e : Rest(A, e)[i] = A[e + i]
    BY <1>3, <2>2, RestIs
  <2>4. /\ SubSeq(out, e + 1, p) \in Seq(Texts) /\ Len(SubSeq(out, e + 1, p)) = p - e
        /\ \A i \in 1 .. p - e : SubSeq(out, e + 1, p)[i] = out[e + i]
    BY <1>1, PartIs
  <2>5. \A i \in 1 .. p - e : e + i \in 1 .. p
    OBVIOUS
  <2>6. \A i \in 1 .. p - e : Rest(A, e)[i] = SubSeq(out, e + 1, p)[i]
    BY <1>3, <2>3, <2>4, <2>5
  <2>7. Rest(A, e) = SubSeq(out, e + 1, p)
    BY <2>3, <2>4, <2>6, SeqEqual
  <2> QED
    BY <2>1, <2>7
<1>10. Len(A \o D) >= p /\ \A j \in 1 .. p : (A \o D)[j] = out[j]
    BY <1>3, <1>8
<1> QED
    BY <1>5, <1>8, <1>9, <1>10 DEF B, C, D, q

\* Concatenation under a name of its own, of which the provers know nothing
\* but what is cited.
Joined(s, t) == s \o t

\* Three sequences may be joined in either order; Joined is \o, hidden.
LEMMA Associative ==
    \A S : \A x, y, z \in Seq(S) : Joined(Joined(x, y), z) = Joined(x, Joined(y, z))
<1> SUFFICES ASSUME NEW S, NEW x \in Seq(S), NEW y \in Seq(S), NEW z \in Seq(S)
             PROVE  Joined(Joined(x, y), z) = Joined(x, Joined(y, z))
    OBVIOUS
<1> QED
    BY ConcatAssociative DEF Joined

\* And four.
LEMMA Regroup ==
    \A S : \A a, b, c, d \in Seq(S) :
        Joined(Joined(Joined(a, b), c), d) = Joined(a, Joined(b, Joined(c, d)))
<1> SUFFICES ASSUME NEW S, NEW a \in Seq(S), NEW b \in Seq(S), NEW c \in Seq(S), NEW d \in Seq(S)
             PROVE  Joined(Joined(Joined(a, b), c), d) = Joined(a, Joined(b, Joined(c, d)))
    OBVIOUS
<1>1. \A x, y \in Seq(S) : Joined(x, y) \in Seq(S)
    BY ConcatProperties DEF Joined
<1>2. Joined(a, b) \in Seq(S) /\ Joined(c, d) \in Seq(S)
    BY <1>1
<1>3. Joined(a, Joined(b, Joined(c, d))) = Joined(Joined(a, b), Joined(c, d))
    BY <1>2, Associative
<1>4. Joined(Joined(Joined(a, b), c), d) = Joined(Joined(a, b), Joined(c, d))
    BY <1>2, Associative
<1> QED
    BY <1>3, <1>4

\* Where the first i hunks of a placement end.
End(hunks, at, i) == IF i = 0 THEN 0 ELSE at[i] + Len(OldSide(hunks[i]))

\* In a placement the hunks follow one another within the file.
LEMMA PlacementIs ==
    ASSUME NEW lines \in Seq(Texts), NEW hunks \in Seq(Hunk), NEW at \in Placements(lines, hunks)
    PROVE  /\ Len(hunks) \in Nat /\ Len(lines) \in Nat
           /\ \A i \in 1 .. Len(hunks) :
                 /\ hunks[i] \in Hunk /\ at[i] \in Nat
                 /\ End(hunks, at, i) = at[i] + Len(OldSide(hunks[i]))
                 /\ End(hunks, at, i - 1) <= at[i]
           /\ \A i \in 0 .. Len(hunks) : End(hunks, at, i) \in 0 .. Len(lines)
<1>1. /\ Len(lines) \in Nat /\ Len(hunks) \in Nat /\ DOMAIN hunks = 1 .. Len(hunks)
      /\ \A i \in 1 .. Len(hunks) : hunks[i] \in Hunk
    BY LenProperties, ElementOfSeq
<1>2. /\ at \in [1 .. Len(hunks) -> 0 .. Len(lines)]
      /\ \A i \in 1 .. Len(hunks) : Fits(lines, hunks[i], at[i])
      /\ \A i, j \in 1 .. Len(hunks) : i < j => at[i] + Len(OldSide(hunks[i])) <= at[j]
    BY <1>1 DEF Placements
<1>3. \A i \in 1 .. Len(hunks) : /\ at[i] \in Nat /\ Len(OldSide(hunks[i])) \in Nat
                                 /\ at[i] + Len(OldSide(hunks[i])) <= Len(lines)
  <2> SUFFICES ASSUME NEW i \in 1 .. Len(hunks)
               PROVE  /\ at[i] \in Nat /\ Len(OldSide(hunks[i])) \in Nat
                      /\ at[i] + Len(OldSide(hunks[i])) <= Len(lines)
    OBVIOUS
  <2>0. hunks[i] \in Hunk /\ at[i] \in Nat
    BY <1>1, <1>2
  <2>1. at[i] \in Nat /\ Len(OldSide(hunks[i])) \in Nat
    BY <2>0, OldSideIs
  <2> QED
    BY <1>2, <2>1 DEF Fits
<1>4. \A i \in 1 .. Len(hunks) : End(hunks, at, i - 1) <= at[i]
  <2> SUFFICES ASSUME NEW i \in 1 .. Len(hunks)
               PROVE  End(hunks, at, i - 1) <= at[i]
    OBVIOUS
  <2>1. CASE i = 1
    BY <1>3, <2>1 DEF End
  <2>2. CASE i # 1
    <3>1. i - 1 \in 1 .. Len(hunks) /\ i - 1 < i /\ i - 1 # 0
      BY <1>1, <2>2
    <3> QED
      BY <1>2, <3>1 DEF End
  <2> QED
    BY <2>1, <2>2
<1>5. \A i \in 1 .. Len(hunks) : i # 0
    BY <1>1
<1>6. \A i \in 0 .. Len(hunks) : End(hunks, at, i) \in 0 .. Len(lines)
  <2> SUFFICES ASSUME NEW i \in 0 .. Len(hunks)
               PROVE  End(hunks, at, i) \in 0 .. Len(lines)
    OBVIOUS
  <2>1. CASE i = 0
    BY <1>1, <2>1 DEF End
  <2>2. CASE i # 0
    BY <1>1, <1>3, <2>2 DEF End
  <2> QED
    BY <2>1, <2>2
<1> QED
    BY <1>1, <1>3, <1>4, <1>5, <1>6 DEF End

\* What a placement makes of the lines are texts.
LEMMA PatchesTyped ==
    ASSUME NEW lines \in Seq(Texts), NEW hunks \in Seq(Hunk)
    PROVE  PatchesOf(lines, hunks) \subseteq Seq(Texts)
<1> SUFFICES ASSUME NEW at \in Placements(lines, hunks)
             PROVE  Splices(lines, hunks, at)[Len(hunks)] \in Seq(Texts)
    BY DEF PatchesOf
<1> DEFINE n == Len(hunks)
           E(i) == End(hunks, at, i)
           T == [k \in 0 .. n |-> {r \in Seq(Texts) : Len(r) >= E(n - k)}]
<1>1. /\ n \in Nat /\ Len(lines) \in Nat
      /\ \A i \in 1 .. n : /\ hunks[i] \in Hunk /\ at[i] \in Nat
                           /\ E(i) = at[i] + Len(OldSide(hunks[i])) /\ E(i - 1) <= at[i]
      /\ \A i \in 0 .. n : E(i) \in 0 .. Len(lines)
    BY PlacementIs
<1> HIDE DEF n, E
<1>2. lines \in T[0]
    BY <1>1
<1>3. ASSUME NEW k \in 1 .. n, NEW r \in T[k - 1]
      PROVE  Put(lines, r, hunks[n + 1 - k], at[n + 1 - k]) \in T[k]
  <2> DEFINE i == n + 1 - k
             h == hunks[i]
             p == at[i]
  <2>1. i \in 1 .. n /\ n - (k - 1) = i /\ n - k = i - 1 /\ k - 1 \in 0 .. n /\ i - 1 \in 0 .. n /\ i \in 0 .. n
    BY <1>1
  <2>2. r \in Seq(Texts) /\ Len(r) >= E(i) /\ Len(r) \in Nat
    BY <2>1, LenProperties
  <2>3. h \in Hunk /\ p \in Nat /\ E(i) = p + Len(OldSide(h)) /\ E(i - 1) <= p
    BY <1>1, <2>1
  <2>4. p + Len(OldSide(h)) <= Len(lines) /\ p + Len(OldSide(h)) <= Len(r)
    BY <1>1, <2>1, <2>2, <2>3
  <2> HIDE DEF i, h, p
  <2>5. Put(lines, r, h, p) \in Seq(Texts) /\ Len(Put(lines, r, h, p)) >= p
    BY <2>2, <2>3, <2>4, PutIs
  <2>6. Len(Put(lines, r, h, p)) >= E(i - 1)
    BY <1>1, <2>1, <2>3, <2>5, LenProperties
  <2> QED
    BY <1>1, <2>1, <2>5, <2>6 DEF h, p, i
<1> HIDE DEF T
<1>4. \A k \in 0 .. n : Splices(lines, hunks, at)[k] \in T[k]
    BY <1>1, <1>2, <1>3, SplicesAre DEF n
<1> QED
    BY <1>1, <1>4 DEF T, n

\* What is known of a section while its hunks are placed.
Stage(lines) == [ok : BOOLEAN, from : 0 .. Len(lines), out : Seq(Texts)]

\* The hunk h goes to p, which makes the stage d into new.
Lands(lines, d, h, p, new) ==
    /\ p \in d.from .. Len(lines) /\ Fits(lines, h, p)
    /\ new.from = p + Len(OldSide(h))
    /\ new.out = (d.out \o SubSeq(lines, d.from + 1, p)) \o NewSide(lines, h, p)

\* Where PatchManager puts the hunk.
PlaceOf(lines, d, h) == Nearest(Places(lines, d.from, h), h)

\* A hunk that finds its place goes to the nearest one behind those before.
LEMMA ApplyHunkIs ==
    ASSUME NEW lines \in Seq(Texts), NEW d \in Stage(lines), NEW h \in Hunk
    PROVE  /\ ApplyHunk(lines, d, h) \in Stage(lines)
           /\ ApplyHunk(lines, d, h).ok =>
                 d.ok /\ Lands(lines, d, h, PlaceOf(lines, d, h), ApplyHunk(lines, d, h))
<1> DEFINE p == PlaceOf(lines, d, h)
           new == ApplyHunk(lines, d, h)
           places == Places(lines, d.from, h)
           out == (d.out \o SubSeq(lines, d.from + 1, p)) \o NewSide(lines, h, p)
<1>1. /\ Len(lines) \in Nat /\ d.from \in 0 .. Len(lines) /\ d.out \in Seq(Texts)
      /\ d.ok \in BOOLEAN
      /\ Len(OldSide(h)) \in Nat
    BY LenProperties, OldSideIs DEF Stage
<1>2. CASE ~d.ok \/ places = {}
  <2>1. new = [d EXCEPT !.ok = FALSE]
    BY <1>2 DEF ApplyHunk
  <2> QED
    BY <2>1 DEF Stage
<1>3. CASE d.ok /\ places # {}
  <2>1. places \in SUBSET Nat
    BY <1>1 DEF Places
  <2>2. p \in places
    BY <1>3, <2>1, NearestIs DEF PlaceOf
  <2>3. p \in d.from .. Len(lines) /\ Fits(lines, h, p)
    BY <2>2 DEF Places
  <2>4. p \in 0 .. Len(lines) /\ d.from \in 0 .. p /\ p \in Nat /\ p + Len(OldSide(h)) <= Len(lines)
    BY <1>1, <2>3 DEF Fits
  <2>5. NewSide(lines, h, p) \in Seq(Texts)
    BY <2>4, NewSideIs
  <2>6. SubSeq(lines, d.from + 1, p) \in Seq(Texts)
    BY <2>4, PartIs
  <2>7. d.out \o SubSeq(lines, d.from + 1, p) \in Seq(Texts)
    BY <1>1, <2>6, ConcatProperties
  <2>8. out \in Seq(Texts)
    BY <2>5, <2>7, ConcatProperties
  <2>9. new = [ok |-> TRUE, from |-> p + Len(OldSide(h)), out |-> out]
    BY <1>3 DEF ApplyHunk, PlaceOf
  <2> HIDE DEF out, new, p
  <2>10. /\ new \in Stage(lines) /\ new.from = p + Len(OldSide(h)) /\ new.out = out
    BY <1>1, <2>4, <2>8, <2>9 DEF Stage
  <2> QED
    BY <1>3, <2>3, <2>10 DEF out, new, p, Lands
<1> QED
    BY <1>2, <1>3

\* The stages of a section, from its first hunk to its last.
LEMMA StagesTyped ==
    ASSUME NEW lines \in Seq(Texts), NEW hunks \in Seq(Hunk)
    PROVE  /\ Len(hunks) \in Nat /\ \A i \in 1 .. Len(hunks) : hunks[i] \in Hunk
           /\ Stages(lines, hunks)[0] = Start
           /\ \A i \in 1 .. Len(hunks) :
                 Stages(lines, hunks)[i] = ApplyHunk(lines, Stages(lines, hunks)[i - 1], hunks[i])
           /\ \A i \in 0 .. Len(hunks) : Stages(lines, hunks)[i] \in Stage(lines)
<1>1. Len(hunks) \in Nat /\ Len(lines) \in Nat /\ \A i \in 1 .. Len(hunks) : hunks[i] \in Hunk
    BY LenProperties, ElementOfSeq
<1>2. Start \in Stage(lines)
  <2>1. << >> \in Seq(Texts)
    BY EmptySeq
  <2> QED
    BY <1>1, <2>1 DEF Start, Stage
<1>3. \A i \in 1 .. Len(hunks) : \A d \in Stage(lines) : ApplyHunk(lines, d, hunks[i]) \in Stage(lines)
    BY <1>1, ApplyHunkIs
<1> QED
    BY <1>1, <1>2, <1>3, StagesAre

\* When no hunk is refused each has its place, one behind the other.
LEMMA AllPlaced ==
    ASSUME NEW lines \in Seq(Texts), NEW hunks \in Seq(Hunk), Stages(lines, hunks)[Len(hunks)].ok
    PROVE  \E at \in Placements(lines, hunks) : \A i \in 1 .. Len(hunks) :
               Lands(lines, Stages(lines, hunks)[i - 1], hunks[i], at[i], Stages(lines, hunks)[i])
<1> DEFINE n == Len(hunks)
           st == Stages(lines, hunks)
           at == [i \in 1 .. n |-> PlaceOf(lines, st[i - 1], hunks[i])]
           Placed(i) == Lands(lines, st[i - 1], hunks[i], at[i], st[i])
<1>1. /\ n \in Nat /\ Len(lines) \in Nat /\ DOMAIN hunks = 1 .. n
      /\ \A i \in 1 .. n : hunks[i] \in Hunk /\ st[i] = ApplyHunk(lines, st[i - 1], hunks[i])
      /\ \A i \in 0 .. n : st[i] \in Stage(lines)
    BY StagesTyped, LenProperties
<1>0. st[n].ok
    OBVIOUS
<1> HIDE DEF st, n
<1>2. \A i \in 1 .. n : st[i].ok => st[i - 1].ok /\ Placed(i)
  <2> SUFFICES ASSUME NEW i \in 1 .. n, st[i].ok
               PROVE  st[i - 1].ok /\ Placed(i)
    OBVIOUS
  <2>1. st[i - 1] \in Stage(lines) /\ hunks[i] \in Hunk /\ st[i] = ApplyHunk(lines, st[i - 1], hunks[i])
    BY <1>1
  <2>2. at[i] = PlaceOf(lines, st[i - 1], hunks[i])
    OBVIOUS
  <2> HIDE DEF at
  <2> QED
    BY <2>1, <2>2, ApplyHunkIs
<1> HIDE DEF Placed, at
<1>3. \A i \in 0 .. n : st[i].ok
  <2> DEFINE I == {k \in 0 .. n : st[n - k].ok}
  <2>1. 0 \in I
    BY <1>0, <1>1
  <2>2. ASSUME NEW k \in 1 .. n, k - 1 \in I
        PROVE  k \in I
    <3>1. n - (k - 1) \in 1 .. n /\ (n - (k - 1)) - 1 = n - k
      BY <1>1
    <3> QED
      BY <1>1, <1>2, <2>2, <3>1
  <2> HIDE DEF I
  <2>3. \A k \in 0 .. n : k \in I
    BY <1>1, <2>1, <2>2, CountingUp
  <2>4. \A i \in 0 .. n : n - i \in 0 .. n /\ n - (n - i) = i
    BY <1>1
  <2> QED
    BY <2>3, <2>4 DEF I
<1>4. \A i \in 1 .. n : Placed(i)
  <2>1. \A i \in 1 .. n : i \in 0 .. n
    BY <1>1
  <2> QED
    BY <1>2, <1>3, <2>1
<1>5. \A i \in 0 .. n : st[i].from \in 0 .. Len(lines)
    BY <1>1 DEF Stage
<1>6. \A i \in 1 .. n : /\ at[i] \in 0 .. Len(lines) /\ st[i - 1].from <= at[i] /\ at[i] <= st[i].from
  <2> SUFFICES ASSUME NEW i \in 1 .. n
               PROVE  at[i] \in 0 .. Len(lines) /\ st[i - 1].from <= at[i] /\ at[i] <= st[i].from
    OBVIOUS
  <2>1. i - 1 \in 0 .. n /\ Len(OldSide(hunks[i])) \in Nat
    BY <1>1, OldSideIs
  <2> QED
    BY <1>1, <1>4, <1>5, <2>1 DEF Placed, Lands
<1>7. \A i, j \in 1 .. n : i < j => st[i].from <= at[j]
  <2> SUFFICES ASSUME NEW i \in 1 .. n
               PROVE  \A j \in 1 .. n : i < j => st[i].from <= at[j]
    OBVIOUS
  <2> DEFINE I == {m \in 0 .. n : i <= m => st[i].from <= st[m].from}
  <2>1. 0 \in I
    BY <1>1
  <2>2. ASSUME NEW m \in 1 .. n, m - 1 \in I
        PROVE  m \in I
    <3>1. m \in 0 .. n /\ m - 1 \in 0 .. n /\ i \in 0 .. n
      BY <1>1
    <3>2. CASE i <= m - 1
      BY <1>5, <1>6, <2>2, <3>1, <3>2
    <3>3. CASE ~(i <= m - 1)
      <4>1. i <= m => i = m
        BY <3>3
      <4> QED
        BY <1>5, <3>1, <4>1
    <3> QED
      BY <3>2, <3>3
  <2> HIDE DEF I
  <2>3. \A m \in 0 .. n : m \in I
    BY <1>1, <2>1, <2>2, CountingUp
  <2>4. ASSUME NEW j \in 1 .. n, i < j
        PROVE  st[i].from <= at[j]
    <3>1. j - 1 \in 0 .. n /\ i <= j - 1 /\ i \in 0 .. n
      BY <1>1, <2>4
    <3>2. st[i].from <= st[j - 1].from
      BY <2>3, <3>1 DEF I
    <3> QED
      BY <1>5, <1>6, <3>1, <3>2
  <2> QED
    BY <2>4
<1>8. at \in Placements(lines, hunks)
  <2>1. at \in [1 .. n -> 0 .. Len(lines)]
    BY <1>6 DEF at
  <2>2. \A i, j \in 1 .. n : i < j => at[i] + Len(OldSide(hunks[i])) <= at[j]
    BY <1>4, <1>7 DEF Placed, Lands
  <2> QED
    BY <1>1, <1>4, <2>1, <2>2 DEF Placements, Placed, Lands
<1> QED
    BY <1>4, <1>8 DEF Placed, st, n


\* The lines r hold everything from d.from on, and with what d has written
\* they make result.
Carries(lines, d, r, result) ==
    /\ r \in Seq(Texts)
    /\ Len(r) >= d.from /\ \A j \in 1 .. d.from : r[j] = lines[j]
    /\ d.out \o Rest(r, d.from) = result

\* One hunk more is put in place: the lines in front of it stay those of the
\* file, and with what has been written so far they give the same result.
LEMMA PutFits ==
    ASSUME NEW lines \in Seq(Texts), NEW r, NEW h \in Hunk, NEW p \in Nat, NEW result,
           NEW d \in Stage(lines), NEW new \in Stage(lines), Lands(lines, d, h, p, new),
           Carries(lines, new, r, result)
    PROVE  Carries(lines, d, Put(lines, r, h, p), result)
<1> DEFINE e == d.from
           q == new.from
           N == NewSide(lines, h, p)
           F == SubSeq(r, e + 1, p)
           G == SubSeq(lines, e + 1, p)
           R == Rest(r, q)
           put == Put(lines, r, h, p)
<1>0. /\ r \in Seq(Texts) /\ Len(r) >= q
      /\ \A j \in 1 .. q : r[j] = lines[j]
      /\ result = new.out \o R
    BY DEF Carries
<1>1. /\ Len(lines) \in Nat /\ Len(r) \in Nat /\ Len(OldSide(h)) \in Nat
      /\ e \in 0 .. Len(lines) /\ d.out \in Seq(Texts) /\ q \in 0 .. Len(lines)
    BY <1>0, LenProperties, OldSideIs DEF Stage
<1>2. /\ p \in e .. Len(lines) /\ q = p + Len(OldSide(h)) /\ new.out = (d.out \o G) \o N
    BY DEF Lands
<1>3. /\ q <= Len(r) /\ p <= q /\ q \in 0 .. Len(r)
      /\ p \in 0 .. Len(r) /\ e \in 0 .. p /\ p \in 0 .. Len(lines)
    BY <1>0, <1>1, <1>2
<1>4. /\ put \in Seq(Texts) /\ Len(put) >= p
      /\ \A j \in 1 .. p : put[j] = r[j]
      /\ Rest(put, e) = F \o (N \o R)
  <2>1. p + Len(OldSide(h)) <= Len(lines) /\ p + Len(OldSide(h)) <= Len(r)
    BY <1>1, <1>2, <1>3
  <2>2. \A c \in 0 .. p : Rest(put, c) =
            SubSeq(r, c + 1, p) \o (N \o Rest(r, p + Len(OldSide(h))))
    BY <1>0, <2>1, PutIs
  <2>3. /\ put \in Seq(Texts) /\ Len(put) >= p
        /\ \A j \in 1 .. p : put[j] = r[j]
    BY <1>0, <2>1, PutIs
  <2> QED
    BY <1>2, <1>3, <2>2, <2>3
<1>5. F = G
  <2>1. /\ F \in Seq(Texts) /\ Len(F) = p - e
        /\ \A i \in 1 .. p - e : F[i] = r[e + i]
    BY <1>0, <1>3, PartIs
  <2>2. /\ G \in Seq(Texts) /\ Len(G) = p - e
        /\ \A i \in 1 .. p - e : G[i] = lines[e + i]
    BY <1>3, PartIs
  <2>3. \A i \in 1 .. p - e : e + i \in 1 .. q
    BY <1>1, <1>3
  <2>4. \A i \in 1 .. p - e : F[i] = G[i]
    BY <1>0, <2>1, <2>2, <2>3
  <2> HIDE DEF F, G
  <2> QED
    BY <2>1, <2>2, <2>4, SeqEqual
<1>6. /\ G \in Seq(Texts) /\ R \in Seq(Texts) /\ N \in Seq(Texts)
  <2>1. G \in Seq(Texts)
    BY <1>3, PartIs
  <2>2. R \in Seq(Texts)
    BY <1>0, <1>3, RestIs
  <2>3. p + Len(OldSide(h)) <= Len(lines)
    BY <1>1, <1>2
  <2>4. N \in Seq(Texts)
    BY <2>3, NewSideIs
  <2> QED
    BY <2>1, <2>2, <2>4
<1>7. d.out \o Rest(put, e) = result
  <2> DEFINE o == d.out
  <2>1. o \in Seq(Texts) /\ G \in Seq(Texts) /\ N \in Seq(Texts) /\ R \in Seq(Texts)
    BY <1>1, <1>6
  <2> HIDE DEF o, G, N, R
  <2>2. Joined(Joined(Joined(o, G), N), R) = Joined(o, Joined(G, Joined(N, R)))
    BY <2>1, Regroup
  <2>3. ((o \o G) \o N) \o R = o \o (G \o (N \o R))
    BY <2>2, Zenon DEF Joined
  <2> QED
    BY <1>0, <1>2, <1>4, <1>5, <2>3, Zenon DEF o
<1>8. Len(put) >= e /\ \A j \in 1 .. e : put[j] = lines[j]
  <2>1. Len(put) \in Nat
    BY <1>4, LenProperties
  <2>2. \A j \in 1 .. e : j \in 1 .. p /\ j \in 1 .. q
    BY <1>1, <1>3
  <2> HIDE DEF put
  <2> QED
    BY <1>0, <1>1, <1>3, <1>4, <2>1, <2>2
<1> HIDE DEF put
<1>9. Carries(lines, d, put, result)
    BY <1>4, <1>7, <1>8 DEF Carries
<1> QED
    BY <1>9 DEF put

\* PatchManager's lines are those of a placement of the hunks, put in one by
\* one from the back.
LEMMA PatchedIsRead ==
    ASSUME NEW lines \in Seq(Texts), NEW hunks \in Seq(Hunk), Patched(lines, hunks) # Mismatch
    PROVE  Patched(lines, hunks) \in PatchesOf(lines, hunks)
<1> DEFINE n == Len(hunks)
           st == Stages(lines, hunks)
           new == Patched(lines, hunks)
<1>1. /\ n \in Nat /\ Len(lines) \in Nat
      /\ \A i \in 1 .. n : hunks[i] \in Hunk
      /\ st[0] = Start
      /\ \A i \in 0 .. n : st[i] \in Stage(lines)
    BY StagesTyped, LenProperties
<1>2. st[n].ok /\ new = st[n].out \o Rest(lines, st[n].from)
    BY DEF Patched, Rest
<1>3. PICK at \in Placements(lines, hunks) : \A i \in 1 .. n :
               Lands(lines, st[i - 1], hunks[i], at[i], st[i])
    BY <1>2, AllPlaced
<1> DEFINE T == [k \in 0 .. n |-> {r \in Seq(Texts) : Carries(lines, st[n - k], r, new)}]
<1> HIDE DEF st, new
<1>4. \A i \in 1 .. n : at[i] \in Nat
    BY PlacementIs
<1> HIDE DEF n
<1>5. lines \in T[0]
  <2>1. st[n].from \in 0 .. Len(lines) /\ n - 0 = n /\ 0 \in 0 .. n
    BY <1>1 DEF Stage
  <2>2. Carries(lines, st[n], lines, new)
    BY <1>1, <1>2, <2>1 DEF Carries
  <2> QED
    BY <2>1, <2>2
<1>6. ASSUME NEW k \in 1 .. n, NEW r \in T[k - 1]
      PROVE  Put(lines, r, hunks[n + 1 - k], at[n + 1 - k]) \in T[k]
  <2> DEFINE i == n + 1 - k
  <2>1. i \in 1 .. n /\ n - (k - 1) = i /\ n - k = i - 1 /\ k - 1 \in 0 .. n /\ k \in 0 .. n /\ i - 1 \in 0 .. n /\ i \in 0 .. n
    BY <1>1
  <2> HIDE DEF i
  <2>2. Carries(lines, st[i], r, new)
    BY <2>1
  <2>3. /\ at[i] \in Nat /\ hunks[i] \in Hunk /\ Lands(lines, st[i - 1], hunks[i], at[i], st[i])
        /\ st[i - 1] \in Stage(lines) /\ st[i] \in Stage(lines)
    BY <1>1, <1>3, <1>4, <2>1
  <2>4. Carries(lines, st[i - 1], Put(lines, r, hunks[i], at[i]), new)
    BY <2>2, <2>3, PutFits
  <2>5. Put(lines, r, hunks[i], at[i]) \in Seq(Texts)
    BY <2>4 DEF Carries
  <2>6. Put(lines, r, hunks[i], at[i]) \in T[k]
    BY <2>1, <2>4, <2>5
  <2> QED
    BY <2>6 DEF i
<1> HIDE DEF T
<1>7. \A k \in 0 .. n : Splices(lines, hunks, at)[k] \in T[k]
    BY <1>1, <1>5, <1>6, SplicesAre DEF n
<1> DEFINE r == Splices(lines, hunks, at)[n]
<1>8. r \in T[n]
    BY <1>1, <1>7
<1> HIDE DEF r
<1>9. r \in Seq(Texts) /\ << >> \o Rest(r, 0) = new
  <2>1. n - n = 0 /\ n \in 0 .. n
    BY <1>1
  <2>2. Carries(lines, Start, r, new)
    BY <1>1, <1>8, <2>1 DEF T
  <2> QED
    BY <2>2 DEF Carries, Start
<1>10. << >> \o Rest(r, 0) = r
  <2>1. Rest(r, 0) = r
    BY <1>9, SubSeqFull DEF Rest
  <2> QED
    BY <1>9, <2>1, ConcatEmptySeq
<1> QED
    BY <1>9, <1>10 DEF PatchesOf, r, new, n

-----------------------------------------------------------------------------
(* What the files hold, and what PatchManager makes of them.               *)

\* What a section with these hunks makes of the readings R.
Onward(R, hunks) == UNION {PatchesOf(r, hunks) : r \in R}

\* The lines of a reading are texts, and a section that names another file
\* does not count.
LEMMA ReadingIs ==
    ASSUME NEW lines \in Seq(Texts), NEW d \in Diffs \cup {<<>>}, NEW f
    PROVE  /\ Readings(lines, d, f)[0] = {lines}
           /\ \A i \in 1 .. Len(d) :
                 Readings(lines, d, f)[i] =
                     IF d[i].file # f THEN Readings(lines, d, f)[i - 1]
                     ELSE Onward(Readings(lines, d, f)[i - 1], d[i].hunks)
           /\ \A i \in 0 .. Len(d) : Readings(lines, d, f)[i] \subseteq Seq(Texts)
<1> DEFINE D == SUBSET Seq(Texts)
<1>1. Len(d) \in Nat /\ \A i \in 1 .. Len(d) : d[i].hunks \in Seq(Hunk)
    BY DiffIs
<1>2. {lines} \in D
    OBVIOUS
<1>3. ASSUME NEW i \in 1 .. Len(d), NEW R \in D
      PROVE  UNION {PatchesOf(r, d[i].hunks) : r \in R} \in D
  <2>1. \A r \in R : PatchesOf(r, d[i].hunks) \subseteq Seq(Texts)
    BY <1>1, PatchesTyped
  <2> QED
    BY <2>1
<1> HIDE DEF D
<1>4. /\ Readings(lines, d, f)[0] = {lines}
      /\ \A i \in 1 .. Len(d) :
            Readings(lines, d, f)[i] =
                IF d[i].file # f THEN Readings(lines, d, f)[i - 1]
                ELSE UNION {PatchesOf(r, d[i].hunks) : r \in Readings(lines, d, f)[i - 1]}
      /\ \A i \in 0 .. Len(d) : Readings(lines, d, f)[i] \in D
    BY <1>1, <1>2, <1>3, ReadingsAre
<1>5. \A i \in 0 .. Len(d) : Readings(lines, d, f)[i] \subseteq Seq(Texts)
    BY <1>4 DEF D
<1>6. \A i \in 1 .. Len(d) :
          Readings(lines, d, f)[i] = IF d[i].file # f THEN Readings(lines, d, f)[i - 1]
                                     ELSE Onward(Readings(lines, d, f)[i - 1], d[i].hunks)
    BY <1>4 DEF Onward
<1> QED
    BY <1>4, <1>5, <1>6

\* A section without hunks leaves the lines as they are.
LEMMA NoHunkNoChange ==
    ASSUME NEW lines \in Seq(Texts)
    PROVE  lines \in PatchesOf(lines, <<>>)
<1> DEFINE none == <<>>
           at == [i \in {} |-> 0]
           T == [k \in {0} |-> {lines}]
<1>1. Len(none) = 0 /\ DOMAIN none = {}
    OBVIOUS
<1> HIDE DEF none
<1>2. at \in Placements(lines, none)
    BY <1>1 DEF Placements
<1>3. lines \in T[0]
    OBVIOUS
<1> HIDE DEF at, T
<1>4. Len(none) \in Nat /\ \A k \in 1 .. Len(none) : FALSE
    BY <1>1
<1>5. \A k \in 0 .. Len(none) : Splices(lines, none, at)[k] \in T[k]
    BY <1>3, <1>4, SplicesAre
<1>6. Splices(lines, none, at)[0] = lines
    BY <1>1, <1>5 DEF T
<1> QED
    BY <1>1, <1>2, <1>6 DEF PatchesOf, none

\* The exact replacement makes texts, when it makes anything.
LEMMA ReplacedTyped ==
    ASSUME NEW lines \in Seq(Texts), NEW h \in Hunk
    PROVE  Replaced(lines, h) \in Seq(Texts) \cup {Mismatch}
<1> DEFINE last == h.start + HeaderCount(h) - 1
           A == SubSeq(lines, 1, h.start - 1)
           C == SubSeq(lines, last + 1, Len(lines))
<1>1. Len(lines) \in Nat /\ h.start \in Nat
    BY LenProperties, HunkIs
<1>2. HeaderCount(h) \in Nat
  <2>1. TextsOf(h, {"keep", "add"}) \in Seq(Texts)
    BY SideIs
  <2>2. Len(TextsOf(h, {"keep", "add"})) \in Nat
    BY <2>1, LenProperties
  <2> QED
    BY <2>2, OldSideIs DEF HeaderCount
<1>3. Added(h) \in Seq(Texts)
    BY SideIs DEF Added
<1>4. CASE h.start < 1 \/ h.start > Len(lines) + 1 \/ last > Len(lines)
    BY <1>4 DEF Replaced
<1>5. CASE ~(h.start < 1 \/ h.start > Len(lines) + 1 \/ last > Len(lines))
  <2>1. h.start - 1 \in 0 .. Len(lines) /\ last \in 0 .. Len(lines) /\ 0 \in 0 .. h.start - 1 /\ 0 + 1 = 1
    BY <1>1, <1>2, <1>5
  <2>2. A \in Seq(Texts)
    BY <2>1, PartIs
  <2>3. C \in Seq(Texts)
    BY <2>1, RestIs DEF Rest
  <2>4. Replaced(lines, h) = A \o Added(h) \o C
    BY <1>5 DEF Replaced
  <2> HIDE DEF A, C
  <2>5. A \o Added(h) \in Seq(Texts)
    BY <1>3, <2>2, ConcatProperties
  <2>6. (A \o Added(h)) \o C \in Seq(Texts)
    BY <2>3, <2>5, ConcatProperties
  <2> QED
    BY <2>4, <2>6
<1> QED
    BY <1>4, <1>5

\* Every path holds lines or nothing, and so does what is about to be written.
Holding ==
    /\ files \in [Files -> Content] /\ baks \in [Files -> Content]
    /\ before \in [Files -> Content]
    /\ pc = "backup" => pending.lines \in Seq(Texts) \cup {Mismatch}
    /\ pc \in {"open", "write"} => pending.lines \in Seq(Texts)

\* What PatchManager reads of a path are texts.
LEMMA LinesAre ==
    ASSUME Holding, NEW f \in Files
    PROVE  /\ LinesOf(f) \in Seq(Texts)
           /\ files[f] # Absent => files[f] \in Seq(Texts)
<1>1. files[f] \in Content
    BY DEF Holding
<1> QED
    BY <1>1, EmptySeq DEF Content, LinesOf

LEMMA InitHolding == Init => Holding
<1> SUFFICES ASSUME Init PROVE Holding
    OBVIOUS
<1>0. Absent \in Content /\ <<>> \in Content
    BY EmptySeq DEF Content
<1>1. baks \in [Files -> Content]
    BY <1>0 DEF Init
<1>2. files \in [Files -> Content] /\ before = files /\ pc = "generate"
    BY ContentsAssumption DEF Init
<1> QED
    BY <1>1, <1>2 DEF Holding

\* The steps that decide what to write.
LEMMA DecideHolding ==
    TypesInv /\ Holding /\ (PatchSection \/ ExactLineReplace) => Holding'
<1> SUFFICES ASSUME TypesInv, Holding, PatchSection \/ ExactLineReplace PROVE Holding'
    OBVIOUS
<1>1. /\ UNCHANGED <<files, baks, before>>
      /\ pc' \notin {"open", "write"}
    BY DEF PatchSection, ExactLineReplace
<1>2. /\ Len(diff) \in Nat /\ DOMAIN diff = 1 .. Len(diff)
      /\ \A i \in DOMAIN diff : diff[i].file \in Files /\ diff[i].hunks \in Seq(Hunk)
    BY DiffIs DEF TypesInv
<1>3. ASSUME PatchSection, pc' = "backup"
      PROVE  pending'.lines \in Seq(Texts) \cup {Mismatch}
  <2> DEFINE d == diff[section]
  <2>1. pending'.lines = Patched(LinesOf(d.file), d.hunks) /\ section \in 1 .. Len(diff)
    BY <1>2, <1>3 DEF PatchSection, TypesInv, Shapes
  <2>2. LinesOf(d.file) \in Seq(Texts) /\ d.hunks \in Seq(Hunk)
    BY <1>2, <2>1, LinesAre
  <2> HIDE DEF d
  <2>3. PatchesOf(LinesOf(d.file), d.hunks) \subseteq Seq(Texts)
    BY <2>2, PatchesTyped
  <2> QED
    BY <2>1, <2>2, <2>3, PatchedIsRead DEF d
<1>4. ASSUME ExactLineReplace, pc' = "backup"
      PROVE  pending'.lines \in Seq(Texts) \cup {Mismatch}
  <2> DEFINE place == CHOOSE place \in HunkPlaces(diff) : TRUE
             f == Last(diff).file
  <2>1. /\ Cardinality(HunkPlaces(diff)) = 1 /\ files[f] # Absent
        /\ pending'.lines = Replaced(files[f], HunkAt(diff, place)) /\ pending'.file = f
    BY <1>4 DEF ExactLineReplace
  <2>2. HunkPlaces(diff) # {}
    BY <2>1, FS_EmptySet
  <2>3. place \in HunkPlaces(diff)
    BY <2>2
  <2> HIDE DEF place
  <2>4. HunkAt(diff, place) \in Hunk
    <3>1. PICK i \in DOMAIN diff : place \in {i} \X DOMAIN diff[i].hunks
      BY <2>3 DEF HunkPlaces
    <3>2. HunkAt(diff, place) = diff[i].hunks[place[2]] /\ place[2] \in DOMAIN diff[i].hunks
      BY <3>1 DEF HunkAt
    <3>3. diff[i].hunks \in Seq(Hunk)
      BY <1>2
    <3> QED
      BY <3>2, <3>3, LenProperties, ElementOfSeq
  <2>5. diff # <<>>
    <3>1. ASSUME diff = <<>> PROVE FALSE
      BY <2>2, <3>1 DEF HunkPlaces
    <3> QED
      BY <3>1
  <2>6. f \in Files
    BY <1>2, <2>5 DEF Last
  <2>7. files[f] \in Seq(Texts)
    BY <2>1, <2>6, LinesAre
  <2> QED
    BY <2>1, <2>4, <2>7, ReplacedTyped
<1>5. pc' = "backup" => pending'.lines \in Seq(Texts) \cup {Mismatch}
    BY <1>3, <1>4
<1> QED
    BY <1>1, <1>5 DEF Holding

\* The steps that write a file or a backup.
LEMMA WriteHolding ==
    TypesInv /\ Holding /\ (Backup \/ Open \/ Write \/ ClearBackup \/ RestoreFile \/ RemoveBackup)
        => Holding'
<1> SUFFICES ASSUME TypesInv, Holding,
                    Backup \/ Open \/ Write \/ ClearBackup \/ RestoreFile \/ RemoveBackup
             PROVE  Holding'
    OBVIOUS
<1>1. /\ files \in [Files -> Content] /\ baks \in [Files -> Content]
      /\ before \in [Files -> Content] /\ before' = before
      /\ backups \subseteq Files
    BY DEF Holding, TypesInv, Shapes, Backup, Open, Write, ClearBackup, RestoreFile, RemoveBackup,
           service
<1>2. Absent \in Content /\ <<>> \in Content /\ \A x \in Seq(Texts) : x \in Content
    BY EmptySeq DEF Content
<1>3. CASE Backup
    BY <1>1, <1>3 DEF Backup, Holding
<1>4. CASE Open
    BY <1>1, <1>2, <1>4 DEF Open, Holding, service
<1>5. CASE Write
  <2>1. pc' \in {"section", "clear"} /\ UNCHANGED baks
    BY <1>5 DEF Write
  <2>2. files' = files \/ files' = [files EXCEPT ![pending.file] = pending.lines]
    BY <1>5 DEF Write
  <2>3. pending.lines \in Content
    BY <1>2, <1>5 DEF Write, Holding
  <2> QED
    BY <1>1, <2>1, <2>2, <2>3 DEF Holding
<1>6. CASE ClearBackup
    BY <1>1, <1>2, <1>6 DEF ClearBackup, Holding
<1>7. CASE RestoreFile
  <2>1. PICK g \in backups, left \in UNION {{baks[f], files[f], <<>>} : f \in backups} :
            left \in {baks[g], files[g], <<>>} /\ files' = [files EXCEPT ![g] = left]
    BY <1>7 DEF RestoreFile
  <2>2. left \in Content
    BY <1>1, <1>2, <2>1
  <2>3. pc' = "unlink" /\ UNCHANGED baks
    BY <1>7 DEF RestoreFile
  <2> QED
    BY <1>1, <2>1, <2>2, <2>3 DEF Holding
<1>8. CASE RemoveBackup
    BY <1>1, <1>2, <1>8 DEF RemoveBackup, Holding
<1> QED
    BY <1>3, <1>4, <1>5, <1>6, <1>7, <1>8

\* git writes readings of the diff.
LEMMA GitHolding == TypesInv /\ Holding /\ GitApply => Holding'
<1> SUFFICES ASSUME TypesInv, Holding, GitApply PROVE Holding'
    OBVIOUS
<1> DEFINE Results(f) == IF \E i \in DOMAIN diff : diff[i].file = f /\ diff[i].hunks # <<>>
                         THEN PatchedBy(LinesOf(f), diff, f) ELSE {files[f]}
<1>1. /\ files' \in [Files -> UNION {Results(f) : f \in Files}]
      /\ \A f \in Files : files'[f] \in Results(f)
    BY DEF GitApply, GitOutcomes
<1>2. ASSUME NEW f \in Files
      PROVE  Results(f) \subseteq Content
  <2>1. LinesOf(f) \in Seq(Texts) /\ files[f] \in Content
    BY LinesAre DEF Holding
  <2>2. Len(diff) \in 0 .. Len(diff) /\ diff \in Diffs \cup {<<>>}
    BY DiffIs DEF TypesInv
  <2>3. PatchedBy(LinesOf(f), diff, f) \subseteq Seq(Texts)
    BY <2>1, <2>2, ReadingIs DEF PatchedBy
  <2> QED
    BY <2>1, <2>3 DEF Content
<1> HIDE DEF Results
<1>3. files' \in [Files -> Content]
    BY <1>1, <1>2
<1>4. pc' = "reply" /\ UNCHANGED <<baks, before>>
    BY DEF GitApply, service
<1> QED
    BY <1>3, <1>4 DEF Holding

\* Whatever a step writes to a path are texts.
LEMMA NextHolding == TypesInv /\ Holding /\ [Next]_vars => Holding'
<1> SUFFICES ASSUME TypesInv, Holding, [Next]_vars PROVE Holding'
    OBVIOUS
<1>1. CASE \/ Generate \/ ProviderFails \/ FallbackExhausted \/ ProviderAnswers
           \/ ToolCallsExecuted \/ OtherToolCall \/ EndOfDiff \/ Applied \/ NextStrategy \/ GitFails
           \/ MalformedHeader \/ Caught
  <2>1. UNCHANGED <<files, baks, before>> /\ pc' \notin {"backup", "open", "write"}
    BY <1>1 DEF Generate, ProviderFails, FallbackExhausted, ProviderAnswers, ToolCallsExecuted,
                OtherToolCall, EndOfDiff, Applied, NextStrategy, GitFails, MalformedHeader, Caught,
                service
  <2> QED
    BY <2>1 DEF Holding
<1>2. CASE BlockApplyPatch \/ BeginApply \/ ReadReply
  <2>1. /\ UNCHANGED <<files, baks>> /\ before' = files
        /\ pc' \notin {"backup", "open", "write"}
    BY <1>2 DEF BlockApplyPatch, BeginApply, ReadReply, Forget
  <2> QED
    BY <2>1 DEF Holding
<1>3. CASE UNCHANGED vars
    BY <1>3 DEF Holding, vars, service
<1> QED
    BY <1>1, <1>2, <1>3, DecideHolding, WriteHolding, GitHolding DEF Next, Finished

\* The types hold, every file is lines or absent whatever strategy has written
\* it, and the request is retried at most MaxRetries times, for any files,
\* diffs, responses and bound (ExecutionKernel's loop over
\* applyPatchRetryCount, PatchManager::applyUnifiedDiff over the sections).
THEOREM TypeCorrect == Spec => []TypeOK
<1>1. TypesInv /\ Holding => TypeOK
    BY DEF TypesInv, Shapes, Holding, TypeOK
<1>2. Spec => [](TypesInv /\ Holding)
    BY InitTyped, InitHolding, NextTyped, NextHolding, PTL DEF Spec
<1> QED
    BY <1>1, <1>2, PTL

-----------------------------------------------------------------------------
(* What PatchManager has made of the files, section by section.            *)

\* The lines of a path that holds c.
Lines(c) == IF c = Absent THEN <<>> ELSE c

\* One of the first n sections of the diff d has a hunk for f.
Named(d, f, n) == \E i \in 1 .. n : d[i].file = f /\ d[i].hunks # <<>>

\* After n sections of d the path f, which held was, holds now: a reading of
\* them, and what it held before when none of them is about it.
Read(now, was, d, f, n) ==
    /\ Lines(now) \in Readings(Lines(was), d, f)[n]
    /\ IF Named(d, f, n) THEN now # Absent ELSE now = was

\* No section is behind at first.
LEMMA ReadAtFirst ==
    ASSUME NEW was \in Content, NEW d \in Diffs \cup {<<>>}, NEW f
    PROVE  Read(was, was, d, f, 0)
<1>1. Lines(was) \in Seq(Texts)
    BY EmptySeq DEF Lines, Content
<1>2. Readings(Lines(was), d, f)[0] = {Lines(was)}
    BY <1>1, ReadingIs
<1> QED
    BY <1>2 DEF Read, Named

\* A section that has no hunk for the file changes nothing.
LEMMA ReadOver ==
    ASSUME NEW was \in Content, NEW d \in Diffs \cup {<<>>}, NEW f, NEW i \in 1 .. Len(d),
           NEW now \in Content, Read(now, was, d, f, i - 1), d[i].file # f \/ d[i].hunks = <<>>
    PROVE  Read(now, was, d, f, i)
<1> DEFINE R == Readings(Lines(was), d, f)
<1>1. Len(d) \in Nat /\ Lines(was) \in Seq(Texts) /\ Lines(now) \in Seq(Texts)
    BY DiffIs, EmptySeq DEF Lines, Content
<1>2. R[i] = IF d[i].file # f THEN R[i - 1] ELSE Onward(R[i - 1], d[i].hunks)
    BY <1>1, ReadingIs
<1>3. Lines(now) \in R[i - 1]
    BY DEF Read
<1> HIDE DEF R
<1>4. Lines(now) \in R[i]
    BY <1>1, <1>2, <1>3, NoHunkNoChange DEF Onward
<1>5. Named(d, f, i) <=> Named(d, f, i - 1)
  <2>1. \A j \in 1 .. i : j = i \/ j \in 1 .. i - 1
    BY <1>1
  <2>2. \A j \in 1 .. i - 1 : j \in 1 .. i
    BY <1>1
  <2> QED
    BY <2>1, <2>2 DEF Named
<1> QED
    BY <1>4, <1>5 DEF Read, R

\* What PatchManager makes of the file with the hunks of a section.
LEMMA ReadNext ==
    ASSUME NEW was \in Content, NEW d \in Diffs \cup {<<>>}, NEW i \in 1 .. Len(d),
           NEW now \in Content, Read(now, was, d, d[i].file, i - 1),
           Patched(Lines(now), d[i].hunks) # Mismatch
    PROVE  Patched(Lines(now), d[i].hunks) \in Readings(Lines(was), d, d[i].file)[i]
<1> DEFINE R == Readings(Lines(was), d, d[i].file)
<1>1. Len(d) \in Nat /\ Lines(was) \in Seq(Texts) /\ Lines(now) \in Seq(Texts)
      /\ d[i].hunks \in Seq(Hunk)
    BY DiffIs, EmptySeq DEF Lines, Content
<1>2. R[i] = Onward(R[i - 1], d[i].hunks)
    BY <1>1, ReadingIs
<1>3. Lines(now) \in R[i - 1]
    BY DEF Read
<1>4. Patched(Lines(now), d[i].hunks) \in PatchesOf(Lines(now), d[i].hunks)
    BY <1>1, PatchedIsRead
<1> HIDE DEF R
<1>5. Patched(Lines(now), d[i].hunks) \in R[i]
    BY <1>2, <1>3, <1>4 DEF Onward
<1> QED
    BY <1>5 DEF R

\* A file that has been written is a reading of the section, and is there.
LEMMA ReadWritten ==
    ASSUME NEW was, NEW d \in Diffs \cup {<<>>}, NEW i \in 1 .. Len(d), d[i].hunks # <<>>,
           NEW now \in Seq(Texts), now \in Readings(Lines(was), d, d[i].file)[i]
    PROVE  Read(now, was, d, d[i].file, i)
<1>1. now # Absent /\ Lines(now) = now
    BY AbsentAssumption DEF Lines
<1>2. i \in 1 .. i
    BY DiffIs
<1>3. Named(d, d[i].file, i)
    BY <1>2 DEF Named
<1> QED
    BY <1>1, <1>3 DEF Read

-----------------------------------------------------------------------------
\* The sections that are behind.
Behind == IF pc = "clear" THEN Len(diff) ELSE section - 1

\* PatchManager is at work, and every write so far was a whole one.
Exact == pc \in {"section", "backup", "open", "write", "clear"} /\ strategy = 1 /\ ~short

\* Every file is a reading of the sections that are behind, but the one about to
\* be written.
AllRead ==
    Exact => \A f \in Files : \/ pc = "write" /\ f = pending.file
                              \/ Read(files[f], before[f], diff, f, Behind)

\* What is about to be written is a reading of one section more.
PendingRead ==
    Exact /\ pc \in {"backup", "open", "write"} =>
        /\ pending.file = diff[section].file /\ diff[section].hunks # <<>>
        /\ pending.lines \in Readings(Lines(before[pending.file]), diff, diff[section].file)[section]

ReadSoFar == AllRead /\ PendingRead

\* What the lemmas on the actions need of the other invariants.
LEMMA AtSection ==
    ASSUME TypesInv, Holding
    PROVE  /\ Len(diff) \in Nat /\ section \in 1 .. Len(diff) + 1 /\ section - 1 \in 0 .. Len(diff)
           /\ diff \in Diffs \cup {<<>>}
           /\ \A f \in Files : files[f] \in Content /\ before[f] \in Content
           /\ \A i \in 1 .. Len(diff) : diff[i].file \in Files /\ diff[i].hunks \in Seq(Hunk)
           /\ pc \in {"backup", "open", "write"} /\ strategy = 1 => section \in 1 .. Len(diff)
BY DiffIs DEF TypesInv, Shapes, SectionThere, Holding

\* A call begins with all sections to come.
LEMMA CallReads == TypesInv /\ Holding /\ BeginApply => ReadSoFar'
<1> SUFFICES ASSUME TypesInv, Holding, BeginApply, Exact'
             PROVE  \A f \in Files : Read(files'[f], before'[f], diff', f, Behind')
    BY DEF ReadSoFar, AllRead, PendingRead, BeginApply
<1>1. pc = "calls" /\ pc' = "section" /\ section' = section /\ diff' \in Diffs
      /\ files' = files /\ before' = files
    BY DEF BeginApply, Calling, Exact
<1>2. Behind' = 0
    BY <1>1 DEF Behind, TypesInv, SectionThere
<1>3. \A f \in Files : files[f] \in Content
    BY DEF Holding
<1> QED
    BY <1>1, <1>2, <1>3, ReadAtFirst

\* A section without hunks is behind; of another the new lines are a reading.
LEMMA SectionReads == TypesInv /\ Holding /\ ReadSoFar /\ PatchSection => ReadSoFar'
<1> SUFFICES ASSUME TypesInv, Holding, ReadSoFar, PatchSection, Exact'
             PROVE  ReadSoFar'
    BY DEF ReadSoFar, AllRead, PendingRead
<1> DEFINE d == diff[section]
<1>1. /\ pc = "section" /\ Exact
      /\ UNCHANGED <<files, before, diff, strategy, short>>
    BY DEF PatchSection, Exact, TypesInv, SectionThere
<1>2. section \in 1 .. Len(diff)
    BY AtSection DEF PatchSection
<1>3. \A f \in Files : Read(files[f], before[f], diff, f, section - 1)
    BY <1>1 DEF ReadSoFar, AllRead, Behind
<1>4. CASE d.hunks = <<>>
  <2>1. section' = section + 1 /\ pc' = "section"
    BY <1>1, <1>4 DEF PatchSection
  <2>2. \A f \in Files : Read(files[f], before[f], diff, f, section)
    BY <1>2, <1>3, <1>4, AtSection, ReadOver
  <2>3. Behind' = section
    BY <1>2, <2>1 DEF Behind
  <2> QED
    BY <1>1, <2>1, <2>2, <2>3 DEF ReadSoFar, AllRead, PendingRead
<1>5. CASE d.hunks # <<>>
  <2>1. /\ section' = section /\ pc' = "backup"
        /\ pending' = [file |-> d.file, lines |-> Patched(LinesOf(d.file), d.hunks)]
        /\ Patched(LinesOf(d.file), d.hunks) # Mismatch
    BY <1>5 DEF PatchSection, Exact
  <2>2. LinesOf(d.file) = Lines(files[d.file])
    BY DEF LinesOf, Lines
  <2>3. d.file \in Files
    BY <1>2, AtSection
  <2>4. Patched(Lines(files[d.file]), d.hunks)
            \in Readings(Lines(before[d.file]), diff, d.file)[section]
    BY <1>2, <1>3, <2>1, <2>2, <2>3, AtSection, ReadNext
  <2>5. pending'.file = d.file /\ pending'.lines = Patched(Lines(files[d.file]), d.hunks)
    BY <2>1, <2>2
  <2>6. Behind' = section - 1
    BY <2>1 DEF Behind
  <2>7. AllRead'
    BY <1>1, <1>3, <2>1, <2>6 DEF AllRead
  <2>8. PendingRead'
    BY <1>1, <1>5, <2>1, <2>4, <2>5 DEF PendingRead
  <2> QED
    BY <2>7, <2>8 DEF ReadSoFar
<1> QED
    BY <1>4, <1>5

\* The backup leaves the files alone, and opening the file only truncates it.
LEMMA OpenReads == TypesInv /\ Holding /\ ReadSoFar /\ (Backup \/ Open) => ReadSoFar'
<1> SUFFICES ASSUME TypesInv, Holding, ReadSoFar, Backup \/ Open, Exact'
             PROVE  ReadSoFar'
    BY DEF ReadSoFar, AllRead, PendingRead
<1>1. /\ pc \in {"backup", "open"} /\ pc' \in {"open", "write"} /\ Exact
      /\ UNCHANGED <<before, diff, section, strategy, short, pending>>
    BY DEF Backup, Open, Exact, service
<1>2. \A f \in Files : Read(files[f], before[f], diff, f, section - 1)
    BY <1>1 DEF ReadSoFar, AllRead, Behind
<1>3. \A f \in Files : files'[f] = files[f] \/ (pc' = "write" /\ f = pending.file)
  <2>1. CASE Backup
    BY <2>1 DEF Backup
  <2>2. CASE Open
    BY <2>2 DEF Open, Holding
  <2> QED
    BY <2>1, <2>2
<1>4. Behind' = section - 1
    BY <1>1 DEF Behind
<1>5. AllRead'
    BY <1>1, <1>2, <1>3, <1>4 DEF AllRead
<1>6. PendingRead'
    BY <1>1 DEF ReadSoFar, PendingRead
<1> QED
    BY <1>5, <1>6 DEF ReadSoFar

\* A whole write makes the file a reading of one section more.
LEMMA WriteReads == TypesInv /\ Holding /\ ReadSoFar /\ Write => ReadSoFar'
<1> SUFFICES ASSUME TypesInv, Holding, ReadSoFar, Write, Exact'
             PROVE  AllRead'
    BY DEF ReadSoFar, AllRead, PendingRead, Write
<1> DEFINE g == pending.file
<1>1. /\ pc = "write" /\ strategy = 1 /\ pc' = "section" /\ section' = section + 1
      /\ ~short /\ files' = [files EXCEPT ![g] = pending.lines]
      /\ UNCHANGED <<before, diff, strategy>>
    BY DEF Write, Exact
<1>2. Exact
    BY <1>1 DEF Exact
<1>3. section \in 1 .. Len(diff)
    BY <1>1, AtSection
<1>4. /\ g = diff[section].file /\ diff[section].hunks # <<>>
      /\ pending.lines \in Readings(Lines(before[g]), diff, diff[section].file)[section]
      /\ pending.lines \in Seq(Texts)
    BY <1>1, <1>2 DEF ReadSoFar, PendingRead, Holding
<1>5. Read(pending.lines, before[g], diff, g, section)
    BY <1>3, <1>4, AtSection, ReadWritten
<1>6. ASSUME NEW f \in Files, f # g
      PROVE  Read(files[f], before[f], diff, f, section)
  <2>1. Read(files[f], before[f], diff, f, section - 1)
    BY <1>1, <1>2, <1>6 DEF ReadSoFar, AllRead, Behind
  <2> QED
    BY <1>3, <1>4, <1>6, <2>1, AtSection, ReadOver
<1>7. Behind' = section
    BY <1>1, <1>3 DEF Behind
<1>8. \A f \in Files : files'[f] = IF f = g THEN pending.lines ELSE files[f]
    BY <1>1 DEF Holding
<1>9. \A f \in Files : Read(files'[f], before[f], diff, f, section)
    BY <1>5, <1>6, <1>8
<1> QED
    BY <1>1, <1>7, <1>9 DEF AllRead

\* At the end of the diff all sections are behind, and the backups go.
LEMMA EndReads == TypesInv /\ Holding /\ ReadSoFar /\ (EndOfDiff \/ ClearBackup) => ReadSoFar'
<1> SUFFICES ASSUME TypesInv, Holding, ReadSoFar, EndOfDiff \/ ClearBackup, Exact'
             PROVE  AllRead'
    BY DEF ReadSoFar, AllRead, PendingRead, EndOfDiff, ClearBackup
<1>1. /\ pc \in {"section", "clear"} /\ pc' = "clear" /\ Exact
      /\ UNCHANGED <<files, before, diff>>
    BY DEF EndOfDiff, ClearBackup, Exact, service
<1>2. Behind = Len(diff)
    BY <1>1, AtSection DEF Behind, EndOfDiff, ClearBackup
<1>3. \A f \in Files : Read(files[f], before[f], diff, f, Len(diff))
    BY <1>1, <1>2 DEF ReadSoFar, AllRead
<1>4. Behind' = Len(diff)
    BY <1>1 DEF Behind
<1> QED
    BY <1>1, <1>3, <1>4 DEF AllRead

\* Every step leaves the readings; most of them end the work of PatchManager.
LEMMA NextReads == TypesInv /\ Holding /\ ReadSoFar /\ [Next]_vars => ReadSoFar'
<1> SUFFICES ASSUME TypesInv, Holding, ReadSoFar, [Next]_vars PROVE ReadSoFar'
    OBVIOUS
<1>1. CASE UNCHANGED vars
    BY <1>1 DEF ReadSoFar, AllRead, PendingRead, Exact, Behind, vars, service
<1>2. CASE ~Exact'
    BY <1>2 DEF ReadSoFar, AllRead, PendingRead
<1>3. CASE \/ Generate \/ ProviderFails \/ FallbackExhausted \/ ProviderAnswers
           \/ ToolCallsExecuted \/ OtherToolCall \/ BlockApplyPatch \/ Applied
           \/ RestoreFile \/ RemoveBackup \/ NextStrategy \/ GitApply \/ GitFails \/ ReadReply
           \/ MalformedHeader \/ Caught
  <2>1. pc' \notin {"section", "backup", "open", "write", "clear"}
    BY <1>3 DEF Generate, ProviderFails, FallbackExhausted, ProviderAnswers, ToolCallsExecuted,
                OtherToolCall, BlockApplyPatch, Applied, RestoreFile, RemoveBackup, NextStrategy,
                GitApply, GitFails, ReadReply, MalformedHeader, Caught
  <2> QED
    BY <1>2, <2>1 DEF Exact
<1>4. CASE ExactLineReplace
  <2>1. strategy' = 3
    BY <1>4 DEF ExactLineReplace, TypesInv, SectionThere
  <2> QED
    BY <1>2, <2>1 DEF Exact
<1> QED
    BY <1>1, <1>3, <1>4, CallReads, SectionReads, OpenReads, WriteReads, EndReads
       DEF Next, Finished

\* What PatchManager reports as applied is a reading of the diff: each of its
\* hunks stands where its old side stood, one behind the other, section by
\* section, and nothing else of the project has changed
\* (PatchManager::applyUnifiedDiff and the search for the place of a hunk),
\* for any files, diffs, offsets and ways of comparing lines.
THEOREM AppliedIsRead == Spec => []SuccessIsExact
<1>1. Init => ReadSoFar
    BY DEF Init, ReadSoFar, AllRead, PendingRead, Exact
<1>2. TypesInv /\ Holding /\ ReadSoFar => SuccessIsExact
  <2> SUFFICES ASSUME TypesInv, Holding, ReadSoFar, pc = "clear", strategy = 1, ~short, NEW f \in Files
               PROVE  IF \E i \in DOMAIN diff : diff[i].file = f /\ diff[i].hunks # <<>>
                      THEN files[f] \in PatchedBy(IF before[f] = Absent THEN <<>> ELSE before[f], diff, f)
                      ELSE files[f] = before[f]
    BY DEF SuccessIsExact
  <2>1. Read(files[f], before[f], diff, f, Len(diff))
    BY DEF ReadSoFar, AllRead, Exact, Behind
  <2>2. Named(diff, f, Len(diff)) <=> \E i \in DOMAIN diff : diff[i].file = f /\ diff[i].hunks # <<>>
    BY DiffIs DEF Named, TypesInv
  <2> QED
    BY <2>1, <2>2 DEF Read, Lines, PatchedBy
<1>3. Spec => [](TypesInv /\ Holding /\ ReadSoFar)
    BY <1>1, InitTyped, InitHolding, NextTyped, NextHolding, NextReads, PTL DEF Spec
<1> QED
    BY <1>2, <1>3, PTL

-----------------------------------------------------------------------------
(* The order in which the providers are asked.                             *)

\* pushUnique keeps every provider with a name, once.
LEMMA PushUniqueIs ==
    ASSUME NEW S, NEW s \in Seq(S)
    PROVE  /\ PushUnique(s) \in Seq(S)
           /\ ToSet(PushUnique(s)) = ToSet(s) \ {NoProvider}
           /\ IsInjective(PushUnique(s))
<1> DEFINE I == {i \in DOMAIN s : s[i] # NoProvider /\ \A j \in 1 .. i - 1 : s[j] # s[i]}
<1>1. Len(s) \in Nat /\ DOMAIN s = 1 .. Len(s)
    BY LenProperties
<1>2. PushUnique(s) = Subsequence(s, I)
    BY DEF PushUnique
<1>3. \A i, j \in I : s[i] = s[j] => i = j
  <2> SUFFICES ASSUME NEW i \in I, NEW j \in I, i # j
               PROVE  s[i] # s[j]
    OBVIOUS
  <2>1. i \in 1 .. j - 1 \/ j \in 1 .. i - 1
    BY <1>1
  <2> QED
    BY <2>1
<1>4. \A i \in DOMAIN s : s[i] # NoProvider => \E j \in I : s[j] = s[i]
  <2> SUFFICES ASSUME NEW i \in DOMAIN s, s[i] # NoProvider
               PROVE  \E j \in I : s[j] = s[i]
    OBVIOUS
  <2> DEFINE T == {j \in DOMAIN s : s[j] = s[i]}
  <2>1. T \in SUBSET Nat /\ T # {}
    BY <1>1
  <2>2. PICK j \in T : \A h \in T : j <= h
    BY <2>1, LeastNumber
  <2>3. \A h \in 1 .. j - 1 : h \in DOMAIN s /\ h \notin T
    BY <1>1, <2>2
  <2>4. j \in I
    BY <2>3
  <2> QED
    BY <2>4
<1>5. {s[i] : i \in I} = ToSet(s) \ {NoProvider}
    BY <1>4 DEF ToSet
<1>6. I \in SUBSET DOMAIN s
    OBVIOUS
<1> HIDE DEF I
<1> QED
    BY <1>2, <1>3, <1>5, <1>6, SubsequenceIs

\* A sequence is one of its elements.
LEMMA OwnElements ==
    ASSUME NEW S, NEW s \in Seq(S)
    PROVE  s \in Seq(ToSet(s))
<1>1. Len(s) \in Nat /\ DOMAIN s = 1 .. Len(s) /\ s = [i \in 1 .. Len(s) |-> s[i]]
    OBVIOUS
<1>2. \A i \in DOMAIN s : s[i] \in ToSet(s)
    BY DEF ToSet
<1>3. s \in [1 .. Len(s) -> ToSet(s)]
    BY <1>1, <1>2
<1> QED
    BY <1>1, <1>3, SeqDef

\* The elements of a sequence.
LEMMA ElementsOf ==
    ASSUME NEW S, NEW s \in Seq(S)
    PROVE  ToSet(s) \subseteq S
BY ElementOfSeq, LenProperties DEF ToSet

LEMMA ThoseAre ==
    ASSUME NEW S, NEW s \in Seq(S), NEW wanted
    PROVE  /\ ToSet(Those(s, wanted)) \subseteq ToSet(s) \cap wanted
           /\ Those(s, wanted) \in Seq(ToSet(s) \cap wanted)
<1> DEFINE I == {i \in DOMAIN s : s[i] \in wanted}
<1>1. Those(s, wanted) = Subsequence(s, I)
    BY DEF Those
<1>2. I \in SUBSET DOMAIN s /\ {s[i] : i \in I} \subseteq ToSet(s) \cap wanted
    BY DEF ToSet
<1> HIDE DEF I
<1>3. /\ Those(s, wanted) \in Seq(S)
      /\ ToSet(Those(s, wanted)) \subseteq ToSet(s) \cap wanted
    BY <1>1, <1>2, SubsequenceIs
<1>4. Those(s, wanted) \in Seq(ToSet(Those(s, wanted)))
    BY <1>3, OwnElements
<1> QED
    BY <1>3, <1>4

\* A sequence followed by another has the elements of both.
LEMMA ConcatElements ==
    ASSUME NEW S, NEW s \in Seq(S), NEW t \in Seq(S)
    PROVE  ToSet(s \o t) = ToSet(s) \cup ToSet(t)
<1>1. /\ Len(s) \in Nat /\ DOMAIN s = 1 .. Len(s)
      /\ Len(t) \in Nat /\ DOMAIN t = 1 .. Len(t)
    BY LenProperties
<1>2. /\ DOMAIN (s \o t) = 1 .. Len(s) + Len(t)
      /\ \A i \in 1 .. Len(s) + Len(t) :
            (s \o t)[i] = IF i <= Len(s) THEN s[i] ELSE t[i - Len(s)]
    BY ConcatProperties, LenProperties
<1>3. \A i \in DOMAIN s : s[i] \in ToSet(s \o t)
    BY <1>1, <1>2 DEF ToSet
<1>4. \A i \in DOMAIN t : t[i] \in ToSet(s \o t)
  <2> SUFFICES ASSUME NEW i \in DOMAIN t
               PROVE  t[i] \in ToSet(s \o t)
    OBVIOUS
  <2>1. /\ Len(s) + i \in 1 .. Len(s) + Len(t)
        /\ ~(Len(s) + i <= Len(s)) /\ (Len(s) + i) - Len(s) = i
    BY <1>1
  <2>2. (s \o t)[Len(s) + i] = t[i]
    BY <1>2, <2>1
  <2> QED
    BY <1>2, <2>1, <2>2 DEF ToSet
<1>5. \A i \in DOMAIN (s \o t) : (s \o t)[i] \in ToSet(s) \cup ToSet(t)
  <2> SUFFICES ASSUME NEW i \in 1 .. Len(s) + Len(t)
               PROVE  (s \o t)[i] \in ToSet(s) \cup ToSet(t)
    BY <1>2
  <2>1. CASE i <= Len(s)
    BY <1>1, <1>2, <2>1 DEF ToSet
  <2>2. CASE ~(i <= Len(s))
    <3>1. i - Len(s) \in DOMAIN t
      BY <1>1, <2>2
    <3> QED
      BY <1>2, <2>2, <3>1 DEF ToSet
  <2> QED
    BY <2>1, <2>2
<1> QED
    BY <1>3, <1>4, <1>5 DEF ToSet

\* The candidates are the available providers, each once.
LEMMA CandidatesAre ==
    ASSUME NEW ctx \in Contexts
    PROVE  /\ BuildCandidateProviders(ctx) \in Seq(ToSet(ctx.available))
           /\ ToSet(BuildCandidateProviders(ctx)) = ToSet(ctx.available)
           /\ IsInjective(BuildCandidateProviders(ctx))
<1> DEFINE av == ctx.available
           P == ToSet(av) \cup {NoProvider}
           ofRole == Those(ctx.role, ToSet(av))
           p == PreferredProviderFor(ctx)
           d == DefaultProviderFor(ctx)
           s == ofRole \o <<p>> \o Locals(av) \o <<d>>
<1>1. /\ av \in Seq(ToSet(av) \ {NoProvider}) /\ ctx.role \in Seq(ToSet(ctx.role))
    BY ContextsAssumption
<1>2. ToSet(av) \subseteq ToSet(av) \ {NoProvider}
    BY <1>1, ElementsOf
<1>0. \A A, B : A \subseteq B => Seq(A) \subseteq Seq(B)
    OBVIOUS
<1>3. /\ ToSet(ofRole) \subseteq ToSet(av) /\ ofRole \in Seq(P)
  <2>1. ofRole \in Seq(ToSet(ctx.role) \cap ToSet(av))
    BY <1>1, ThoseAre
  <2> QED
    BY <1>1, <2>1, ThoseAre, <1>0
<1>4. /\ ToSet(Locals(av)) \subseteq ToSet(av) /\ Locals(av) \in Seq(P)
  <2>1. Locals(av) \in Seq(ToSet(av) \cap LocalProviders)
    BY <1>1, ThoseAre DEF Locals
  <2>2. ToSet(Locals(av)) \subseteq ToSet(av)
    BY <1>1, ThoseAre DEF Locals
  <2> QED
    BY <2>1, <2>2, <1>0
<1>5. av \in Seq(P)
    BY <1>1, <1>2, <1>0
<1>6. \A x : Contains(av, x) => x \in ToSet(av)
    BY <1>5, LenProperties DEF Contains, ToSet
<1>7. \A q \in Seq(P) : q # <<>> => Head(q) \in ToSet(q)
    BY DEF ToSet
<1>8. p \in P
    BY <1>4, <1>6, <1>7 DEF PreferredProviderFor
<1>9. d \in P
    BY <1>5, <1>6, <1>7 DEF DefaultProviderFor
<1> HIDE DEF P, p, d, av, ofRole
<1>10. s \in Seq(P) /\ s \o av \in Seq(P)
    BY <1>3, <1>4, <1>5, <1>8, <1>9
<1> HIDE DEF s
<1>11. ToSet(s \o av) = ToSet(s) \cup ToSet(av)
    BY <1>5, <1>10, ConcatElements
<1>12. ToSet(s) \subseteq P
    BY <1>10, ElementsOf
<1>13. ToSet(s \o av) \ {NoProvider} = ToSet(av)
    BY <1>2, <1>11, <1>12 DEF P
<1>14. BuildCandidateProviders(ctx) = PushUnique(s \o av)
    BY DEF BuildCandidateProviders, s, ofRole, p, d, av
<1>15. /\ PushUnique(s \o av) \in Seq(P)
       /\ ToSet(PushUnique(s \o av)) = ToSet(av)
       /\ IsInjective(PushUnique(s \o av))
    BY <1>10, <1>13, PushUniqueIs
<1>16. PushUnique(s \o av) \in Seq(ToSet(PushUnique(s \o av)))
    BY <1>15, OwnElements
<1> QED
    BY <1>14, <1>15, <1>16 DEF av

-----------------------------------------------------------------------------
\* While providers are asked, those asked and those to be asked are together
\* the available ones, each once.
Asking ==
    pc = "ask" =>
        /\ candidates \in Seq(ToSet(available))
        /\ asked \in Seq(ToSet(available))
        /\ IsInjective(asked \o candidates)
        /\ ToSet(asked \o candidates) = ToSet(available)

LEMMA GenerateAsks == Generate => Asking'
<1> SUFFICES ASSUME Generate PROVE Asking'
    OBVIOUS
<1>1. PICK ctx \in Contexts : /\ available' = ctx.available
                              /\ candidates' = BuildCandidateProviders(ctx)
    BY DEF Generate
<1>2. asked' = <<>>
    BY DEF Generate
<1>3. candidates' \in Seq(ToSet(available'))
    BY <1>1, CandidatesAre
<1>4. asked' \o candidates' = candidates'
    BY <1>2, <1>3, ConcatEmptySeq
<1>5. asked' \in Seq(ToSet(available'))
    BY <1>2
<1> QED
    BY <1>1, <1>3, <1>4, <1>5, CandidatesAre DEF Asking

\* An error is always one that asks the next provider.
LEMMA NextIsAsked == Asking /\ ProviderFails => Asking'
<1> SUFFICES ASSUME Asking, ProviderFails PROVE Asking'
    OBVIOUS
<1> DEFINE A == ToSet(available)
<1>1. /\ candidates \in Seq(A) /\ candidates # <<>> /\ asked \in Seq(A)
    BY DEF Asking, ProviderFails
<1>2. /\ asked' = Append(asked, Head(candidates)) /\ candidates' = Tail(candidates)
      /\ pc' = pc /\ available' = available
    BY DEF ProviderFails, FailureCode, IsRetryableFailure
<1> HIDE DEF A
<1>3. asked' \in Seq(A) /\ candidates' \in Seq(A)
    BY <1>1, <1>2
<1>4. asked' \o candidates' = asked \o candidates
    BY <1>1, <1>2
<1> QED
    BY <1>2, <1>3, <1>4 DEF Asking, A

LEMMA NextAsking == Asking /\ [Next]_vars => Asking'
<1> SUFFICES ASSUME Asking, [Next]_vars PROVE Asking'
    OBVIOUS
<1>1. CASE Generate
    BY <1>1, GenerateAsks
<1>2. CASE ProviderFails
    BY <1>2, NextIsAsked
<1>3. CASE UNCHANGED vars
    BY <1>3 DEF Asking, vars, asking
<1>4. CASE pc' # "ask"
    BY <1>4 DEF Asking
<1>5. pc' # "ask" \/ Generate \/ ProviderFails \/ UNCHANGED vars
    BY DEF Next, FallbackExhausted, ProviderAnswers, ToolCallsExecuted, OtherToolCall,
           BlockApplyPatch, BeginApply, Calling, PatchSection, EndOfDiff, Backup, Open, Write, ClearBackup,
           Applied, RestoreFile, RemoveBackup, NextStrategy, GitApply, GitFails,
           ExactLineReplace, MalformedHeader, Caught, ReadReply, Finished
<1> QED
    BY <1>1, <1>2, <1>3, <1>4, <1>5

\* A request is given up only after every available provider was asked, once
\* (MultiModelOrchestrator::generate over buildCandidateProviders), for any
\* contexts, routing tables and local providers.
THEOREM AllAreAsked == Spec => []EveryProviderAsked
<1>1. Init => Asking
    BY DEF Init, Asking
<1>2. Asking => EveryProviderAsked
  <2> SUFFICES ASSUME Asking, pc = "ask", candidates = <<>>
               PROVE  ToSet(asked) = ToSet(available) /\ IsInjective(asked)
    BY DEF EveryProviderAsked
  <2>1. asked \o candidates = asked
    BY ConcatEmptySeq DEF Asking
  <2> QED
    BY <2>1 DEF Asking
<1> QED
    BY <1>1, <1>2, NextAsking, PTL DEF Spec
=============================================================================

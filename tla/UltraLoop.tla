------------------------------ MODULE UltraLoop ------------------------------
(***************************************************************************)
(* The cognitive loop: UltraLoop::run (ultra_loop.cpp) with the stages     *)
(* CognitiveRuntime::run binds to it (CognitiveRuntime.cpp), the recovery  *)
(* decisions of failure_recovery.cpp, the chain of micro_planner.cpp and   *)
(* what ExecutionKernel.cpp remembers of failures.                         *)
(*                                                                         *)
(* The loop is one thread; a step here is one turn of its switch, or one   *)
(* task of a batch.  The world decides what a turn finds: how many tasks   *)
(* are planned, what governance says, how a task and the build end, what   *)
(* episodic memory suggests, whether the plan left the intent.             *)
(***************************************************************************)
EXTENDS TaskGraph, Sequences

CONSTANTS MaxTasks,         \* payloads a strategy has, at most
          MaxIterations,    \* config.maxIterations
          MaxRetries,       \* config.maxRetriesPerIteration
          Window            \* config.maxStagnationIterations

ASSUME LoopAssumption ==
    /\ {MaxTasks, MaxIterations, MaxRetries} \subseteq Nat
    /\ MaxTasks > 0 /\ MaxIterations > 0
    /\ Window \in Nat /\ Window > 1

VARIABLES
    state,          \* where the loop is
    iterations,     \* report.iterations
    retryCount,     \* frame.retryCount: retries of this iteration
    retries,        \* report.retries: retries of the run
    payloads,       \* tasks the strategy proposes
    graph,          \* frame.taskGraph
    batch,          \* ready tasks EXECUTE still has to run
    exec,           \* frame.executionResult: "none", "ok", or how it failed
    execId,         \* frame.executionId, as a set of at most one task
    intel,          \* tasks whose failure the kernel's global store explains
    repair,         \* the repair context of the frame
    verified,       \* frame.verificationPassed
    reanchor,       \* frame.reanchorRequested
    history,        \* goal distances the convergence tracker keeps
    report,         \* success, and whether the cap ended the run
    remembered      \* the iteration of the last memory checkpoint

work    == <<payloads, graph, batch, exec, execId, intel>>
verdict == <<verified, reanchor>>
outcome == <<history, report, remembered>>
budget  == <<iterations, retryCount, retries>>
vars    == <<state, budget, work, repair, verdict, outcome>>

LoopStates == {"PLAN", "ARBITRATION", "MICRO_PLAN", "EXECUTE", "RUN",
               "PARTIAL_REPAIR", "VERIFY", "REFLECT", "RE_ANCHOR", "REPLAN",
               "TERMINATE", "DONE"}

\* How the kernel may report a failure: the classes of classify, with the
\* validation errors that were rolled back apart, and governance's refusal.
FailureClasses == {"critical", "dependency", "validation", "rolledBack",
                   "transient"}
Failures == FailureClasses \cup {"blocked"}

NoRepair   == [tasks |-> {}, decision |-> ""]
Decisions  == {"RETRY_TASK", "VERIFY_RETRY", "SKIP_TASK"}
Ids        == {Planned(n) : n \in 1..(MaxTasks + 1)}
                  \cup {RepairOf(Planned(n)) : n \in 1..(MaxTasks + 1)}

TypeOK ==
    /\ state \in LoopStates
    /\ iterations \in 0..MaxIterations
    /\ retryCount \in 0..MaxRetries
    /\ retries \in Nat
    /\ payloads \in 0..MaxTasks
    /\ Nodes(graph) \subseteq Ids
    /\ graph.deps \in [Nodes(graph) -> SUBSET Nodes(graph)]
    /\ graph.state \in [Nodes(graph) -> TaskStates]
    /\ batch \subseteq Nodes(graph)
    /\ exec \in {"none", "ok"} \cup Failures
    /\ execId \subseteq Ids
    /\ intel \subseteq Ids
    /\ repair \in [tasks : SUBSET Ids, decision : Decisions \cup {""}]
    /\ {verified, reanchor} \subseteq BOOLEAN
    /\ history \in Seq(Nat) /\ Len(history) <= Window
    /\ report \in [success : BOOLEAN, cap : BOOLEAN]
    /\ remembered \in 0..MaxIterations

Init ==
    /\ state = "PLAN"
    /\ iterations = 0 /\ retryCount = 0 /\ retries = 0
    /\ payloads = 0 /\ graph = EmptyGraph /\ batch = {}
    /\ exec = "none" /\ execId = {} /\ intel = {}
    /\ repair = NoRepair
    /\ verified = FALSE /\ reanchor = FALSE
    /\ history = <<>>
    /\ report = [success |-> FALSE, cap |-> FALSE]
    /\ remembered = 0

-----------------------------------------------------------------------------
\* Mutant of Decide: a transient failure is retried whatever the budget.
DecideGenerously(result, hint) ==
    IF hint # "" THEN hint
    ELSE IF result \in {"transient", "none"} THEN "RETRY_TASK" ELSE "REPLAN_REQUIRED"

\* RecoveryEngine::decide.  hint is what episodic memory suggests, "" when it
\* suggests nothing.  A result that is missing counts as transient.
Decide(result, hint) ==
    LET retry == IF retryCount < MaxRetries THEN "RETRY_TASK" ELSE "REPLAN_REQUIRED"
    IN IF result = "ok" THEN "REPLAN_REQUIRED"
       ELSE IF hint # "" THEN IF hint = "RETRY_TASK" THEN retry ELSE hint
       ELSE CASE result = "critical"                   -> "ABORT_LOOP"
              [] result \in {"dependency", "rolledBack"} -> "REPLAN_REQUIRED"
              [] result = "validation"                 -> "SKIP_TASK"
              [] OTHER                                 -> retry

Hints == {"", "RETRY_TASK", "SKIP_TASK", "REPLAN_REQUIRED"}

Goto(next) == state' = next

Schedule(tasks, decision) ==
    /\ repair' = [tasks |-> tasks, decision |-> decision]
    /\ Goto("PARTIAL_REPAIR")

ClearWork ==
    /\ graph' = EmptyGraph /\ batch' = {}
    /\ exec' = "none" /\ execId' = {}
    /\ reanchor' = FALSE

-----------------------------------------------------------------------------
\* PLAN: a new iteration, unless the cap is reached.  A strategy without
\* payloads asks for replanning.
Plan ==
    /\ state = "PLAN"
    /\ IF iterations >= MaxIterations
       THEN /\ report' = [success |-> FALSE, cap |-> TRUE]
            /\ Goto("TERMINATE")
            /\ UNCHANGED <<budget, work, repair, verdict, history, remembered>>
       ELSE /\ iterations' = iterations + 1 /\ retryCount' = 0
            /\ \E n \in 0..MaxTasks :
                  /\ payloads' = n
                  /\ Goto(IF n = 0 THEN "REPLAN" ELSE "ARBITRATION")
            /\ ClearWork
            /\ repair' = NoRepair /\ verified' = FALSE
            /\ UNCHANGED <<retries, intel, outcome>>

\* ARBITRATION keeps one payload of those with the same target.
Arbitrate ==
    /\ state = "ARBITRATION"
    /\ payloads' \in 1..payloads
    /\ Goto("MICRO_PLAN")
    /\ UNCHANGED <<budget, graph, batch, exec, execId, intel, repair, verdict, outcome>>

\* MICRO_PLAN: the intent's own task first, then the payloads.
MicroPlan ==
    /\ state = "MICRO_PLAN"
    /\ graph' = Chain(payloads + 1)
    /\ Goto("EXECUTE")
    /\ UNCHANGED <<budget, payloads, batch, exec, execId, intel, repair, verdict, outcome>>

-----------------------------------------------------------------------------
\* EXECUTE when governance refuses: the recovery stage decides on the last
\* result, and only a retry within the budget comes back here.
GovernanceRefuses ==
    /\ state = "EXECUTE"
    /\ LET action == Decide(exec, "")
       IN /\ IF action = "RETRY_TASK"
             THEN /\ graph' = Refresh([graph EXCEPT !.state =
                        [t \in Nodes(graph) |->
                            IF @[t] = "FAILED" THEN "PENDING" ELSE @[t]]])
                  /\ retryCount' = retryCount + 1 /\ retries' = retries + 1
             ELSE UNCHANGED <<graph, retryCount, retries>>
          /\ Goto(CASE action = "RETRY_TASK" -> "EXECUTE"
                    [] action = "ABORT_LOOP" -> "TERMINATE"
                    [] action \in {"SKIP_TASK", "REPLAN_REQUIRED"} -> "REPLAN")
    /\ UNCHANGED <<iterations, payloads, batch, exec, execId, intel, repair, verdict, outcome>>

\* EXECUTE when governance approves: the ready tasks, if any, are run.
Execute ==
    /\ state = "EXECUTE"
    /\ graph' = Refresh(graph)
    /\ batch' = Ready(graph')
    /\ IF batch' # {} THEN Goto("RUN") /\ UNCHANGED repair
       ELSE IF AllDone(graph') THEN Goto("VERIFY") /\ UNCHANGED repair
       ELSE IF Failed(graph') # {} /\ retryCount < MaxRetries
            THEN Schedule(Failed(graph'), "RETRY_TASK")
            ELSE Goto("REPLAN") /\ UNCHANGED repair
    /\ UNCHANGED <<budget, payloads, exec, execId, intel, verdict, outcome>>

Running == {t \in Nodes(graph) : graph.state[t] = "RUNNING"}

\* One task of the batch is handed to the kernel.
StartTask(t) ==
    /\ state = "RUN" /\ t \in batch /\ Running = {}
    /\ IF graph.state[t] = "READY"
       THEN graph' = [graph EXCEPT !.state[t] = "RUNNING"] /\ UNCHANGED <<state, batch>>
       ELSE UNCHANGED graph /\ batch' = {} /\ Goto("REPLAN")
    /\ UNCHANGED <<budget, payloads, exec, execId, intel, repair, verdict, outcome>>

\* What the kernel remembers: only of actions, of which known says whether the
\* failure has a type.  It knows the intent's task by another name.
Remember(t, result, known) ==
    intel' = IF t = Planned(1) THEN intel
             ELSE (intel \ {t}) \cup IF result # "ok" /\ known THEN {t} ELSE {}

TaskSucceeds(t) ==
    /\ state = "RUN" /\ t \in Running
    /\ graph' = Mark(graph, t, "COMPLETED")
    /\ batch' = batch \ {t}
    /\ exec' = "ok" /\ execId' = {t}
    /\ Remember(t, "ok", FALSE)
    /\ IF batch' # {} THEN UNCHANGED state
       ELSE Goto(IF AllDone(graph') THEN "VERIFY" ELSE "EXECUTE")
    /\ UNCHANGED <<budget, payloads, repair, verdict, outcome>>

\* A failure ends the batch, and the recovery engine says what becomes of it.
TaskFails(t, result, hint, known) ==
    /\ state = "RUN" /\ t \in Running
    /\ graph' = Mark(graph, t, "FAILED")
    /\ batch' = {}
    /\ exec' = result /\ execId' = {t}
    /\ Remember(t, result, known)
    /\ LET action == IF result = "blocked" THEN "REPLAN_REQUIRED"
                     ELSE Decide(result, hint)
       IN IF action \in {"RETRY_TASK", "SKIP_TASK"} THEN Schedule({t}, action)
          ELSE /\ UNCHANGED repair
               /\ Goto(IF action = "ABORT_LOOP" THEN "TERMINATE" ELSE "REPLAN")
    /\ UNCHANGED <<budget, payloads, verdict, outcome>>

-----------------------------------------------------------------------------
IsRetry == repair.decision \in {"RETRY_TASK", "VERIFY_RETRY"}

\* What PARTIAL_REPAIR makes of the overlay: a graph, and whether any task was
\* repaired.
Repaired ==
    LET o == CreateOverlay(graph, repair.tasks, intel)
    IN IF IsRetry
       THEN [graph |-> Reopened(graph, o, repair.tasks).graph,
             done  |-> ToReopen(graph, o, repair.tasks) # {}]
       ELSE LET t == CHOOSE task \in repair.tasks : TRUE
                reset == ResetForSkip(graph, o, t)
            IN [graph |-> OverlayMark(reset, {t}, "COMPLETED").graph,
                done  |-> CanSkip(reset, t)]

\* Mutant of PartialRepair: a repair does not count as a retry.
PartialRepairUncounted ==
    /\ state = "PARTIAL_REPAIR"
    /\ repair' = NoRepair
    /\ graph' = Refresh(Repaired.graph)
    /\ exec' = "none" /\ execId' = {}
    /\ Goto("EXECUTE")
    /\ UNCHANGED <<budget, payloads, batch, intel, verdict, outcome>>

\* PARTIAL_REPAIR: the overlay is merged, or the loop plans again.
PartialRepair ==
    /\ state = "PARTIAL_REPAIR"
    /\ repair' = NoRepair
    /\ IF /\ repair.tasks \cap Nodes(graph) # {}
          /\ IsRetry => retryCount < MaxRetries
          /\ Repaired.done
          /\ IsDag(Repaired.graph)
       THEN /\ graph' = Refresh(Repaired.graph)
            /\ exec' = "none" /\ execId' = {}
            /\ IF IsRetry
               THEN retryCount' = retryCount + 1 /\ retries' = retries + 1
               ELSE UNCHANGED <<retryCount, retries>>
            /\ Goto("EXECUTE")
       ELSE UNCHANGED <<graph, exec, execId, retryCount, retries>> /\ Goto("REPLAN")
    /\ UNCHANGED <<iterations, payloads, batch, intel, verdict, outcome>>

-----------------------------------------------------------------------------
\* VERIFY: the workspace builds and its tests pass, or not.
VerifyPasses ==
    /\ state = "VERIFY" /\ AllDone(graph)
    /\ verified' = TRUE /\ exec' = "ok"
    /\ Goto("REFLECT")
    /\ UNCHANGED <<budget, payloads, graph, batch, execId, intel, repair, reanchor, outcome>>

\* A retry repairs the failed tasks, or else the one that ran last.  Nobody
\* reads the class of the failure that VERIFY writes.
VerifyFails ==
    /\ state = "VERIFY"
    /\ exec' = IF AllDone(graph) THEN "transient" ELSE exec
    /\ LET tasks == IF Failed(graph) # {} THEN Failed(graph) ELSE execId
       IN IF retryCount < MaxRetries /\ tasks # {}
          THEN Schedule(tasks, "VERIFY_RETRY")
          ELSE UNCHANGED repair /\ Goto("REPLAN")
    /\ UNCHANGED <<budget, payloads, graph, batch, execId, intel, verdict, outcome>>

GoalDistance ==
    Cardinality(Failed(graph)) + (IF AllDone(graph) THEN 0 ELSE 1)
        + (IF verified THEN 0 ELSE 1) + (IF exec \in {"none", "ok"} THEN 0 ELSE 1)

\* Mutant of Converged: one verified iteration is enough.
ConvergedAtOnce(samples) == Len(samples) > 0

\* The distance did not shrink over the window.  The other three triggers of
\* evaluate want a full window too, and there this one holds already.
Converged(samples) ==
    /\ Len(samples) >= Window
    /\ \A i \in (Len(samples) - Window + 2)..Len(samples) :
          samples[i] >= samples[i - 1]

\* The convergence tracker forgets what is older than its window.
Observed ==
    LET all == Append(history, GoalDistance)
    IN IF Len(all) > Window THEN Tail(all) ELSE all

\* REFLECT: a checkpoint; then the plan left the intent, or it is observed, and
\* the loop ends when the observations converge.
Reflect ==
    /\ state = "REFLECT"
    /\ remembered' = iterations
    /\ \/ /\ reanchor' = TRUE
          /\ Goto("RE_ANCHOR")
          /\ UNCHANGED <<history, report>>
       \/ /\ reanchor' = FALSE
          /\ history' = Observed
          /\ report' = [report EXCEPT !.success = Converged(Observed)]
          /\ Goto(IF Converged(Observed) THEN "TERMINATE" ELSE "PLAN")
    /\ UNCHANGED <<budget, work, repair, verified>>

\* RE_ANCHOR drops the plan and goes back to the first intent.
ReAnchor ==
    /\ state = "RE_ANCHOR"
    /\ retryCount' = 0 /\ payloads' = 0
    /\ ClearWork
    /\ Goto("PLAN")
    /\ UNCHANGED <<iterations, retries, intel, repair, verified, outcome>>

\* Mutant of Replan: no checkpoint.
ReplanForgets ==
    /\ state = "REPLAN"
    /\ Goto("PLAN")
    /\ UNCHANGED <<budget, work, repair, verdict, outcome>>

Replan ==
    /\ state = "REPLAN"
    /\ remembered' = iterations
    /\ IF iterations >= MaxIterations
       THEN Goto("TERMINATE") /\ report' = [success |-> FALSE, cap |-> TRUE]
       ELSE Goto("PLAN") /\ UNCHANGED report
    /\ UNCHANGED <<budget, work, repair, verdict, history>>

\* TERMINATE: a checkpoint if the run had none.
Terminate ==
    /\ state = "TERMINATE"
    /\ remembered' = IF remembered = 0 THEN iterations ELSE remembered
    /\ Goto("DONE")
    /\ UNCHANGED <<budget, work, repair, verdict, history, report>>

\* run has returned its report.
Returned == state = "DONE" /\ UNCHANGED vars

-----------------------------------------------------------------------------
Next ==
    \/ Plan \/ Arbitrate \/ MicroPlan
    \/ GovernanceRefuses \/ Execute
    \/ \E t \in Nodes(graph) :
          \/ StartTask(t) \/ TaskSucceeds(t)
          \/ \E result \in Failures, hint \in Hints, known \in BOOLEAN :
                TaskFails(t, result, hint, known)
    \/ PartialRepair
    \/ VerifyPasses \/ VerifyFails
    \/ Reflect \/ ReAnchor \/ Replan \/ Terminate
    \/ Returned

\* Every stage returns, so the loop's thread goes on until run returns.  This is
\* WF_vars(Next) with its ENABLED written out: the absence of deadlocks, which
\* TLC checks, says that a step can be taken in every state but "DONE", and TLC
\* evaluates the overlays of PartialRepair very slowly under ENABLED.
Progress == []<>(state = "DONE") \/ []<><<Next>>_vars

Spec == Init /\ [][Next]_vars /\ Progress

-----------------------------------------------------------------------------
(* A task that is done has everything it waits for done: no overlay leaves *)
(* a completed task above work it reopened, nor above a repair of its own  *)
(* that has not run (create_repair_overlay, reopen_task, mark_completed).  *)
DoneInOrder ==
    \A t \in Nodes(graph) : graph.state[t] \in {"RUNNING", "COMPLETED"} =>
        \A d \in graph.deps[t] : graph.state[d] = "COMPLETED"

(* A retry of a repaired task has a repair graph to be accepted: no number *)
(* of repairs of the same task makes the overlay fail its verification, so *)
(* a retry within the budget always goes back to EXECUTE.                  *)
RetryIsAccepted ==
    state = "PARTIAL_REPAIR" /\ IsRetry => Repaired.done /\ IsDag(Repaired.graph)

(* A repair is partial: what was done stays done, except the tasks that    *)
(* were asked for, what follows them, and their repairs.                   *)
RepairIsPartial ==
    [][PartialRepair =>
          \A t \in Nodes(graph) :
              /\ graph.state[t] = "COMPLETED"
              /\ t \notin Downstream(graph, repair.tasks)
              /\ t \notin {RepairOf(u) : u \in repair.tasks}
              => graph'.state[t] = "COMPLETED"]_vars

(* Retries are bounded over the whole run, by the budget of an iteration   *)
(* times the iterations, whichever of governance, tasks and verification   *)
(* asked for them.                                                         *)
RetriesWithinBudget == retries <= MaxRetries * iterations

(* No plan is made before memory has taken the checkpoint of the iteration *)
(* before it, whichever way that ended.                                    *)
PlansAreRemembered == state = "PLAN" => remembered = iterations

(* The run only succeeds on a passed verification that is not the first:   *)
(* one iteration alone never counts as convergence.                        *)
SuccessIsConfirmed ==
    report.success => /\ verified /\ AllDone(graph) /\ iterations >= Window
                      /\ ~report.cap

(* The loop ends, whatever fails, and however often.                       *)
LoopEnds == <>(state = "DONE")
=============================================================================

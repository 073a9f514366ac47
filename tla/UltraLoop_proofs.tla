--------------------------- MODULE UltraLoop_proofs ---------------------------
(***************************************************************************)
(* Proofs about the cognitive loop, for any number of tasks, iterations    *)
(* and retries.  Those about retries, checkpoints and the report rest on   *)
(* how far an iteration has come (LoopInv, SuccessInv); those about the    *)
(* order of the tasks and their repairs on the task graph (OrderInv).      *)
(***************************************************************************)
EXTENDS UltraLoop, FiniteSetTheorems, WellFoundedInduction, TLAPS

\* Where the loop is while an iteration still has its own retries to spend.
InIteration == {"ARBITRATION", "MICRO_PLAN", "EXECUTE", "RUN", "PARTIAL_REPAIR",
                "VERIFY", "REFLECT", "RE_ANCHOR", "REPLAN"}

CounterTypes ==
    /\ state \in LoopStates
    /\ iterations \in Nat
    /\ retryCount \in 0..MaxRetries
    /\ retries \in Nat

\* RetriesWithinBudget is not inductive: retries taken in this iteration come out
\* of a share that is only full when the iteration begins.  The retries it has
\* left, MaxRetries - retryCount, stay reserved while it lasts.
ShareReserved ==
    state \in InIteration =>
        retries + (MaxRetries - retryCount) <= MaxRetries * iterations

Checkpointed == state \in {"PLAN", "RE_ANCHOR"} => remembered = iterations

LoopInv == CounterTypes /\ RetriesWithinBudget /\ ShareReserved /\ Checkpointed

LEMMA InitLoopInv == Init => LoopInv
BY LoopAssumption
   DEF Init, LoopInv, CounterTypes, RetriesWithinBudget, ShareReserved,
       Checkpointed, LoopStates, InIteration

\* What the recovery engine answers, and that it only has a task retried when
\* the iteration has a retry left.
LEMMA DecideAnswers ==
    ASSUME NEW result, NEW hint \in Hints
    PROVE  /\ Decide(result, hint) \in {"RETRY_TASK", "SKIP_TASK", "REPLAN_REQUIRED", "ABORT_LOOP"}
           /\ Decide(result, hint) = "RETRY_TASK" => retryCount < MaxRetries
BY DEF Decide, Hints

\* A step inside an iteration that spends no retry.
LEMMA NothingSpent ==
    ASSUME LoopInv, state \in InIteration, UNCHANGED budget,
           state' \in (InIteration \ {"RE_ANCHOR"}) \cup {"TERMINATE"}
    PROVE  LoopInv'
BY LoopAssumption
   DEF LoopInv, CounterTypes, RetriesWithinBudget, ShareReserved, Checkpointed,
       LoopStates, InIteration, budget

\* A step inside an iteration that spends one.
LEMMA OneSpent ==
    ASSUME LoopInv, state \in InIteration, retryCount < MaxRetries,
           retryCount' = retryCount + 1, retries' = retries + 1,
           UNCHANGED iterations, state' = "EXECUTE"
    PROVE  LoopInv'
  <1> DEFINE all == MaxRetries * iterations
  <1>1. all \in Nat
    BY LoopAssumption DEF LoopInv, CounterTypes
  <1>2. retries + (MaxRetries - retryCount) <= all
    BY DEF LoopInv, ShareReserved
  <1>3. MaxRetries * iterations' = all
    OBVIOUS
  <1> HIDE DEF all
  <1>4. /\ retries' + (MaxRetries - retryCount') <= all
        /\ retries' <= all
    BY <1>1, <1>2, LoopAssumption DEF LoopInv, CounterTypes
  <1> QED
    BY <1>3, <1>4, LoopAssumption
    DEF LoopInv, CounterTypes, RetriesWithinBudget, ShareReserved, Checkpointed,
        LoopStates, InIteration

\* A new iteration brings its own share of retries.
LEMMA PlanKeeps == ASSUME LoopInv, Plan PROVE LoopInv'
  <1>1. CASE iterations >= MaxIterations
    BY <1>1, LoopAssumption
    DEF Plan, Goto, budget, LoopInv, CounterTypes, RetriesWithinBudget,
        ShareReserved, Checkpointed, LoopStates, InIteration
  <1>2. CASE ~(iterations >= MaxIterations)
    <2>1. /\ iterations' = iterations + 1 /\ retryCount' = 0 /\ retries' = retries
          /\ state' \in {"REPLAN", "ARBITRATION"}
      BY <1>2 DEF Plan, Goto
    <2>2. MaxRetries * iterations' = MaxRetries * iterations + MaxRetries
      BY <2>1, LoopAssumption DEF LoopInv, CounterTypes
    <2>3. MaxRetries * iterations \in Nat
      BY LoopAssumption DEF LoopInv, CounterTypes
    <2>4. /\ retries' + (MaxRetries - retryCount') <= MaxRetries * iterations'
          /\ retries' <= MaxRetries * iterations'
      BY <2>1, <2>2, <2>3, LoopAssumption
      DEF LoopInv, CounterTypes, RetriesWithinBudget
    <2> QED
      BY <2>1, <2>4, LoopAssumption
      DEF LoopInv, CounterTypes, RetriesWithinBudget, ShareReserved,
          Checkpointed, LoopStates, InIteration
  <1> QED
    BY <1>1, <1>2

LEMMA GovernanceRefusesKeeps == ASSUME LoopInv, GovernanceRefuses PROVE LoopInv'
  <1> DEFINE action == Decide(exec, "")
  <1>1. /\ action \in {"RETRY_TASK", "SKIP_TASK", "REPLAN_REQUIRED", "ABORT_LOOP"}
        /\ action = "RETRY_TASK" => retryCount < MaxRetries
    BY DecideAnswers DEF Hints
  <1>2. state \in InIteration /\ iterations' = iterations
    BY DEF GovernanceRefuses, InIteration
  <1>3. CASE action = "RETRY_TASK"
    <2>1. /\ retryCount' = retryCount + 1 /\ retries' = retries + 1
          /\ state' = "EXECUTE"
      BY <1>3 DEF GovernanceRefuses, Goto
    <2> QED
      BY <1>1, <1>2, <1>3, <2>1, OneSpent
  <1>4. CASE action # "RETRY_TASK"
    <2>1. UNCHANGED <<retryCount, retries>> /\ state' \in {"TERMINATE", "REPLAN"}
      BY <1>1, <1>4 DEF GovernanceRefuses, Goto
    <2> QED
      BY <1>2, <2>1, NothingSpent DEF budget, InIteration
  <1> QED
    BY <1>3, <1>4

LEMMA PartialRepairKeeps == ASSUME LoopInv, PartialRepair PROVE LoopInv'
  <1>1. state = "PARTIAL_REPAIR" /\ iterations' = iterations
    BY DEF PartialRepair
  <1>2. CASE UNCHANGED <<retryCount, retries>>
    <2>1. state' \in {"EXECUTE", "REPLAN"}
      BY DEF PartialRepair, Goto
    <2> QED
      BY <1>1, <1>2, <2>1, NothingSpent DEF budget, InIteration
  <1>3. CASE ~UNCHANGED <<retryCount, retries>>
    <2>1. /\ retryCount < MaxRetries
          /\ retryCount' = retryCount + 1 /\ retries' = retries + 1
          /\ state' = "EXECUTE"
      BY <1>3 DEF PartialRepair, Goto
    <2> QED
      BY <1>1, <2>1, OneSpent DEF InIteration
  <1> QED
    BY <1>2, <1>3

LEMMA TaskFailsKeeps ==
    ASSUME LoopInv, NEW t, NEW result, NEW hint \in Hints, NEW known,
           TaskFails(t, result, hint, known)
    PROVE  LoopInv'
  <1>1. state \in InIteration /\ UNCHANGED budget
    BY DEF TaskFails, InIteration
  <1>2. state' \in {"PARTIAL_REPAIR", "TERMINATE", "REPLAN"}
    BY DEF TaskFails, Schedule, Goto
  <1> QED
    BY <1>1, <1>2, NothingSpent DEF InIteration

\* Every step keeps the invariant.
LEMMA NextKeepsLoopInv == ASSUME LoopInv, [Next]_vars PROVE LoopInv'
  <1>1. CASE Plan
    BY <1>1, PlanKeeps
  <1>2. CASE Arbitrate \/ MicroPlan
    <2>1. UNCHANGED budget /\ state \in InIteration /\ state' \in {"MICRO_PLAN", "EXECUTE"}
      BY <1>2 DEF Arbitrate, MicroPlan, Goto, InIteration
    <2> QED
      BY <2>1, NothingSpent DEF InIteration
  <1>3. CASE GovernanceRefuses
    BY <1>3, GovernanceRefusesKeeps
  <1>4. CASE Execute
    <2>1. UNCHANGED budget /\ state \in InIteration
      BY <1>4 DEF Execute, InIteration
    <2>2. state' \in {"RUN", "VERIFY", "PARTIAL_REPAIR", "REPLAN"}
      BY <1>4 DEF Execute, Schedule, Goto
    <2> QED
      BY <2>1, <2>2, NothingSpent DEF InIteration
  <1>5. ASSUME NEW t, StartTask(t) \/ TaskSucceeds(t) PROVE LoopInv'
    <2>1. UNCHANGED budget /\ state = "RUN"
      BY <1>5 DEF StartTask, TaskSucceeds
    <2>2. state' \in {"RUN", "REPLAN", "VERIFY", "EXECUTE"}
      BY <1>5, <2>1 DEF StartTask, TaskSucceeds, Goto
    <2> QED
      BY <2>1, <2>2, NothingSpent DEF InIteration
  <1>6. ASSUME NEW t, NEW result, NEW hint \in Hints, NEW known,
               TaskFails(t, result, hint, known)
        PROVE  LoopInv'
    BY <1>6, TaskFailsKeeps
  <1>7. CASE PartialRepair
    BY <1>7, PartialRepairKeeps
  <1>8. CASE VerifyPasses \/ VerifyFails
    <2>1. UNCHANGED budget /\ state \in InIteration
      BY <1>8 DEF VerifyPasses, VerifyFails, InIteration
    <2>2. state' \in {"REFLECT", "PARTIAL_REPAIR", "REPLAN"}
      BY <1>8 DEF VerifyPasses, VerifyFails, Schedule, Goto
    <2> QED
      BY <2>1, <2>2, NothingSpent DEF InIteration
  <1>9. CASE Reflect
    BY <1>9, LoopAssumption
    DEF Reflect, Goto, budget, LoopInv, CounterTypes, RetriesWithinBudget,
        ShareReserved, Checkpointed, LoopStates, InIteration
  <1>10. CASE ReAnchor
    BY <1>10, LoopAssumption
    DEF ReAnchor, Goto, outcome, LoopInv, CounterTypes, RetriesWithinBudget,
        ShareReserved, Checkpointed, LoopStates, InIteration
  <1>11. CASE Replan
    BY <1>11, LoopAssumption
    DEF Replan, Goto, budget, LoopInv, CounterTypes, RetriesWithinBudget,
        ShareReserved, Checkpointed, LoopStates, InIteration
  <1>12. CASE Terminate
    BY <1>12, LoopAssumption
    DEF Terminate, Goto, budget, LoopInv, CounterTypes, RetriesWithinBudget,
        ShareReserved, Checkpointed, LoopStates, InIteration
  <1>13. CASE UNCHANGED vars
    BY <1>13
    DEF vars, budget, outcome, LoopInv, CounterTypes, RetriesWithinBudget,
        ShareReserved, Checkpointed
  <1> QED
    BY <1>1, <1>2, <1>3, <1>4, <1>5, <1>6, <1>7, <1>8, <1>9, <1>10, <1>11,
       <1>12, <1>13
    DEF Next, Returned
-----------------------------------------------------------------------------
THEOREM LoopInvariant == Spec => []LoopInv
  <1>1. Init => LoopInv
    BY InitLoopInv
  <1>2. LoopInv /\ [Next]_vars => LoopInv'
    BY NextKeepsLoopInv
  <1> QED
    BY <1>1, <1>2, PTL DEF Spec

(* The retries of a run are bounded, for every number of tasks, iterations *)
(* and retries (dispatchRecovery, PARTIAL_REPAIR, PLAN, RE_ANCHOR).        *)
THEOREM RetriesBounded == Spec => []RetriesWithinBudget
  <1>1. LoopInv => RetriesWithinBudget
    BY DEF LoopInv
  <1> QED
    BY <1>1, LoopInvariant, PTL

(* No plan is made before the checkpoint of the iteration before it        *)
(* (runMemoryCheckpoint in REFLECT and REPLAN).                            *)
THEOREM PlansRemembered == Spec => []PlansAreRemembered
  <1>1. LoopInv => PlansAreRemembered
    BY DEF LoopInv, Checkpointed, PlansAreRemembered
  <1> QED
    BY <1>1, LoopInvariant, PTL
-----------------------------------------------------------------------------
\* SuccessIsConfirmed rests on how many distances have been observed: at most one
\* in each iteration, and none in the one that has yet to reflect.
Unreflected == {"ARBITRATION", "MICRO_PLAN", "EXECUTE", "RUN", "PARTIAL_REPAIR",
                "VERIFY", "REFLECT"}

ObservedInTime ==
    /\ \E S : history \in Seq(S)
    /\ Len(history) <= iterations
    /\ state \in Unreflected => Len(history) < iterations

ReflectsOnSuccess == state = "REFLECT" => verified /\ AllDone(graph)

\* The report is blank until the loop terminates.
Undecided ==
    /\ report \in [success : BOOLEAN, cap : BOOLEAN]
    /\ state \notin {"TERMINATE", "DONE"} => ~report.success /\ ~report.cap

SuccessInv ==
    /\ CounterTypes
    /\ ObservedInTime /\ ReflectsOnSuccess /\ Undecided /\ SuccessIsConfirmed

LEMMA InitSuccessInv == Init => SuccessInv
  <1> SUFFICES ASSUME Init PROVE SuccessInv
    OBVIOUS
  <1>1. history \in Seq({}) /\ Len(history) = 0
    BY DEF Init
  <1> QED
    BY <1>1, LoopAssumption
    DEF Init, SuccessInv, CounterTypes, ObservedInTime, ReflectsOnSuccess,
        Undecided, SuccessIsConfirmed, LoopStates, Unreflected

\* A step that leaves what was observed and the report alone, and neither ends
\* the run nor skips the verification.
LEMMA NothingDecided ==
    ASSUME SuccessInv, CounterTypes', UNCHANGED <<history, report, iterations>>,
           state \notin {"TERMINATE", "DONE"},
           state' \in Unreflected => state \in Unreflected,
           state' = "REFLECT" => verified' /\ AllDone(graph')
    PROVE  SuccessInv'
BY DEF SuccessInv, ObservedInTime, ReflectsOnSuccess, Undecided,
       SuccessIsConfirmed, AllDone, Nodes

\* The tracker keeps a sequence, one longer at most.
LEMMA ObservedGrowsByOne ==
    ASSUME NEW S, history \in Seq(S)
    PROVE  /\ \E T : Observed \in Seq(T)
           /\ Len(Observed) \in Nat /\ Len(Observed) <= Len(history) + 1
  <1> DEFINE all == Append(history, GoalDistance)
             T   == S \cup {GoalDistance}
  <1>1. history \in Seq(T) /\ GoalDistance \in T
    OBVIOUS
  <1>2. all \in Seq(T) /\ Len(all) = Len(history) + 1 /\ Len(history) \in Nat
    <2> HIDE DEF T
    <2> QED  BY <1>1
  <1>3. all # <<>>
    BY <1>2
  <1>4. Tail(all) \in Seq(T) /\ Len(Tail(all)) = Len(history)
    <2> HIDE DEF T, all
    <2> QED  BY <1>2, <1>3
  <1>5. Observed = IF Len(all) > Window THEN Tail(all) ELSE all
    BY DEF Observed
  <1> HIDE DEF T, all
  <1> QED
    BY <1>2, <1>4, <1>5

LEMMA ReflectConfirms == ASSUME SuccessInv, CounterTypes', Reflect PROVE SuccessInv'
  <1>1. verified /\ AllDone(graph) /\ state = "REFLECT"
    BY DEF SuccessInv, ReflectsOnSuccess, Reflect
  <1>2. UNCHANGED <<verified, graph, iterations>>
    BY DEF Reflect, budget, work
  <1>3. CASE UNCHANGED <<history, report>> /\ state' = "RE_ANCHOR"
    BY <1>1, <1>2, <1>3, NothingDecided DEF Unreflected
  <1>4. CASE /\ history' = Observed
             /\ report' = [report EXCEPT !.success = Converged(Observed)]
             /\ state' = IF Converged(Observed) THEN "TERMINATE" ELSE "PLAN"
    <2>1. PICK S : history \in Seq(S)
      BY DEF SuccessInv, ObservedInTime
    <2>2. /\ \E T : history' \in Seq(T)
          /\ Len(history') \in Nat /\ Len(history') <= Len(history) + 1
      BY <1>4, <2>1, ObservedGrowsByOne
    <2>3. Len(history) \in Nat /\ Len(history) < iterations
      BY <1>1, <2>1 DEF SuccessInv, ObservedInTime, Unreflected
    <2>4. Len(history') <= iterations'
      BY <1>2, <2>2, <2>3 DEF SuccessInv, CounterTypes
    <2>5. ObservedInTime'
      BY <1>4, <2>2, <2>4 DEF ObservedInTime, Unreflected
    <2>6. Converged(Observed) \in BOOLEAN
      BY DEF Converged
    <2>7. /\ report' \in [success : BOOLEAN, cap : BOOLEAN]
          /\ report'.success = Converged(Observed) /\ ~report'.cap
      BY <1>1, <1>4, <2>6 DEF SuccessInv, Undecided
    <2>8. Undecided' /\ ReflectsOnSuccess'
      BY <1>4, <2>7 DEF Undecided, ReflectsOnSuccess
    <2>9. SuccessIsConfirmed'
      <3>1. Converged(Observed) => Len(history') >= Window
        BY <1>4 DEF Converged
      <3>2. AllDone(graph') /\ verified'
        BY <1>1, <1>2 DEF AllDone, Nodes
      <3> QED
        BY <2>2, <2>4, <2>7, <3>1, <3>2, <1>2, LoopAssumption
        DEF SuccessIsConfirmed, SuccessInv, CounterTypes
    <2> QED
      BY <2>5, <2>8, <2>9 DEF SuccessInv
  <1> QED
    BY <1>3, <1>4 DEF Reflect, Goto

\* The cap ends a run without success.
LEMMA CapDecides ==
    ASSUME SuccessInv, CounterTypes', UNCHANGED <<history, iterations>>,
           state \notin Unreflected,
           report' = [success |-> FALSE, cap |-> TRUE], state' = "TERMINATE"
    PROVE  SuccessInv'
BY DEF SuccessInv, ObservedInTime, ReflectsOnSuccess, Undecided,
       SuccessIsConfirmed, Unreflected

LEMMA NextKeepsSuccessInv ==
    ASSUME SuccessInv, CounterTypes', [Next]_vars PROVE SuccessInv'
  <1>1. CASE Plan
    <2>1. CASE iterations >= MaxIterations
      BY <1>1, <2>1, CapDecides DEF Plan, Goto, budget, Unreflected
    <2>2. CASE ~(iterations >= MaxIterations)
      <3>1. /\ iterations' = iterations + 1 /\ UNCHANGED <<history, report>>
            /\ state = "PLAN" /\ state' \in {"REPLAN", "ARBITRATION"}
        BY <1>1, <2>2 DEF Plan, Goto, outcome
      <3>2. \E S : history \in Seq(S)
        BY DEF SuccessInv, ObservedInTime
      <3>3. Len(history) \in Nat
        BY <3>2
      <3> QED
        BY <3>1, <3>2, <3>3
        DEF SuccessInv, CounterTypes, ObservedInTime, ReflectsOnSuccess,
            Undecided, SuccessIsConfirmed, Unreflected
    <2> QED
      BY <2>1, <2>2
  <1>2. CASE Arbitrate \/ MicroPlan
    <2>1. /\ UNCHANGED <<history, report, iterations>>
          /\ state \in Unreflected \ {"REFLECT"} /\ state' \in {"MICRO_PLAN", "EXECUTE"}
      BY <1>2 DEF Arbitrate, MicroPlan, Goto, budget, outcome, Unreflected
    <2> QED
      BY <2>1, NothingDecided DEF Unreflected
  <1>3. CASE GovernanceRefuses
    <2>1. Decide(exec, "") \in {"RETRY_TASK", "SKIP_TASK", "REPLAN_REQUIRED", "ABORT_LOOP"}
      BY DecideAnswers DEF Hints
    <2>2. state' \in {"EXECUTE", "TERMINATE", "REPLAN"}
      BY <1>3, <2>1 DEF GovernanceRefuses, Goto
    <2>3. state = "EXECUTE" /\ UNCHANGED <<history, report, iterations>>
      BY <1>3 DEF GovernanceRefuses, outcome
    <2> QED
      BY <2>2, <2>3, NothingDecided DEF Unreflected
  <1>4. CASE Execute
    <2>1. state' \in {"RUN", "VERIFY", "PARTIAL_REPAIR", "REPLAN"}
      BY <1>4 DEF Execute, Schedule, Goto
    <2>2. state = "EXECUTE" /\ UNCHANGED <<history, report, iterations>>
      BY <1>4 DEF Execute, outcome, budget
    <2> QED
      BY <2>1, <2>2, NothingDecided DEF Unreflected
  <1>5. ASSUME NEW t, StartTask(t) \/ TaskSucceeds(t) PROVE SuccessInv'
    <2>1. state = "RUN" /\ UNCHANGED <<history, report, iterations>>
      BY <1>5 DEF StartTask, TaskSucceeds, budget, outcome
    <2>2. state' \in {"RUN", "REPLAN", "VERIFY", "EXECUTE"}
      BY <1>5, <2>1 DEF StartTask, TaskSucceeds, Goto
    <2> QED
      BY <2>1, <2>2, NothingDecided DEF Unreflected
  <1>6. ASSUME NEW t, NEW result, NEW hint, NEW known, TaskFails(t, result, hint, known)
        PROVE  SuccessInv'
    <2>1. state = "RUN" /\ UNCHANGED <<history, report, iterations>>
      BY <1>6 DEF TaskFails, budget, outcome
    <2>2. state' \in {"PARTIAL_REPAIR", "TERMINATE", "REPLAN"}
      BY <1>6 DEF TaskFails, Schedule, Goto
    <2> QED
      BY <2>1, <2>2, NothingDecided DEF Unreflected
  <1>7. CASE PartialRepair
    <2>1. state = "PARTIAL_REPAIR" /\ UNCHANGED <<history, report, iterations>>
      BY <1>7 DEF PartialRepair, outcome
    <2>2. state' \in {"EXECUTE", "REPLAN"}
      BY <1>7 DEF PartialRepair, Goto
    <2> QED
      BY <2>1, <2>2, NothingDecided DEF Unreflected
  <1>8. CASE VerifyPasses
    <2>1. state = "VERIFY" /\ UNCHANGED <<history, report, iterations>>
      BY <1>8 DEF VerifyPasses, outcome, budget
    <2>2. verified' /\ AllDone(graph')
      BY <1>8 DEF VerifyPasses, AllDone, Nodes
    <2> QED
      BY <2>1, <2>2, NothingDecided DEF Unreflected
  <1>9. CASE VerifyFails
    <2>1. state = "VERIFY" /\ UNCHANGED <<history, report, iterations>>
      BY <1>9 DEF VerifyFails, outcome, budget
    <2>2. state' \in {"PARTIAL_REPAIR", "REPLAN"}
      BY <1>9 DEF VerifyFails, Schedule, Goto
    <2> QED
      BY <2>1, <2>2, NothingDecided DEF Unreflected
  <1>10. CASE Reflect
    BY <1>10, ReflectConfirms
  <1>11. CASE ReAnchor
    BY <1>11, NothingDecided DEF ReAnchor, Goto, outcome, Unreflected
  <1>12. CASE Replan
    <2>1. CASE iterations >= MaxIterations
      BY <1>12, <2>1, CapDecides DEF Replan, Goto, budget, Unreflected
    <2>2. CASE ~(iterations >= MaxIterations)
      BY <1>12, <2>2, NothingDecided DEF Replan, Goto, budget, Unreflected
    <2> QED
      BY <2>1, <2>2
  <1>13. CASE Terminate \/ UNCHANGED vars
    <2>1. /\ UNCHANGED <<history, report, iterations, verified, graph>>
          /\ (state' = "DONE" /\ state = "TERMINATE") \/ state' = state
      BY <1>13 DEF Terminate, Goto, budget, work, verdict, outcome, vars
    <2>2. AllDone(graph') = AllDone(graph)
      BY <2>1 DEF AllDone, Nodes
    <2> QED
      BY <2>1, <2>2
      DEF SuccessInv, ObservedInTime, ReflectsOnSuccess, Undecided,
          SuccessIsConfirmed, Unreflected
  <1> QED
    BY <1>1, <1>2, <1>3, <1>4, <1>5, <1>6, <1>7, <1>8, <1>9, <1>10, <1>11,
       <1>12, <1>13
    DEF Next, Returned

(* A run that reports success ends on a verified graph with every task     *)
(* done, after at least Window iterations, and not by its cap (REFLECT,    *)
(* the convergence tracker, handleTerminalSignal).                         *)
THEOREM SuccessConfirmed == Spec => []SuccessIsConfirmed
  <1>1. Init => SuccessInv
    BY InitSuccessInv
  <1>2. LoopInv' => CounterTypes'
    BY DEF LoopInv
  <1>3. SuccessInv /\ LoopInv' /\ [Next]_vars => SuccessInv'
    BY <1>2, NextKeepsSuccessInv
  <1>4. SuccessInv => SuccessIsConfirmed
    BY DEF SuccessInv
  <1> QED
    BY <1>1, <1>3, <1>4, LoopInvariant, PTL DEF Spec
-----------------------------------------------------------------------------
\* Types.  A graph has two fields, and so has an overlay; a batch never
\* outlives the graph it was taken from.
IsGraph(g) ==
    /\ g = [deps |-> g.deps, state |-> g.state]
    /\ Nodes(g) \subseteq Ids
    /\ g.deps \in [Nodes(g) -> SUBSET Nodes(g)]
    /\ g.state \in [Nodes(g) -> TaskStates]

NoBatchYet == state \in {"ARBITRATION", "MICRO_PLAN"} => batch = {}

LoopTypes == TypeOK /\ IsGraph(graph) /\ NoBatchYet

LEMMA WithStates ==
    ASSUME NEW g, IsGraph(g), NEW st \in [Nodes(g) -> TaskStates]
    PROVE  IsGraph([g EXCEPT !.state = st]) /\ Nodes([g EXCEPT !.state = st]) = Nodes(g)
<1>1. [g EXCEPT !.state = st] = [deps |-> g.deps, state |-> st]
    BY DEF IsGraph
<1> QED
    BY <1>1 DEF IsGraph, Nodes

LEMMA RefreshedGraph ==
    ASSUME NEW g, IsGraph(g), NEW S
    PROVE  IsGraph(Refreshed(g, S)) /\ Nodes(Refreshed(g, S)) = Nodes(g)
<1> DEFINE st == [t \in Nodes(g) |->
                     IF t \notin S \/ g.state[t] \in {"COMPLETED", "FAILED", "RUNNING"}
                     THEN g.state[t]
                     ELSE IF \A d \in g.deps[t] : g.state[d] = "COMPLETED"
                          THEN "READY" ELSE "PENDING"]
<1>1. st \in [Nodes(g) -> TaskStates]
    BY DEF IsGraph, TaskStates
<1>2. Refreshed(g, S) = [g EXCEPT !.state = st]
    BY DEF Refreshed
<1> HIDE DEF st
<1>3. IsGraph([g EXCEPT !.state = st]) /\ Nodes([g EXCEPT !.state = st]) = Nodes(g)
    BY <1>1, WithStates
<1> QED
    BY <1>2, <1>3

LEMMA RefreshGraph ==
    ASSUME NEW g, IsGraph(g)
    PROVE  IsGraph(Refresh(g)) /\ Nodes(Refresh(g)) = Nodes(g)
BY RefreshedGraph DEF Refresh

LEMMA OneState ==
    ASSUME NEW g, IsGraph(g), NEW t \in Nodes(g), NEW s \in TaskStates
    PROVE  /\ IsGraph([g EXCEPT !.state[t] = s]) /\ Nodes([g EXCEPT !.state[t] = s]) = Nodes(g)
           /\ IsGraph(Mark(g, t, s)) /\ Nodes(Mark(g, t, s)) = Nodes(g)
<1>1. [g EXCEPT !.state[t] = s] = [g EXCEPT !.state = [g.state EXCEPT ![t] = s]]
    BY DEF IsGraph
<1>2. [g.state EXCEPT ![t] = s] \in [Nodes(g) -> TaskStates]
    BY DEF IsGraph
<1> QED
    BY <1>1, <1>2, WithStates, RefreshGraph DEF Mark

LEMMA RepairIsId == \A t \in Ids : RepairOf(t) \in Ids
BY DEF Ids, RepairOf, Planned

LEMMA ChainGraph ==
    ASSUME NEW n \in 1 .. MaxTasks + 1 PROVE IsGraph(Chain(n))
<1> DEFINE ids == {Planned(k) : k \in 1 .. n}
           g   == [deps  |-> [t \in ids |-> {Planned(k) : k \in {t[1] - 1} \ {0}}],
                   state |-> [t \in ids |-> "PENDING"]]
<1>1. Nodes(g) = ids
    BY DEF Nodes
<1>2. ids \subseteq Ids
    BY LoopAssumption DEF Ids
<1>3. ASSUME NEW t \in ids PROVE {Planned(k) : k \in {t[1] - 1} \ {0}} \subseteq ids
    <2>1. PICK m \in 1 .. n : t = Planned(m)
        BY <1>3
    <2>2. t[1] = m
        BY <2>1 DEF Planned
    <2>3. \A k \in {m - 1} \ {0} : k \in 1 .. n
        BY <2>1
    <2> QED
        BY <2>2, <2>3
<1>4. g.deps \in [ids -> SUBSET ids]
    BY <1>3
<1>5. g.state \in [ids -> TaskStates]
    BY DEF TaskStates
<1>6. g = [deps |-> g.deps, state |-> g.state]
    OBVIOUS
<1>7. Chain(n) = Refresh(g)
    BY DEF Chain
<1> HIDE DEF g, ids
<1>8. IsGraph(g)
    BY <1>1, <1>2, <1>4, <1>5, <1>6 DEF IsGraph
<1> QED
    BY <1>7, <1>8, RefreshGraph

\* The tasks that are repaired, and the repair tasks made for them.
RepairedTasks(base, ids, known) ==
    {t \in ids \cap Nodes(base) : t \in known \/ base.state[t] # "FAILED"}

Fresh(base, ids, known) == {RepairOf(t) : t \in RepairedTasks(base, ids, known)}

\* What a task of an overlay waits for.
OverlayDeps(base, ids, known, t, deps) ==
    \/ /\ t \in RepairedTasks(base, ids, known) \ Fresh(base, ids, known)
       /\ deps = base.deps[t] \cup {RepairOf(t)}
    \/ \E u \in RepairedTasks(base, ids, known) \ Fresh(base, ids, known) :
           t = RepairOf(u) /\ deps = base.deps[u] \ {t}
    \/ /\ t \in Nodes(base) /\ deps = base.deps[t]
       /\ t \notin RepairedTasks(base, ids, known) \ Fresh(base, ids, known)
       /\ \A u \in RepairedTasks(base, ids, known) \ Fresh(base, ids, known) : t # RepairOf(u)

LEMMA OverlayMade ==
    ASSUME NEW base, IsGraph(base), NEW ids, NEW known
    PROVE  \E g :
               /\ IsGraph(g) /\ Nodes(g) = Nodes(base) \cup Fresh(base, ids, known)
               /\ CreateOverlay(base, ids, known) =
                      LET affected == Downstream(base, ids \cap Nodes(base))
                                          \cup Fresh(base, ids, known)
                      IN  [graph |-> Refreshed(g, affected), affected |-> affected]
               /\ \A t \in Nodes(g) :
                      /\ OverlayDeps(base, ids, known, t, g.deps[t])
                      /\ g.state[t] = IF t \in Fresh(base, ids, known)
                                      THEN "PENDING" ELSE base.state[t]
<1> DEFINE asked    == ids \cap Nodes(base)
           repaired == {t \in asked : t \in known \/ base.state[t] # "FAILED"}
           fresh    == {RepairOf(t) : t \in repaired}
           split    == repaired \ fresh
           nodes    == Nodes(base) \cup fresh
           affected == Downstream(base, asked) \cup fresh
           depsOf(t) == IF t \in split THEN base.deps[t] \cup {RepairOf(t)}
                        ELSE IF \E u \in split : t = RepairOf(u)
                             THEN base.deps[CHOOSE u \in split : t = RepairOf(u)] \ {t}
                             ELSE base.deps[t]
           deps     == [t \in nodes |-> depsOf(t)]
           states   == [t \in nodes |-> IF t \in fresh THEN "PENDING" ELSE base.state[t]]
           g        == [deps |-> deps, state |-> states]
<1>1. CreateOverlay(base, ids, known) = [graph |-> Refreshed(g, affected), affected |-> affected]
    BY DEF CreateOverlay
<1>2. nodes \subseteq Ids
    BY RepairIsId DEF IsGraph
<1>3. \A t \in split : t \in Nodes(base) /\ RepairOf(t) \in nodes
    OBVIOUS
<1>4. \A t \in Nodes(base) : base.deps[t] \subseteq nodes
    BY DEF IsGraph
<1>5. ASSUME NEW t \in nodes PROVE depsOf(t) \subseteq nodes /\ OverlayDeps(base, ids, known, t, depsOf(t))
    <2>1. CASE t \in split
        <3>1. depsOf(t) = base.deps[t] \cup {RepairOf(t)} /\ depsOf(t) \subseteq nodes
            BY <1>3, <1>4, <2>1
        <3> HIDE DEF depsOf
        <3> QED
            BY <2>1, <3>1 DEF OverlayDeps, RepairedTasks, Fresh
    <2>2. CASE t \notin split /\ \E u \in split : t = RepairOf(u)
        <3> DEFINE v == CHOOSE u \in split : t = RepairOf(u)
        <3>1. v \in split
            BY <2>2
        <3>2. depsOf(t) = base.deps[v] \ {t}
            BY <2>2
        <3>3. t = RepairOf(v)
            BY <2>2
        <3> HIDE DEF v, nodes, depsOf
        <3>4. depsOf(t) \subseteq nodes
            BY <1>3, <1>4, <3>1, <3>2
        <3> QED
            BY <3>1, <3>2, <3>3, <3>4 DEF OverlayDeps, RepairedTasks, Fresh
    <2>3. CASE t \notin split /\ ~\E u \in split : t = RepairOf(u)
        <3>1. t \in Nodes(base)
            <4>1. SUFFICES ASSUME t \in fresh PROVE t \in Nodes(base)
                OBVIOUS
            <4>2. PICK u \in repaired : t = RepairOf(u)
                BY <4>1
            <4>3. u \in fresh
                BY <2>3, <4>2
            <4>4. PICK w \in repaired : u = RepairOf(w)
                BY <4>3
            <4>5. t = u
                BY <4>2, <4>4 DEF RepairOf
            <4> QED
                BY <4>2, <4>5
        <3>2. depsOf(t) = base.deps[t]
            BY <2>3
        <3> HIDE DEF nodes, depsOf
        <3> QED
            BY <1>4, <2>3, <3>1, <3>2 DEF OverlayDeps, RepairedTasks, Fresh
    <2> QED
        BY <2>1, <2>2, <2>3
<1>6. deps \in [nodes -> SUBSET nodes]
    <2> HIDE DEF nodes, depsOf
    <2> QED
        BY <1>5
<1>7. states \in [nodes -> TaskStates]
    BY DEF IsGraph, TaskStates
<1>8. fresh = Fresh(base, ids, known)
    BY DEF Fresh, RepairedTasks
<1>9. /\ \A t \in nodes : OverlayDeps(base, ids, known, t, deps[t])
      /\ \A t \in nodes : states[t] = IF t \in fresh THEN "PENDING" ELSE base.state[t]
      /\ affected = Downstream(base, ids \cap Nodes(base)) \cup fresh
      /\ nodes = Nodes(base) \cup fresh
    BY <1>5
<1> HIDE DEF nodes, deps, states, affected, fresh
<1>10. IsGraph(g) /\ Nodes(g) = nodes /\ g.deps = deps /\ g.state = states
    BY <1>2, <1>6, <1>7 DEF IsGraph, Nodes
<1> HIDE DEF g
<1>11. /\ IsGraph(g) /\ Nodes(g) = Nodes(base) \cup Fresh(base, ids, known)
       /\ CreateOverlay(base, ids, known) =
              LET all == Downstream(base, ids \cap Nodes(base)) \cup Fresh(base, ids, known)
              IN  [graph |-> Refreshed(g, all), affected |-> all]
       /\ \A t \in Nodes(g) :
              /\ OverlayDeps(base, ids, known, t, g.deps[t])
              /\ g.state[t] = IF t \in Fresh(base, ids, known)
                              THEN "PENDING" ELSE base.state[t]
    BY <1>1, <1>8, <1>9, <1>10
<1> QED
    BY <1>11

LEMMA OverlayGraph ==
    ASSUME NEW base, IsGraph(base), NEW ids, NEW known
    PROVE  LET o == CreateOverlay(base, ids, known)
           IN  /\ o = [graph |-> o.graph, affected |-> o.affected]
               /\ IsGraph(o.graph) /\ Nodes(base) \subseteq Nodes(o.graph)
<1> DEFINE all == Downstream(base, ids \cap Nodes(base)) \cup Fresh(base, ids, known)
<1>1. PICK g : /\ IsGraph(g) /\ Nodes(g) = Nodes(base) \cup Fresh(base, ids, known)
               /\ CreateOverlay(base, ids, known) =
                      [graph |-> Refreshed(g, all), affected |-> all]
    BY OverlayMade
<1> HIDE DEF all
<1>2. IsGraph(Refreshed(g, all)) /\ Nodes(Refreshed(g, all)) = Nodes(g)
    BY <1>1, RefreshedGraph
<1> QED
    BY <1>1, <1>2

LEMMA MarkedOverlay ==
    ASSUME NEW o, o = [graph |-> o.graph, affected |-> o.affected], IsGraph(o.graph),
           NEW S, NEW s \in TaskStates
    PROVE  LET m == OverlayMark(o, S, s)
           IN  /\ m = [graph |-> m.graph, affected |-> m.affected]
               /\ IsGraph(m.graph) /\ Nodes(m.graph) = Nodes(o.graph)
<1> DEFINE st == [t \in Nodes(o.graph) |-> IF t \in S THEN s ELSE o.graph.state[t]]
           g  == Refreshed([o.graph EXCEPT !.state = st], o.affected)
<1>1. st \in [Nodes(o.graph) -> TaskStates]
    BY DEF IsGraph
<1>2. IsGraph(g) /\ Nodes(g) = Nodes(o.graph)
    <2> HIDE DEF st
    <2> QED
        BY <1>1, WithStates, RefreshedGraph
<1>3. OverlayMark(o, S, s) = [o EXCEPT !.graph = g]
    BY DEF OverlayMark
<1> HIDE DEF g
<1>4. [o EXCEPT !.graph = g] = [graph |-> g, affected |-> o.affected]
    OBVIOUS
<1> QED
    BY <1>2, <1>3, <1>4

LEMMA RepairedGraph ==
    ASSUME IsGraph(graph)
    PROVE  IsGraph(Repaired.graph) /\ Nodes(graph) \subseteq Nodes(Repaired.graph)
<1> DEFINE o == CreateOverlay(graph, repair.tasks, intel)
           t == CHOOSE task \in repair.tasks : TRUE
           reset == ResetForSkip(graph, o, t)
<1>1. /\ o = [graph |-> o.graph, affected |-> o.affected]
      /\ IsGraph(o.graph) /\ Nodes(graph) \subseteq Nodes(o.graph)
    BY OverlayGraph
<1> HIDE DEF o, t
<1>2. CASE IsRetry
    <2>1. Repaired.graph = OverlayMark(o, ToReopen(graph, o, repair.tasks), "PENDING").graph
        BY <1>2 DEF Repaired, Reopened, o
    <2> QED
        BY <1>1, <2>1, MarkedOverlay DEF TaskStates
<1>3. CASE ~IsRetry
    <2>1. \E S : reset = OverlayMark(o, S, "PENDING")
        BY DEF ResetForSkip, Reopened
    <2>2. /\ reset = [graph |-> reset.graph, affected |-> reset.affected]
          /\ IsGraph(reset.graph) /\ Nodes(reset.graph) = Nodes(o.graph)
        BY <1>1, <2>1, MarkedOverlay DEF TaskStates
    <2>3. Repaired.graph = OverlayMark(reset, {t}, "COMPLETED").graph
        BY <1>3 DEF Repaired, o, t
    <2> HIDE DEF reset
    <2> QED
        BY <1>1, <2>2, <2>3, MarkedOverlay DEF TaskStates
<1> QED
    BY <1>2, <1>3

LEMMA NumbersAreFinite == IsFiniteSet(Ids)
<1> DEFINE ns == 1 .. MaxTasks + 1
           plan   == [n \in ns |-> Planned(n)]
           repairs == [n \in ns |-> RepairOf(Planned(n))]
<1>1. IsFiniteSet(ns)
    BY LoopAssumption, FS_Interval
<1>2. IsFiniteSet({Planned(n) : n \in ns})
    <2>1. plan \in Surjection(ns, {Planned(n) : n \in ns})
        BY DEF Surjection
    <2> QED
        BY <1>1, <2>1, FS_Surjection
<1>3. IsFiniteSet({RepairOf(Planned(n)) : n \in ns})
    <2>1. repairs \in Surjection(ns, {RepairOf(Planned(n)) : n \in ns})
        BY DEF Surjection
    <2> QED
        BY <1>1, <2>1, FS_Surjection
<1> QED
    BY <1>2, <1>3, FS_Union DEF Ids

LEMMA ObservedType ==
    ASSUME TypeOK PROVE Observed \in Seq(Nat) /\ Len(Observed) <= Window
<1>1. IsFiniteSet(Failed(graph))
    BY NumbersAreFinite, FS_Subset DEF TypeOK, Failed
<1>2. GoalDistance \in Nat
    <2>1. Cardinality(Failed(graph)) \in Nat
        BY <1>1, FS_CardinalityType
    <2> QED
        BY <2>1 DEF GoalDistance
<1> DEFINE all == Append(history, GoalDistance)
<1>3. all \in Seq(Nat) /\ Len(all) <= Window + 1 /\ Len(all) \in Nat /\ all # <<>>
    <2>1. history \in Seq(Nat) /\ Len(history) <= Window
        BY DEF TypeOK
    <2>2. all \in Seq(Nat) /\ Len(all) = Len(history) + 1 /\ Len(history) \in Nat
        BY <1>2, <2>1
    <2> HIDE DEF all
    <2> QED
        BY <2>1, <2>2, LoopAssumption
<1>4. Observed = IF Len(all) > Window THEN Tail(all) ELSE all
    BY DEF Observed
<1> HIDE DEF all
<1> QED
    BY <1>3, <1>4, LoopAssumption

LEMMA InitTypes == Init => LoopTypes
<1> SUFFICES ASSUME Init PROVE LoopTypes
    OBVIOUS
<1>1. graph = [deps |-> <<>>, state |-> <<>>]
    BY DEF Init, EmptyGraph
<1>2. IsGraph(graph)
    BY <1>1 DEF IsGraph, Nodes
<1>3. history \in Seq(Nat) /\ Len(history) <= Window
    BY LoopAssumption DEF Init
<1>4. /\ state \in LoopStates /\ iterations \in 0 .. MaxIterations
      /\ retryCount \in 0 .. MaxRetries /\ retries \in Nat /\ payloads \in 0 .. MaxTasks
      /\ remembered \in 0 .. MaxIterations
    BY LoopAssumption DEF Init, LoopStates
<1>5. /\ batch \subseteq Nodes(graph) /\ exec \in {"none", "ok"} \cup Failures
      /\ execId \subseteq Ids /\ intel \subseteq Ids
      /\ repair \in [tasks : SUBSET Ids, decision : Decisions \cup {""}]
    BY DEF Init, NoRepair
<1>6. /\ {verified, reanchor} \subseteq BOOLEAN
      /\ report \in [success : BOOLEAN, cap : BOOLEAN]
    BY DEF Init
<1> QED
    BY <1>2, <1>3, <1>4, <1>5, <1>6 DEF LoopTypes, TypeOK, IsGraph, NoBatchYet, Init

\* What a step has to show beside the counters.
LEMMA TypesKept ==
    ASSUME CounterTypes',
           iterations' \in 0 .. MaxIterations, remembered' \in 0 .. MaxIterations,
           payloads' \in 0 .. MaxTasks,
           IsGraph(graph'), batch' \subseteq Nodes(graph'),
           exec' \in {"none", "ok"} \cup Failures, execId' \subseteq Ids, intel' \subseteq Ids,
           repair' \in [tasks : SUBSET Ids, decision : Decisions \cup {""}],
           {verified', reanchor'} \subseteq BOOLEAN,
           history' \in Seq(Nat), Len(history') <= Window,
           report' \in [success : BOOLEAN, cap : BOOLEAN],
           NoBatchYet'
    PROVE  LoopTypes'
BY DEF LoopTypes, TypeOK, IsGraph, CounterTypes, Nodes

LEMMA BoundsType == MaxTasks \in Nat /\ MaxIterations \in Nat /\ MaxRetries \in Nat
BY LoopAssumption

LEMMA CountersType ==
    ASSUME TypeOK
    PROVE  /\ iterations \in 0 .. MaxIterations /\ remembered \in 0 .. MaxIterations
           /\ payloads \in 0 .. MaxTasks
BY DEF TypeOK

LEMMA PlanTypes ==
    ASSUME LoopTypes, CounterTypes', Plan \/ Arbitrate \/ MicroPlan \/ ReAnchor
    PROVE  LoopTypes'
<1>1. /\ TypeOK /\ IsGraph(graph) /\ NoBatchYet
      /\ IsGraph(EmptyGraph) /\ Nodes(EmptyGraph) = {}
    BY DEF LoopTypes, IsGraph, Nodes, EmptyGraph
<1>2. CASE Plan
    <2>1. CASE iterations >= MaxIterations
        <3>1. /\ report' = [success |-> FALSE, cap |-> TRUE] /\ state' = "TERMINATE"
              /\ UNCHANGED <<budget, work, repair, verdict, history, remembered>>
            BY <1>2, <2>1 DEF Plan, Goto
        <3>2. report' \in [success : BOOLEAN, cap : BOOLEAN]
            BY <3>1
        <3> QED
            BY <1>1, <3>1, <3>2, TypesKept DEF TypeOK, NoBatchYet, budget, work, verdict
    <2>2. CASE ~(iterations >= MaxIterations)
        <3>1. iterations' \in 0 .. MaxIterations /\ remembered' = remembered
            BY <1>1, <1>2, <2>2, BoundsType, CountersType DEF Plan, outcome
        <3>2. /\ graph' = EmptyGraph /\ batch' = {} /\ exec' = "none" /\ execId' = {}
              /\ payloads' \in 0 .. MaxTasks /\ repair' = NoRepair
              /\ UNCHANGED <<intel, history, report>>
            BY <1>2, <2>2 DEF Plan, ClearWork, outcome
        <3>3. {verified', reanchor'} \subseteq BOOLEAN
            BY <1>2, <2>2 DEF Plan, ClearWork
        <3> QED
            BY <1>1, <3>1, <3>2, <3>3, TypesKept DEF TypeOK, NoBatchYet, NoRepair
    <2> QED
        BY <2>1, <2>2
<1>3. CASE Arbitrate
    <2>1. payloads' \in 0 .. MaxTasks
        BY <1>1, <1>3, BoundsType, CountersType DEF Arbitrate
    <2>2. batch = {}
        BY <1>1, <1>3 DEF Arbitrate, NoBatchYet
    <2> QED
        BY <1>1, <1>3, <2>1, <2>2, TypesKept
           DEF Arbitrate, TypeOK, NoBatchYet, budget, verdict, outcome
<1>4. CASE MicroPlan
    <2>1. IsGraph(graph')
        <3>1. payloads + 1 \in 1 .. MaxTasks + 1 /\ graph' = Chain(payloads + 1)
            BY <1>1, <1>4, BoundsType, CountersType DEF MicroPlan
        <3> QED
            BY <3>1, ChainGraph
    <2>2. batch' = {}
        BY <1>1, <1>4 DEF MicroPlan, NoBatchYet
    <2> QED
        BY <1>1, <1>4, <2>1, <2>2, TypesKept
           DEF MicroPlan, TypeOK, NoBatchYet, budget, verdict, outcome
<1>5. CASE ReAnchor
    <2>1. /\ graph' = EmptyGraph /\ batch' = {} /\ exec' = "none" /\ execId' = {}
          /\ payloads' = 0 /\ reanchor' = FALSE
          /\ UNCHANGED <<iterations, intel, repair, verified, outcome>>
        BY <1>5 DEF ReAnchor, ClearWork
    <2>2. {verified', reanchor'} \subseteq BOOLEAN
        BY <1>1, <2>1 DEF TypeOK
    <2>3. payloads' \in 0 .. MaxTasks
        BY <2>1, BoundsType
    <2> QED
        BY <1>1, <2>1, <2>2, <2>3, TypesKept DEF TypeOK, NoBatchYet, outcome
<1> QED
    BY <1>2, <1>3, <1>4, <1>5

LEMMA ScheduledType ==
    ASSUME NEW S \in SUBSET Ids, NEW d \in Decisions
    PROVE  [tasks |-> S, decision |-> d] \in [tasks : SUBSET Ids, decision : Decisions \cup {""}]
OBVIOUS

LEMMA ExecuteTypes ==
    ASSUME LoopTypes, CounterTypes', GovernanceRefuses \/ Execute PROVE LoopTypes'
<1>1. TypeOK /\ IsGraph(graph)
    BY DEF LoopTypes
<1>2. CASE GovernanceRefuses
    <2> DEFINE states == [t \in Nodes(graph) |->
                             IF graph.state[t] = "FAILED" THEN "PENDING" ELSE graph.state[t]]
    <2>1. states \in [Nodes(graph) -> TaskStates]
        BY <1>1 DEF IsGraph, TaskStates
    <2>2. graph' = graph \/ graph' = Refresh([graph EXCEPT !.state = states])
        BY <1>2 DEF GovernanceRefuses
    <2> HIDE DEF states
    <2>3. IsGraph(graph') /\ Nodes(graph') = Nodes(graph)
        BY <1>1, <2>1, <2>2, WithStates, RefreshGraph
    <2>4. state' \notin {"ARBITRATION", "MICRO_PLAN"}
        <3>1. Decide(exec, "") \in {"RETRY_TASK", "SKIP_TASK", "REPLAN_REQUIRED", "ABORT_LOOP"}
            BY DecideAnswers DEF Hints
        <3> QED
            BY <1>2, <3>1 DEF GovernanceRefuses, Goto
    <2>5. UNCHANGED <<iterations, payloads, batch, exec, execId, intel, repair, verdict, outcome>>
        BY <1>2 DEF GovernanceRefuses
    <2> QED
        BY <1>1, <2>3, <2>4, <2>5, TypesKept DEF TypeOK, NoBatchYet, verdict, outcome
<1>3. CASE Execute
    <2>1. graph' = Refresh(graph) /\ batch' = Ready(graph')
          /\ UNCHANGED <<budget, payloads, exec, execId, intel, verdict, outcome>>
        BY <1>3 DEF Execute
    <2>2. IsGraph(graph') /\ Nodes(graph') = Nodes(graph)
        BY <1>1, <2>1, RefreshGraph
    <2>3. batch' \subseteq Nodes(graph') /\ Failed(graph') \subseteq Ids
        BY <2>1, <2>2 DEF Ready, Failed, IsGraph
    <2>4. /\ repair' = repair \/ repair' = [tasks |-> Failed(graph'), decision |-> "RETRY_TASK"]
          /\ state' \notin {"ARBITRATION", "MICRO_PLAN"}
        BY <1>3 DEF Execute, Schedule, Goto
    <2>5. repair' \in [tasks : SUBSET Ids, decision : Decisions \cup {""}]
        <3>1. repair \in [tasks : SUBSET Ids, decision : Decisions \cup {""}]
            BY <1>1 DEF TypeOK
        <3>2. "RETRY_TASK" \in Decisions
            BY DEF Decisions
        <3>3. [tasks |-> Failed(graph'), decision |-> "RETRY_TASK"]
                  \in [tasks : SUBSET Ids, decision : Decisions \cup {""}]
            BY <2>3, <3>2, ScheduledType
        <3> QED
            BY <2>4, <3>1, <3>3
    <2> QED
        BY <1>1, <2>1, <2>2, <2>3, <2>4, <2>5, TypesKept
           DEF TypeOK, NoBatchYet, budget, verdict, outcome
<1> QED
    BY <1>2, <1>3

LEMMA TaskTypes ==
    ASSUME LoopTypes, CounterTypes', NEW t \in Nodes(graph),
           \/ StartTask(t) \/ TaskSucceeds(t)
           \/ \E result \in Failures, hint \in Hints, known \in BOOLEAN :
                  TaskFails(t, result, hint, known)
    PROVE  LoopTypes'
<1>1. TypeOK /\ IsGraph(graph) /\ t \in Ids
    BY DEF LoopTypes, IsGraph
<1>2. \A s \in TaskStates : IsGraph(Mark(graph, t, s)) /\ Nodes(Mark(graph, t, s)) = Nodes(graph)
    BY <1>1, OneState
<1>3. CASE StartTask(t)
    <2>1. /\ graph' = graph \/ graph' = [graph EXCEPT !.state[t] = "RUNNING"]
          /\ batch' = batch \/ batch' = {}
          /\ state' \in {state, "REPLAN"} /\ state = "RUN"
          /\ UNCHANGED <<budget, payloads, exec, execId, intel, repair, verdict, outcome>>
        BY <1>3 DEF StartTask, Goto
    <2>2. IsGraph(graph') /\ Nodes(graph') = Nodes(graph)
        <3>1. "RUNNING" \in TaskStates
            BY DEF TaskStates
        <3>2. LET g == [graph EXCEPT !.state[t] = "RUNNING"]
              IN  IsGraph(g) /\ Nodes(g) = Nodes(graph)
            BY <1>1, <3>1, OneState
        <3> QED
            BY <1>1, <2>1, <3>2
    <2> QED
        BY <1>1, <2>1, <2>2, TypesKept DEF TypeOK, NoBatchYet, budget, verdict, outcome
<1>4. ASSUME NEW result \in Failures \cup {"ok"}, NEW known, Remember(t, result, known)
      PROVE  intel' \subseteq Ids
    BY <1>1, <1>4 DEF Remember, TypeOK
<1>5. CASE TaskSucceeds(t)
    <2>1. /\ graph' = Mark(graph, t, "COMPLETED") /\ batch' = batch \ {t}
          /\ exec' = "ok" /\ execId' = {t} /\ Remember(t, "ok", FALSE)
          /\ state' \in {state, "VERIFY", "EXECUTE"} /\ state = "RUN"
          /\ UNCHANGED <<budget, payloads, repair, verdict, outcome>>
        BY <1>5 DEF TaskSucceeds, Goto
    <2>2. IsGraph(graph') /\ Nodes(graph') = Nodes(graph) /\ intel' \subseteq Ids
        BY <1>2, <1>4, <2>1 DEF TaskStates
    <2> QED
        BY <1>1, <2>1, <2>2, TypesKept DEF TypeOK, NoBatchYet, budget, verdict, outcome
<1>6. ASSUME NEW result \in Failures, NEW hint \in Hints, NEW known \in BOOLEAN,
             TaskFails(t, result, hint, known)
      PROVE  LoopTypes'
    <2>1. /\ graph' = Mark(graph, t, "FAILED") /\ batch' = {}
          /\ exec' = result /\ execId' = {t} /\ Remember(t, result, known)
          /\ UNCHANGED <<budget, payloads, verdict, outcome>>
        BY <1>6 DEF TaskFails
    <2>2. /\ repair' = repair \/ \E d \in {"RETRY_TASK", "SKIP_TASK"} :
                                     repair' = [tasks |-> {t}, decision |-> d]
          /\ state' \notin {"ARBITRATION", "MICRO_PLAN"}
        BY <1>6 DEF TaskFails, Schedule, Goto
    <2>3. IsGraph(graph') /\ intel' \subseteq Ids
        BY <1>2, <1>4, <2>1 DEF TaskStates
    <2>4. \A d \in {"RETRY_TASK", "SKIP_TASK"} : d \in Decisions
        BY DEF Decisions
    <2>5. repair' \in [tasks : SUBSET Ids, decision : Decisions \cup {""}]
        <3>1. repair \in [tasks : SUBSET Ids, decision : Decisions \cup {""}]
            BY <1>1 DEF TypeOK
        <3>2. \A d \in {"RETRY_TASK", "SKIP_TASK"} :
                  [tasks |-> {t}, decision |-> d] \in [tasks : SUBSET Ids, decision : Decisions \cup {""}]
            BY <1>1, <2>4, ScheduledType
        <3> QED
            BY <2>2, <3>1, <3>2
    <2> QED
        BY <1>1, <2>1, <2>2, <2>3, <2>5, TypesKept DEF TypeOK, NoBatchYet, budget, verdict, outcome
<1> QED
    BY <1>3, <1>5, <1>6

LEMMA RepairTypes ==
    ASSUME LoopTypes, CounterTypes', PartialRepair \/ VerifyPasses \/ VerifyFails
    PROVE  LoopTypes'
<1>1. TypeOK /\ IsGraph(graph)
    BY DEF LoopTypes
<1>2. CASE PartialRepair
    <2>1. /\ repair' = NoRepair /\ state' \in {"EXECUTE", "REPLAN"}
          /\ UNCHANGED <<iterations, payloads, batch, intel, verdict, outcome>>
        BY <1>2 DEF PartialRepair, Goto
    <2>2. \/ graph' = Refresh(Repaired.graph) /\ exec' = "none" /\ execId' = {}
          \/ UNCHANGED <<graph, exec, execId>>
        BY <1>2 DEF PartialRepair
    <2>3. IsGraph(graph') /\ Nodes(graph) \subseteq Nodes(graph')
        BY <1>1, <2>2, RepairedGraph, RefreshGraph
    <2>4. /\ exec' \in {"none", "ok"} \cup Failures /\ execId' \subseteq Ids
          /\ batch' \subseteq Nodes(graph')
        BY <1>1, <2>1, <2>2, <2>3 DEF TypeOK
    <2>5. repair' \in [tasks : SUBSET Ids, decision : Decisions \cup {""}]
        BY <2>1 DEF NoRepair
    <2> QED
        BY <1>1, <2>1, <2>3, <2>4, <2>5, TypesKept DEF TypeOK, NoBatchYet, verdict, outcome
<1>3. CASE VerifyPasses
    <2>1. /\ verified' = TRUE /\ exec' = "ok" /\ state' = "REFLECT"
          /\ UNCHANGED <<budget, payloads, graph, batch, execId, intel, repair, reanchor, outcome>>
        BY <1>3 DEF VerifyPasses, Goto
    <2>2. {verified', reanchor'} \subseteq BOOLEAN
        BY <1>1, <2>1 DEF TypeOK
    <2> QED
        BY <1>1, <2>1, <2>2, TypesKept DEF TypeOK, NoBatchYet, budget, outcome
<1>4. CASE VerifyFails
    <2>1. /\ exec' \in {exec, "transient"}
          /\ UNCHANGED <<budget, payloads, graph, batch, execId, intel, verdict, outcome>>
        BY <1>4 DEF VerifyFails
    <2>2. /\ \/ repair' = repair
             \/ repair' = [tasks |-> Failed(graph), decision |-> "VERIFY_RETRY"]
             \/ repair' = [tasks |-> execId, decision |-> "VERIFY_RETRY"]
          /\ state' \notin {"ARBITRATION", "MICRO_PLAN"}
        BY <1>4 DEF VerifyFails, Schedule, Goto
    <2>3. Failed(graph) \subseteq Ids /\ execId \subseteq Ids /\ "VERIFY_RETRY" \in Decisions
        BY <1>1 DEF TypeOK, IsGraph, Failed, Decisions
    <2>4. repair' \in [tasks : SUBSET Ids, decision : Decisions \cup {""}]
        <3>1. repair \in [tasks : SUBSET Ids, decision : Decisions \cup {""}]
            BY <1>1 DEF TypeOK
        <3>2. \A S \in {Failed(graph), execId} :
                  [tasks |-> S, decision |-> "VERIFY_RETRY"]
                      \in [tasks : SUBSET Ids, decision : Decisions \cup {""}]
            BY <2>3, ScheduledType
        <3> QED
            BY <2>2, <3>1, <3>2
    <2>5. exec' \in {"none", "ok"} \cup Failures
        BY <1>1, <2>1 DEF TypeOK, Failures, FailureClasses
    <2> QED
        BY <1>1, <2>1, <2>2, <2>4, <2>5, TypesKept DEF TypeOK, NoBatchYet, budget, verdict, outcome
<1> QED
    BY <1>2, <1>3, <1>4

LEMMA EndTypes ==
    ASSUME LoopTypes, CounterTypes', Reflect \/ Replan \/ Terminate \/ UNCHANGED vars
    PROVE  LoopTypes'
<1>1. TypeOK /\ IsGraph(graph) /\ NoBatchYet
    BY DEF LoopTypes
<1>2. CASE Reflect
    <2>1. /\ remembered' = iterations /\ reanchor' \in BOOLEAN
          /\ state' \notin {"ARBITRATION", "MICRO_PLAN"}
          /\ history' = history \/ history' = Observed
          /\ report' = report \/ report' = [report EXCEPT !.success = Converged(Observed)]
          /\ UNCHANGED <<budget, work, repair, verified>>
        BY <1>2 DEF Reflect, Goto
    <2>2. history' \in Seq(Nat) /\ Len(history') <= Window
        BY <1>1, <2>1, ObservedType DEF TypeOK
    <2>3. Converged(Observed) \in BOOLEAN
        BY DEF Converged
    <2>4. report' \in [success : BOOLEAN, cap : BOOLEAN]
        BY <1>1, <2>1, <2>3 DEF TypeOK
    <2>5. {verified', reanchor'} \subseteq BOOLEAN
        BY <1>1, <2>1 DEF TypeOK
    <2> QED
        BY <1>1, <2>1, <2>2, <2>4, <2>5, TypesKept DEF TypeOK, NoBatchYet, budget, work
<1>3. CASE Replan
    <2>1. /\ remembered' = iterations /\ state' \in {"TERMINATE", "PLAN"}
          /\ report' = report \/ report' = [success |-> FALSE, cap |-> TRUE]
          /\ UNCHANGED <<budget, work, repair, verdict, history>>
        BY <1>3 DEF Replan, Goto
    <2>2. report' \in [success : BOOLEAN, cap : BOOLEAN]
        <3>1. report \in [success : BOOLEAN, cap : BOOLEAN]
            BY <1>1 DEF TypeOK
        <3>2. [success |-> FALSE, cap |-> TRUE] \in [success : BOOLEAN, cap : BOOLEAN]
            OBVIOUS
        <3> QED
            BY <2>1, <3>1, <3>2
    <2> QED
        BY <1>1, <2>1, <2>2, TypesKept DEF TypeOK, NoBatchYet, budget, work, verdict
<1>4. CASE Terminate
    <2>1. /\ remembered' \in {iterations, remembered} /\ state' = "DONE"
          /\ UNCHANGED <<budget, work, repair, verdict, history, report>>
        BY <1>4 DEF Terminate, Goto
    <2>2. remembered' \in 0 .. MaxIterations
        BY <1>1, <2>1, CountersType
    <2> QED
        BY <1>1, <2>1, <2>2, TypesKept DEF TypeOK, NoBatchYet, budget, work, verdict
<1>5. CASE UNCHANGED vars
    BY <1>1, <1>5, TypesKept DEF TypeOK, NoBatchYet, vars, budget, work, verdict, outcome
<1> QED
    BY <1>2, <1>3, <1>4, <1>5

LEMMA TypesInvariant == Spec => []LoopTypes
<1>1. LoopTypes /\ LoopInv' /\ [Next]_vars => LoopTypes'
    <2> SUFFICES ASSUME LoopTypes, LoopInv', [Next]_vars PROVE LoopTypes'
        OBVIOUS
    <2>1. CounterTypes'
        BY DEF LoopInv
    <2> QED
        BY <2>1, PlanTypes, ExecuteTypes, TaskTypes, RepairTypes, EndTypes DEF Next, Returned
<1> QED
    BY InitTypes, LoopInvariant, <1>1, PTL DEF Spec

(* The types of the loop's frame, report and task graph: the graphs that   *)
(* repairs make have no dependency on a task that is not theirs.           *)
THEOREM TypeCorrect == Spec => []TypeOK
<1>1. LoopTypes => TypeOK
    BY DEF LoopTypes
<1> QED
    BY TypesInvariant, <1>1, PTL
-----------------------------------------------------------------------------
\* The order of the tasks.  DoneInOrder alone is not inductive: a task is started
\* because it is marked ready, and a task that failed becomes ready when it is
\* reopened, so all but the pending ones must have what they wait for done.  A
\* repair keeps that because whatever waits for a task it reopens, or for a repair
\* task it adds, is downstream of a task that was asked for.  For the repair
\* tasks this rests on a layering: a repair task precedes its own task alone.
InOrder(g) ==
    \A t \in Nodes(g) : g.state[t] # "PENDING" =>
        \A d \in g.deps[t] : g.state[d] = "COMPLETED"

Layered(g) ==
    \A t \in Nodes(g) : \A d \in g.deps[t] :
        \/ d[2] = "plan" /\ d[1] < t[1]
        \/ t[2] = "plan" /\ d = RepairOf(t)

\* A state that a refresh leaves alone.
Begun == {"RUNNING", "COMPLETED", "FAILED"}

BegunInOrder(g) ==
    \A t \in Nodes(g) : g.state[t] \in Begun =>
        \A d \in g.deps[t] : g.state[d] = "COMPLETED"

LEMMA IdParts ==
    \A t \in Ids :
        /\ t[1] \in Nat /\ t[2] \in {"plan", "repair"}
        /\ RepairOf(t)[1] = t[1] /\ RepairOf(t)[2] = "repair"
        /\ t[2] = "repair" => RepairOf(t) = t
        /\ \A u \in Ids : t[1] = u[1] /\ t[2] = u[2] => t = u
BY LoopAssumption DEF Ids, RepairOf, Planned

\* What follows a node is downstream of all that the node is downstream of.
LEMMA DownstreamCloses ==
    ASSUME NEW g, IsGraph(g), NEW S
    PROVE  /\ Downstream(g, S) \subseteq Nodes(g)
           /\ S \cap Nodes(g) \subseteq Downstream(g, S)
           /\ \A t \in Nodes(g) : g.deps[t] \cap Downstream(g, S) # {} => t \in Downstream(g, S)
           /\ Downstream(g, S \cap Nodes(g)) = Downstream(g, S)
<1>1. Downstream(g, S) \subseteq Nodes(g) /\ S \cap Nodes(g) \subseteq Downstream(g, S)
    BY DEF Downstream
<1>2. ASSUME NEW t \in Nodes(g), NEW d \in g.deps[t], d \in Downstream(g, S)
      PROVE  t \in Downstream(g, S)
    <2>1. SUFFICES ASSUME NEW C \in SUBSET Nodes(g), (S \cap Nodes(g)) \cup Outbound(g, C) \subseteq C
                   PROVE  t \in C
        BY DEF Downstream
    <2>2. d \in C
        BY <1>2, <2>1 DEF Downstream
    <2>3. t \in Outbound(g, C)
        BY <2>2 DEF Outbound
    <2> QED
        BY <2>1, <2>3
<1>3. (S \cap Nodes(g)) \cap Nodes(g) = S \cap Nodes(g)
    OBVIOUS
<1>4. Downstream(g, S \cap Nodes(g)) = Downstream(g, S)
    BY <1>3 DEF Downstream
<1> QED
    BY <1>1, <1>2, <1>4

\* A refresh changes no dependency and no state that is begun, and what it finds
\* ready has all it waits for.
LEMMA RefreshedStates ==
    ASSUME NEW g, IsGraph(g), NEW S
    PROVE  /\ Refreshed(g, S).deps = g.deps
           /\ \A t \in Nodes(g), s \in Begun : Refreshed(g, S).state[t] = s <=> g.state[t] = s
           /\ \A t \in S \cap Nodes(g) : g.state[t] \notin Begun =>
                  (Refreshed(g, S).state[t] # "PENDING"
                      <=> \A d \in g.deps[t] : g.state[d] = "COMPLETED")
<1> DEFINE st == [t \in Nodes(g) |->
                     IF t \notin S \/ g.state[t] \in {"COMPLETED", "FAILED", "RUNNING"}
                     THEN g.state[t]
                     ELSE IF \A d \in g.deps[t] : g.state[d] = "COMPLETED"
                          THEN "READY" ELSE "PENDING"]
<1>1. Refreshed(g, S) = [g EXCEPT !.state = st]
    BY DEF Refreshed
<1>2. /\ \A t \in Nodes(g), s \in Begun : st[t] = s <=> g.state[t] = s
      /\ \A t \in S \cap Nodes(g) : g.state[t] \notin Begun =>
             (st[t] # "PENDING" <=> \A d \in g.deps[t] : g.state[d] = "COMPLETED")
    BY DEF Begun
<1> HIDE DEF st
<1>3. [g EXCEPT !.state = st].deps = g.deps /\ [g EXCEPT !.state = st].state = st
    BY DEF IsGraph
<1> QED
    BY <1>1, <1>2, <1>3

LEMMA RefreshOrders ==
    ASSUME NEW g, IsGraph(g), BegunInOrder(g)
    PROVE  /\ InOrder(Refresh(g))
           /\ Layered(g) => Layered(Refresh(g))
           /\ \A t \in Nodes(g), s \in Begun : Refresh(g).state[t] = s <=> g.state[t] = s
<1> DEFINE r == Refresh(g)
<1>1. /\ r.deps = g.deps /\ Nodes(r) = Nodes(g)
      /\ \A t \in Nodes(g), s \in Begun : r.state[t] = s <=> g.state[t] = s
      /\ \A t \in Nodes(g) : g.state[t] \notin Begun =>
             (r.state[t] # "PENDING" <=> \A d \in g.deps[t] : g.state[d] = "COMPLETED")
    BY RefreshedStates, RefreshGraph DEF Refresh
<1> HIDE DEF r
<1>2. "COMPLETED" \in Begun /\ \A t \in Nodes(g) : g.deps[t] \subseteq Nodes(g)
    BY DEF Begun, IsGraph
<1>3. ASSUME NEW t \in Nodes(g), r.state[t] # "PENDING", NEW d \in g.deps[t]
      PROVE  r.state[d] = "COMPLETED"
    <2>1. g.state[d] = "COMPLETED"
        BY <1>1, <1>3 DEF BegunInOrder
    <2> QED
        BY <1>1, <1>2, <2>1
<1>4. InOrder(r)
    BY <1>1, <1>3 DEF InOrder
<1>5. Layered(g) => Layered(r)
    BY <1>1 DEF Layered
<1> QED
    BY <1>1, <1>4, <1>5 DEF r

\* What an overlay has of the graph it is made from.
LEMMA OverlayParts ==
    ASSUME NEW base, IsGraph(base), NEW ids, NEW known
    PROVE  LET o     == CreateOverlay(base, ids, known)
               fresh == Fresh(base, ids, known)
           IN  /\ Nodes(o.graph) = Nodes(base) \cup fresh
               /\ o.affected = Downstream(base, ids) \cup fresh
               /\ \A t \in Nodes(o.graph) : OverlayDeps(base, ids, known, t, o.graph.deps[t])
               /\ \A t \in Nodes(o.graph), s \in Begun :
                      o.graph.state[t] = s <=> t \notin fresh /\ base.state[t] = s
               /\ \A t \in fresh :
                      (\A d \in o.graph.deps[t] : d \notin fresh /\ base.state[d] = "COMPLETED")
                          => o.graph.state[t] # "PENDING"
<1> DEFINE fresh == Fresh(base, ids, known)
           all   == Downstream(base, ids \cap Nodes(base)) \cup fresh
           o     == CreateOverlay(base, ids, known)
<1>1. PICK g : /\ IsGraph(g) /\ Nodes(g) = Nodes(base) \cup fresh
               /\ o = [graph |-> Refreshed(g, all), affected |-> all]
               /\ \A t \in Nodes(g) :
                      /\ OverlayDeps(base, ids, known, t, g.deps[t])
                      /\ g.state[t] = IF t \in fresh THEN "PENDING" ELSE base.state[t]
    BY OverlayMade
<1>2. all = Downstream(base, ids) \cup fresh
    BY DownstreamCloses
<1>3. o.graph = Refreshed(g, all) /\ o.affected = all
    BY <1>1
<1>4. fresh \subseteq all
    OBVIOUS
<1> HIDE DEF o, all, fresh
<1>5. /\ o.graph.deps = g.deps /\ Nodes(o.graph) = Nodes(g)
      /\ \A t \in Nodes(g), s \in Begun : o.graph.state[t] = s <=> g.state[t] = s
      /\ \A t \in all \cap Nodes(g) : g.state[t] \notin Begun =>
             (o.graph.state[t] # "PENDING" <=> \A d \in g.deps[t] : g.state[d] = "COMPLETED")
    BY <1>1, <1>3, RefreshedStates, RefreshedGraph
<1>6. \A t \in Nodes(g), s \in Begun :
          o.graph.state[t] = s <=> t \notin fresh /\ base.state[t] = s
    BY <1>1, <1>5 DEF Begun
<1>7. ASSUME NEW t \in fresh,
             \A d \in o.graph.deps[t] : d \notin fresh /\ base.state[d] = "COMPLETED"
      PROVE  o.graph.state[t] # "PENDING"
    <2>1. t \in Nodes(g) /\ t \in all /\ g.state[t] \notin Begun
        BY <1>1, <1>4 DEF Begun
    <2>2. \A d \in g.deps[t] : d \in Nodes(g)
        BY <1>1, <2>1 DEF IsGraph
    <2>3. \A d \in g.deps[t] : g.state[d] = "COMPLETED"
        BY <1>1, <1>5, <1>7, <2>2
    <2> QED
        BY <1>5, <2>1, <2>3
<1>8. \A t \in Nodes(o.graph) : OverlayDeps(base, ids, known, t, o.graph.deps[t])
    BY <1>1, <1>5
<1>9. /\ Nodes(o.graph) = Nodes(base) \cup fresh
      /\ o.affected = Downstream(base, ids) \cup fresh
    BY <1>1, <1>2, <1>3, <1>5
<1>10. \A t \in Nodes(o.graph), s \in Begun :
           o.graph.state[t] = s <=> t \notin fresh /\ base.state[t] = s
    BY <1>5, <1>6
<1> QED
    BY <1>7, <1>8, <1>9, <1>10 DEF o, fresh

\* A repair task that is added precedes its own task alone.
LEMMA OverlayLayered ==
    ASSUME NEW base, IsGraph(base), Layered(base), NEW ids, NEW known
    PROVE  Layered(CreateOverlay(base, ids, known).graph)
<1> DEFINE o        == CreateOverlay(base, ids, known)
           repaired == RepairedTasks(base, ids, known)
           fresh    == Fresh(base, ids, known)
<1>1. SUFFICES ASSUME NEW t \in Nodes(o.graph), NEW d \in o.graph.deps[t]
               PROVE  \/ d[2] = "plan" /\ d[1] < t[1]
                      \/ t[2] = "plan" /\ d = RepairOf(t)
    BY DEF Layered
<1>2. OverlayDeps(base, ids, known, t, o.graph.deps[t])
    BY <1>1, OverlayParts
<1>3. \A u \in repaired \ fresh : u \in Nodes(base) /\ u \in Ids /\ u[2] = "plan"
    <2> TAKE u \in repaired \ fresh
    <2>1. u \in Nodes(base) /\ u \in Ids /\ RepairOf(u) \in fresh
        BY DEF RepairedTasks, Fresh, IsGraph
    <2> QED
        BY <2>1, IdParts
<1> HIDE DEF o, repaired, fresh
<1>4. CASE t \in repaired \ fresh /\ o.graph.deps[t] = base.deps[t] \cup {RepairOf(t)}
    BY <1>1, <1>3, <1>4 DEF Layered
<1>5. ASSUME NEW u \in repaired \ fresh, t = RepairOf(u), o.graph.deps[t] = base.deps[u] \ {t}
      PROVE  d[2] = "plan" /\ d[1] < t[1]
    <2>1. d \in base.deps[u] /\ d # RepairOf(u)
        BY <1>1, <1>5
    <2>2. d[2] = "plan" /\ d[1] < u[1]
        BY <1>3, <2>1 DEF Layered
    <2> QED
        BY <1>3, <1>5, <2>2, IdParts
<1>6. CASE t \in Nodes(base) /\ o.graph.deps[t] = base.deps[t]
    BY <1>1, <1>6 DEF Layered
<1> QED
    BY <1>2, <1>4, <1>5, <1>6 DEF OverlayDeps, repaired, fresh

\* A task that is neither downstream nor new waits for what it waited for, and
\* for nothing that is.
LEMMA OutsideOverlay ==
    ASSUME NEW base, IsGraph(base), Layered(base), NEW ids, NEW known,
           NEW t \in Nodes(CreateOverlay(base, ids, known).graph),
           t \notin Downstream(base, ids), t \notin Fresh(base, ids, known)
    PROVE  /\ t \in Nodes(base)
           /\ CreateOverlay(base, ids, known).graph.deps[t] = base.deps[t]
           /\ \A d \in base.deps[t] :
                  d \notin Downstream(base, ids) /\ d \notin Fresh(base, ids, known)
<1> DEFINE o        == CreateOverlay(base, ids, known)
           repaired == RepairedTasks(base, ids, known)
           fresh    == Fresh(base, ids, known)
           down     == Downstream(base, ids)
<1>1. repaired \subseteq down /\ down \subseteq Nodes(base) /\ Nodes(base) \subseteq Ids
    BY DownstreamCloses DEF RepairedTasks, IsGraph
<1>2. t \in Nodes(base) /\ o.graph.deps[t] = base.deps[t]
    <2>1. OverlayDeps(base, ids, known, t, o.graph.deps[t])
        BY OverlayParts
    <2>2. t \notin repaired /\ \A u \in repaired : t # RepairOf(u)
        BY <1>1 DEF Fresh
    <2> QED
        BY <2>1, <2>2 DEF OverlayDeps
<1>3. ASSUME NEW d \in base.deps[t] PROVE d \notin down
    BY <1>2, DownstreamCloses
<1>4. ASSUME NEW d \in base.deps[t], d \in fresh PROVE FALSE
    <2>1. PICK u \in repaired : d = RepairOf(u)
        BY <1>4 DEF Fresh
    <2>2. u \in Ids /\ t \in Ids /\ u \in down
        BY <1>1, <1>2
    <2>3. d[2] = "repair" /\ d[1] = u[1]
        BY <2>1, <2>2, IdParts
    <2>4. t[2] = "plan" /\ d = RepairOf(t)
        BY <1>2, <1>4, <2>3 DEF Layered
    <2>5. t[1] = u[1]
        BY <2>2, <2>3, <2>4, IdParts
    <2>6. CASE u[2] = "plan"
        <3>1. t = u
            BY <2>2, <2>4, <2>5, <2>6, IdParts
        <3> QED
            BY <2>2, <3>1
    <2>7. CASE u[2] = "repair"
        <3>1. d = u
            BY <2>1, <2>2, <2>7, IdParts
        <3> QED
            BY <1>3, <2>2, <3>1
    <2> QED
        BY <2>2, <2>6, <2>7, IdParts
<1> QED
    BY <1>2, <1>3, <1>4

\* Marking changes the states of the tasks it marks, and refreshes the others.
LEMMA MarkedStates ==
    ASSUME NEW o, o = [graph |-> o.graph, affected |-> o.affected], IsGraph(o.graph),
           NEW S, NEW s \in TaskStates
    PROVE  LET m == OverlayMark(o, S, s)
               marked(t) == IF t \in S THEN s ELSE o.graph.state[t]
           IN  /\ m.affected = o.affected /\ m.graph.deps = o.graph.deps
               /\ \A t \in Nodes(o.graph), x \in Begun : m.graph.state[t] = x <=> marked(t) = x
               /\ \A t \in o.affected \cap Nodes(o.graph) : marked(t) \notin Begun =>
                      (m.graph.state[t] # "PENDING"
                          <=> \A d \in o.graph.deps[t] : marked(d) = "COMPLETED")
<1> DEFINE marked(t) == IF t \in S THEN s ELSE o.graph.state[t]
           st == [t \in Nodes(o.graph) |-> marked(t)]
           g  == [o.graph EXCEPT !.state = st]
           r  == Refreshed(g, o.affected)
<1>1. st \in [Nodes(o.graph) -> TaskStates]
    BY DEF IsGraph
<1>2. OverlayMark(o, S, s) = [o EXCEPT !.graph = r]
    BY DEF OverlayMark
<1>3. \A t \in Nodes(o.graph) : st[t] = marked(t)
    OBVIOUS
<1> HIDE DEF st
<1>4. IsGraph(g) /\ Nodes(g) = Nodes(o.graph) /\ g.deps = o.graph.deps /\ g.state = st
    BY <1>1, WithStates DEF IsGraph
<1> HIDE DEF g
<1>5. /\ r.deps = g.deps
      /\ \A t \in Nodes(g), x \in Begun : r.state[t] = x <=> g.state[t] = x
      /\ \A t \in o.affected \cap Nodes(g) : g.state[t] \notin Begun =>
             (r.state[t] # "PENDING" <=> \A d \in g.deps[t] : g.state[d] = "COMPLETED")
    BY <1>4, RefreshedStates
<1> HIDE DEF r
<1>6. /\ OverlayMark(o, S, s).affected = o.affected
      /\ OverlayMark(o, S, s).graph = r
    BY <1>2
<1>7. \A t \in Nodes(o.graph) : o.graph.deps[t] \subseteq Nodes(o.graph)
    BY DEF IsGraph
<1> HIDE DEF marked
<1>8. \A t \in Nodes(o.graph), x \in Begun : r.state[t] = x <=> marked(t) = x
    BY <1>3, <1>4, <1>5
<1>9. ASSUME NEW t \in o.affected \cap Nodes(o.graph), marked(t) \notin Begun
      PROVE  r.state[t] # "PENDING" <=> \A d \in o.graph.deps[t] : marked(d) = "COMPLETED"
    <2>1. r.state[t] # "PENDING" <=> \A d \in g.deps[t] : g.state[d] = "COMPLETED"
        BY <1>3, <1>4, <1>5, <1>9
    <2>2. \A d \in g.deps[t] : g.state[d] = marked(d)
        BY <1>3, <1>4, <1>7
    <2> QED
        BY <1>4, <2>1, <2>2
<1>10. r.deps = o.graph.deps
    BY <1>4, <1>5
<1> QED
    BY <1>6, <1>8, <1>9, <1>10 DEF marked

\* A retry: whatever is downstream of the tasks asked for is pending again.
LEMMA ReopenedOrders ==
    ASSUME NEW base, IsGraph(base), InOrder(base), Layered(base), NEW ids, NEW known
    PROVE  LET o == CreateOverlay(base, ids, known)
               m == Reopened(base, o, ids)
           IN  /\ m.affected = o.affected /\ m.graph.deps = o.graph.deps
               /\ BegunInOrder(m.graph)
<1> DEFINE o    == CreateOverlay(base, ids, known)
           down == Downstream(base, ids)
           S    == ToReopen(base, o, ids)
           m    == OverlayMark(o, S, "PENDING")
<1>1. /\ o = [graph |-> o.graph, affected |-> o.affected] /\ IsGraph(o.graph)
      /\ "PENDING" \in TaskStates /\ "COMPLETED" \in Begun /\ "PENDING" \notin Begun
    BY OverlayGraph DEF TaskStates, Begun
<1>2. /\ m.affected = o.affected /\ m.graph.deps = o.graph.deps
      /\ \A t \in Nodes(o.graph), x \in Begun :
             m.graph.state[t] = x <=> (IF t \in S THEN "PENDING" ELSE o.graph.state[t]) = x
    <2> HIDE DEF o, S
    <2> QED
        BY <1>1, MarkedStates
<1>3. Nodes(m.graph) = Nodes(o.graph)
    BY <1>2 DEF Nodes
<1>4. /\ S \subseteq down
      /\ \A t \in down : t \in S \/ o.graph.state[t] = "PENDING"
    BY OverlayParts DEF ToReopen
<1>5. \A t \in Nodes(o.graph), s \in Begun :
          o.graph.state[t] = s <=> t \notin Fresh(base, ids, known) /\ base.state[t] = s
    BY OverlayParts
<1>6. \A t \in Nodes(o.graph) : o.graph.deps[t] \subseteq Nodes(o.graph)
    BY <1>1 DEF IsGraph
<1> HIDE DEF m, S
<1>7. ASSUME NEW t \in Nodes(o.graph), m.graph.state[t] \in Begun, NEW d \in o.graph.deps[t]
      PROVE  m.graph.state[d] = "COMPLETED"
    <2>1. t \notin S /\ o.graph.state[t] \in Begun
        BY <1>1, <1>2, <1>7
    <2>2. t \notin down /\ t \notin Fresh(base, ids, known) /\ base.state[t] \in Begun
        BY <1>1, <1>4, <1>5, <2>1
    <2>3. /\ t \in Nodes(base) /\ o.graph.deps[t] = base.deps[t]
          /\ d \notin down /\ d \notin Fresh(base, ids, known)
        BY <1>7, <2>2, OutsideOverlay
    <2>4. base.state[d] = "COMPLETED"
        BY <1>1, <1>7, <2>2, <2>3 DEF InOrder
    <2>5. d \in Nodes(o.graph) /\ d \notin S
        BY <1>4, <1>6, <1>7, <2>3
    <2>6. o.graph.state[d] = "COMPLETED"
        BY <1>1, <1>5, <2>3, <2>4, <2>5
    <2> QED
        BY <1>1, <1>2, <2>5, <2>6
<1>8. BegunInOrder(m.graph)
    BY <1>2, <1>3, <1>7 DEF BegunInOrder
<1> QED
    BY <1>2, <1>8 DEF Reopened, m, S

\* A task that failed is reset for skipping: nothing that waits for it has begun.
LEMMA ResetOrders ==
    ASSUME NEW base, IsGraph(base), InOrder(base), Layered(base), NEW t \in Nodes(base), NEW known
    PROVE  LET o == CreateOverlay(base, {t}, known)
               m == ResetForSkip(base, o, t)
           IN  /\ m.affected = o.affected /\ m.graph.deps = o.graph.deps
               /\ BegunInOrder(m.graph)
<1> DEFINE o     == CreateOverlay(base, {t}, known)
           m     == OverlayMark(o, {t}, "PENDING")
           fresh == Fresh(base, {t}, known)
<1>1. CASE o.graph.state[t] # "FAILED"
    BY <1>1, ReopenedOrders DEF ResetForSkip
<1>2. CASE o.graph.state[t] = "FAILED"
    <2>1. /\ o = [graph |-> o.graph, affected |-> o.affected] /\ IsGraph(o.graph)
          /\ Nodes(base) \subseteq Nodes(o.graph)
          /\ "PENDING" \in TaskStates /\ {"COMPLETED", "FAILED"} \subseteq Begun
          /\ "PENDING" \notin Begun
        BY OverlayGraph DEF TaskStates, Begun
    <2>2. \A x \in Nodes(o.graph), s \in Begun :
              o.graph.state[x] = s <=> x \notin fresh /\ base.state[x] = s
        BY OverlayParts
    <2>3. t \notin fresh /\ base.state[t] = "FAILED"
        BY <1>2, <2>1, <2>2
    <2>4. /\ m.affected = o.affected /\ m.graph.deps = o.graph.deps
          /\ \A x \in Nodes(o.graph), s \in Begun :
                 m.graph.state[x] = s
                     <=> (IF x \in {t} THEN "PENDING" ELSE o.graph.state[x]) = s
        <3> HIDE DEF o
        <3> QED
            BY <2>1, MarkedStates
    <2>5. Nodes(m.graph) = Nodes(o.graph)
        BY <2>4 DEF Nodes
    <2>6. \A x \in Nodes(o.graph) : o.graph.deps[x] \subseteq Nodes(o.graph)
        BY <2>1 DEF IsGraph
    <2>7. RepairedTasks(base, {t}, known) \subseteq {t} /\ fresh \subseteq {RepairOf(t)}
        BY DEF RepairedTasks, Fresh
    <2>8. \A x \in Nodes(o.graph) : OverlayDeps(base, {t}, known, x, o.graph.deps[x])
        BY OverlayParts
    <2>9. ResetForSkip(base, o, t) = m
        BY <1>2 DEF ResetForSkip
    <2> HIDE DEF m, o
    <2>10. ASSUME NEW x \in Nodes(o.graph), m.graph.state[x] \in Begun, NEW d \in o.graph.deps[x]
           PROVE  m.graph.state[d] = "COMPLETED"
        <3>1. x # t /\ x \notin fresh /\ base.state[x] \in Begun
            BY <2>1, <2>2, <2>4, <2>10
        <3>2. x \in Nodes(base) /\ o.graph.deps[x] = base.deps[x]
            BY <2>7, <2>8, <3>1 DEF OverlayDeps, Fresh
        <3>3. base.state[d] = "COMPLETED"
            BY <2>1, <2>10, <3>1, <3>2 DEF InOrder
        <3>4. d \notin fresh
            <4>1. SUFFICES ASSUME d = RepairOf(t) PROVE FALSE
                BY <2>7
            <4>2. t \in Ids /\ x \in Ids
                BY <3>2 DEF IsGraph
            <4>3. x[2] = "plan" /\ RepairOf(t) = RepairOf(x)
                BY <2>10, <3>2, <4>1, <4>2, IdParts DEF Layered
            <4>4. x[1] = t[1]
                BY <4>2, <4>3, IdParts
            <4>5. CASE t[2] = "plan"
                BY <3>1, <4>2, <4>3, <4>4, <4>5, IdParts
            <4>6. CASE t[2] = "repair"
                BY <2>3, <3>3, <4>1, <4>2, <4>6, IdParts
            <4> QED
                BY <4>2, <4>5, <4>6, IdParts
        <3>5. d \in Nodes(o.graph) /\ d # t
            BY <2>3, <2>6, <2>10, <3>3
        <3> QED
            BY <2>1, <2>2, <2>4, <3>3, <3>4, <3>5
    <2>11. BegunInOrder(m.graph)
        BY <2>4, <2>5, <2>10 DEF BegunInOrder
    <2> QED
        BY <2>4, <2>9, <2>11 DEF o
<1> QED
    BY <1>1, <1>2

LEMMA MarkedReady ==
    ASSUME NEW o, o = [graph |-> o.graph, affected |-> o.affected], IsGraph(o.graph),
           NEW S, NEW s \in TaskStates, NEW t \in o.affected \cap Nodes(o.graph),
           OverlayMark(o, S, s).graph.state[t] = "READY"
    PROVE  \A d \in o.graph.deps[t] : OverlayMark(o, S, s).graph.state[d] = "COMPLETED"
<1> DEFINE m == OverlayMark(o, S, s)
           marked(x) == IF x \in S THEN s ELSE o.graph.state[x]
<1>1. /\ \A x \in Nodes(o.graph), y \in Begun : m.graph.state[x] = y <=> marked(x) = y
      /\ marked(t) \notin Begun =>
             (m.graph.state[t] # "PENDING" <=> \A d \in o.graph.deps[t] : marked(d) = "COMPLETED")
    BY MarkedStates
<1> HIDE DEF m, marked
<1>2. m.graph.state[t] = "READY"
    BY DEF m
<1>3. marked(t) \notin Begun
    BY <1>1, <1>2 DEF Begun
<1>4. \A d \in o.graph.deps[t] : d \in Nodes(o.graph) /\ marked(d) = "COMPLETED"
    BY <1>1, <1>2, <1>3 DEF IsGraph
<1>5. "COMPLETED" \in Begun
    BY DEF Begun
<1>6. \A d \in o.graph.deps[t] : m.graph.state[d] = "COMPLETED"
    BY <1>1, <1>4, <1>5
<1> QED
    BY <1>6 DEF m

\* A task that is ready or running is skipped: what it waits for is done.
LEMMA SkippedOrders ==
    ASSUME NEW o, o = [graph |-> o.graph, affected |-> o.affected], IsGraph(o.graph),
           BegunInOrder(o.graph), NEW t \in Nodes(o.graph), CanSkip(o, t),
           o.graph.state[t] = "READY" =>
               \A d \in o.graph.deps[t] : o.graph.state[d] = "COMPLETED"
    PROVE  LET m == OverlayMark(o, {t}, "COMPLETED")
           IN  m.graph.deps = o.graph.deps /\ BegunInOrder(m.graph)
<1> DEFINE m == OverlayMark(o, {t}, "COMPLETED")
<1>1. "COMPLETED" \in TaskStates /\ {"RUNNING", "COMPLETED"} \subseteq Begun
    BY DEF TaskStates, Begun
<1>2. /\ m.graph.deps = o.graph.deps
      /\ \A x \in Nodes(o.graph), s \in Begun :
             m.graph.state[x] = s <=> (IF x \in {t} THEN "COMPLETED" ELSE o.graph.state[x]) = s
    BY <1>1, MarkedStates
<1>3. \A x \in Nodes(o.graph) : o.graph.deps[x] \subseteq Nodes(o.graph)
    BY DEF IsGraph
<1> HIDE DEF m
<1>4. ASSUME NEW x \in Nodes(o.graph), m.graph.state[x] \in Begun, NEW d \in o.graph.deps[x]
      PROVE  o.graph.state[d] = "COMPLETED"
    <2>1. CASE x = t
        BY <1>1, <1>4, <2>1 DEF CanSkip, BegunInOrder
    <2>2. CASE x # t
        <3>1. o.graph.state[x] \in Begun
            BY <1>2, <1>4, <2>2
        <3> QED
            BY <1>4, <3>1 DEF BegunInOrder
    <2> QED
        BY <2>1, <2>2
<1>5. ASSUME NEW x \in Nodes(o.graph), m.graph.state[x] \in Begun, NEW d \in o.graph.deps[x]
      PROVE  m.graph.state[d] = "COMPLETED"
    BY <1>1, <1>2, <1>3, <1>4, <1>5
<1>6. BegunInOrder(m.graph)
    BY <1>2, <1>5 DEF BegunInOrder, Nodes
<1> QED
    BY <1>2, <1>6 DEF m

\* What is asked for has failed or is done, and what is skipped is one task.
AskedKnown ==
    state = "PARTIAL_REPAIR" =>
        /\ repair.tasks # {}
        /\ \A t \in repair.tasks :
               t \in Nodes(graph) /\ graph.state[t] \in {"FAILED", "COMPLETED"}
        /\ IsRetry \/ \E t \in Nodes(graph) : repair.tasks = {t}

\* The task that ran last belongs to the graph, and what is verified is done.
LastKnown ==
    /\ execId \subseteq Nodes(graph)
    /\ state \in {"ARBITRATION", "MICRO_PLAN"} => execId = {}
    /\ state = "VERIFY" => AllDone(graph)

OrderInv == InOrder(graph) /\ Layered(graph) /\ AskedKnown /\ LastKnown

LEMMA RepairOrders ==
    ASSUME IsGraph(graph), OrderInv, state = "PARTIAL_REPAIR"
    PROVE  /\ IsRetry \/ Repaired.done => BegunInOrder(Repaired.graph)
           /\ Layered(Repaired.graph)
<1> DEFINE o == CreateOverlay(graph, repair.tasks, intel)
<1>1. InOrder(graph) /\ Layered(graph) /\ AskedKnown
    BY DEF OrderInv
<1>2. /\ o = [graph |-> o.graph, affected |-> o.affected] /\ IsGraph(o.graph)
      /\ Nodes(graph) \subseteq Nodes(o.graph) /\ Layered(o.graph)
      /\ "PENDING" \in TaskStates
    BY <1>1, OverlayGraph, OverlayLayered DEF TaskStates
<1>3. CASE IsRetry
    <2> DEFINE m == Reopened(graph, o, repair.tasks)
    <2>1. m.graph.deps = o.graph.deps /\ BegunInOrder(m.graph)
        BY <1>1, ReopenedOrders
    <2>2. Repaired.graph = m.graph
        BY <1>3 DEF Repaired
    <2> HIDE DEF m, o
    <2>3. Layered(m.graph)
        BY <1>2, <2>1 DEF Layered, Nodes
    <2> QED
        BY <2>1, <2>2, <2>3
<1>4. CASE ~IsRetry
    <2>1. PICK t \in Nodes(graph) : repair.tasks = {t}
        BY <1>1, <1>4 DEF AskedKnown
    <2>2. t = CHOOSE task \in repair.tasks : TRUE
        BY <2>1
    <2> DEFINE reset == ResetForSkip(graph, o, t)
               m     == OverlayMark(reset, {t}, "COMPLETED")
    <2>3. Repaired.graph = m.graph /\ Repaired.done = CanSkip(reset, t)
        BY <1>4, <2>2 DEF Repaired
    <2>4. /\ reset.affected = o.affected /\ reset.graph.deps = o.graph.deps
          /\ BegunInOrder(reset.graph)
        BY <1>1, <2>1, ResetOrders
    <2>5. PICK S : reset = OverlayMark(o, S, "PENDING")
        BY DEF ResetForSkip, Reopened
    <2>6. t \in o.affected
        BY <2>1, OverlayParts, DownstreamCloses
    <2> HIDE DEF o, reset
    <2>7. /\ reset = [graph |-> reset.graph, affected |-> reset.affected]
          /\ IsGraph(reset.graph) /\ Nodes(reset.graph) = Nodes(o.graph)
        BY <1>2, <2>5, MarkedOverlay
    <2>8. t \in o.affected \cap Nodes(o.graph)
        BY <1>2, <2>6
    <2>9. reset.graph.state[t] = "READY" =>
              \A d \in reset.graph.deps[t] : reset.graph.state[d] = "COMPLETED"
        BY <1>2, <2>4, <2>5, <2>8, MarkedReady
    <2>10. Repaired.done => BegunInOrder(m.graph)
        BY <2>3, <2>4, <2>7, <2>8, <2>9, SkippedOrders
    <2>11. m.graph.deps = reset.graph.deps
        <3>1. "COMPLETED" \in TaskStates
            BY DEF TaskStates
        <3> QED
            BY <2>7, <3>1, MarkedStates
    <2> HIDE DEF m
    <2>12. Layered(m.graph)
        BY <1>2, <2>4, <2>11 DEF Layered, Nodes
    <2> QED
        BY <1>4, <2>3, <2>10, <2>12
<1> QED
    BY <1>3, <1>4

\* A set of numbers that is not empty has a least element.
LEMMA LeastNumber ==
    ASSUME NEW T \in SUBSET Nat, T # {}
    PROVE  \E x \in T : \A y \in T : x <= y
<1>1. PICK x \in T : \A y \in T : ~(<<y, x>> \in OpToRel(<, Nat))
    BY NatLessThanWellFounded, WFMin, Zenon
<1>2. ASSUME NEW y \in T
      PROVE  x <= y
    <2>1. <<y, x>> \in Nat \X Nat
        OBVIOUS
    <2> QED
        BY <1>1, <2>1 DEF OpToRel
<1> QED
    BY <1>2

\* No layered graph has a cycle: of any set of tasks, one of the lowest layer
\* waits for none of them.
LEMMA LayeredIsDag == ASSUME NEW g, IsGraph(g), Layered(g) PROVE IsDag(g)
<1> DEFINE layer(t) == 2 * t[1] + (IF t[2] = "plan" THEN 1 ELSE 0)
<1>1. \A t \in Nodes(g) : t \in Ids /\ g.deps[t] \subseteq Nodes(g) /\ layer(t) \in Nat
    BY IdParts DEF IsGraph
<1>2. ASSUME NEW t \in Nodes(g), NEW d \in g.deps[t] PROVE layer(d) < layer(t)
    <2>1. /\ t \in Ids /\ d \in Ids /\ t[1] \in Nat /\ d[1] \in Nat
          /\ d[2] \in {"plan", "repair"} /\ t[2] \in {"plan", "repair"}
        BY <1>1, IdParts
    <2>2. CASE d[2] = "plan" /\ d[1] < t[1]
        BY <2>1, <2>2
    <2>3. CASE t[2] = "plan" /\ d = RepairOf(t)
        <3>1. d[1] = t[1] /\ d[2] = "repair"
            BY <2>1, <2>3, IdParts
        <3> QED
            BY <2>1, <2>3, <3>1
    <2> QED
        BY <2>2, <2>3 DEF Layered
<1>3. ASSUME NEW t \in Nodes(g) PROVE g.deps[t] \subseteq Nodes(g) \ {t}
    <2>1. ASSUME t \in g.deps[t] PROVE FALSE
        <3>1. layer(t) < layer(t) /\ layer(t) \in Nat
            BY <1>1, <1>2, <2>1
        <3> HIDE DEF layer
        <3> QED
            BY <3>1
    <2> QED
        BY <1>1, <2>1
<1>4. ASSUME NEW S \in SUBSET Nodes(g), S # {} PROVE \E t \in S : g.deps[t] \cap S = {}
    <2> DEFINE T == {layer(t) : t \in S}
    <2>1. T \in SUBSET Nat /\ T # {}
        BY <1>1, <1>4
    <2>2. \E x \in T : \A y \in T : x <= y
        <3> HIDE DEF T
        <3> QED
            BY <2>1, LeastNumber
    <2>3. PICK t \in S : \A u \in S : layer(t) <= layer(u)
        BY <2>2
    <2>4. ASSUME NEW d \in g.deps[t], d \in S PROVE FALSE
        <3>1. layer(d) < layer(t) /\ layer(t) <= layer(d) /\ layer(d) \in Nat /\ layer(t) \in Nat
            BY <1>1, <1>2, <1>4, <2>3, <2>4
        <3> HIDE DEF layer
        <3> QED
            BY <3>1
    <2> QED
        BY <2>4
<1> QED
    BY <1>3, <1>4 DEF IsDag

\* A task that is asked for is reopened: it has failed or is done, or it is a
\* repair task made anew, which waits for nothing but tasks that are done.
LEMMA RetryReopens ==
    ASSUME IsGraph(graph), OrderInv, state = "PARTIAL_REPAIR", IsRetry
    PROVE  Repaired.done
<1> DEFINE ids   == repair.tasks
           o     == CreateOverlay(graph, ids, intel)
           fresh == Fresh(graph, ids, intel)
<1>1. /\ InOrder(graph) /\ Layered(graph) /\ ids # {}
      /\ \A t \in ids : t \in Nodes(graph) /\ t \in Ids /\ graph.state[t] \in {"FAILED", "COMPLETED"}
    BY DEF OrderInv, AskedKnown, IsGraph
<1>2. /\ Nodes(o.graph) = Nodes(graph) \cup fresh
      /\ o.affected = Downstream(graph, ids) \cup fresh
      /\ \A t \in Nodes(o.graph), s \in Begun :
             o.graph.state[t] = s <=> t \notin fresh /\ graph.state[t] = s
      /\ {"FAILED", "COMPLETED"} \subseteq Begun /\ "PENDING" \notin Begun
    BY OverlayParts DEF Begun
<1>3. \A t \in ids : t \in Downstream(graph, ids) \cap o.affected
    BY <1>1, <1>2, DownstreamCloses
<1>4. SUFFICES \E t \in ids : o.graph.state[t] # "PENDING"
    <2>1. ASSUME NEW t \in ids, o.graph.state[t] # "PENDING"
          PROVE  t \in ToReopen(graph, o, ids)
        BY <1>3, <2>1 DEF ToReopen
    <2> QED
        BY <1>4, <2>1 DEF Repaired
<1>5. CASE \E t \in ids : t \notin fresh
    <2>1. PICK t \in ids : t \notin fresh
        BY <1>5
    <2>2. o.graph.state[t] = graph.state[t]
        BY <1>1, <1>2, <2>1
    <2> QED
        BY <1>1, <2>1, <2>2
<1>6. CASE \A t \in ids : t \in fresh
    <2>1. PICK t \in ids : TRUE
        BY <1>1
    <2>2. \A u \in fresh : u[2] = "repair"
        BY <1>1, IdParts DEF Fresh, RepairedTasks
    <2>3. RepairedTasks(graph, ids, intel) \subseteq fresh
        BY <1>6 DEF RepairedTasks
    <2>4. OverlayDeps(graph, ids, intel, t, o.graph.deps[t])
        BY <1>1, <1>2, <2>1, OverlayParts
    <2>5. o.graph.deps[t] = graph.deps[t]
        BY <2>3, <2>4 DEF OverlayDeps
    <2>6. \A d \in graph.deps[t] : graph.state[d] = "COMPLETED"
        BY <1>1, <2>1 DEF InOrder
    <2>7. \A d \in graph.deps[t] : d[2] = "plan"
        BY <1>1, <1>6, <2>1, <2>2 DEF Layered
    <2>8. \A d \in o.graph.deps[t] : d \notin fresh /\ graph.state[d] = "COMPLETED"
        BY <2>2, <2>5, <2>6, <2>7
    <2>9. o.graph.state[t] # "PENDING"
        BY <1>6, <2>1, <2>8, OverlayParts
    <2> QED
        BY <2>1, <2>9
<1> QED
    BY <1>5, <1>6

LEMMA RetryHasGraph == ASSUME IsGraph(graph), OrderInv PROVE RetryIsAccepted
<1> SUFFICES ASSUME state = "PARTIAL_REPAIR", IsRetry
             PROVE  Repaired.done /\ IsDag(Repaired.graph)
    BY DEF RetryIsAccepted
<1>1. Repaired.done
    BY RetryReopens
<1>2. IsDag(Repaired.graph)
    BY RepairedGraph, RepairOrders, LayeredIsDag
<1> QED
    BY <1>1, <1>2

\* A repair touches what is downstream of the tasks asked for, and their repairs.
LEMMA RepairTouches ==
    ASSUME IsGraph(graph), NEW t \in Nodes(graph), graph.state[t] = "COMPLETED",
           t \notin Downstream(graph, repair.tasks),
           t \notin {RepairOf(u) : u \in repair.tasks},
           IsRetry \/ \E u \in Nodes(graph) : repair.tasks = {u}
    PROVE  Repaired.graph.state[t] = "COMPLETED"
<1> DEFINE o == CreateOverlay(graph, repair.tasks, intel)
           u == CHOOSE task \in repair.tasks : TRUE
<1>1. /\ o = [graph |-> o.graph, affected |-> o.affected] /\ IsGraph(o.graph)
      /\ t \in Nodes(o.graph) /\ {"PENDING", "COMPLETED"} \subseteq TaskStates
      /\ "COMPLETED" \in Begun
    BY OverlayGraph DEF TaskStates, Begun
<1>2. o.graph.state[t] = "COMPLETED"
    <2>1. t \notin Fresh(graph, repair.tasks, intel)
        BY DEF Fresh, RepairedTasks
    <2> QED
        BY <1>1, <2>1, OverlayParts
<1>3. CASE IsRetry
    <2> DEFINE S == ToReopen(graph, o, repair.tasks)
    <2>1. t \notin S
        BY DEF ToReopen
    <2>2. Repaired.graph = OverlayMark(o, S, "PENDING").graph
        BY <1>3 DEF Repaired, Reopened
    <2> HIDE DEF o, S
    <2> QED
        BY <1>1, <1>2, <2>1, <2>2, MarkedStates
<1>4. CASE ~IsRetry
    <2> DEFINE reset == ResetForSkip(graph, o, u)
    <2>1. Repaired.graph = OverlayMark(reset, {u}, "COMPLETED").graph
        BY <1>4 DEF Repaired
    <2>2. \E S : (t = u \/ t \notin S) /\ reset = OverlayMark(o, S, "PENDING")
        <3>1. CASE o.graph.state[u] = "FAILED"
            BY <3>1 DEF ResetForSkip
        <3>2. CASE o.graph.state[u] # "FAILED"
            <4>1. reset = OverlayMark(o, ToReopen(graph, o, {u}), "PENDING")
                BY <3>2 DEF ResetForSkip, Reopened
            <4>2. repair.tasks = {u}
                BY <1>4
            <4>3. t \notin ToReopen(graph, o, {u})
                BY <4>2 DEF ToReopen
            <4> QED
                BY <4>1, <4>3
        <3> QED
            BY <3>1, <3>2
    <2>3. PICK S : (t = u \/ t \notin S) /\ reset = OverlayMark(o, S, "PENDING")
        BY <2>2
    <2> HIDE DEF o, u, reset
    <2>4. /\ reset = [graph |-> reset.graph, affected |-> reset.affected]
          /\ IsGraph(reset.graph) /\ Nodes(reset.graph) = Nodes(o.graph)
        BY <1>1, <2>3, MarkedOverlay
    <2>5. t = u \/ reset.graph.state[t] = "COMPLETED"
        BY <1>1, <1>2, <2>3, MarkedStates
    <2> QED
        BY <1>1, <2>1, <2>4, <2>5, MarkedStates
<1> QED
    BY <1>3, <1>4

LEMMA OrderIsBegun == \A g : InOrder(g) => BegunInOrder(g)
BY DEF InOrder, BegunInOrder, Begun

\* A task that is ready or running goes on.
LEMMA OneStateOrders ==
    ASSUME NEW g, IsGraph(g), InOrder(g), Layered(g),
           NEW t \in Nodes(g), g.state[t] \in {"READY", "RUNNING"}, NEW s \in Begun
    PROVE  LET h == [g EXCEPT !.state[t] = s]
           IN  /\ InOrder(h) /\ Layered(h) /\ h.state[t] = s
               /\ InOrder(Refresh(h)) /\ Layered(Refresh(h)) /\ Refresh(h).state[t] = s
<1> DEFINE h == [g EXCEPT !.state[t] = s]
<1>1. s \in TaskStates
    BY DEF Begun, TaskStates
<1>2. IsGraph(h) /\ Nodes(h) = Nodes(g)
    BY <1>1, OneState
<1>3. /\ h.deps = g.deps /\ h.state[t] = s
      /\ \A x \in Nodes(g) : x # t => h.state[x] = g.state[x]
    BY DEF IsGraph
<1> HIDE DEF h
<1>4. ASSUME NEW x \in Nodes(g), h.state[x] # "PENDING", NEW d \in g.deps[x]
      PROVE  h.state[d] = "COMPLETED"
    <2>1. g.state[x] # "PENDING"
        BY <1>3, <1>4
    <2>2. g.state[d] = "COMPLETED" /\ d \in Nodes(g)
        BY <1>4, <2>1 DEF InOrder, IsGraph
    <2>3. d # t
        BY <2>2
    <2> QED
        BY <1>3, <2>2, <2>3
<1>5. InOrder(h) /\ Layered(h)
    BY <1>2, <1>3, <1>4 DEF InOrder, Layered
<1>6. InOrder(Refresh(h)) /\ Layered(Refresh(h)) /\ Refresh(h).state[t] = s
    BY <1>2, <1>3, <1>5, OrderIsBegun, RefreshOrders
<1> QED
    BY <1>3, <1>5, <1>6 DEF h

LEMMA EmptyOrders == InOrder(EmptyGraph) /\ Layered(EmptyGraph) /\ Nodes(EmptyGraph) = {}
BY DEF InOrder, Layered, Nodes, EmptyGraph

LEMMA ChainOrders ==
    ASSUME NEW n \in 1 .. MaxTasks + 1 PROVE InOrder(Chain(n)) /\ Layered(Chain(n))
<1> DEFINE ids == {Planned(k) : k \in 1 .. n}
           g   == [deps  |-> [t \in ids |-> {Planned(k) : k \in {t[1] - 1} \ {0}}],
                   state |-> [t \in ids |-> "PENDING"]]
<1>1. Nodes(g) = ids /\ \A t \in ids : g.state[t] = "PENDING"
    BY DEF Nodes
<1>2. ids \subseteq Ids
    BY LoopAssumption DEF Ids
<1>3. ASSUME NEW t \in ids, NEW d \in g.deps[t]
      PROVE  d \in ids /\ d[2] = "plan" /\ d[1] < t[1]
    <2>1. PICK m \in 1 .. n : t = Planned(m)
        BY <1>3
    <2>2. t[1] = m
        BY <2>1 DEF Planned
    <2>3. PICK k \in {t[1] - 1} \ {0} : d = Planned(k)
        BY <1>3
    <2>4. k \in 1 .. n /\ k < m
        BY <2>2, <2>3
    <2> QED
        BY <2>2, <2>3, <2>4 DEF Planned
<1>4. IsGraph(g)
    <2>1. g.deps \in [ids -> SUBSET ids]
        <3>1. \A t \in ids : g.deps[t] \subseteq ids
            BY <1>3
        <3>2. g.deps = [t \in ids |-> g.deps[t]]
            OBVIOUS
        <3> HIDE DEF g, ids
        <3> QED
            BY <3>1, <3>2
    <2>2. g.state \in [ids -> TaskStates] /\ g = [deps |-> g.deps, state |-> g.state]
        BY DEF TaskStates
    <2> HIDE DEF g, ids
    <2> QED
        BY <1>1, <1>2, <2>1, <2>2 DEF IsGraph
<1>5. Chain(n) = Refresh(g)
    BY DEF Chain
<1> HIDE DEF g, ids
<1>6. BegunInOrder(g) /\ Layered(g)
    BY <1>1, <1>3 DEF BegunInOrder, Layered, Begun
<1> QED
    BY <1>4, <1>5, <1>6, RefreshOrders

LEMMA InitOrders == Init => OrderInv
BY EmptyOrders DEF Init, OrderInv, AskedKnown, LastKnown

\* A step that leaves the tasks and the last result as they are, or drops them.
LEMMA OrderUntouched ==
    ASSUME LoopTypes, OrderInv, Plan \/ Arbitrate \/ ReAnchor \/ VerifyPasses \/ Reflect
                                     \/ Replan \/ Terminate \/ UNCHANGED vars
    PROVE  OrderInv'
<1>1. \/ UNCHANGED <<graph, execId>>
      \/ graph' = EmptyGraph /\ execId' = {}
    BY DEF Plan, Arbitrate, ReAnchor, VerifyPasses, Reflect, Replan, Terminate, vars, work,
           ClearWork
<1>2. InOrder(graph') /\ Layered(graph') /\ execId' \subseteq Nodes(graph')
    BY <1>1, EmptyOrders DEF OrderInv, LastKnown
<1>3. CASE UNCHANGED vars
    BY <1>2, <1>3 DEF OrderInv, AskedKnown, LastKnown, IsRetry, vars, work
<1>4. CASE Plan \/ Arbitrate \/ ReAnchor \/ VerifyPasses \/ Reflect \/ Replan \/ Terminate
    <2>1. state' \notin {"PARTIAL_REPAIR", "VERIFY"}
        BY <1>4 DEF Plan, Arbitrate, ReAnchor, VerifyPasses, Reflect, Replan, Terminate, Goto
    <2>2. state' \in {"ARBITRATION", "MICRO_PLAN"} => execId' = {}
        BY <1>4 DEF Plan, Arbitrate, ReAnchor, VerifyPasses, Reflect, Replan, Terminate, Goto,
                    ClearWork, OrderInv, LastKnown
    <2> QED
        BY <1>2, <2>1, <2>2 DEF OrderInv, AskedKnown, LastKnown
<1> QED
    BY <1>3, <1>4

LEMMA ExecuteOrders ==
    ASSUME LoopTypes, OrderInv, MicroPlan \/ GovernanceRefuses \/ Execute PROVE OrderInv'
<1>1. /\ TypeOK /\ IsGraph(graph) /\ InOrder(graph) /\ Layered(graph) /\ BegunInOrder(graph)
      /\ execId \subseteq Nodes(graph)
    BY OrderIsBegun DEF LoopTypes, OrderInv, LastKnown
<1>2. CASE MicroPlan
    <2>1. payloads + 1 \in 1 .. MaxTasks + 1 /\ graph' = Chain(payloads + 1)
        BY <1>1, <1>2, BoundsType, CountersType DEF MicroPlan
    <2>2. execId' = {} /\ state' = "EXECUTE"
        BY <1>2 DEF MicroPlan, Goto, OrderInv, LastKnown
    <2> QED
        BY <2>1, <2>2, ChainOrders DEF OrderInv, AskedKnown, LastKnown
<1>3. CASE GovernanceRefuses
    <2> DEFINE states == [t \in Nodes(graph) |->
                             IF graph.state[t] = "FAILED" THEN "PENDING" ELSE graph.state[t]]
               h      == [graph EXCEPT !.state = states]
    <2>1. states \in [Nodes(graph) -> TaskStates]
        BY <1>1 DEF IsGraph, TaskStates
    <2>2. graph' = graph \/ graph' = Refresh(h)
        BY <1>3 DEF GovernanceRefuses
    <2>3. \A t \in Nodes(graph) : \/ states[t] = graph.state[t]
                                  \/ states[t] = "PENDING" /\ graph.state[t] = "FAILED"
        OBVIOUS
    <2> HIDE DEF states
    <2>4. IsGraph(h) /\ Nodes(h) = Nodes(graph) /\ h.deps = graph.deps /\ h.state = states
        BY <1>1, <2>1, WithStates DEF IsGraph
    <2> HIDE DEF h
    <2>5. \A t \in Nodes(graph) : graph.deps[t] \subseteq Nodes(graph)
        BY <1>1 DEF IsGraph
    <2>6. BegunInOrder(h) /\ Layered(h)
        BY <1>1, <2>3, <2>4, <2>5 DEF BegunInOrder, Layered, Begun
    <2>7. InOrder(graph') /\ Layered(graph') /\ Nodes(graph') = Nodes(graph)
        BY <1>1, <2>2, <2>4, <2>6, RefreshOrders, RefreshGraph
    <2>8. state' \in {"EXECUTE", "TERMINATE", "REPLAN"} /\ execId' = execId
        <3>1. Decide(exec, "") \in {"RETRY_TASK", "SKIP_TASK", "REPLAN_REQUIRED", "ABORT_LOOP"}
            BY DecideAnswers DEF Hints
        <3> QED
            BY <1>3, <3>1 DEF GovernanceRefuses, Goto
    <2> QED
        BY <1>1, <2>7, <2>8 DEF OrderInv, AskedKnown, LastKnown
<1>4. CASE Execute
    <2>1. graph' = Refresh(graph) /\ execId' = execId
        BY <1>4 DEF Execute
    <2>2. InOrder(graph') /\ Layered(graph') /\ Nodes(graph') = Nodes(graph)
        BY <1>1, <2>1, RefreshOrders, RefreshGraph
    <2>3. \/ state' = "VERIFY" /\ AllDone(graph')
          \/ /\ state' = "PARTIAL_REPAIR" /\ Failed(graph') # {}
             /\ repair' = [tasks |-> Failed(graph'), decision |-> "RETRY_TASK"]
          \/ state' \in {"RUN", "REPLAN"}
        BY <1>4 DEF Execute, Schedule, Goto
    <2>4. AskedKnown'
        BY <2>3 DEF AskedKnown, IsRetry, Failed
    <2>5. LastKnown'
        BY <1>1, <2>1, <2>2, <2>3 DEF LastKnown
    <2> QED
        BY <2>2, <2>4, <2>5 DEF OrderInv
<1> QED
    BY <1>2, <1>3, <1>4

LEMMA TaskOrders ==
    ASSUME LoopTypes, OrderInv, NEW t \in Nodes(graph),
           \/ StartTask(t) \/ TaskSucceeds(t)
           \/ \E result \in Failures, hint \in Hints, known \in BOOLEAN :
                  TaskFails(t, result, hint, known)
    PROVE  OrderInv'
<1>1. /\ IsGraph(graph) /\ InOrder(graph) /\ Layered(graph) /\ execId \subseteq Nodes(graph)
      /\ {"RUNNING", "COMPLETED", "FAILED"} = Begun
    BY DEF LoopTypes, OrderInv, LastKnown, Begun
<1>2. CASE StartTask(t)
    <2>1. /\ \/ graph' = graph
             \/ graph.state[t] = "READY" /\ graph' = [graph EXCEPT !.state[t] = "RUNNING"]
          /\ state' \in {"RUN", "REPLAN"} /\ execId' = execId
        BY <1>2 DEF StartTask, Goto
    <2> DEFINE h == [graph EXCEPT !.state[t] = "RUNNING"]
    <2>2. graph.state[t] = "READY" => InOrder(h) /\ Layered(h) /\ Nodes(h) = Nodes(graph)
        <3>1. "RUNNING" \in TaskStates /\ "RUNNING" \in Begun
            BY DEF TaskStates, Begun
        <3>2. Nodes(h) = Nodes(graph)
            BY <1>1, <3>1, OneState
        <3>3. graph.state[t] = "READY" => InOrder(h) /\ Layered(h)
            BY <1>1, <3>1, OneStateOrders
        <3> QED
            BY <3>2, <3>3
    <2>3. InOrder(graph') /\ Layered(graph') /\ Nodes(graph') = Nodes(graph)
        <3>1. \/ graph' = graph
              \/ graph.state[t] = "READY" /\ graph' = h
            BY <2>1
        <3> HIDE DEF h
        <3> QED
            BY <1>1, <2>2, <3>1
    <2> QED
        BY <1>1, <2>1, <2>3 DEF OrderInv, AskedKnown, LastKnown
<1>3. ASSUME t \in Running, NEW s \in {"COMPLETED", "FAILED"}, graph' = Mark(graph, t, s)
      PROVE  /\ InOrder(graph') /\ Layered(graph') /\ graph'.state[t] = s
             /\ Nodes(graph') = Nodes(graph)
    <2>1. s \in Begun /\ s \in TaskStates /\ graph.state[t] = "RUNNING"
        BY <1>1, <1>3 DEF TaskStates, Running
    <2> QED
        BY <1>1, <1>3, <2>1, OneStateOrders, OneState DEF Mark
<1>4. CASE TaskSucceeds(t)
    <2>1. /\ t \in Running /\ graph' = Mark(graph, t, "COMPLETED") /\ execId' = {t}
          /\ \/ state' \in {"RUN", "EXECUTE"}
             \/ state' = "VERIFY" /\ AllDone(graph')
        BY <1>4 DEF TaskSucceeds, Goto
    <2> QED
        BY <1>3, <2>1 DEF OrderInv, AskedKnown, LastKnown
<1>5. ASSUME NEW result \in Failures, NEW hint \in Hints, NEW known \in BOOLEAN,
             TaskFails(t, result, hint, known)
      PROVE  OrderInv'
    <2>1. t \in Running /\ graph' = Mark(graph, t, "FAILED") /\ execId' = {t}
        BY <1>5 DEF TaskFails
    <2>2. /\ InOrder(graph') /\ Layered(graph') /\ graph'.state[t] = "FAILED"
          /\ Nodes(graph') = Nodes(graph)
        BY <1>3, <2>1
    <2>3. \/ /\ state' = "PARTIAL_REPAIR"
             /\ \E d : repair' = [tasks |-> {t}, decision |-> d]
          \/ state' \in {"TERMINATE", "REPLAN"}
        BY <1>5 DEF TaskFails, Schedule, Goto
    <2>4. AskedKnown'
        BY <2>2, <2>3 DEF AskedKnown
    <2>5. LastKnown'
        BY <2>1, <2>2, <2>3 DEF LastKnown
    <2> QED
        BY <2>2, <2>4, <2>5 DEF OrderInv
<1> QED
    BY <1>2, <1>4, <1>5

LEMMA RepairKeepsOrder ==
    ASSUME LoopTypes, OrderInv, PartialRepair \/ VerifyFails PROVE OrderInv'
<1>1. /\ IsGraph(graph) /\ InOrder(graph) /\ Layered(graph) /\ execId \subseteq Nodes(graph)
    BY DEF LoopTypes, OrderInv, LastKnown
<1>2. CASE PartialRepair
    <2>1. /\ \/ Repaired.done /\ graph' = Refresh(Repaired.graph) /\ execId' = {}
             \/ UNCHANGED <<graph, execId>>
          /\ state = "PARTIAL_REPAIR" /\ state' \in {"EXECUTE", "REPLAN"}
        BY <1>2 DEF PartialRepair, Goto
    <2>2. InOrder(graph') /\ Layered(graph') /\ execId' \subseteq Nodes(graph')
        BY <1>1, <2>1, RepairedGraph, RepairOrders, RefreshOrders
    <2> QED
        BY <2>1, <2>2 DEF OrderInv, AskedKnown, LastKnown
<1>3. CASE VerifyFails
    <2>1. UNCHANGED <<graph, execId>> /\ AllDone(graph)
        BY <1>3 DEF VerifyFails, OrderInv, LastKnown
    <2>2. \/ /\ state' = "PARTIAL_REPAIR" /\ repair'.tasks # {}
             /\ repair'.tasks \in {Failed(graph), execId} /\ repair'.decision = "VERIFY_RETRY"
          \/ state' = "REPLAN"
        BY <1>3 DEF VerifyFails, Schedule, Goto
    <2>3. AskedKnown'
        BY <1>1, <2>1, <2>2 DEF AskedKnown, IsRetry, Failed, AllDone
    <2> QED
        BY <1>1, <2>1, <2>2, <2>3 DEF OrderInv, LastKnown
<1> QED
    BY <1>2, <1>3

LEMMA OrderInvariant == Spec => []OrderInv
<1>1. LoopTypes /\ OrderInv /\ [Next]_vars => OrderInv'
    BY OrderUntouched, ExecuteOrders, TaskOrders, RepairKeepsOrder DEF Next, Returned
<1> QED
    BY InitOrders, TypesInvariant, <1>1, PTL DEF Spec

(* A task that is done has everything it waits for done, for every number of *)
(* tasks and every order of failures and repairs (create_repair_overlay,    *)
(* reopen_task, mark_completed).                                            *)
THEOREM TasksDoneInOrder == Spec => []DoneInOrder
<1>1. OrderInv => DoneInOrder
    BY DEF OrderInv, InOrder, DoneInOrder
<1> QED
    BY OrderInvariant, <1>1, PTL

(* A retry within the budget goes back to EXECUTE, for any plan and however *)
(* often its tasks have been repaired (create_repair_overlay, reopen_task). *)
THEOREM RetriesAccepted == Spec => []RetryIsAccepted
<1>1. LoopTypes /\ OrderInv => RetryIsAccepted
    BY RetryHasGraph DEF LoopTypes
<1> QED
    BY TypesInvariant, OrderInvariant, <1>1, PTL

(* A repair leaves what is done alone, but for the tasks asked for, what    *)
(* follows them and their repairs (PARTIAL_REPAIR, TaskGraphOverlay::merge). *)
THEOREM RepairsArePartial == Spec => RepairIsPartial
<1> DEFINE Kept == PartialRepair =>
                      \A t \in Nodes(graph) :
                          /\ graph.state[t] = "COMPLETED"
                          /\ t \notin Downstream(graph, repair.tasks)
                          /\ t \notin {RepairOf(u) : u \in repair.tasks}
                          => graph'.state[t] = "COMPLETED"
<1>1. LoopTypes /\ OrderInv /\ [Next]_vars => [Kept]_vars
    <2> SUFFICES ASSUME LoopTypes, OrderInv, PartialRepair, NEW t \in Nodes(graph),
                        graph.state[t] = "COMPLETED",
                        t \notin Downstream(graph, repair.tasks),
                        t \notin {RepairOf(u) : u \in repair.tasks}
                 PROVE  graph'.state[t] = "COMPLETED"
        OBVIOUS
    <2>1. IsGraph(graph) /\ (IsRetry \/ \E u \in Nodes(graph) : repair.tasks = {u})
        BY DEF LoopTypes, OrderInv, AskedKnown, PartialRepair
    <2>2. CASE graph' = graph
        BY <2>2
    <2>3. CASE graph' = Refresh(Repaired.graph)
        <3>1. IsGraph(Repaired.graph) /\ t \in Nodes(Repaired.graph)
            BY <2>1, RepairedGraph
        <3>2. Repaired.graph.state[t] = "COMPLETED"
            BY <2>1, RepairTouches
        <3> QED
            BY <2>3, <3>1, <3>2, RefreshedStates DEF Refresh, Begun
    <2> QED
        BY <2>2, <2>3 DEF PartialRepair
<1> QED
    BY TypesInvariant, OrderInvariant, <1>1, PTL DEF Spec, RepairIsPartial
===============================================================================

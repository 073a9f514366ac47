---------------------------- MODULE ModelRouting ----------------------------
(***************************************************************************)
(* In which order MultiModelOrchestrator asks the providers                *)
(* (src/src/ai/orchestration/MultiModelOrchestrator.cpp).                  *)
(*                                                                         *)
(* A routing context ctx has the fields                                    *)
(*   available   the providers the request may use, in their order         *)
(*   role        the providers the registry names for the request's role   *)
(*   task, reasoning, analysis   the providers of the routing table        *)
(*   high        the task is complex                                       *)
(*   tight       the latency budget is at most 250 ms                      *)
(***************************************************************************)
EXTENDS Sequences, SequencesExt, Subsequences

CONSTANTS
    LocalProviders,   \* the providers that run on this machine
    NoProvider        \* an empty provider name

\* What pushUnique makes of providers pushed one after the other: the first
\* occurrence of each, and no empty name.
PushUnique(providers) ==
    Subsequence(providers,
                {i \in DOMAIN providers : /\ providers[i] # NoProvider
                                          /\ \A j \in 1 .. i - 1 : providers[j] # providers[i]})

Those(providers, wanted) ==
    Subsequence(providers, {i \in DOMAIN providers : providers[i] \in wanted})

Locals(available) == Those(available, LocalProviders)

\* The first of the task's provider, that of reasoning for a complex task and
\* a local one for a hurried request.
PreferredProviderFor(ctx) ==
    IF Contains(ctx.available, ctx.task) THEN ctx.task
    ELSE IF ctx.high /\ Contains(ctx.available, ctx.reasoning) THEN ctx.reasoning
    ELSE IF ctx.tight /\ Locals(ctx.available) # <<>> THEN Head(Locals(ctx.available))
    ELSE NoProvider

DefaultProviderFor(ctx) ==
    IF ctx.available = <<>> THEN NoProvider
    ELSE IF Contains(ctx.available, ctx.analysis) THEN ctx.analysis
    ELSE Head(ctx.available)

BuildCandidateProviders(ctx) ==
    PushUnique(Those(ctx.role, ToSet(ctx.available)) \o <<PreferredProviderFor(ctx)>>
                   \o Locals(ctx.available) \o <<DefaultProviderFor(ctx)>> \o ctx.available)
=============================================================================

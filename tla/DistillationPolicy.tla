------------------------- MODULE DistillationPolicy -------------------------
(***************************************************************************)
(* The distillation policy engine on top of the jobs of Distillation.  An  *)
(* evaluation, started by a memory event or by the 30 second ticker, reads *)
(* the matching policies, counts memories, and for each policy that should *)
(* fire inserts a run, stamps last_triggered_at, starts a job and marks    *)
(* the run completed.  Time is abstracted to whether the min_interval_secs *)
(* of a policy has passed since last_triggered_at.                         *)
(***************************************************************************)
EXTENDS Distillation

CONSTANTS
    Policies,        \* distillation_policies rows
    PolicyPrefix,    \* policy -> path_prefix
    CountThreshold,  \* policy -> count_threshold
    AgePolicies,     \* policies that have max_age_secs
    Evals,           \* evaluations that may run at the same time
    MaxEvals,        \* bound on the evaluations ever begun
    MaxPatches       \* bound on the policy updates

ASSUME DistillationPolicyAssumption ==
    /\ PolicyPrefix \in [Policies -> Prefixes]
    /\ CountThreshold \in [Policies -> Nat \ {0}]
    /\ AgePolicies \subseteq Policies
    /\ IsFiniteSet(Evals)
    /\ {MaxEvals, MaxPatches} \subseteq Nat

VARIABLES
    enabled,    \* the policies with enabled = true
    cooling,    \* the policies triggered less than min_interval_secs ago
    eval,       \* evaluation -> [at, all, prefix, todo, cur, count, run]
    evals,      \* number of evaluations begun
    patches,    \* number of policy updates
    fired       \* history: number of jobs the engine started for policies

engineVars == <<enabled, cooling, eval, evals, patches, fired>>
vars == <<jobVars, engineVars>>

NoEval == [at |-> "none", all |-> FALSE, prefix |-> "", todo |-> {}, cur |-> "", count |-> 0, run |-> 0]

Init ==
    /\ JobInit
    /\ enabled = Policies
    /\ cooling = {}
    /\ eval = [e \in Evals |-> NoEval]
    /\ evals = 0
    /\ patches = 0
    /\ fired = 0

\* PATCH /v1/distillation/policies/:id.
Patch(p) ==
    /\ patches < MaxPatches
    /\ patches' = patches + 1
    /\ enabled' = IF p \in enabled THEN enabled \ {p} ELSE enabled \cup {p}
    /\ UNCHANGED <<jobVars, cooling, eval, evals, fired>>

\* min_interval_secs pass.
IntervalPasses(p) ==
    /\ p \in cooling
    /\ cooling' = cooling \ {p}
    /\ UNCHANGED <<jobVars, enabled, eval, evals, patches, fired>>

(***************************************************************************)
(* Evaluations.                                                            *)
(***************************************************************************)
\* The policies as the SELECT returned them.
ReadPolicies(ps) == {[policy |-> p, cool |-> p \in cooling] : p \in ps \cap enabled}

BeginEval(e, new) ==
    /\ eval[e] = NoEval
    /\ evals < MaxEvals
    /\ evals' = evals + 1
    /\ eval' = [eval EXCEPT ![e] = new]

Matching(prefix) == {p \in Policies : prefix \in Under[PolicyPrefix[p]]}

\* OnMemoryEvent: without a matching policy the prefix is distilled right away.
evaluatePrefix(e, prefix) ==
    /\ IF Matching(prefix) \cap enabled # {}
       THEN /\ BeginEval(e, [NoEval EXCEPT !.at = "load", !.prefix = prefix,
                                           !.todo = ReadPolicies(Matching(prefix))])
            /\ UNCHANGED jobVars
       ELSE /\ eval[e] = NoEval
            /\ \E j \in Jobs : TriggerForPrefix(j, prefix)
            /\ UNCHANGED <<eval, evals>>
    /\ UNCHANGED <<enabled, cooling, patches, fired>>

\* A tick of Start.
evaluateAll(e) ==
    /\ enabled # {}
    /\ BeginEval(e, [NoEval EXCEPT !.at = "next", !.all = TRUE, !.todo = ReadPolicies(Policies)])
    /\ UNCHANGED <<jobVars, enabled, cooling, patches, fired>>

\* The count of an event's evaluation is of the event's prefix, for all policies.
loadEvalState(e) ==
    /\ eval[e].at = "load"
    /\ eval' = [eval EXCEPT ![e] = [@ EXCEPT !.at = "next", !.count = Cardinality(LiveUnder(eval[e].prefix))]]
    /\ UNCHANGED <<jobVars, enabled, cooling, evals, patches, fired>>

ShouldTriggerPolicy(r, count, aged) ==
    ~r.cool /\ (count >= CountThreshold[r.policy] \/ aged)

\* Back to the loop over the policies, or out of it.
Resume(e, todo) ==
    eval' = [eval EXCEPT ![e] = IF todo = {} THEN NoEval
                                ELSE [@ EXCEPT !.at = "next", !.todo = todo]]

\* maybeTrigger up to its decision; a tick counts for each policy.  The loop's
\* order is left open, and whether the oldest memory is too old is an input.
maybeTrigger(e, r) ==
    LET count == IF eval[e].all THEN Cardinality(LiveUnder(PolicyPrefix[r.policy]))
                                ELSE eval[e].count
        rest == eval[e].todo \ {r}
    IN
    /\ eval[e].at = "next"
    /\ \E aged \in {FALSE, r.policy \in AgePolicies /\ count > 0} :
         IF ShouldTriggerPolicy(r, count, aged)
         THEN eval' = [eval EXCEPT ![e] = [@ EXCEPT !.at = "begin", !.cur = r.policy, !.todo = rest]]
         ELSE Resume(e, rest)
    /\ UNCHANGED <<jobVars, enabled, cooling, evals, patches, fired>>

beginRun(e) ==
    /\ eval[e].at = "begin"
    /\ \/ /\ runs' = Append(runs, [policy |-> eval[e].cur, prefix |-> PolicyPrefix[eval[e].cur],
                                     status |-> "running", distilled |-> 0])
          /\ eval' = [eval EXCEPT ![e] = [@ EXCEPT !.at = "stamp", !.run = Len(runs) + 1]]
       \/ UNCHANGED runs /\ Resume(e, eval[e].todo)
    /\ UNCHANGED <<memories, distilled, job, sem, triggers, enabled, cooling, evals, patches, fired>>

\* A failing UPDATE is only logged.
markPolicyTriggered(e) ==
    /\ eval[e].at = "stamp"
    /\ cooling' \in {cooling, cooling \cup {eval[e].cur}}
    /\ eval' = [eval EXCEPT ![e].at = "trigger"]
    /\ UNCHANGED <<jobVars, enabled, evals, patches, fired>>

Trigger(e) ==
    /\ eval[e].at = "trigger"
    /\ \E j \in Jobs : TriggerForPrefix(j, PolicyPrefix[eval[e].cur])
    /\ fired' = fired + 1
    /\ eval' = [eval EXCEPT ![e].at = "complete"]
    /\ UNCHANGED <<enabled, cooling, evals, patches>>

\* Mutant: the run is overwritten with a row that forgets its distillate.
completeRunClears(e) ==
    /\ eval[e].at = "complete"
    /\ runs' = [runs EXCEPT ![eval[e].run] = [@ EXCEPT !.status = "completed", !.distilled = 0]]
    /\ Resume(e, eval[e].todo)
    /\ UNCHANGED <<memories, distilled, job, sem, triggers, enabled, cooling, evals, patches, fired>>

\* The run is completed as soon as its job was started.
completeRun(e) ==
    /\ eval[e].at = "complete"
    /\ \/ runs' = [runs EXCEPT ![eval[e].run].status = "completed"]
       \/ UNCHANGED runs
    /\ Resume(e, eval[e].todo)
    /\ UNCHANGED <<memories, distilled, job, sem, triggers, enabled, cooling, evals, patches, fired>>

EvalStep(e) ==
    \/ loadEvalState(e)
    \/ \E r \in eval[e].todo : maybeTrigger(e, r)
    \/ beginRun(e)
    \/ markPolicyTriggered(e)
    \/ Trigger(e)
    \/ completeRun(e)

EngineNext ==
    \/ \E p \in Policies : Patch(p) \/ IntervalPasses(p)
    \/ \E e \in Evals :
         \/ \E p \in Prefixes : evaluatePrefix(e, p)
         \/ evaluateAll(e)
         \/ EvalStep(e)

Next == (JobNext /\ UNCHANGED engineVars) \/ EngineNext

Spec == Init /\ [][Next]_vars

(***************************************************************************)
(* Properties.                                                             *)
(***************************************************************************)
\* The variables of the engine have their types.
EngineTypeOK ==
    /\ enabled \subseteq Policies /\ cooling \subseteq Policies
    /\ \A e \in Evals :
         /\ eval[e].at \in {"none", "load", "next", "begin", "stamp", "trigger", "complete"}
         /\ eval[e].at \in {"load", "next"} => eval[e].todo # {}
         /\ eval[e].at \in {"stamp", "trigger", "complete"} => eval[e].run \in DOMAIN runs
    /\ \A r \in DOMAIN runs : runs[r].status \in {"running", "completed"}

\* No job is started by a policy without a row in distillation_runs, whatever
\* statements fail: the run history accounts for every policy-driven LLM call.
TriggersAreRecorded ==
    fired + Cardinality({e \in Evals : eval[e].at \in {"stamp", "trigger"}}) <= Len(runs)

\* A run keeps the distillate it was credited with.
CreditStays ==
    \A r \in DOMAIN runs : runs[r].distilled # 0 => runs'[r].status = "completed"
                                                   /\ runs'[r].distilled # 0

\* Every step of the evaluations and of the jobs they start keeps both.
PolicyRunsAreKept == [][TriggersAreRecorded' /\ CreditStays]_vars

\* "minimum interval between runs": no run begins while the interval since the
\* last trigger of its policy has not passed.
MinIntervalBetweenRuns ==
    [][Len(runs') > Len(runs) => runs'[Len(runs')].policy \notin cooling]_vars

\* markRunCompleted updates a run "for this tenant+path".
RunCreditsOwnPath ==
    \A r \in DOMAIN runs :
      runs[r].distilled # 0 => distilled[runs[r].distilled].path = runs[r].prefix
=============================================================================

------------------------------ MODULE MCWorkers -----------------------------
(***************************************************************************)
(* What is worked off in the background: usage counts, webhooks,           *)
(* consolidation and extraction. The components share no state: a          *)
(* behaviour chooses one of them and the others keep their initial state,  *)
(* so that the state graph is the sum of theirs. Consolidation runs with   *)
(* more memories, and with a failing statement or a crash (faults).        *)
(***************************************************************************)
EXTENDS UsageAggregator, WorkerParts, TLC

CONSTANTS e1, p1, p2

\* The event is for one of the endpoints, and every runner tries three times.
OneMatch == {<<e1, p1>>}
ThreeTries == [r \in Trio |-> 3]

VARIABLE scenario  \* the component that runs

Faulty == INSTANCE Consolidation WITH
    Workers <- Pair, Sources <- Two, BatchSize <- RunsListed, MaxRows <- 2, MaxRuns <- 2,
    MaxFaults <- 1, runs <- cRuns, faults <- cFaults

ASSUME Faulty!ConsolidationAssumption

Scenarios == {"usage", "webhook", "consolidation", "faults", "extraction"}

AllInit ==
    /\ scenario \in Scenarios
    /\ Init
    /\ Hooks!Init
    /\ Merge!Init
    /\ Extract!Init

AllNext ==
    /\ UNCHANGED scenario
    /\ \/ /\ scenario = "usage" /\ Next
          /\ UNCHANGED <<hooksVars, mergeVars, extractVars>>
       \/ /\ scenario = "webhook" /\ Hooks!Next
          /\ UNCHANGED <<vars, mergeVars, extractVars>>
       \/ /\ scenario = "consolidation" /\ Merge!Next
          /\ UNCHANGED <<vars, hooksVars, extractVars>>
       \/ /\ scenario = "faults" /\ Faulty!Next
          /\ UNCHANGED <<vars, hooksVars, extractVars>>
       \/ /\ scenario = "extraction" /\ Extract!Next
          /\ UNCHANGED <<vars, hooksVars, mergeVars>>

allVars == <<scenario, vars, hooksVars, mergeVars, extractVars>>

AllSpec == AllInit /\ [][AllNext]_allVars

Symmetry == Permutations(Pair) \cup Permutations(Trio)
=============================================================================

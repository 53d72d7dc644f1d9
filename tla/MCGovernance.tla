---------------------------- MODULE MCGovernance ----------------------------
(***************************************************************************)
(* What an operator has to be able to rely on: the audit chain, erasure    *)
(* requests, and the registry of entities whose aliases are reviewed. The  *)
(* components share no state: a behaviour chooses one of them and the      *)
(* others keep their initial state, so that the state graph is the sum of  *)
(* theirs.                                                                 *)
(***************************************************************************)
EXTENDS AuditChain, GovernanceParts, TLC

Exports == {<<1, 0, 2>>, <<2, 0, 1>>, <<1, 1, 3>>}

\* Two of the tables with derived data; the links are matched by path as well.
DerivedKinds == <<"links", "snapshots">>

\* What an extraction may find: a label in one slot, in both, or only in the nullable one.
Extracted ==
    {[s1 |-> "k1", s2 |-> "null"], [s1 |-> "k2", s2 |-> "k1"], [s1 |-> "null", s2 |-> "k1"]}

VARIABLE scenario  \* the component that runs

Scenarios == {"audit", "erasure", "registry"}

AllInit ==
    /\ scenario \in Scenarios
    /\ Init
    /\ Erase!Init
    /\ Registry!Init

AllNext ==
    /\ UNCHANGED scenario
    /\ \/ scenario = "audit" /\ Next /\ UNCHANGED <<eraseVars, registryVars>>
       \/ scenario = "erasure" /\ Erase!Next /\ UNCHANGED <<vars, registryVars>>
       \/ scenario = "registry" /\ Registry!Next /\ UNCHANGED <<vars, eraseVars>>

allVars == <<scenario, vars, eraseVars, registryVars>>

AllSpec == AllInit /\ [][AllNext]_allVars

Symmetry == Permutations(Writers) \cup Permutations(Bodies)
=============================================================================

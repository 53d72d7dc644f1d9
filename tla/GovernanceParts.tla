-------------------------- MODULE GovernanceParts --------------------------
(***************************************************************************)
(* The parts of governance next to the audit chain: the erasure of a path  *)
(* prefix and the entity registry, each with variables of its own.         *)
(***************************************************************************)
EXTENDS Integers, Sequences, FiniteSets

CONSTANTS
    \* of the erasure
    Erasers, Derivers, Kinds, ByPath, MaxMemories, MaxDerived, MaxErasures,
    \* of the registry
    Labels, Memories, Slots, Nullable, AliasTable, Answers, Callers, None, MaxCalls,
    MaxProposals, MaxFaults

VARIABLES
    memories, stored, derived, written, reads, tx, audit, eRemoved, owed, begun,
    db, replica, snapshots, mentions, call, calls, faults, extracted, repointed

eraseVars == <<memories, stored, derived, written, reads, tx, audit, eRemoved, owed, begun>>
registryVars == <<db, replica, snapshots, mentions, call, calls, faults, extracted, repointed>>

Erase == INSTANCE Erasure WITH Workers <- Derivers, removed <- eRemoved

Registry == INSTANCE EntityRegistry WITH Keys <- Labels

ASSUME EraseAssumption == Erase!ErasureAssumption
ASSUME RegistryAssumption == Registry!RegistryAssumption

\* Erasure: what was found is gone for good, and the audit row counts what was removed.
ErasureIsExact == Erase!ErasureIsExact

\* EntityRegistry: what the graph mentions is registered, a lookup finds the memories of
\* an entity, related memories included, and an accepted alias is in force.
RegistryIsSound ==
    /\ Registry!GraphIsRegistered /\ Registry!LookupFindsMemory
    /\ Registry!RelatedIsLookup /\ Registry!AcceptedIsApplied
=============================================================================

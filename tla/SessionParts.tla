---------------------------- MODULE SessionParts ----------------------------
(***************************************************************************)
(* The promotion of a session's working memory, beside the other requests, *)
(* with variables of its own.                                              *)
(***************************************************************************)
EXTENDS Integers, Sequences, FiniteSets

CONSTANTS SessionIds, Suffixes, Promoters, Storers, Started, Stored, NoSession, SessionRows

VARIABLES
    sessions, sReplica, sRows, nextId, starget, pc, psess, held, todo, cur, moved,
    promoted, sSkipped

sessionVars == <<sessions, sReplica, sRows, nextId, starget, pc, psess, held, todo, cur,
                 moved, promoted, sSkipped>>

Promote == INSTANCE Sessions WITH
    MaxRows <- SessionRows, replica <- sReplica, rows <- sRows, batch <- held,
    skipped <- sSkipped

ASSUME PromoteAssumption == Promote!SessionsAssumption

\* Sessions: a promotion moves what it read and reports what it moved.
PromotionIsExact == Promote!PromotionIsExact
=============================================================================

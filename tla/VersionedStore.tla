--------------------------- MODULE VersionedStore ---------------------------
(***************************************************************************)
(* What the versioned memory store promises to its callers, without        *)
(* transactions, locks or retries: a path is empty or holds one current    *)
(* version; storing replaces it in one step by its successor; expiry       *)
(* empties paths.                                                          *)
(***************************************************************************)
EXTENDS Naturals

CONSTANTS
    Paths,
    None      \* the path holds no current version; its id is 0

VARIABLES
    current,  \* per path: id and number of the version in force, or None
    history   \* what every Store that took effect reported

vars == <<current, history>>

Init ==
    /\ current = [p \in Paths |-> None]
    /\ history = {}

NextNumber(p) == IF current[p] = None THEN 1 ELSE current[p].version + 1

\* A Store takes effect: id is the new current version of p.  It has the next
\* number and reports as superseded what was current at this very step.
Put(p, id) ==
    /\ id \notin {h.id : h \in history}
    /\ current' = [current EXCEPT ![p] = [id |-> id, version |-> NextNumber(p)]]
    /\ history' = history \cup {[id |-> id, path |-> p, version |-> NextNumber(p),
                                 sup |-> current[p].id]}

\* A sweep of the expiry worker takes effect on all its paths at once.
Expire(P) ==
    /\ P # {}
    /\ \A p \in P : current[p] # None
    /\ current' = [p \in Paths |-> IF p \in P THEN None ELSE current[p]]
    /\ UNCHANGED history

Next ==
    \/ \E p \in Paths : current'[p] # None /\ Put(p, current'[p].id)
    \/ Expire({p \in Paths : current'[p] # current[p]})

Spec == Init /\ [][Next]_vars
=============================================================================

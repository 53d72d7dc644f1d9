--------------------------- MODULE Contradictions ---------------------------
(***************************************************************************)
(* ContradictionWorker: an event of a stored memory starts a goroutine     *)
(* that compares the current memories under the memory's parent, pair by   *)
(* pair; a periodic scan compares all of a tenant that stored something in *)
(* the last five minutes.  A contradicting pair becomes a link and an      *)
(* event.  The comparisons run on a snapshot while rows are superseded.    *)
(* One tenant.  The event handler returns before its goroutine has run, so *)
(* a crash loses the check for good: only the scan makes up for it.        *)
(***************************************************************************)
EXTENDS Integers, Sequences, FiniteSets

CONSTANTS
    Paths,
    Parent,         \* path -> parentPrefix(path)
    Subtree,        \* prefix -> the paths at or below it
    Consolidated,   \* the paths with a label "consolidated"
    Texts,          \* records [words, negated, long]
    Window,         \* rows compared per check: 50
    ScansInWindow,  \* scans within 5 minutes of a store: 2 by default
    Checkers,       \* bound on the goroutines that run at once
    MaxRows,        \* bound on the rows ever stored
    MaxClosed,      \* a row expires only while fewer rows than this are closed
    MaxFaults       \* bound on lost events, failed statements and crashes

Scan == "scan"
Everything == "everything"

\* What the constants must satisfy.
ContradictionsAssumption ==
    /\ DOMAIN Parent = Paths /\ DOMAIN Subtree = {Parent[p] : p \in Paths}
    /\ \A p \in Paths : p \in Subtree[Parent[p]]
    /\ Consolidated \subseteq Paths
    /\ Scan \notin Checkers
    /\ \A p \in Paths : Parent[p] # Everything
    /\ \A t \in Texts : t.negated \in BOOLEAN /\ t.long \in BOOLEAN /\ IsFiniteSet(t.words)
    /\ Window \in Nat \ {0}
    /\ {ScansInWindow, MaxRows, MaxClosed, MaxFaults} \subseteq Nat

VARIABLES
    rows,       \* memory_entries by id, which is the order of created_at
    events,     \* prefixes of events the worker has still to handle
    check,      \* checker -> the contradicting pairs of its snapshot still to link
    scans,      \* scans still to come while the last store is recent
    links,      \* memory_links of type contradicts: <<from_path, to_path>>
    announced,  \* pairs for which an event was published
    faults

vars == <<rows, events, check, scans, links, announced, faults>>

Init ==
    /\ rows = <<>>
    /\ events = {}
    /\ check = [c \in Checkers \cup {Scan} |-> {}]
    /\ scans = 0
    /\ links = {}
    /\ announced = {}
    /\ faults = 0

Ids == DOMAIN rows

Fault ==
    /\ faults < MaxFaults
    /\ faults' = faults + 1

(***************************************************************************)
(* detectContradiction.  Shares are kept as fractions with denominator     *)
(* union: 0.15 and 0.30 become 15 and 30 hundredths of it.                 *)
(***************************************************************************)
Intersection(a, b) == Cardinality(a.words \cap b.words)
Union(a, b) == Cardinality(a.words \cup b.words)

wordOverlap(a, b, hundredths) ==
    100 * Intersection(a, b) >= hundredths * Union(a, b)

\* Hundredths of confidence, times the union.
Confidence(a, b) ==
    70 * Intersection(a, b)
        + 15 * Cardinality({s \in {1, 2} : (IF s = 1 THEN a ELSE b).negated}) * Union(a, b)

detectContradiction(a, b) ==
    /\ a.long /\ b.long
    /\ a.negated \/ b.negated
    /\ a.words # {} /\ b.words # {}
    /\ wordOverlap(a, b, 15)
    /\ Confidence(a, b) >= 30 * Union(a, b)

(***************************************************************************)
(* checkPrefix.                                                            *)
(***************************************************************************)
Under(i, prefix) ==
    /\ rows[i].open
    /\ rows[i].path \notin Consolidated
    /\ prefix = Everything \/ rows[i].path \in Subtree[prefix]

\* ORDER BY created_at DESC LIMIT Window.
Snapshot(prefix) ==
    {i \in Ids : /\ Under(i, prefix)
                 /\ Cardinality({k \in Ids : k > i /\ Under(k, prefix)}) < Window}

\* Mutant: the inner loop starts one row too far.
ComparedSkipsNext(i, s) ==
    {o \in s : o < i /\ \E k \in s : o < k /\ k < i}

\* The older rows that a row is compared with.
Compared(i, s) ==
    {o \in s : o < i}

\* The pairs of ids, newer first, that contradict.
Contradicting(prefix) ==
    LET s == Snapshot(prefix)
    IN UNION {{<<i, o>> : o \in {x \in Compared(i, s) :
                   detectContradiction(rows[i].text, rows[x].text)}} : i \in s}

\* The two loops go from the newest row to the oldest.
NextPair(c) ==
    CHOOSE x \in check[c] : \A y \in check[c] :
        x[1] > y[1] \/ (x[1] = y[1] /\ x[2] >= y[2])

Edge(x) == <<rows[x[1]].path, rows[x[2]].path>>

\* Create upserts by paths; nothing asks whether the rows are still current.
LinkPair(c) ==
    /\ check[c] # {}
    /\ links' = links \cup {Edge(NextPair(c))}
    /\ \/ announced' = announced \cup {Edge(NextPair(c))} /\ UNCHANGED faults
       \/ Fault /\ UNCHANGED announced  \* the error of PublishEvent is dropped
    /\ check' = [check EXCEPT ![c] = @ \ {NextPair(c)}]
    /\ UNCHANGED <<rows, events, scans>>

LinkFails(c) ==
    /\ check[c] # {}
    /\ Fault
    /\ check' = [check EXCEPT ![c] = @ \ {NextPair(c)}]
    /\ UNCHANGED <<rows, events, scans, links, announced>>

(***************************************************************************)
(* What starts a check.                                                    *)
(***************************************************************************)
Store(p, t) ==
    /\ Len(rows) < MaxRows
    /\ rows' = Append([i \in Ids |-> [rows[i] EXCEPT !.open = @ /\ rows[i].path # p]],
                      [path |-> p, text |-> t, open |-> TRUE])
    /\ \/ events' = events \cup {Parent[p]} /\ UNCHANGED faults
       \/ Fault /\ UNCHANGED events  \* the event is lost
    /\ scans' = ScansInWindow
    /\ UNCHANGED <<check, links, announced>>

Expire(i) ==
    /\ rows[i].open
    /\ Cardinality({k \in Ids : ~rows[k].open}) < MaxClosed
    /\ rows' = [rows EXCEPT ![i].open = FALSE]
    /\ UNCHANGED <<events, check, scans, links, announced, faults>>

OnMemoryEvent(c, prefix) ==
    /\ prefix \in events
    /\ check[c] = {}
    /\ events' = events \ {prefix}
    /\ check' = [check EXCEPT ![c] = Contradicting(prefix)]
    /\ UNCHANGED <<rows, scans, links, announced, faults>>

\* Scans do not overlap: the ticker's loop runs them one after the other,
\* under the mutex.
scanRecent ==
    /\ scans > 0
    /\ check[Scan] = {}
    /\ scans' = scans - 1
    /\ check' = [check EXCEPT ![Scan] = Contradicting(Everything)]
    /\ UNCHANGED <<rows, events, links, announced, faults>>

\* The query of a check fails, or its 30 seconds are over.
CheckFails(c) ==
    /\ check[c] # {}
    /\ Fault
    /\ check' = [check EXCEPT ![c] = {}]
    /\ UNCHANGED <<rows, events, scans, links, announced>>

Crash ==
    /\ Fault
    /\ check' = [c \in DOMAIN check |-> {}]
    /\ UNCHANGED <<rows, events, scans, links, announced>>

Next ==
    \/ \E p \in Paths, t \in Texts : Store(p, t)
    \/ \E i \in Ids : Expire(i)
    \/ \E c \in Checkers, prefix \in events : OnMemoryEvent(c, prefix)
    \/ scanRecent
    \/ \E c \in DOMAIN check : LinkPair(c)
    \/ \E c \in DOMAIN check : LinkFails(c)
    \/ \E c \in DOMAIN check : CheckFails(c)
    \/ Crash

\* Goroutines run, the ticker fires, and statements end; none of the faults
\* is owed.
Fairness ==
    /\ WF_vars(\E c \in Checkers, prefix \in events : OnMemoryEvent(c, prefix))
    /\ WF_vars(scanRecent)
    /\ \A c \in Checkers \cup {Scan} : WF_vars(LinkPair(c))

Spec == Init /\ [][Next]_vars

FairSpec == Spec /\ Fairness

TypeOK ==
    /\ rows \in Seq([path : Paths, text : Texts, open : BOOLEAN])
    /\ events \subseteq {Parent[p] : p \in Paths}
    /\ DOMAIN check = Checkers \cup {Scan}
    /\ \A c \in DOMAIN check : check[c] \subseteq Ids \X Ids
    /\ scans \in 0..ScansInWindow
    /\ links \subseteq Paths \X Paths
    /\ announced \subseteq links
    /\ faults \in 0..MaxFaults

\* The rows a check of everything compares.
InWindow(i) ==
    i \in Ids /\ i \in Snapshot(Everything)

\* Two current memories of one subtree that contradict each other are linked in the
\* end, whatever single event, statement or check is lost: OnMemoryEvent and
\* scanRecent make up for each other.  It is owed when the newer one has just been
\* stored, and only while both are current and among the rows LIMIT lets a check
\* see: a pair that comes back into that window later is not compared again.
ContradictionsAreFound ==
    \A i \in 1..MaxRows : \A j \in 1..i - 1 :
        (/\ i = Len(rows) /\ scans = ScansInWindow
         /\ InWindow(i) /\ InWindow(j)
         /\ rows[i].path \in Subtree[Parent[rows[j].path]]
         /\ rows[j].path \in Subtree[Parent[rows[i].path]]
         /\ detectContradiction(rows[i].text, rows[j].text))
        ~> (\/ ~InWindow(i) \/ ~InWindow(j)
            \/ <<rows[i].path, rows[j].path>> \in links
            \/ <<rows[j].path, rows[i].path>> \in links)
=============================================================================

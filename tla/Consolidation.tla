--------------------------- MODULE Consolidation ---------------------------
(***************************************************************************)
(* ConsolidationWorker on one prefix of one tenant, in several worker      *)
(* processes.  A memory event may queue a run (tryConsolidate, under the   *)
(* mutex of its process); the ticker of every process lists the pending    *)
(* runs and executes them, without a lock on the rows.                     *)
(***************************************************************************)
EXTENDS Integers, Sequences, FiniteSets

CONSTANTS
    Workers,        \* worker processes
    Sources,        \* paths under the prefix
    Derived,        \* paths under the prefix that end in ".consolidated"
    Output,         \* prefix + ".consolidated", a member of Derived
    MinEntries,     \* consolidationMinEntries
    RetrieveLimit,  \* the Limit of the Retrieve call
    BatchSize,      \* the LIMIT of the queue query
    MaxRows,        \* bound on the rows the clients ever store
    MaxRuns,        \* bound on the runs ever queued
    MaxFaults       \* bound on failing statements and on crashes, together

\* What the constants must satisfy.
ConsolidationAssumption ==
    /\ Output \in Derived
    /\ Sources \cap Derived = {}
    /\ {MinEntries, RetrieveLimit, BatchSize, MaxRows, MaxRuns, MaxFaults} \subseteq Nat

VARIABLES
    rows,      \* memory_entries under the prefix, oldest first: [path, live]
    runs,      \* consolidation_runs: [status, sources, entry]
    merged,    \* history: row id of a stored consolidation -> the ids merged in it
    trigger,   \* worker -> where the goroutine that holds w.mu is
    loop,      \* worker -> [at, queue, sources, entry] of its ticker goroutine
    faults

vars == <<rows, runs, merged, trigger, loop, faults>>

Idle == [at |-> "idle", queue |-> <<>>, sources |-> {}, entry |-> 0]

Init ==
    /\ rows = <<>>
    /\ runs = <<>>
    /\ merged = <<>>
    /\ trigger = [w \in Workers |-> "idle"]
    /\ loop = [w \in Workers |-> Idle]
    /\ faults = 0

Live == {i \in DOMAIN rows : rows[i].live}
LiveSources == {i \in Live : rows[i].path \in Sources}
Pending == {r \in DOMAIN runs : runs[r].status = "pending"}
Fault == faults < MaxFaults /\ faults' = faults + 1

(***************************************************************************)
(* The memories.                                                           *)
(***************************************************************************)
StoredAt(p) ==
    Append([i \in DOMAIN rows |-> [rows[i] EXCEPT !.live = @ /\ rows[i].path # p]],
           [path |-> p, live |-> TRUE])

\* Another client, or the consolidation of a nested prefix, stores a memory.
StoreMemory(p) ==
    /\ Len(rows) - Len(merged) < MaxRows
    /\ rows' = StoredAt(p)
    /\ UNCHANGED <<runs, merged, trigger, loop, faults>>

Expire(i) ==
    /\ i \in Live
    /\ rows' = [rows EXCEPT ![i].live = FALSE]
    /\ UNCHANGED <<runs, merged, trigger, loop, faults>>

(***************************************************************************)
(* tryConsolidate.                                                         *)
(***************************************************************************)
CountActive(w) ==
    /\ trigger[w] = "idle"
    /\ Cardinality(LiveSources) >= MinEntries
    /\ trigger' = [trigger EXCEPT ![w] = "check"]
    /\ UNCHANGED <<rows, runs, merged, loop, faults>>

\* An error of the query is dropped and counts as "none pending".
CheckPending(w) ==
    /\ trigger[w] = "check"
    /\ \/ /\ trigger' = [trigger EXCEPT ![w] = IF Pending = {} THEN "insert" ELSE "idle"]
          /\ UNCHANGED faults
       \/ /\ Fault
          /\ trigger' = [trigger EXCEPT ![w] = "insert"]
    /\ UNCHANGED <<rows, runs, merged, loop>>

InsertRun(w) ==
    /\ trigger[w] = "insert"
    /\ trigger' = [trigger EXCEPT ![w] = "idle"]
    /\ \/ /\ Len(runs) < MaxRuns
          /\ runs' = Append(runs, [status |-> "pending", sources |-> {}, entry |-> 0])
          /\ UNCHANGED faults
       \/ Fault /\ UNCHANGED runs
    /\ UNCHANGED <<rows, merged, loop>>

(***************************************************************************)
(* processPending and runConsolidation.                                    *)
(***************************************************************************)
Goto(w, at) == loop' = [loop EXCEPT ![w].at = at]

\* The loop moves on to the next run it listed, or ends its tick.
NextRun(w) ==
    loop' = [loop EXCEPT ![w] =
        IF Len(@.queue) = 1 THEN Idle
        ELSE [Idle EXCEPT !.at = "retrieve", !.queue = Tail(loop[w].queue)]]

\* ORDER BY created_at LIMIT n: the oldest pending runs, all if they are fewer.
OldestPending ==
    {queue \in UNION {[1..n -> Pending] : n \in 1..BatchSize} :
        /\ \A i, j \in DOMAIN queue : i < j => queue[i] < queue[j]
        /\ \A r \in Pending : \/ \E i \in DOMAIN queue : queue[i] = r
                              \/ Len(queue) = BatchSize /\ \A i \in DOMAIN queue : queue[i] < r}

\* Only the tick that finds a pending run is a step.
ListPending(w) ==
    /\ loop[w].at = "idle"
    /\ \E queue \in OldestPending :
           loop' = [loop EXCEPT ![w] = [Idle EXCEPT !.at = "retrieve", !.queue = queue]]
    /\ UNCHANGED <<rows, runs, merged, trigger, faults>>

\* The newest live rows under the prefix, at most RetrieveLimit of them.
Newest(S) == {i \in S : Cardinality({j \in S : j > i}) < RetrieveLimit}

Mergeable(entries) == {i \in entries : rows[i].path \notin Derived}

Retrieved == Newest(Live)

Retrieve(w) ==
    /\ loop[w].at = "retrieve"
    /\ LET ids == Mergeable(Retrieved)
       IN \/ /\ Cardinality(ids) >= MinEntries
             /\ loop' = [loop EXCEPT ![w] = [@ EXCEPT !.at = "store", !.sources = ids]]
             /\ UNCHANGED faults
          \/ /\ Cardinality(ids) < MinEntries
             /\ Goto(w, "short")
             /\ UNCHANGED faults
          \/ /\ Fault
             /\ Goto(w, "fail")
    /\ UNCHANGED <<rows, runs, merged, trigger>>

Store(w) ==
    /\ loop[w].at = "store"
    /\ \/ /\ rows' = StoredAt(Output)
          /\ merged' = Append(merged, [id |-> Len(rows) + 1, sources |-> loop[w].sources])
          /\ loop' = [loop EXCEPT ![w] = [@ EXCEPT !.at = "complete", !.entry = Len(rows) + 1]]
          /\ UNCHANGED faults
       \/ /\ Fault
          /\ Goto(w, "fail")
          /\ UNCHANGED <<rows, merged>>
    /\ UNCHANGED <<runs, trigger>>

\* Mutant: the UPDATE writes the id of the newest row of the prefix.
CompleteRunNewest(w) ==
    /\ loop[w].at = "complete"
    /\ \/ /\ runs' = [runs EXCEPT ![Head(loop[w].queue)] =
                [status |-> "completed", sources |-> loop[w].sources, entry |-> Len(rows)]]
          /\ NextRun(w)
          /\ UNCHANGED faults
       \/ Fault /\ Goto(w, "fail") /\ UNCHANGED runs
    /\ UNCHANGED <<rows, merged, trigger>>

CompleteRun(w) ==
    /\ loop[w].at = "complete"
    /\ \/ /\ runs' = [runs EXCEPT ![Head(loop[w].queue)] =
                [status |-> "completed", sources |-> loop[w].sources, entry |-> loop[w].entry]]
          /\ NextRun(w)
          /\ UNCHANGED faults
       \/ Fault /\ Goto(w, "fail") /\ UNCHANGED runs
    /\ UNCHANGED <<rows, merged, trigger>>

\* Mutant: a run without enough entries is left for the next tick.
FailRunKeepsShort(w) ==
    /\ loop[w].at \in {"short", "fail"}
    /\ NextRun(w)
    /\ \/ /\ loop[w].at = "fail"
          /\ runs' = [runs EXCEPT ![Head(loop[w].queue)].status = "failed"]
          /\ UNCHANGED faults
       \/ loop[w].at = "short" /\ UNCHANGED <<runs, faults>>
       \/ Fault /\ UNCHANGED runs
    /\ UNCHANGED <<rows, merged, trigger>>

\* The error of this UPDATE is dropped: the run stays pending for the next tick.
FailRun(w) ==
    /\ loop[w].at \in {"short", "fail"}
    /\ NextRun(w)
    /\ \/ /\ runs' = [runs EXCEPT ![Head(loop[w].queue)].status = "failed"]
          /\ UNCHANGED faults
       \/ Fault /\ UNCHANGED runs
    /\ UNCHANGED <<rows, merged, trigger>>

Crash(w) ==
    /\ <<trigger[w], loop[w]>> # <<"idle", Idle>>
    /\ Fault
    /\ trigger' = [trigger EXCEPT ![w] = "idle"]
    /\ loop' = [loop EXCEPT ![w] = Idle]
    /\ UNCHANGED <<rows, runs, merged>>

Tick(w) == ListPending(w) \/ Retrieve(w) \/ Store(w) \/ CompleteRun(w) \/ FailRun(w)

Next ==
    \/ \E p \in Sources \cup Derived : StoreMemory(p)
    \/ \E i \in DOMAIN rows : Expire(i)
    \/ \E w \in Workers : CountActive(w) \/ CheckPending(w) \/ InsertRun(w) \/ Tick(w) \/ Crash(w)

Spec == Init /\ [][Next]_vars

\* The ticker of a running process fires again and its statements return.
Fairness == \A w \in Workers : WF_vars(Tick(w))

FairSpec == Spec /\ Fairness

(***************************************************************************)
(* Properties.                                                             *)
(***************************************************************************)
TypeOK ==
    /\ \A i \in DOMAIN rows : rows[i] \in [path : Sources \cup Derived, live : BOOLEAN]
    /\ \A r \in DOMAIN runs :
        runs[r] \in [status : {"pending", "completed", "failed"},
                     sources : SUBSET DOMAIN rows, entry : 0..Len(rows)]
    /\ trigger \in [Workers -> {"idle", "check", "insert"}]
    /\ \A w \in Workers :
        /\ loop[w].at \in {"idle", "retrieve", "store", "complete", "short", "fail"}
        /\ (loop[w].at = "idle") = (loop[w].queue = <<>>)
        /\ \A i \in DOMAIN loop[w].queue : loop[w].queue[i] \in DOMAIN runs
    /\ faults \in 0..MaxFaults

\* The ids and the entry of a completed run belong together, although several
\* workers may execute one run: the entry is a consolidation of exactly those ids,
\* stored at the output path after them, and none of them is a consolidation itself.
CompletedNamesItsResult ==
    \A r \in DOMAIN runs : runs[r].status = "completed" =>
        /\ \E i \in DOMAIN merged : merged[i] = [id |-> runs[r].entry, sources |-> runs[r].sources]
        /\ rows[runs[r].entry].path = Output
        /\ \A i \in runs[r].sources : i < runs[r].entry /\ rows[i].path \notin Derived

\* Every queued run is executed: no run stays pending forever, although statements
\* fail, workers crash between any two of them, and one run blocks no later one.
QueueDrains == \A r \in 1..MaxRuns :
    [](r \in Pending => <>(r \notin Pending))

\* docs/failure-modes.md:45: a run needs MinEntries active memories under the
\* prefix, no more; with that many runConsolidation does not give up on its own.
EnoughMemoriesSuffice == [][
    \A w \in Workers :
        (loop[w].at = "retrieve" /\ loop'[w].at = "short")
            => Cardinality(LiveSources) < MinEntries]_vars

=============================================================================

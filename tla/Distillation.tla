---------------------------- MODULE Distillation ----------------------------
(***************************************************************************)
(* Distillation jobs (DistillationWorker).  A job reads the newest live    *)
(* memories under a prefix, asks the LLM for a summary, looks for a        *)
(* distillate of the same sources, computes the next version and inserts:  *)
(* five statements with no transaction, in goroutines of one worker        *)
(* process.  Jobs started by events wait for a semaphore slot; the         *)
(* fallback timer calls the job directly.                                  *)
(***************************************************************************)
EXTENDS Integers, Sequences, FiniteSets

CONSTANTS
    Prefixes,      \* path prefixes that are distilled
    Under,         \* prefix -> the prefixes whose memories lie under it
    Jobs,          \* goroutines running, or waiting to run, a job
    Concurrency,   \* capacity of the semaphore channel
    BatchSize,     \* most memories one job reads
    Fallback,      \* the prefix of the fallback timer, root.test
    MaxMemories,   \* bound on the memories ever stored
    MaxTriggers    \* bound on the jobs ever started

ASSUME DistillationAssumption ==
    /\ Under \in [Prefixes -> SUBSET Prefixes]
    /\ \A p \in Prefixes : p \in Under[p]
    /\ Fallback \in Prefixes
    /\ {Concurrency, BatchSize} \subseteq Nat \ {0}
    /\ {MaxMemories, MaxTriggers} \subseteq Nat

VARIABLES
    memories,   \* sequence of [prefix, live]; the memory id is the position
    distilled,  \* sequence of [path, version, sources]; the id is the position
    job,        \* job -> [at, prefix, slot, sources, version, id]
    sem,        \* number of tokens in the semaphore channel
    triggers,   \* number of jobs started
    runs        \* sequence of [policy, prefix, status, distilled]; the run id is the position

jobVars == <<memories, distilled, job, sem, triggers, runs>>

NoJob == [at |-> "none", prefix |-> "", slot |-> FALSE, sources |-> {}, version |-> 0, id |-> 0]

JobInit ==
    /\ memories = <<>>
    /\ distilled = <<>>
    /\ job = [j \in Jobs |-> NoJob]
    /\ sem = 0
    /\ triggers = 0
    /\ runs = <<>>

(***************************************************************************)
(* The memory store, as far as jobs see it.                                *)
(***************************************************************************)
LiveUnder(p) == {i \in DOMAIN memories : memories[i].live /\ memories[i].prefix \in Under[p]}

\* Store adds a memory and may close the version it replaces.
StoreMemory(p, old) ==
    /\ Len(memories) < MaxMemories
    /\ memories' = Append([i \in DOMAIN memories |->
                             IF i \in old THEN [memories[i] EXCEPT !.live = FALSE] ELSE memories[i]],
                          [prefix |-> p, live |-> TRUE])
    /\ UNCHANGED <<distilled, job, sem, triggers, runs>>

(***************************************************************************)
(* Jobs.                                                                   *)
(***************************************************************************)
\* distillationSourceEntriesSQL: the newest BatchSize live memories.
JobSources(p) ==
    {i \in LiveUnder(p) : Cardinality({k \in LiveUnder(p) : k > i}) < BatchSize}

StartJob(j, p, at) ==
    /\ job[j] = NoJob
    /\ triggers < MaxTriggers
    /\ triggers' = triggers + 1
    /\ job' = [job EXCEPT ![j] = [NoJob EXCEPT !.at = at, !.prefix = p]]

\* A refine event, or the policy engine: a goroutine that will need a slot.
TriggerForPrefix(j, p) ==
    /\ StartJob(j, p, "queued")
    /\ UNCHANGED <<memories, distilled, sem, runs>>

\* The fallback timer of Start runs the job itself, one at a time.
FallbackTimer(j) ==
    /\ \A k \in Jobs : job[k].at \in {"none", "queued"} \/ job[k].slot
    /\ StartJob(j, Fallback, "query")
    /\ UNCHANGED <<memories, distilled, sem, runs>>

AcquireSlot(j) ==
    /\ job[j].at = "queued"
    /\ sem < Concurrency
    /\ sem' = sem + 1
    /\ job' = [job EXCEPT ![j] = [@ EXCEPT !.at = "query", !.slot = TRUE]]
    /\ UNCHANGED <<memories, distilled, triggers, runs>>

\* Mutant: only a job that saved a distillate gives its slot back.
EndJobLeaks(j) ==
    /\ job' = [job EXCEPT ![j] = NoJob]
    /\ sem' = IF job[j].slot /\ job[j].at = "mark" THEN sem - 1 ELSE sem

\* The deferred function receives from the channel whatever the outcome was.
EndJob(j) ==
    /\ job' = [job EXCEPT ![j] = NoJob]
    /\ sem' = IF job[j].slot THEN sem - 1 ELSE sem

QuerySources(j) ==
    /\ job[j].at = "query"
    /\ IF JobSources(job[j].prefix) = {}
       THEN EndJob(j)
       ELSE /\ job' = [job EXCEPT ![j] = [@ EXCEPT !.at = "llm", !.sources = JobSources(job[j].prefix)]]
            /\ UNCHANGED sem
    /\ UNCHANGED <<memories, distilled, triggers, runs>>

\* The LLM answers with a summary that parses.
Complete(j) ==
    /\ job[j].at = "llm"
    /\ job' = [job EXCEPT ![j].at = "dedup"]
    /\ UNCHANGED <<memories, distilled, sem, triggers, runs>>

\* No LLM configured, a bad answer, a failing statement, or the 3 minute deadline.
JobFails(j) ==
    /\ job[j].at \notin {"none", "queued", "mark"}
    /\ EndJob(j)
    /\ UNCHANGED <<memories, distilled, triggers, runs>>

SameSources(d, j) == d.path = job[j].prefix /\ d.sources = job[j].sources

hasDuplicateDistillation(j) ==
    /\ job[j].at = "dedup"
    /\ IF \E i \in DOMAIN distilled : SameSources(distilled[i], j)
       THEN EndJob(j)
       ELSE job' = [job EXCEPT ![j].at = "version"] /\ UNCHANGED sem
    /\ UNCHANGED <<memories, distilled, triggers, runs>>

VersionsAt(p) == {distilled[i].version : i \in {k \in DOMAIN distilled : distilled[k].path = p}}
MaxVersion(p) == CHOOSE v \in VersionsAt(p) \cup {0} : \A w \in VersionsAt(p) : w <= v

nextDistilledVersion(j) ==
    /\ job[j].at = "version"
    /\ job' = [job EXCEPT ![j] = [@ EXCEPT !.at = "insert", !.version = MaxVersion(job[j].prefix) + 1]]
    /\ UNCHANGED <<memories, distilled, sem, triggers, runs>>

\* Mutant: nothing keeps two rows of one path apart.
UniqueVersionOff(p, v) == TRUE

\* idx_distilled_tenant_path_version.
UniqueVersion(p, v) == v \notin VersionsAt(p)

InsertDistilled(j) ==
    LET row == [path |-> job[j].prefix, version |-> job[j].version, sources |-> job[j].sources] IN
    /\ job[j].at = "insert"
    /\ IF UniqueVersion(row.path, row.version)
       THEN /\ distilled' = Append(distilled, row)
            /\ job' = [job EXCEPT ![j] = [@ EXCEPT !.at = "mark", !.id = Len(distilled) + 1]]
            /\ UNCHANGED sem
       ELSE EndJob(j) /\ UNCHANGED distilled
    /\ UNCHANGED <<memories, triggers, runs>>

\* The newest run of the tenant that is still running, if any, and if the
\* statement succeeds, is given the distillate.
Running == {r \in DOMAIN runs : runs[r].status = "running"}

markRunCompleted(j) ==
    /\ job[j].at = "mark"
    /\ \/ \E r \in Running :
            /\ \A s \in Running : s <= r
            /\ runs' = [runs EXCEPT ![r] = [@ EXCEPT !.status = "completed", !.distilled = job[j].id]]
       \/ UNCHANGED runs
    /\ EndJob(j)
    /\ UNCHANGED <<memories, distilled, triggers>>

JobStep(j) ==
    \/ AcquireSlot(j)
    \/ QuerySources(j)
    \/ Complete(j)
    \/ JobFails(j)
    \/ hasDuplicateDistillation(j)
    \/ nextDistilledVersion(j)
    \/ InsertDistilled(j)
    \/ markRunCompleted(j)

JobNext ==
    \/ \E p \in Prefixes, i \in 0..Len(memories) : StoreMemory(p, {i} \cap DOMAIN memories)
    \/ \E j \in Jobs, p \in Prefixes : TriggerForPrefix(j, p)
    \/ \E j \in Jobs : FallbackTimer(j) \/ JobStep(j)

\* A goroutine that can move moves, and each job is cut off by its deadline.
JobFairness == \A j \in Jobs : WF_jobVars(JobStep(j))

JobSpec == JobInit /\ [][JobNext]_jobVars
(***************************************************************************)
(* Properties.                                                             *)
(***************************************************************************)
\* The variables have their types.
TypeOK ==
    /\ memories \in Seq([prefix : Prefixes, live : BOOLEAN])
    /\ \A i \in DOMAIN distilled :
         /\ distilled[i].path \in Prefixes
         /\ distilled[i].version \in Nat \ {0}
         /\ distilled[i].sources \in SUBSET DOMAIN memories \ {{}}
    /\ \A j \in Jobs :
         /\ job[j].at \in {"none", "queued", "query", "llm", "dedup", "version", "insert", "mark"}
         /\ job[j].slot \in BOOLEAN
         /\ job[j].sources \subseteq DOMAIN memories
         /\ job[j].id \in 0..Len(distilled)
    /\ sem \in 0..Concurrency
    /\ triggers \in 0..MaxTriggers
    /\ \A r \in DOMAIN runs : runs[r].distilled \in 0..Len(distilled)

\* However many jobs of one path race, the versions of its distillates are
\* 1, 2, 3, ... in the order of insertion, without gaps or repetitions.
VersionsAreDense ==
    \A i \in DOMAIN distilled :
      distilled[i].version =
        Cardinality({k \in 1..i : distilled[k].path = distilled[i].path})

\* A job that waits for a slot eventually runs, whatever becomes of the others.
QueuedJobsRun == \A j \in Jobs : (job[j].at = "queued") ~> (job[j].at # "queued")

\* "the max number of LLM distillation jobs that can run in parallel".
LLMJobsBounded == Cardinality({j \in Jobs : job[j].at = "llm"}) <= Concurrency

\* "exactly-once distillation": the INSERT is skipped when the source set is
\* the same.
DistilledOnce ==
    \A i, k \in DOMAIN distilled :
      distilled[i].path = distilled[k].path /\ distilled[i].sources = distilled[k].sources => i = k
=============================================================================

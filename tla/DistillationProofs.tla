------------------------- MODULE DistillationProofs -------------------------
(***************************************************************************)
(* Machine-checked proofs about the distillation jobs and the policy       *)
(* engine, for any prefixes, jobs, policies and evaluations.               *)
(***************************************************************************)
EXTENDS DistillationPolicy, FiniteSetTheorems, TLAPS

(***************************************************************************)
(* The inductive invariants.                                               *)
(***************************************************************************)
Memory == [prefix : Prefixes, live : BOOLEAN]

Distillate == [path : Prefixes, version : Nat, sources : SUBSET Nat]

Job == [at : {"none", "queued", "query", "llm", "dedup", "version", "insert", "mark"},
        prefix : Prefixes \cup {""}, slot : BOOLEAN, sources : SUBSET Nat,
        version : Nat, id : Nat]

Run == [policy : Policies, prefix : Prefixes, status : {"running", "completed"}, distilled : Nat]

JobTypes ==
    /\ memories \in Seq(Memory)
    /\ distilled \in Seq(Distillate)
    /\ job \in [Jobs -> Job]
    /\ runs \in Seq(Run)

PositionsOf(p) == {k \in DOMAIN distilled : distilled[k].path = p}

CountAt(p) == Cardinality(PositionsOf(p))

\* The versions of a path are 1..n for its n distillates, a version that a job is
\* about to insert is not beyond the next one, and a job that marks a run has a
\* distillate.
JobInv ==
    /\ JobTypes
    /\ \A j \in Jobs : job[j].at # "none" => job[j].prefix \in Prefixes
    /\ \A j \in Jobs : job[j].at = "insert" => job[j].version \in 1..(CountAt(job[j].prefix) + 1)
    /\ \A j \in Jobs : job[j].at = "mark" => job[j].id # 0
    /\ \A p \in Prefixes : VersionsAt(p) = 1..CountAt(p)
    /\ VersionsAreDense

(***************************************************************************)
(* Appending to a table.                                                   *)
(***************************************************************************)
\* The rows of a table keep their ids when a row is added.
LEMMA AppendRow ==
    ASSUME NEW S, NEW s \in Seq(S), NEW x \in S
    PROVE  /\ Append(s, x) \in Seq(S)
           /\ Len(s) \in Nat /\ DOMAIN s = 1..Len(s)
           /\ Len(Append(s, x)) = Len(s) + 1
           /\ DOMAIN Append(s, x) = 1..(Len(s) + 1)
           /\ \A i \in 1..Len(s) : Append(s, x)[i] = s[i]
           /\ Append(s, x)[Len(s) + 1] = x
BY SMTT(40)

\* The distillates of a path are finitely many.
LEMMA CountType ==
    ASSUME JobTypes, NEW p
    PROVE  IsFiniteSet(PositionsOf(p)) /\ CountAt(p) \in Nat
<1>1. Len(distilled) \in Nat /\ DOMAIN distilled = 1..Len(distilled)
      BY SMTT(40) DEF JobTypes
<1>2. IsFiniteSet(1..Len(distilled))
      BY SMTT(40), <1>1, FS_Interval
<1>3. PositionsOf(p) \in SUBSET (1..Len(distilled))
      BY Zenon, <1>1 DEF PositionsOf
<1>4. IsFiniteSet(PositionsOf(p))
      BY Zenon, <1>2, <1>3, FS_Subset
<1> QED BY Zenon, <1>4, FS_CardinalityType DEF CountAt

\* MaxVersion is the number of distillates of the path.
LEMMA MaxVersionIsCount ==
    ASSUME JobInv, NEW p \in Prefixes
    PROVE  MaxVersion(p) = CountAt(p)
<1> DEFINE n == CountAt(p)
<1>1. n \in Nat
      BY Zenon, CountType DEF JobInv
<1>2. VersionsAt(p) = 1..n
      BY Zenon DEF JobInv
<1> HIDE DEF n
<1>3. n \in (1..n) \cup {0} /\ \A w \in 1..n : w <= n
      BY SMTT(40), <1>1
<1>4. \A v \in (1..n) \cup {0} : (\A w \in 1..n : w <= v) => v = n
      BY SMTT(40), <1>1
<1>5. MaxVersion(p) = CHOOSE v \in (1..n) \cup {0} : \A w \in 1..n : w <= v
      BY Zenon, <1>2 DEF MaxVersion
<1>6. MaxVersion(p) = n
      BY Zenon, <1>3, <1>4, <1>5
<1> QED BY Zenon, <1>6 DEF n

\* A distillate with the next version of its path keeps the versions dense.
LEMMA NextDistillate ==
    ASSUME JobInv, NEW row \in Distillate, row.version = CountAt(row.path) + 1,
           distilled' = Append(distilled, row)
    PROVE  /\ \A p \in Prefixes : /\ CountAt(p)' \in Nat /\ CountAt(p) <= CountAt(p)'
                                  /\ VersionsAt(p)' = 1..CountAt(p)'
           /\ VersionsAreDense'
<1> DEFINE n == Len(distilled)
<1>1. /\ distilled' \in Seq(Distillate)
      /\ n \in Nat /\ DOMAIN distilled = 1..n /\ DOMAIN distilled' = 1..(n + 1)
      /\ \A i \in 1..n : distilled'[i] = distilled[i]
      /\ distilled'[n + 1] = row
      BY SMTT(40), AppendRow DEF JobInv, JobTypes
<1> HIDE DEF n
<1>2. ASSUME NEW p \in Prefixes
      PROVE  PositionsOf(p)' = IF p = row.path THEN PositionsOf(p) \cup {n + 1} ELSE PositionsOf(p)
      BY SMTT(40), <1>1 DEF PositionsOf
<1>3. row.path \in Prefixes /\ n + 1 \notin PositionsOf(row.path)
      BY SMTT(40), <1>1 DEF PositionsOf, Distillate
<1>4. \A p : IsFiniteSet(PositionsOf(p)) /\ CountAt(p) \in Nat
      BY Zenon, CountType DEF JobInv
<1>5. CountAt(row.path)' = CountAt(row.path) + 1
  <2>1. PositionsOf(row.path)' = PositionsOf(row.path) \cup {n + 1}
        BY Zenon, <1>2, <1>3
  <2>2. Cardinality(PositionsOf(row.path) \cup {n + 1}) = Cardinality(PositionsOf(row.path)) + 1
        BY Zenon, <1>3, <1>4, FS_AddElement
  <2> QED BY Zenon, <2>1, <2>2 DEF CountAt
<1>6. \A p \in Prefixes : p # row.path => CountAt(p)' = CountAt(p)
      BY Zenon, <1>2 DEF CountAt
<1>7. ASSUME NEW p \in Prefixes
      PROVE  VersionsAt(p)' = IF p = row.path THEN VersionsAt(p) \cup {row.version} ELSE VersionsAt(p)
  <2>1. \A v : v \in VersionsAt(p) <=> \E i \in PositionsOf(p) : distilled[i].version = v
        BY Zenon DEF VersionsAt, PositionsOf
  <2>2. \A v : v \in VersionsAt(p)' <=> \E i \in PositionsOf(p)' : distilled'[i].version = v
        BY Zenon DEF VersionsAt, PositionsOf
  <2>3. \A i \in PositionsOf(p) : distilled'[i] = distilled[i]
        BY Zenon, <1>1 DEF PositionsOf
  <2>4. \A v : v \in VersionsAt(p)' <=> v \in VersionsAt(p) \/ (p = row.path /\ v = row.version)
    <3>1. CASE p = row.path
      <4>1. PositionsOf(p)' = PositionsOf(p) \cup {n + 1}
            BY Zenon, <1>2, <3>1
      <4>2. distilled'[n + 1].version = row.version
            BY Zenon, <1>1
      <4>3. \A v : (\E i \in PositionsOf(p)' : distilled'[i].version = v)
                     <=> (\E i \in PositionsOf(p) : distilled'[i].version = v) \/ v = row.version
            BY Zenon, <4>1, <4>2
      <4>4. \A v : (\E i \in PositionsOf(p) : distilled'[i].version = v) <=> v \in VersionsAt(p)
            BY Zenon, <2>1, <2>3
      <4> QED BY Zenon, <2>2, <3>1, <4>3, <4>4
    <3>2. CASE p # row.path
      <4>1. PositionsOf(p)' = PositionsOf(p)
            BY Zenon, <1>2, <3>2
      <4>2. \A v : (\E i \in PositionsOf(p)' : distilled'[i].version = v) <=> v \in VersionsAt(p)
            BY ZenonT(60), <2>1, <2>3, <4>1
      <4> QED BY Zenon, <2>2, <3>2, <4>2
    <3> QED BY Zenon, <3>1, <3>2
  <2>5. CASE p = row.path
        BY Zenon, <2>4, <2>5
  <2>6. CASE p # row.path
    <3>1. VersionsAt(p)' = VersionsAt(p)
          BY Zenon, <2>4, <2>6
    <3> QED BY Zenon, <2>6, <3>1
  <2> QED BY Zenon, <2>5, <2>6
<1>8. ASSUME NEW p \in Prefixes
      PROVE  /\ CountAt(p)' \in Nat /\ CountAt(p) <= CountAt(p)'
             /\ VersionsAt(p)' = 1..CountAt(p)'
  <2>1. VersionsAt(p) = 1..CountAt(p) /\ CountAt(p) \in Nat
        BY Zenon, <1>4 DEF JobInv
  <2>2. CASE p = row.path
    <3>1. VersionsAt(p)' = (1..CountAt(p)) \cup {CountAt(p) + 1}
          BY Zenon, <1>7, <2>1, <2>2
    <3>2. CountAt(p)' = CountAt(p) + 1
          BY Zenon, <1>5, <2>2
    <3>3. (1..CountAt(p)) \cup {CountAt(p) + 1} = 1..(CountAt(p) + 1)
          BY SMTT(40), <2>1
    <3> QED BY SMTT(40), <2>1, <3>1, <3>2, <3>3
  <2>3. CASE p # row.path
        BY SMTT(40), <1>6, <1>7, <2>1, <2>3
  <2> QED BY Zenon, <2>2, <2>3
<1>9. VersionsAreDense'
  <2> SUFFICES ASSUME NEW i \in 1..(n + 1)
               PROVE  distilled'[i].version =
                        Cardinality({k \in 1..i : distilled'[k].path = distilled'[i].path})
      BY Zenon, <1>1 DEF VersionsAreDense
  <2>1. CASE i \in 1..n
    <3>1. {k \in 1..i : distilled'[k].path = distilled'[i].path}
            = {k \in 1..i : distilled[k].path = distilled[i].path}
          BY SMTT(40), <1>1, <2>1
    <3> QED BY ZenonT(60), <1>1, <2>1, <3>1 DEF JobInv, VersionsAreDense
  <2>2. CASE i = n + 1
    <3>1. distilled'[i] = row /\ 1..i = DOMAIN distilled'
          BY Zenon, <1>1, <2>2
    <3>2. {k \in 1..i : distilled'[k].path = distilled'[i].path} = PositionsOf(row.path)'
          BY Zenon, <3>1 DEF PositionsOf
    <3>3. CountAt(row.path)' = Cardinality(PositionsOf(row.path)')
          BY Zenon DEF CountAt
    <3> QED BY Zenon, <1>5, <3>1, <3>2, <3>3
  <2>3. i \in 1..n \/ i = n + 1
        BY SMTT(40), <1>1
  <2> QED BY Zenon, <2>1, <2>2, <2>3
<1> QED BY Zenon, <1>8, <1>9

(***************************************************************************)
(* The steps of a job.                                                     *)
(***************************************************************************)
SoundJob(r) ==
    /\ r \in Job
    /\ r.at # "none" => r.prefix \in Prefixes
    /\ r.at = "insert" => r.version \in 1..(CountAt(r.prefix) + 1)
    /\ r.at = "mark" => r.id # 0

\* A job moves to a sound state and no distillate is added.
LEMMA JobMoves ==
    ASSUME JobInv, NEW j \in Jobs, NEW r, SoundJob(r), job' = [job EXCEPT ![j] = r],
           memories' \in Seq(Memory), distilled' = distilled, runs' \in Seq(Run)
    PROVE  JobInv'
<1> USE DEF SoundJob
<1>1. \A p : CountAt(p)' = CountAt(p) /\ VersionsAt(p)' = VersionsAt(p)
      BY Zenon DEF CountAt, PositionsOf, VersionsAt
<1>2. JobTypes'
      BY Zenon DEF JobInv, JobTypes
<1>3. \A k \in Jobs : job'[k] = IF k = j THEN r ELSE job[k]
      BY Zenon DEF JobInv, JobTypes
<1>4. /\ \A k \in Jobs : job'[k].at # "none" => job'[k].prefix \in Prefixes
      /\ \A k \in Jobs : job'[k].at = "mark" => job'[k].id # 0
      BY Zenon, <1>3 DEF JobInv
<1>5. \A k \in Jobs : job'[k].at = "insert" => job'[k].version \in 1..(CountAt(job'[k].prefix) + 1)
      BY Zenon, <1>3 DEF JobInv
<1>6. VersionsAreDense'
      BY Zenon DEF JobInv, VersionsAreDense
<1>7. ASSUME NEW k \in Jobs, job'[k].at = "insert"
      PROVE  job'[k].version \in 1..(CountAt(job[k].prefix)' + 1)
  <2>1. CountAt(job[k].prefix)' = CountAt(job'[k].prefix)
        BY Zenon DEF CountAt, PositionsOf
  <2> QED BY Zenon, <1>5, <1>7, <2>1
<1> QED BY Zenon, <1>1, <1>2, <1>4, <1>6, <1>7 DEF JobInv

\* Steps that touch neither the jobs nor the distillates.
LEMMA JobsRest ==
    ASSUME JobInv, UNCHANGED <<distilled, job>>, memories' \in Seq(Memory), runs' \in Seq(Run)
    PROVE  JobInv'
<1>1. \A p : CountAt(p)' = CountAt(p) /\ VersionsAt(p)' = VersionsAt(p)
      BY Zenon DEF CountAt, PositionsOf, VersionsAt
<1>2. JobTypes'
      BY Zenon DEF JobInv, JobTypes
<1>3. \A k \in Jobs : CountAt(job[k].prefix)' = CountAt(job[k].prefix)
      BY Zenon DEF CountAt, PositionsOf
<1>4. VersionsAreDense'
      BY Zenon DEF JobInv, VersionsAreDense
<1> QED BY Zenon, <1>1, <1>2, <1>3, <1>4 DEF JobInv

LEMMA NoJobType == NoJob \in Job /\ NoJob.at = "none"
BY Zenon DEF NoJob, Job

\* A goroutine begins a job on a prefix.
LEMMA StartKeeps ==
    ASSUME JobInv, NEW j \in Jobs, NEW p \in Prefixes, NEW at \in {"queued", "query"},
           StartJob(j, p, at), UNCHANGED <<memories, distilled, sem, runs>>
    PROVE  JobInv'
<1> DEFINE r == [NoJob EXCEPT !.at = at, !.prefix = p]
<1>1. r \in Job /\ r.at = at /\ r.prefix = p
      BY Zenon DEF NoJob, Job
<1>2. job' = [job EXCEPT ![j] = r]
      BY Zenon DEF StartJob
<1> HIDE DEF r
<1>3. SoundJob(r)
      BY Zenon, <1>1 DEF SoundJob
<1>4. memories' \in Seq(Memory) /\ distilled' = distilled /\ runs' \in Seq(Run)
      BY Zenon DEF JobInv, JobTypes
<1> QED BY Zenon, <1>2, <1>3, <1>4, JobMoves

\* The end of a job, however it ends.
LEMMA EndKeeps ==
    ASSUME JobInv, NEW j \in Jobs, EndJob(j), UNCHANGED <<memories, distilled>>, runs' \in Seq(Run)
    PROVE  JobInv'
<1>1. job' = [job EXCEPT ![j] = NoJob]
      BY Zenon DEF EndJob
<1>2. SoundJob(NoJob)
      BY Zenon, NoJobType DEF SoundJob
<1>3. memories' \in Seq(Memory) /\ distilled' = distilled
      BY Zenon DEF JobInv, JobTypes
<1> QED BY Zenon, <1>1, <1>2, <1>3, JobMoves

\* The memories a job reads are memory ids.
LEMMA SourcesType ==
    ASSUME JobTypes, NEW p
    PROVE  JobSources(p) \in SUBSET Nat
BY SMTT(40) DEF JobTypes, JobSources, LiveUnder

LEMMA QuerySourcesKeeps ==
    ASSUME JobInv, NEW j \in Jobs, QuerySources(j)
    PROVE  JobInv'
<1>1. /\ UNCHANGED <<memories, distilled>>
      /\ memories' \in Seq(Memory) /\ distilled' = distilled /\ runs' \in Seq(Run)
      BY Zenon DEF QuerySources, JobInv, JobTypes
<1>2. CASE JobSources(job[j].prefix) = {}
      BY Zenon, <1>1, <1>2, EndKeeps DEF QuerySources
<1>3. CASE JobSources(job[j].prefix) # {}
  <2> DEFINE r == [job[j] EXCEPT !.at = "llm", !.sources = JobSources(job[j].prefix)]
  <2>1. job[j] \in Job /\ job[j].at = "query" /\ JobSources(job[j].prefix) \in SUBSET Nat
        BY Zenon, SourcesType DEF JobInv, JobTypes, QuerySources
  <2>2. r \in Job /\ r.at = "llm" /\ r.prefix = job[j].prefix
        BY Zenon, <2>1 DEF Job
  <2>3. job' = [job EXCEPT ![j] = r]
        BY Zenon, <1>3 DEF QuerySources
  <2>4. job[j].prefix \in Prefixes
        BY Zenon, <2>1 DEF JobInv
  <2> HIDE DEF r
  <2>5. SoundJob(r)
        BY Zenon, <2>2, <2>4 DEF SoundJob
  <2> QED BY Zenon, <1>1, <2>3, <2>5, JobMoves
<1> QED BY Zenon, <1>2, <1>3

LEMMA AcquireSlotKeeps ==
    ASSUME JobInv, NEW j \in Jobs, AcquireSlot(j)
    PROVE  JobInv'
<1> DEFINE r == [job[j] EXCEPT !.at = "query", !.slot = TRUE]
<1>1. job[j] \in Job /\ job[j].prefix \in Prefixes
      BY Zenon DEF JobInv, JobTypes, AcquireSlot
<1>2. r \in Job /\ r.at = "query" /\ r.prefix = job[j].prefix
      BY Zenon, <1>1 DEF Job
<1>3. job' = [job EXCEPT ![j] = r]
      BY Zenon DEF AcquireSlot
<1>4. memories' \in Seq(Memory) /\ distilled' = distilled /\ runs' \in Seq(Run)
      BY Zenon DEF AcquireSlot, JobInv, JobTypes
<1> HIDE DEF r
<1>5. SoundJob(r)
      BY Zenon, <1>1, <1>2 DEF SoundJob
<1> QED BY Zenon, <1>3, <1>4, <1>5, JobMoves

LEMMA CompleteKeeps ==
    ASSUME JobInv, NEW j \in Jobs, Complete(j)
    PROVE  JobInv'
<1> DEFINE r == [job[j] EXCEPT !.at = "dedup"]
<1>1. job[j] \in Job /\ job[j].prefix \in Prefixes
      BY Zenon DEF JobInv, JobTypes, Complete
<1>2. r \in Job /\ r.at = "dedup" /\ r.prefix = job[j].prefix
      BY Zenon, <1>1 DEF Job
<1>3. job' = [job EXCEPT ![j] = r]
      BY Zenon DEF Complete, JobInv, JobTypes
<1>4. memories' \in Seq(Memory) /\ distilled' = distilled /\ runs' \in Seq(Run)
      BY Zenon DEF Complete, JobInv, JobTypes
<1> HIDE DEF r
<1>5. SoundJob(r)
      BY Zenon, <1>1, <1>2 DEF SoundJob
<1> QED BY Zenon, <1>3, <1>4, <1>5, JobMoves

LEMMA DedupKeeps ==
    ASSUME JobInv, NEW j \in Jobs, hasDuplicateDistillation(j)
    PROVE  JobInv'
<1>1. /\ UNCHANGED <<memories, distilled>>
      /\ memories' \in Seq(Memory) /\ distilled' = distilled /\ runs' \in Seq(Run)
      BY Zenon DEF hasDuplicateDistillation, JobInv, JobTypes
<1>2. CASE EndJob(j)
      BY Zenon, <1>1, <1>2, EndKeeps
<1>3. CASE job' = [job EXCEPT ![j].at = "version"]
  <2> DEFINE r == [job[j] EXCEPT !.at = "version"]
  <2>1. job[j] \in Job /\ job[j].prefix \in Prefixes
        BY Zenon DEF JobInv, JobTypes, hasDuplicateDistillation
  <2>2. r \in Job /\ r.at = "version" /\ r.prefix = job[j].prefix
        BY Zenon, <2>1 DEF Job
  <2>3. job' = [job EXCEPT ![j] = r]
        BY Zenon, <1>3 DEF JobInv, JobTypes
  <2> HIDE DEF r
  <2>4. SoundJob(r)
        BY Zenon, <2>1, <2>2 DEF SoundJob
  <2> QED BY Zenon, <1>1, <2>3, <2>4, JobMoves
<1> QED BY Zenon, <1>2, <1>3 DEF hasDuplicateDistillation

\* The version a job computes is the next one of its path at that moment.
LEMMA NextVersionKeeps ==
    ASSUME JobInv, NEW j \in Jobs, nextDistilledVersion(j)
    PROVE  JobInv'
<1> DEFINE n == MaxVersion(job[j].prefix) + 1
           r == [job[j] EXCEPT !.at = "insert", !.version = n]
<1>1. job[j] \in Job /\ job[j].prefix \in Prefixes
      BY Zenon DEF JobInv, JobTypes, nextDistilledVersion
<1>2. n = CountAt(job[j].prefix) + 1 /\ CountAt(job[j].prefix) \in Nat
      BY Zenon, <1>1, MaxVersionIsCount, CountType DEF JobInv
<1>3. job' = [job EXCEPT ![j] = r] /\ UNCHANGED <<memories, distilled, runs>>
      BY Zenon DEF nextDistilledVersion
<1>4. n \in Nat
      BY SMTT(40), <1>2
<1> HIDE DEF n
<1>5. r \in Job /\ r.at = "insert" /\ r.version = n /\ r.prefix = job[j].prefix
      BY Zenon, <1>1, <1>4 DEF Job
<1> HIDE DEF r
<1>6. SoundJob(r)
      BY SMTT(40), <1>1, <1>2, <1>5 DEF SoundJob
<1>7. memories' \in Seq(Memory) /\ distilled' = distilled /\ runs' \in Seq(Run)
      BY Zenon, <1>3 DEF JobInv, JobTypes
<1> QED BY Zenon, <1>3, <1>6, <1>7, JobMoves

\* The insert succeeds only with the version that follows the last one: a smaller
\* one is taken, so the unique index refuses it.
LEMMA InsertKeeps ==
    ASSUME JobInv, NEW j \in Jobs, InsertDistilled(j)
    PROVE  JobInv'
<1> DEFINE row == [path |-> job[j].prefix, version |-> job[j].version, sources |-> job[j].sources]
           r == [job[j] EXCEPT !.at = "mark", !.id = Len(distilled) + 1]
<1>1. /\ job[j] \in Job /\ job[j].prefix \in Prefixes /\ job[j].at = "insert"
      /\ job[j].version \in 1..(CountAt(job[j].prefix) + 1)
      BY Zenon DEF JobInv, JobTypes, InsertDistilled
<1>2. CASE ~UniqueVersion(job[j].prefix, job[j].version)
  <2>1. EndJob(j) /\ UNCHANGED <<memories, distilled, runs>>
        BY Zenon, <1>2 DEF InsertDistilled
  <2> QED BY Zenon, <2>1, EndKeeps DEF JobInv, JobTypes
<1>3. CASE UniqueVersion(job[j].prefix, job[j].version)
  <2>1. /\ distilled' = Append(distilled, row)
        /\ job' = [job EXCEPT ![j] = r]
        /\ UNCHANGED <<memories, runs>>
        BY Zenon, <1>3 DEF InsertDistilled
  <2>2. row \in Distillate /\ row.path = job[j].prefix /\ row.version = job[j].version
        BY Zenon, <1>1 DEF Distillate, Job
  <2>3. job[j].version = CountAt(job[j].prefix) + 1
    <3>1. job[j].version \notin 1..CountAt(job[j].prefix) /\ CountAt(job[j].prefix) \in Nat
          BY Zenon, <1>1, <1>3, CountType DEF UniqueVersion, JobInv
    <3> QED BY SMTT(40), <1>1, <3>1
  <2>4. Len(distilled) + 1 \in Nat /\ Len(distilled) + 1 # 0
        BY SMTT(40) DEF JobInv, JobTypes
  <2>5. r \in Job /\ r.at = "mark" /\ r.prefix = job[j].prefix /\ r.id = Len(distilled) + 1
        BY Zenon, <1>1, <2>4 DEF Job
  <2> HIDE DEF row, r
  <2>6. /\ \A p \in Prefixes : /\ CountAt(p)' \in Nat /\ CountAt(p) <= CountAt(p)'
                               /\ VersionsAt(p)' = 1..CountAt(p)'
        /\ VersionsAreDense'
        BY Zenon, <2>1, <2>2, <2>3, NextDistillate
  <2>7. JobTypes'
        BY Zenon, <2>1, <2>2, <2>5, AppendRow DEF JobInv, JobTypes
  <2>8. \A k \in Jobs : job'[k] = IF k = j THEN r ELSE job[k]
        BY Zenon, <2>1 DEF JobInv, JobTypes
  <2>9. /\ \A k \in Jobs : job'[k].at # "none" => job'[k].prefix \in Prefixes
        /\ \A k \in Jobs : job'[k].at = "mark" => job'[k].id # 0
        BY Zenon, <1>1, <2>4, <2>5, <2>8 DEF JobInv
  <2>10. ASSUME NEW k \in Jobs, job'[k].at = "insert"
         PROVE  job'[k].version \in 1..(CountAt(job[k].prefix)' + 1)
    <3>1. job'[k] = job[k] /\ k # j
          BY Zenon, <2>5, <2>8, <2>10
    <3> DEFINE p == job[k].prefix
    <3>2. p \in Prefixes /\ job[k].version \in 1..(CountAt(p) + 1) /\ CountAt(p) \in Nat
          BY Zenon, <2>10, <3>1, CountType DEF JobInv
    <3>3. PICK q \in Prefixes : q = p
          BY Zenon, <3>2
    <3>4. CountAt(q)' \in Nat /\ CountAt(q) <= CountAt(q)'
          BY Zenon, <2>6
    <3>5. CountAt(job[k].prefix)' = CountAt(q)'
          BY Zenon, <3>1, <3>3 DEF CountAt, PositionsOf
    <3> QED BY SMTT(40), <3>1, <3>2, <3>3, <3>4, <3>5
  <2> QED BY Zenon, <2>6, <2>7, <2>9, <2>10 DEF JobInv
<1> QED BY Zenon, <1>2, <1>3

(***************************************************************************)
(* The runs of distillation_runs.                                          *)
(***************************************************************************)
Eval == [at : {"none", "load", "next", "begin", "stamp", "trigger", "complete"},
         all : BOOLEAN, prefix : Prefixes \cup {""},
         todo : SUBSET [policy : Policies, cool : BOOLEAN],
         cur : Policies \cup {""}, count : Nat, run : Nat]

\* The evaluations that have inserted a run and not yet started its job.
Pending == {e \in Evals : eval[e].at \in {"stamp", "trigger"}}

\* A run with a distillate is completed, an evaluation that works for a policy
\* has one and its run exists, and the runs outnumber the jobs started.
RunInv ==
    /\ eval \in [Evals -> Eval]
    /\ fired \in Nat
    /\ \A e \in Evals : eval[e].at \in {"begin", "stamp", "trigger", "complete"} => eval[e].cur \in Policies
    /\ \A e \in Evals : eval[e].at \in {"stamp", "trigger", "complete"} => eval[e].run \in DOMAIN runs
    /\ \A r \in DOMAIN runs : runs[r].distilled # 0 => runs[r].status = "completed"
    /\ TriggersAreRecorded

EngineInv == JobInv /\ RunInv

\* The step keeps the invariant, and every run its distillate.
Kept == EngineInv' /\ CreditStays

\* markRunCompleted changes the run it credits and no other.
LEMMA MarkKeeps ==
    ASSUME EngineInv, NEW j \in Jobs, markRunCompleted(j), UNCHANGED engineVars
    PROVE  Kept
<1> USE DEF EngineInv
<1>0. /\ job[j].at = "mark" /\ EndJob(j) /\ UNCHANGED <<memories, distilled>>
      /\ \/ \E r \in Running :
              runs' = [runs EXCEPT ![r] = [@ EXCEPT !.status = "completed", !.distilled = job[j].id]]
         \/ UNCHANGED runs
      BY Zenon DEF markRunCompleted
<1>1. runs \in Seq(Run) /\ job[j].id \in Nat \ {0}
  <2>1. job[j].id # 0
        BY Zenon, <1>0 DEF JobInv
  <2>2. job[j] \in Job /\ runs \in Seq(Run)
        BY Zenon DEF JobInv, JobTypes
  <2>3. job[j].id \in Nat
        BY Zenon, <2>2 DEF Job
  <2> QED BY Zenon, <2>1, <2>2, <2>3
<1>2. /\ runs' \in Seq(Run) /\ DOMAIN runs' = DOMAIN runs /\ Len(runs') = Len(runs)
      /\ \A r \in DOMAIN runs : \/ runs'[r] = runs[r]
                                \/ runs'[r].status = "completed" /\ runs'[r].distilled # 0
  <2>1. CASE UNCHANGED runs
        BY Zenon, <1>1, <2>1
  <2>2. ASSUME NEW r \in Running,
               runs' = [runs EXCEPT ![r] = [@ EXCEPT !.status = "completed", !.distilled = job[j].id]]
        PROVE  /\ runs' \in Seq(Run) /\ DOMAIN runs' = DOMAIN runs /\ Len(runs') = Len(runs)
               /\ \A q \in DOMAIN runs : \/ runs'[q] = runs[q]
                                         \/ runs'[q].status = "completed" /\ runs'[q].distilled # 0
    <3> DEFINE new == [runs[r] EXCEPT !.status = "completed", !.distilled = job[j].id]
    <3>1. r \in DOMAIN runs /\ runs[r] \in Run
          BY SMTT(40), <1>1 DEF Running
    <3>2. new \in Run /\ new.status = "completed" /\ new.distilled = job[j].id
          BY Zenon, <1>1, <3>1 DEF Run
    <3>3. runs' = [runs EXCEPT ![r] = new]
          BY Zenon, <2>2
    <3> HIDE DEF new
    <3> QED BY SMTT(40), <1>1, <3>1, <3>2, <3>3
  <2> QED BY Zenon, <1>0, <2>1, <2>2
<1>3. JobInv'
      BY Zenon, <1>0, <1>2, EndKeeps
<1>4. UNCHANGED <<eval, fired>>
      BY Zenon DEF engineVars
<1>5. TriggersAreRecorded'
      BY Zenon, <1>2, <1>4 DEF RunInv, TriggersAreRecorded
<1>6. RunInv'
      BY Zenon, <1>2, <1>4, <1>5 DEF RunInv
<1>7. CreditStays
      BY Zenon, <1>2 DEF RunInv, CreditStays
<1> QED BY Zenon, <1>3, <1>6, <1>7 DEF Kept

\* Steps that leave the runs and the evaluations alone.
LEMMA RunsRest ==
    ASSUME EngineInv, JobInv', runs' = runs, eval' = eval, fired' = fired
    PROVE  Kept
<1>1. TriggersAreRecorded'
      BY Zenon DEF EngineInv, RunInv, TriggersAreRecorded
<1> QED BY Zenon, <1>1 DEF Kept, EngineInv, RunInv, CreditStays

\* A step of a job, or the store of a memory.
LEMMA JobNextKeeps ==
    ASSUME EngineInv, JobNext, UNCHANGED engineVars
    PROVE  Kept
<1>0. eval' = eval /\ fired' = fired
      BY Zenon DEF engineVars
<1>1. JobInv /\ runs \in Seq(Run)
      BY Zenon DEF EngineInv, JobInv, JobTypes
<1>2. ASSUME NEW p \in Prefixes, NEW i \in 0..Len(memories), StoreMemory(p, {i} \cap DOMAIN memories)
      PROVE  Kept
  <2> DEFINE old == {i} \cap DOMAIN memories
             kept == [k \in DOMAIN memories |->
                        IF k \in old THEN [memories[k] EXCEPT !.live = FALSE] ELSE memories[k]]
             new == [prefix |-> p, live |-> TRUE]
  <2>1. memories \in Seq(Memory)
        BY Zenon, <1>1 DEF JobInv, JobTypes
  <2>2. \A k \in DOMAIN memories : [memories[k] EXCEPT !.live = FALSE] \in Memory /\ memories[k] \in Memory
    <3>1. \A k \in DOMAIN memories : memories[k] \in Memory
          BY SMTT(40), <2>1
    <3> QED BY Zenon, <3>1 DEF Memory
  <2>3. kept \in Seq(Memory)
        BY SMTT(40), <2>1, <2>2
  <2>4. new \in Memory
        BY Zenon DEF Memory
  <2>5. /\ memories' = Append(kept, new)
        /\ UNCHANGED <<distilled, job>> /\ UNCHANGED runs
        BY Zenon, <1>2 DEF StoreMemory
  <2> HIDE DEF kept, new
  <2>6. memories' \in Seq(Memory)
        BY Zenon, <2>3, <2>4, <2>5, AppendRow
  <2>7. JobInv'
        BY Zenon, <1>1, <2>5, <2>6, JobsRest
  <2> QED BY Zenon, <2>5, <2>7, <1>0, RunsRest
<1>3. ASSUME NEW j \in Jobs, NEW p \in Prefixes, TriggerForPrefix(j, p) PROVE Kept
  <2>1. StartJob(j, p, "queued") /\ UNCHANGED <<memories, distilled, sem, runs>>
        BY Zenon, <1>3 DEF TriggerForPrefix
  <2>2. JobInv'
        BY Zenon, <1>1, <2>1, StartKeeps
  <2> QED BY Zenon, <2>1, <2>2, <1>0, RunsRest
<1>4. ASSUME NEW j \in Jobs, FallbackTimer(j) PROVE Kept
  <2>1. StartJob(j, Fallback, "query") /\ UNCHANGED <<memories, distilled, sem, runs>>
        BY Zenon, <1>4 DEF FallbackTimer
  <2>2. JobInv'
        BY Zenon, <1>1, <2>1, StartKeeps, DistillationAssumption
  <2> QED BY Zenon, <2>1, <2>2, <1>0, RunsRest
<1>5. ASSUME NEW j \in Jobs, JobStep(j) PROVE Kept
  <2>1. CASE AcquireSlot(j)
        BY Zenon, <1>1, <2>1, AcquireSlotKeeps, <1>0, RunsRest DEF AcquireSlot
  <2>2. CASE QuerySources(j)
        BY Zenon, <1>1, <2>2, QuerySourcesKeeps, <1>0, RunsRest DEF QuerySources
  <2>3. CASE Complete(j)
        BY Zenon, <1>1, <2>3, CompleteKeeps, <1>0, RunsRest DEF Complete
  <2>4. CASE JobFails(j)
        BY Zenon, <1>1, <2>4, EndKeeps, <1>0, RunsRest DEF JobFails
  <2>5. CASE hasDuplicateDistillation(j)
        BY Zenon, <1>1, <2>5, DedupKeeps, <1>0, RunsRest DEF hasDuplicateDistillation
  <2>6. CASE nextDistilledVersion(j)
        BY Zenon, <1>1, <2>6, NextVersionKeeps, <1>0, RunsRest DEF nextDistilledVersion
  <2>7. CASE InsertDistilled(j)
        BY Zenon, <1>1, <2>7, InsertKeeps, <1>0, RunsRest DEF InsertDistilled
  <2>8. CASE markRunCompleted(j)
        BY Zenon, <2>8, MarkKeeps
  <2> QED BY Zenon, <1>5, <2>1, <2>2, <2>3, <2>4, <2>5, <2>6, <2>7, <2>8 DEF JobStep
<1> QED BY Zenon, <1>2, <1>3, <1>4, <1>5 DEF JobNext

(***************************************************************************)
(* The steps of an evaluation.                                             *)
(***************************************************************************)
\* An evaluation that enters or leaves the pending ones changes their number by one.
LEMMA PendingChange ==
    ASSUME RunInv, NEW e \in Evals, NEW v, eval' = [eval EXCEPT ![e] = v]
    PROVE  /\ Cardinality(Pending) \in Nat /\ Cardinality(Pending') \in Nat
           /\ eval[e].at \notin {"stamp", "trigger"} /\ v.at \notin {"stamp", "trigger"}
                => Cardinality(Pending') = Cardinality(Pending)
           /\ eval[e].at \in {"stamp", "trigger"} /\ v.at \in {"stamp", "trigger"}
                => Cardinality(Pending') = Cardinality(Pending)
           /\ eval[e].at \notin {"stamp", "trigger"} /\ v.at \in {"stamp", "trigger"}
                => Cardinality(Pending') = Cardinality(Pending) + 1
           /\ eval[e].at \in {"stamp", "trigger"} /\ v.at \notin {"stamp", "trigger"}
                => Cardinality(Pending') = Cardinality(Pending) - 1
<1>1. eval'[e] = v /\ \A f \in Evals \ {e} : eval'[f] = eval[f]
      BY Zenon DEF RunInv
<1>2. Pending' = IF v.at \in {"stamp", "trigger"} THEN Pending \cup {e} ELSE Pending \ {e}
      BY Zenon, <1>1 DEF Pending
<1>3. e \in Pending <=> eval[e].at \in {"stamp", "trigger"}
      BY Zenon DEF Pending
<1>4. Pending \in SUBSET Evals /\ Pending' \in SUBSET Evals
      BY Zenon DEF Pending
<1>5. IsFiniteSet(Pending) /\ IsFiniteSet(Pending')
      BY Zenon, <1>4, FS_Subset, DistillationPolicyAssumption
<1>6. Cardinality(Pending) \in Nat /\ Cardinality(Pending') \in Nat
      BY Zenon, <1>5, FS_CardinalityType
<1>7. /\ e \in Pending => Cardinality(Pending \cup {e}) = Cardinality(Pending)
      /\ e \notin Pending => Cardinality(Pending \cup {e}) = Cardinality(Pending) + 1
      BY Zenon, <1>5, FS_AddElement
<1>8. /\ e \in Pending => Cardinality(Pending \ {e}) = Cardinality(Pending) - 1
      /\ e \notin Pending => Cardinality(Pending \ {e}) = Cardinality(Pending)
      BY Zenon, <1>5, FS_RemoveElement
<1>9. CASE v.at \in {"stamp", "trigger"}
  <2>1. Pending' = Pending \cup {e}
        BY Zenon, <1>2, <1>9
  <2> QED BY Zenon, <1>3, <1>6, <1>7, <1>9, <2>1
<1>10. CASE v.at \notin {"stamp", "trigger"}
  <2>1. Pending' = Pending \ {e}
        BY Zenon, <1>2, <1>10
  <2> QED BY Zenon, <1>3, <1>6, <1>8, <1>10, <2>1
<1> QED BY Zenon, <1>9, <1>10

SoundEval(v) ==
    /\ v \in Eval
    /\ v.at \in {"begin", "stamp", "trigger", "complete"} => v.cur \in Policies

\* An evaluation moves to a sound state; the runs grow, are credited or stay.
LEMMA EvalMoves ==
    ASSUME EngineInv, JobInv', NEW e \in Evals, NEW v, SoundEval(v), eval' = [eval EXCEPT ![e] = v],
           v.at \in {"stamp", "trigger", "complete"} => v.run \in DOMAIN runs',
           \A r \in DOMAIN runs :
              /\ r \in DOMAIN runs'
              /\ runs[r].distilled # 0 => runs'[r].distilled # 0,
           \A r \in DOMAIN runs' : runs'[r].distilled # 0 => runs'[r].status = "completed",
           fired' \in Nat, TriggersAreRecorded'
    PROVE  Kept
<1>1. \A f \in Evals : eval'[f] = IF f = e THEN v ELSE eval[f]
      BY Zenon DEF EngineInv, RunInv
<1>2. eval' \in [Evals -> Eval]
      BY Zenon DEF EngineInv, RunInv, SoundEval
<1>3. \A f \in Evals : eval'[f].at \in {"begin", "stamp", "trigger", "complete"} => eval'[f].cur \in Policies
      BY Zenon, <1>1 DEF EngineInv, RunInv, SoundEval
<1>4. \A f \in Evals : eval'[f].at \in {"stamp", "trigger", "complete"} => eval'[f].run \in DOMAIN runs'
      BY Zenon, <1>1 DEF EngineInv, RunInv
<1>5. RunInv'
      BY Zenon, <1>2, <1>3, <1>4 DEF RunInv
<1>6. CreditStays
      BY Zenon DEF CreditStays
<1> QED BY Zenon, <1>5, <1>6 DEF Kept, EngineInv

\* The same for a step that neither inserts a run nor starts a job.
LEMMA QuietEval ==
    ASSUME EngineInv, JobInv', NEW e \in Evals, NEW v, SoundEval(v), eval' = [eval EXCEPT ![e] = v],
           v.at \in {"stamp", "trigger"} => eval[e].at \in {"stamp", "trigger"},
           v.at \in {"stamp", "trigger", "complete"} => v.run \in DOMAIN runs,
           runs' = runs, fired' = fired
    PROVE  Kept
<1>1. TriggersAreRecorded'
  <2>1. /\ Cardinality(Pending) \in Nat /\ Cardinality(Pending') \in Nat
        /\ Cardinality(Pending') <= Cardinality(Pending)
    <3>1. RunInv
          BY Zenon DEF EngineInv
    <3>2. \/ eval[e].at \notin {"stamp", "trigger"} /\ v.at \notin {"stamp", "trigger"}
          \/ eval[e].at \in {"stamp", "trigger"} /\ v.at \in {"stamp", "trigger"}
          \/ eval[e].at \in {"stamp", "trigger"} /\ v.at \notin {"stamp", "trigger"}
          BY Zenon
    <3>3. /\ Cardinality(Pending) \in Nat /\ Cardinality(Pending') \in Nat
          /\ \/ Cardinality(Pending') = Cardinality(Pending)
             \/ Cardinality(Pending') = Cardinality(Pending) - 1
          BY Zenon, <3>1, <3>2, PendingChange
    <3> QED BY SMTT(40), <3>3
  <2>2. fired + Cardinality(Pending) <= Len(runs) /\ fired \in Nat /\ Len(runs) \in Nat
        BY SMTT(40) DEF EngineInv, JobInv, JobTypes, RunInv, TriggersAreRecorded, Pending
  <2>3. fired' + Cardinality(Pending') <= Len(runs')
        BY SMTT(40), <2>1, <2>2
  <2> QED BY Zenon, <2>3 DEF TriggersAreRecorded, Pending
<1>2. \A r \in DOMAIN runs' : runs'[r].distilled # 0 => runs'[r].status = "completed"
      BY Zenon DEF EngineInv, RunInv
<1>3. fired' \in Nat
      BY Zenon DEF EngineInv, RunInv
<1>4. \A r \in DOMAIN runs : r \in DOMAIN runs' /\ (runs[r].distilled # 0 => runs'[r].distilled # 0)
      BY Zenon
<1> QED BY Zenon, <1>1, <1>2, <1>3, <1>4, EvalMoves

LEMMA NoEvalType == NoEval \in Eval /\ NoEval.at = "none"
BY Zenon DEF NoEval, Eval

\* What an evaluation is after it went back to its loop, or out of it.
LEMMA ResumeEval ==
    ASSUME RunInv, NEW e \in Evals, NEW todo \in SUBSET [policy : Policies, cool : BOOLEAN],
           Resume(e, todo)
    PROVE  \E v \in Eval : v.at \in {"none", "next"} /\ eval' = [eval EXCEPT ![e] = v]
<1>1. eval[e] \in Eval
      BY Zenon DEF RunInv
<1>2. CASE todo = {}
  <2>1. eval' = [eval EXCEPT ![e] = NoEval]
        BY Zenon, <1>2 DEF Resume
  <2> QED BY Zenon, <2>1, NoEvalType
<1>3. CASE todo # {}
  <2> DEFINE u == [eval[e] EXCEPT !.at = "next", !.todo = todo]
  <2>1. eval' = [eval EXCEPT ![e] = u]
        BY Zenon, <1>3 DEF Resume
  <2>2. u \in Eval /\ u.at = "next"
        BY Zenon, <1>1 DEF Eval
  <2> HIDE DEF u
  <2> QED BY Zenon, <2>1, <2>2
<1> QED BY Zenon, <1>2, <1>3

\* The policies an evaluation reads.
LEMMA ReadPoliciesType ==
    ASSUME NEW ps \in SUBSET Policies
    PROVE  ReadPolicies(ps) \in SUBSET [policy : Policies, cool : BOOLEAN]
<1> SUFFICES ASSUME NEW r \in ReadPolicies(ps) PROVE r \in [policy : Policies, cool : BOOLEAN]
    BY Zenon
<1>1. PICK p \in ps \cap enabled : r = [policy |-> p, cool |-> p \in cooling]
      BY Zenon DEF ReadPolicies
<1>2. p \in Policies /\ (p \in cooling) \in BOOLEAN
      BY SMTT(40)
<1> QED BY Zenon, <1>1, <1>2

\* An evaluation begins.
LEMMA BeginKeeps ==
    ASSUME EngineInv, UNCHANGED jobVars, fired' = fired, NEW e \in Evals, NEW v,
           SoundEval(v), v.at \in {"load", "next"}, BeginEval(e, v)
    PROVE  Kept
<1>1. memories' \in Seq(Memory) /\ runs' \in Seq(Run) /\ UNCHANGED <<distilled, job>> /\ runs' = runs
      BY Zenon DEF jobVars, EngineInv, JobInv, JobTypes
<1>2. JobInv'
      BY Zenon, <1>1, JobsRest DEF EngineInv
<1>3. eval' = [eval EXCEPT ![e] = v]
      BY Zenon DEF BeginEval
<1>4. v.at \notin {"stamp", "trigger", "complete"}
      BY Zenon
<1> QED BY Zenon, <1>1, <1>2, <1>3, <1>4, QuietEval

\* A step of an evaluation that leaves the jobs and the runs alone.
LEMMA EvalSteps ==
    ASSUME EngineInv, NEW e \in Evals, UNCHANGED jobVars, fired' = fired, NEW v, SoundEval(v),
           eval' = [eval EXCEPT ![e] = v],
           v.at \in {"stamp", "trigger"} => eval[e].at \in {"stamp", "trigger"},
           v.at \in {"stamp", "trigger", "complete"} => v.run \in DOMAIN runs
    PROVE  Kept
<1>1. memories' \in Seq(Memory) /\ runs' \in Seq(Run) /\ UNCHANGED <<distilled, job>> /\ runs' = runs
      BY Zenon DEF jobVars, EngineInv, JobInv, JobTypes
<1>2. JobInv'
      BY Zenon, <1>1, JobsRest DEF EngineInv
<1> QED BY Zenon, <1>1, <1>2, QuietEval

LEMMA LoadKeeps ==
    ASSUME EngineInv, NEW e \in Evals, loadEvalState(e)
    PROVE  Kept
<1> DEFINE n == Cardinality(LiveUnder(eval[e].prefix))
           v == [eval[e] EXCEPT !.at = "next", !.count = n]
<1>1. eval[e] \in Eval
      BY Zenon DEF EngineInv, RunInv
<1>2. n \in Nat
  <2>1. Len(memories) \in Nat /\ DOMAIN memories = 1..Len(memories)
        BY SMTT(40) DEF EngineInv, JobInv, JobTypes
  <2>2. LiveUnder(eval[e].prefix) \in SUBSET (1..Len(memories))
        BY Zenon, <2>1 DEF LiveUnder
  <2>3. IsFiniteSet(1..Len(memories))
        BY SMTT(40), <2>1, FS_Interval
  <2>4. IsFiniteSet(LiveUnder(eval[e].prefix))
        BY Zenon, <2>2, <2>3, FS_Subset
  <2> QED BY Zenon, <2>4, FS_CardinalityType
<1> HIDE DEF n
<1>3. v \in Eval /\ v.at = "next"
      BY Zenon, <1>1, <1>2 DEF Eval
<1>4. eval' = [eval EXCEPT ![e] = v] /\ UNCHANGED jobVars /\ fired' = fired
      BY Zenon DEF loadEvalState, n
<1> HIDE DEF v
<1>5. SoundEval(v) /\ v.at \notin {"stamp", "trigger", "complete"}
      BY Zenon, <1>3 DEF SoundEval
<1> QED BY Zenon, <1>4, <1>5, EvalSteps

\* An evaluation goes on with its loop.
LEMMA ResumeKeeps ==
    ASSUME EngineInv, NEW e \in Evals, UNCHANGED jobVars, fired' = fired,
           NEW todo \in SUBSET eval[e].todo, Resume(e, todo)
    PROVE  Kept
<1>1. RunInv /\ eval[e] \in Eval
      BY Zenon DEF EngineInv, RunInv
<1>2. eval[e].todo \in SUBSET [policy : Policies, cool : BOOLEAN]
      BY Zenon, <1>1 DEF Eval
<1>3. todo \in SUBSET [policy : Policies, cool : BOOLEAN]
      BY Zenon, <1>2
<1>4. PICK v \in Eval : v.at \in {"none", "next"} /\ eval' = [eval EXCEPT ![e] = v]
      BY Zenon, <1>1, <1>3, ResumeEval
<1>5. SoundEval(v) /\ v.at \notin {"stamp", "trigger", "complete"}
      BY Zenon, <1>4 DEF SoundEval
<1> QED BY Zenon, <1>4, <1>5, EvalSteps

LEMMA MaybeTriggerKeeps ==
    ASSUME EngineInv, NEW e \in Evals, NEW r \in eval[e].todo, maybeTrigger(e, r)
    PROVE  Kept
<1> DEFINE rest == eval[e].todo \ {r}
           v == [eval[e] EXCEPT !.at = "begin", !.cur = r.policy, !.todo = rest]
<1>1. /\ UNCHANGED jobVars /\ fired' = fired
      /\ eval' = [eval EXCEPT ![e] = v] \/ Resume(e, rest)
      BY Zenon DEF maybeTrigger
<1>2. CASE Resume(e, rest)
  <2>1. rest \in SUBSET eval[e].todo
        BY Zenon
  <2> QED BY Zenon, <1>1, <1>2, <2>1, ResumeKeeps
<1>3. CASE eval' = [eval EXCEPT ![e] = v]
  <2>1. eval[e] \in Eval
        BY Zenon DEF EngineInv, RunInv
  <2>2. eval[e].todo \in SUBSET [policy : Policies, cool : BOOLEAN]
        BY Zenon, <2>1 DEF Eval
  <2>3. r \in [policy : Policies, cool : BOOLEAN]
        BY Zenon, <2>2
  <2>4. r.policy \in Policies /\ rest \in SUBSET [policy : Policies, cool : BOOLEAN]
        BY Zenon, <2>2, <2>3
  <2> HIDE DEF rest
  <2>5. v \in Eval /\ v.at = "begin" /\ v.cur = r.policy
        BY Zenon, <2>1, <2>4 DEF Eval
  <2> HIDE DEF v
  <2>6. SoundEval(v) /\ v.at \notin {"stamp", "trigger", "complete"}
        BY Zenon, <2>4, <2>5 DEF SoundEval
  <2> QED BY Zenon, <1>1, <1>3, <2>6, EvalSteps
<1> QED BY Zenon, <1>1, <1>2, <1>3

LEMMA StampKeeps ==
    ASSUME EngineInv, NEW e \in Evals, markPolicyTriggered(e)
    PROVE  Kept
<1> DEFINE v == [eval[e] EXCEPT !.at = "trigger"]
<1>1. eval[e] \in Eval /\ eval \in [Evals -> Eval]
      BY Zenon DEF EngineInv, RunInv
<1>2. /\ eval[e].at = "stamp" /\ eval' = [eval EXCEPT ![e].at = "trigger"]
      /\ UNCHANGED jobVars /\ fired' = fired
      BY Zenon DEF markPolicyTriggered
<1>3. eval[e].cur \in Policies /\ eval[e].run \in DOMAIN runs
      BY Zenon, <1>2 DEF EngineInv, RunInv
<1>4. v \in Eval /\ v.at = "trigger" /\ v.cur = eval[e].cur /\ v.run = eval[e].run
      BY Zenon, <1>1 DEF Eval
<1>5. eval' = [eval EXCEPT ![e] = v]
      BY Zenon, <1>1, <1>2
<1> HIDE DEF v
<1>6. SoundEval(v) /\ v.run \in DOMAIN runs
      BY Zenon, <1>3, <1>4 DEF SoundEval
<1>7. eval[e].at \in {"stamp", "trigger"}
      BY Zenon, <1>2
<1> QED BY Zenon, <1>2, <1>5, <1>6, <1>7, EvalSteps

\* A run is inserted by the evaluation that will start its job.
LEMMA BeginRunKeeps ==
    ASSUME EngineInv, NEW e \in Evals, beginRun(e)
    PROVE  Kept
<1> DEFINE row == [policy |-> eval[e].cur, prefix |-> PolicyPrefix[eval[e].cur],
                   status |-> "running", distilled |-> 0]
           v == [eval[e] EXCEPT !.at = "stamp", !.run = Len(runs) + 1]
<1>1. /\ eval[e].at = "begin" /\ UNCHANGED <<memories, distilled, job, sem, triggers>> /\ fired' = fired
      /\ \/ runs' = Append(runs, row) /\ eval' = [eval EXCEPT ![e] = v]
         \/ runs' = runs /\ Resume(e, eval[e].todo)
      BY Zenon DEF beginRun
<1>2. eval[e] \in Eval /\ eval[e].cur \in Policies
      BY Zenon, <1>1 DEF EngineInv, RunInv
<1>3. CASE runs' = runs /\ Resume(e, eval[e].todo)
  <2>1. UNCHANGED jobVars /\ eval[e].todo \in SUBSET eval[e].todo
        BY Zenon, <1>1, <1>3 DEF jobVars
  <2> QED BY Zenon, <1>1, <1>3, <2>1, ResumeKeeps
<1>4. CASE runs' = Append(runs, row) /\ eval' = [eval EXCEPT ![e] = v]
  <2>1. PolicyPrefix[eval[e].cur] \in Prefixes
        BY Zenon, <1>2, DistillationPolicyAssumption
  <2>2. row \in Run /\ row.distilled = 0
        BY Zenon, <1>2, <2>1 DEF Run
  <2>3. runs \in Seq(Run) /\ memories \in Seq(Memory)
        BY Zenon DEF EngineInv, JobInv, JobTypes
  <2> HIDE DEF row
  <2>4. /\ runs' \in Seq(Run) /\ Len(runs) \in Nat /\ Len(runs') = Len(runs) + 1
        /\ DOMAIN runs = 1..Len(runs) /\ DOMAIN runs' = 1..(Len(runs) + 1)
        /\ \A r \in 1..Len(runs) : runs'[r] = runs[r]
        /\ runs'[Len(runs) + 1] = row
        BY SMTT(40), <1>4, <2>2, <2>3, AppendRow
  <2>5. memories' \in Seq(Memory) /\ UNCHANGED <<distilled, job>>
        BY Zenon, <1>1, <2>3
  <2>6. JobInv'
        BY Zenon, <2>4, <2>5, JobsRest DEF EngineInv
  <2>7. Len(runs) + 1 \in Nat
        BY SMTT(40), <2>4
  <2>8. v \in Eval /\ v.at = "stamp" /\ v.cur = eval[e].cur /\ v.run = Len(runs) + 1
        BY Zenon, <1>2, <2>7 DEF Eval
  <2> HIDE DEF v
  <2>9. SoundEval(v) /\ v.run \in DOMAIN runs'
        BY SMTT(40), <1>2, <2>4, <2>8 DEF SoundEval
  <2>10. \A r \in DOMAIN runs : r \in DOMAIN runs' /\ (runs[r].distilled # 0 => runs'[r].distilled # 0)
         BY SMTT(40), <2>4
  <2>11. \A r \in DOMAIN runs' : runs'[r].distilled # 0 => runs'[r].status = "completed"
    <3> SUFFICES ASSUME NEW r \in DOMAIN runs', runs'[r].distilled # 0
                 PROVE  runs'[r].status = "completed"
        BY Zenon
    <3>1. r \in DOMAIN runs /\ runs'[r] = runs[r]
          BY SMTT(40), <2>2, <2>4
    <3> QED BY Zenon, <3>1 DEF EngineInv, RunInv
  <2>12. Cardinality(Pending') = Cardinality(Pending) + 1 /\ Cardinality(Pending) \in Nat
    <3>1. RunInv /\ eval[e].at \notin {"stamp", "trigger"} /\ v.at \in {"stamp", "trigger"}
          BY Zenon, <1>1, <2>8 DEF EngineInv
    <3> QED BY Zenon, <1>4, <3>1, PendingChange
  <2>13. fired + Cardinality(Pending) <= Len(runs) /\ fired \in Nat
         BY Zenon DEF EngineInv, RunInv, TriggersAreRecorded, Pending
  <2>14. fired' + Cardinality(Pending') <= Len(runs') /\ fired' \in Nat
         BY SMTT(40), <1>1, <2>4, <2>12, <2>13
  <2>15. TriggersAreRecorded'
         BY Zenon, <2>14 DEF TriggersAreRecorded, Pending
  <2> QED BY ZenonT(60), <1>4, <2>6, <2>9, <2>10, <2>11, <2>14, <2>15, EvalMoves
<1> QED BY Zenon, <1>1, <1>3, <1>4

\* The job of a run is started.
LEMMA TriggerKeeps ==
    ASSUME EngineInv, NEW e \in Evals, Trigger(e)
    PROVE  Kept
<1> DEFINE v == [eval[e] EXCEPT !.at = "complete"]
<1>1. /\ eval[e].at = "trigger" /\ fired' = fired + 1
      /\ eval' = [eval EXCEPT ![e].at = "complete"]
      /\ \E j \in Jobs : TriggerForPrefix(j, PolicyPrefix[eval[e].cur])
      BY Zenon DEF Trigger
<1>2. /\ eval \in [Evals -> Eval] /\ eval[e] \in Eval
      /\ eval[e].cur \in Policies /\ eval[e].run \in DOMAIN runs
      BY Zenon, <1>1 DEF EngineInv, RunInv
<1>3. PICK j \in Jobs : TriggerForPrefix(j, PolicyPrefix[eval[e].cur])
      BY Zenon, <1>1
<1>4. PICK p \in Prefixes : p = PolicyPrefix[eval[e].cur]
      BY Zenon, <1>2, DistillationPolicyAssumption
<1>5. StartJob(j, p, "queued") /\ UNCHANGED <<memories, distilled, sem, runs>>
      BY Zenon, <1>3, <1>4 DEF TriggerForPrefix
<1>6. JobInv' /\ runs' = runs
      BY Zenon, <1>5, StartKeeps DEF EngineInv
<1>7. v \in Eval /\ v.at = "complete" /\ v.cur = eval[e].cur /\ v.run = eval[e].run
      BY Zenon, <1>2 DEF Eval
<1>8. eval' = [eval EXCEPT ![e] = v]
      BY Zenon, <1>1, <1>2
<1> HIDE DEF v
<1>9. SoundEval(v) /\ v.run \in DOMAIN runs'
      BY Zenon, <1>2, <1>6, <1>7 DEF SoundEval
<1>10. Cardinality(Pending') = Cardinality(Pending) - 1 /\ Cardinality(Pending) \in Nat
  <2>1. RunInv /\ eval[e].at \in {"stamp", "trigger"} /\ v.at \notin {"stamp", "trigger"}
        BY Zenon, <1>1, <1>7 DEF EngineInv
  <2> QED BY Zenon, <1>8, <2>1, PendingChange
<1>11. fired + Cardinality(Pending) <= Len(runs) /\ fired \in Nat /\ Len(runs) \in Nat
       BY SMTT(40) DEF EngineInv, JobInv, JobTypes, RunInv, TriggersAreRecorded, Pending
<1>12. fired' + Cardinality(Pending') <= Len(runs') /\ fired' \in Nat
       BY SMTT(40), <1>1, <1>6, <1>10, <1>11
<1>13. TriggersAreRecorded'
       BY Zenon, <1>12 DEF TriggersAreRecorded, Pending
<1>14. /\ \A r \in DOMAIN runs : r \in DOMAIN runs' /\ (runs[r].distilled # 0 => runs'[r].distilled # 0)
       /\ \A r \in DOMAIN runs' : runs'[r].distilled # 0 => runs'[r].status = "completed"
       BY Zenon, <1>6 DEF EngineInv, RunInv
<1> QED BY Zenon, <1>6, <1>8, <1>9, <1>12, <1>13, <1>14, EvalMoves

\* The run is completed and keeps its distillate.
LEMMA CompleteRunKeeps ==
    ASSUME EngineInv, NEW e \in Evals, completeRun(e)
    PROVE  Kept
<1> DEFINE k == eval[e].run
<1>1. /\ eval[e].at = "complete" /\ fired' = fired /\ Resume(e, eval[e].todo)
      /\ runs' = [runs EXCEPT ![k].status = "completed"] \/ runs' = runs
      /\ UNCHANGED <<memories, distilled, job, sem, triggers>>
      BY Zenon DEF completeRun
<1>2. k \in DOMAIN runs /\ eval[e] \in Eval /\ RunInv
      BY Zenon, <1>1 DEF EngineInv, RunInv
<1>3. CASE runs' = runs
  <2>1. UNCHANGED jobVars /\ eval[e].todo \in SUBSET eval[e].todo
        BY Zenon, <1>1, <1>3 DEF jobVars
  <2> QED BY Zenon, <1>1, <2>1, ResumeKeeps
<1>4. CASE runs' = [runs EXCEPT ![k].status = "completed"]
  <2> DEFINE row == [runs[k] EXCEPT !.status = "completed"]
  <2>1. runs \in Seq(Run) /\ memories \in Seq(Memory)
        BY Zenon DEF EngineInv, JobInv, JobTypes
  <2>2. runs[k] \in Run
        BY SMTT(40), <1>2, <2>1
  <2>3. row \in Run /\ row.status = "completed" /\ row.distilled = runs[k].distilled
        BY Zenon, <2>2 DEF Run
  <2>4. runs' = [runs EXCEPT ![k] = row]
        BY Zenon, <1>4, <2>1
  <2> HIDE DEF row, k
  <2>5. /\ runs' \in Seq(Run) /\ DOMAIN runs' = DOMAIN runs /\ Len(runs') = Len(runs)
        /\ \A r \in DOMAIN runs : runs'[r] = IF r = k THEN row ELSE runs[r]
        BY SMTT(40), <1>2, <2>1, <2>3, <2>4
  <2>6. memories' \in Seq(Memory) /\ UNCHANGED <<distilled, job>>
        BY Zenon, <1>1, <2>1
  <2>7. JobInv'
        BY Zenon, <2>5, <2>6, JobsRest DEF EngineInv
  <2>8. eval[e].todo \in SUBSET [policy : Policies, cool : BOOLEAN]
        BY Zenon, <1>2 DEF Eval
  <2>9. PICK v \in Eval : v.at \in {"none", "next"} /\ eval' = [eval EXCEPT ![e] = v]
        BY Zenon, <1>1, <1>2, <2>8, ResumeEval
  <2>10. SoundEval(v) /\ v.at \notin {"stamp", "trigger", "complete"}
         BY Zenon, <2>9 DEF SoundEval
  <2>11. Cardinality(Pending') = Cardinality(Pending)
    <3>1. eval[e].at \notin {"stamp", "trigger"} /\ v.at \notin {"stamp", "trigger"}
          BY Zenon, <1>1, <2>9
    <3> QED BY Zenon, <1>2, <2>9, <3>1, PendingChange
  <2>12. fired + Cardinality(Pending) <= Len(runs) /\ fired' \in Nat
         BY Zenon, <1>1 DEF EngineInv, RunInv, TriggersAreRecorded, Pending
  <2>13. fired' + Cardinality(Pending') <= Len(runs')
         BY Zenon, <1>1, <2>5, <2>11, <2>12
  <2>14. TriggersAreRecorded'
         BY Zenon, <2>13 DEF TriggersAreRecorded, Pending
  <2>15. \A r \in DOMAIN runs : r \in DOMAIN runs' /\ (runs[r].distilled # 0 => runs'[r].distilled # 0)
         BY Zenon, <2>3, <2>5
  <2>16. \A r \in DOMAIN runs' : runs'[r].distilled # 0 => runs'[r].status = "completed"
         BY Zenon, <2>3, <2>5 DEF EngineInv, RunInv
  <2> QED BY ZenonT(60), <2>7, <2>9, <2>10, <2>12, <2>14, <2>15, <2>16, EvalMoves
<1> QED BY Zenon, <1>1, <1>3, <1>4

LEMMA EvaluatePrefixKeeps ==
    ASSUME EngineInv, NEW e \in Evals, NEW p \in Prefixes, evaluatePrefix(e, p)
    PROVE  Kept
<1>1. CASE Matching(p) \cap enabled # {}
  <2> DEFINE v == [NoEval EXCEPT !.at = "load", !.prefix = p, !.todo = ReadPolicies(Matching(p))]
  <2>1. BeginEval(e, v) /\ UNCHANGED jobVars /\ fired' = fired
        BY Zenon, <1>1 DEF evaluatePrefix
  <2>2. ReadPolicies(Matching(p)) \in SUBSET [policy : Policies, cool : BOOLEAN]
        BY Zenon, ReadPoliciesType DEF Matching
  <2>3. v \in Eval /\ v.at = "load"
        BY Zenon, <2>2 DEF NoEval, Eval
  <2> HIDE DEF v
  <2>4. SoundEval(v) /\ v.at \in {"load", "next"}
        BY Zenon, <2>3 DEF SoundEval
  <2> QED BY Zenon, <2>1, <2>4, BeginKeeps
<1>2. CASE ~(Matching(p) \cap enabled # {})
  <2>1. /\ \E j \in Jobs : TriggerForPrefix(j, p)
        /\ UNCHANGED <<enabled, cooling, eval, evals, patches, fired>>
        BY Zenon, <1>2 DEF evaluatePrefix
  <2>2. JobNext /\ UNCHANGED engineVars
        BY Zenon, <2>1 DEF JobNext, engineVars
  <2> QED BY Zenon, <2>2, JobNextKeeps
<1> QED BY Zenon, <1>1, <1>2

LEMMA EvaluateAllKeeps ==
    ASSUME EngineInv, NEW e \in Evals, evaluateAll(e)
    PROVE  Kept
<1> DEFINE v == [NoEval EXCEPT !.at = "next", !.all = TRUE, !.todo = ReadPolicies(Policies)]
<1>1. BeginEval(e, v) /\ UNCHANGED jobVars /\ fired' = fired
      BY Zenon DEF evaluateAll
<1>2. ReadPolicies(Policies) \in SUBSET [policy : Policies, cool : BOOLEAN]
      BY Zenon, ReadPoliciesType
<1>3. v \in Eval /\ v.at = "next"
      BY Zenon, <1>2 DEF NoEval, Eval
<1> HIDE DEF v
<1>4. SoundEval(v) /\ v.at \in {"load", "next"}
      BY Zenon, <1>3 DEF SoundEval
<1> QED BY Zenon, <1>1, <1>4, BeginKeeps

\* A policy is switched on or off, or its interval passes.
LEMMA PolicyKeeps ==
    ASSUME EngineInv, NEW p \in Policies, Patch(p) \/ IntervalPasses(p)
    PROVE  Kept
<1>1. UNCHANGED jobVars /\ eval' = eval /\ fired' = fired
      BY Zenon DEF Patch, IntervalPasses
<1>2. memories' \in Seq(Memory) /\ runs' \in Seq(Run) /\ UNCHANGED <<distilled, job>> /\ runs' = runs
      BY Zenon, <1>1 DEF jobVars, EngineInv, JobInv, JobTypes
<1>3. JobInv'
      BY Zenon, <1>2, JobsRest DEF EngineInv
<1> QED BY Zenon, <1>1, <1>2, <1>3, RunsRest

(***************************************************************************)
(* Main theorems.                                                          *)
(***************************************************************************)
LEMMA InitKeeps == Init => EngineInv
<1> SUFFICES ASSUME Init PROVE EngineInv
    BY Zenon
<1>1. /\ memories = <<>> /\ distilled = <<>> /\ runs = <<>> /\ fired = 0
      /\ job = [j \in Jobs |-> NoJob] /\ eval = [e \in Evals |-> NoEval]
      BY Zenon DEF Init, JobInit
<1>2. JobTypes
      BY SMTT(40), <1>1, NoJobType DEF JobTypes
<1>3. \A p : PositionsOf(p) = {} /\ VersionsAt(p) = {}
      BY SMTT(40), <1>1 DEF PositionsOf, VersionsAt
<1>4. \A p : CountAt(p) = 0
      BY Zenon, <1>3, FS_EmptySet DEF CountAt
<1>5. \A j \in Jobs : job[j].at = "none"
      BY Zenon, <1>1, NoJobType
<1>6. JobInv
  <2>1. \A p \in Prefixes : VersionsAt(p) = 1..CountAt(p)
        BY SMTT(40), <1>3, <1>4
  <2>2. VersionsAreDense
        BY SMTT(40), <1>1 DEF VersionsAreDense
  <2> QED BY Zenon, <1>2, <1>5, <2>1, <2>2 DEF JobInv
<1>7. /\ eval \in [Evals -> Eval] /\ \A e \in Evals : eval[e].at = "none"
      BY Zenon, <1>1, NoEvalType
<1>8. Pending = {}
      BY Zenon, <1>7 DEF Pending
<1>9. TriggersAreRecorded
  <2>1. fired + Cardinality(Pending) <= Len(runs)
        BY SMTT(40), <1>1, <1>8, FS_EmptySet
  <2> QED BY Zenon, <2>1 DEF TriggersAreRecorded, Pending
<1>10. RunInv
       BY SMTT(40), <1>1, <1>7, <1>9 DEF RunInv
<1> QED BY Zenon, <1>6, <1>10 DEF EngineInv

\* Every step of the jobs, of the policy engine and of the memory store keeps
\* the invariant, and no step takes a distillate from a run.
LEMMA NextKeeps ==
    ASSUME EngineInv, [Next]_vars
    PROVE  Kept
<1>1. CASE UNCHANGED vars
  <2>1. /\ memories' \in Seq(Memory) /\ runs' \in Seq(Run) /\ UNCHANGED <<distilled, job>>
        /\ runs' = runs /\ eval' = eval /\ fired' = fired
        BY Zenon, <1>1 DEF vars, jobVars, engineVars, EngineInv, JobInv, JobTypes
  <2>2. JobInv'
        BY Zenon, <2>1, JobsRest DEF EngineInv
  <2> QED BY Zenon, <2>1, <2>2, RunsRest
<1>2. CASE JobNext /\ UNCHANGED engineVars
      BY Zenon, <1>2, JobNextKeeps
<1>3. CASE EngineNext
  <2>1. ASSUME NEW e \in Evals, EvalStep(e) PROVE Kept
        BY ZenonT(60), <2>1, LoadKeeps, MaybeTriggerKeeps, BeginRunKeeps, StampKeeps, TriggerKeeps,
           CompleteRunKeeps DEF EvalStep
  <2> QED BY Zenon, <1>3, <2>1, PolicyKeeps, EvaluatePrefixKeeps, EvaluateAllKeeps DEF EngineNext
<1> QED BY Zenon, <1>1, <1>2, <1>3 DEF Next

\* EngineInv holds in every reachable state.
THEOREM EngineInvariant == Spec => []EngineInv
<1>1. EngineInv /\ [Next]_vars => EngineInv'
      BY Zenon, NextKeeps DEF Kept
<1> QED BY <1>1, InitKeeps, PTL DEF Spec

\* However many jobs of one path race, and whoever starts them, the versions of
\* its distillates are 1, 2, 3, ... in the order of insertion: a job that read the
\* same last version as another loses its insert to the unique index.
THEOREM VersionsStayDense == Spec => []VersionsAreDense
<1>1. EngineInv => VersionsAreDense
      BY Zenon DEF EngineInv, JobInv
<1> QED BY <1>1, EngineInvariant, PTL

\* The run history accounts for every job the policy engine started, and a run
\* keeps the distillate it was credited with, whatever jobs and evaluations
\* complete runs at the same time.
THEOREM RunsAreKept == Spec => PolicyRunsAreKept
<1>1. EngineInv /\ [Next]_vars => [TriggersAreRecorded' /\ CreditStays]_vars
  <2> SUFFICES ASSUME EngineInv, [Next]_vars PROVE TriggersAreRecorded' /\ CreditStays
      BY Zenon
  <2>1. EngineInv' /\ CreditStays
        BY Zenon, NextKeeps DEF Kept
  <2> QED BY Zenon, <2>1 DEF EngineInv, RunInv
<1> QED BY <1>1, EngineInvariant, PTL DEF Spec, PolicyRunsAreKept
=============================================================================

------------------------- MODULE MemoryStoreProofs -------------------------
(***************************************************************************)
(* Proofs about MemoryStore, for any number of paths and Store calls: a    *)
(* path has one open version, no call runs out of retries, rows are        *)
(* append-only, and the transactions implement VersionedStore.             *)
(***************************************************************************)
EXTENDS MemoryStore, FiniteSetTheorems, TLAPS

(***************************************************************************)
(* Ids(R) and CloseRows, by their members.                                 *)
(***************************************************************************)
\* An id of a set of rows is the id of one of its rows.
LEMMA InIds ==
    ASSUME NEW R, NEW i
    PROVE  i \in Ids(R) <=> \E r \in R : r.id = i
BY Zenon DEF Ids

\* Closing rows keeps the types of the table, opens no row and keeps every
\* identity: each row of the result is a row of the table, with valid_to set
\* when its id was to be closed.
LEMMA CloseRowsMember ==
    ASSUME rows \subseteq Row, NEW ids, NEW t \in Nat, NEW s \in CloseRows(ids, t)
    PROVE  /\ s \in Row
           /\ \E r \in rows : /\ r.id = s.id /\ r.path = s.path
                              /\ r.version = s.version
                              /\ r.id \in ids => s = [r EXCEPT !.to = t]
                              /\ r.id \notin ids => s = r
           /\ IsOpen(s) => s \in rows /\ s.id \notin ids
<1>1. PICK r \in rows : s = IF r.id \in ids THEN [r EXCEPT !.to = t] ELSE r
      BY Zenon DEF CloseRows
<1>2. r \in Row
      BY Zenon
<1>3. CASE r.id \in ids
  <2>1. s = [r EXCEPT !.to = t]
        BY Zenon, <1>1, <1>3
  <2>2. s \in Row /\ s.to = t /\ s.id = r.id /\ s.path = r.path /\ s.version = r.version
        BY Zenon, <2>1, <1>2 DEF Row
  <2>3. ~IsOpen(s)
        BY SMTT(40), <2>2 DEF IsOpen, NULL
  <2> QED BY Zenon, <2>1, <2>2, <2>3, <1>3
<1>4. CASE r.id \notin ids
      BY Zenon, <1>1, <1>2, <1>4
<1> QED BY Zenon, <1>3, <1>4

\* Rows that are not to be closed stay in the table as they are.
LEMMA CloseRowsKeeps ==
    ASSUME NEW ids, NEW t, NEW r \in rows, r.id \notin ids
    PROVE  r \in CloseRows(ids, t)
BY Zenon DEF CloseRows

\* The version Store computes is a positive number: the row it closed exists.
LEMMA NextVersionType ==
    ASSUME TypeOK, LocksValid, NEW w \in Writers
    PROVE  NextVersion(w) \in Nat /\ NextVersion(w) >= 1
<1>1. CASE closed[w] = {}
      BY SMTT(40), <1>1 DEF NextVersion
<1>2. CASE closed[w] # {}
  <2>1. PICK id \in closed[w] : TRUE
        BY Zenon, <1>2
  <2>2. PICK r \in OpenAt(req[w].path) : r.id = id
        BY Zenon, <2>1 DEF LocksValid
  <2>3. r \in ClosedRows(w)
        BY Zenon, <2>1, <2>2 DEF ClosedRows, OpenAt
  <2> DEFINE c == CHOOSE x \in ClosedRows(w) : TRUE
  <2>4. c \in ClosedRows(w)
        BY Zenon, <2>3
  <2>5. c \in Row
        BY Zenon, <2>4 DEF ClosedRows, TypeOK
  <2>6. c.version \in Nat
        BY Zenon, <2>5 DEF Row
  <2> HIDE DEF c
  <2>7. c.version + 1 \in Nat /\ c.version + 1 >= 1
        BY SMTT(40), <2>6
  <2> QED BY Zenon, <2>7, <1>2 DEF NextVersion, c
<1> QED BY Zenon, <1>1, <1>2

(***************************************************************************)
(* The steps of Store that leave the table alone.                          *)
(***************************************************************************)
LEMMA QuietStep ==
    ASSUME IInv, NEW w \in Writers, Begin(w) \/ CloseScan(w)
    PROVE  IInv'
<1> USE DEF IInv
<1>1. TypeOK'
  <2>1. Ids(OpenAt(req[w].path)) \in SUBSET Nat
        BY SMTT(40) DEF TypeOK, Ids, OpenAt, Row
  <2>2. seen' \in [Writers -> SUBSET Nat]
        BY ZenonT(60), <2>1 DEF TypeOK, Begin, CloseScan
  <2>3. pc' \in [Writers -> {"idle"} \cup Running \cup Returned] /\ ts' \in [Writers -> Nat]
        BY ZenonT(60) DEF TypeOK, Begin, CloseScan, Running
  <2> QED BY Zenon, <2>2, <2>3 DEF TypeOK, Begin, CloseScan
<1>2. /\ UNCHANGED <<rows, nextId, req, closed, new, sweep>>
      /\ \A u \in Writers : pc[u] \in {"insert", "commit"} => pc'[u] = pc[u]
      BY Zenon DEF TypeOK, Begin, CloseScan
<1>3. IdsUnique' /\ SingleOpenVersion'
      BY Zenon, <1>2 DEF IdsUnique, SingleOpenVersion
<1>4. LocksValid'
      BY SMTT(40), <1>2 DEF LocksValid, OpenAt
<1>5. PendingValid'
  <2>1. \A u \in Writers : Colliding(u)' = Colliding(u)
        BY Zenon, <1>2 DEF Colliding, OpenAt
  <2> QED BY SMTT(40), <1>2, <2>1 DEF PendingValid, Ids
<1> QED BY Zenon, <1>1, <1>3, <1>4, <1>5

LEMMA CloseCurrentStep ==
    ASSUME IInv, NEW w \in Writers, CloseCurrent(w)
    PROVE  IInv'
<1> USE DEF IInv
<1> DEFINE got == seen[w] \cap Ids(OpenAt(req[w].path))
<1>1. /\ UNCHANGED <<rows, nextId, req, new, sweep>>
      /\ pc[w] = "lock" /\ pc'[w] = "insert"
      /\ \A u \in Writers \ {w} : pc'[u] = pc[u] /\ closed'[u] = closed[u]
      /\ closed'[w] = got
      BY Zenon DEF TypeOK, CloseCurrent
<1>2. TypeOK'
  <2>1. got \in SUBSET Nat
        BY Zenon DEF TypeOK
  <2>2. closed' \in [Writers -> SUBSET Nat]
        BY Zenon, <2>1 DEF TypeOK, CloseCurrent
  <2>3. pc' \in [Writers -> {"idle"} \cup Running \cup Returned]
        BY Zenon DEF TypeOK, CloseCurrent, Running
  <2> QED BY Zenon, <2>2, <2>3 DEF TypeOK, CloseCurrent
<1>3. IdsUnique' /\ SingleOpenVersion'
      BY Zenon, <1>1 DEF IdsUnique, SingleOpenVersion
<1>4. \A id \in got : id \notin sweep.closed /\ \A u \in Writers \ {w} : id \notin closed[u]
      BY Zenon DEF CloseCurrent, HeldByOther
<1>5. \A id \in got : \E r \in OpenAt(req[w].path) : r.id = id
      BY Zenon, InIds
<1>6. LocksValid'
  <2>1. \A u \in Writers : \A id \in closed'[u] :
          /\ pc'[u] \in {"insert", "commit"}
          /\ id \notin sweep.closed
          /\ \E r \in OpenAt(req[u].path) : r.id = id
        BY SMTT(40), <1>1, <1>4, <1>5 DEF LocksValid
  <2>2. \A u, v \in Writers : u # v => closed'[u] \cap closed'[v] = {}
        BY SMTT(40), <1>1, <1>4 DEF LocksValid
  <2> QED BY SMTT(40), <2>1, <2>2, <1>1 DEF LocksValid, OpenAt
<1>7. PendingValid'
  <2>1. new[w] = {}
        BY Zenon, <1>1 DEF PendingValid, TypeOK
  <2>2. \A u \in Writers \ {w} : Colliding(u)' = Colliding(u)
        BY Zenon, <1>1 DEF Colliding, OpenAt
  <2> QED BY SMTT(40), <1>1, <2>1, <2>2 DEF PendingValid, Ids
<1> QED BY Zenon, <1>2, <1>3, <1>6, <1>7

LEMMA InsertVersionStep ==
    ASSUME IInv, NEW w \in Writers, InsertVersion(w)
    PROVE  IInv'
<1> USE DEF IInv
<1> DEFINE row == [id |-> nextId, path |-> req[w].path, version |-> NextVersion(w),
                   from |-> ts[w], to |-> NULL, expires |-> req[w].expires]
<1>1. /\ UNCHANGED <<rows, req, closed, sweep>>
      /\ nextId' = nextId + 1
      /\ pc[w] = "insert" /\ pc'[w] = "commit" /\ new'[w] = {row}
      /\ \A u \in Writers \ {w} : pc'[u] = pc[u] /\ new'[u] = new[u]
      BY Zenon DEF TypeOK, InsertVersion
<1>2. NextVersion(w) \in Nat /\ NextVersion(w) >= 1
      BY Zenon, NextVersionType
<1>3. row \in Row
      BY Zenon, <1>2, TimesAssumption DEF TypeOK, Row, Requests
<1>4. /\ row.id = nextId /\ row.path = req[w].path
      /\ row.version >= 1 /\ IsOpen(row)
      BY Zenon, <1>2 DEF IsOpen
<1> HIDE DEF row
<1>5. TypeOK'
  <2>1. new' \in [Writers -> SUBSET Row]
        BY Zenon, <1>3 DEF TypeOK, InsertVersion, row
  <2>2. pc' \in [Writers -> {"idle"} \cup Running \cup Returned] /\ nextId' \in Nat \ {0}
        BY SMTT(40) DEF TypeOK, InsertVersion, Running
  <2> QED BY Zenon, <2>1, <2>2 DEF TypeOK, InsertVersion
<1>6. IdsUnique'
      BY SMTT(40), <1>1 DEF IdsUnique, TypeOK, Row
<1>7. SingleOpenVersion'
      BY Zenon, <1>1 DEF SingleOpenVersion
<1>8. LocksValid'
      BY SMTT(40), <1>1 DEF LocksValid, OpenAt
<1>9. PendingValid'
  <2>1. \A u \in Writers : Colliding(u)' = Colliding(u)
        BY Zenon, <1>1 DEF Colliding, OpenAt
  <2>2. Colliding(w) = {} /\ nextId \notin Ids(rows)
        BY SMTT(40), InIds DEF InsertVersion, IdsUnique, TypeOK, Row
  <2>3. \A u \in Writers \ {w} : \A r \in new[u] : r.path # req[w].path /\ r.id < nextId
        BY Zenon DEF InsertVersion, IndexUndecided, PendingValid
  <2>4. \A u \in Writers : \A r \in new'[u] :
          /\ pc'[u] = "commit"
          /\ new'[u] = {r}
          /\ r.path = req[u].path /\ IsOpen(r) /\ r.version >= 1
          /\ r.id < nextId + 1 /\ r.id \notin Ids(rows)
          /\ Colliding(u) = {}
    <3> SUFFICES ASSUME NEW u \in Writers, NEW r \in new'[u]
                 PROVE  /\ pc'[u] = "commit" /\ new'[u] = {r}
                        /\ r.path = req[u].path /\ IsOpen(r) /\ r.version >= 1
                        /\ r.id < nextId + 1 /\ r.id \notin Ids(rows)
                        /\ Colliding(u) = {}
        BY Zenon
    <3>1. CASE u = w
          BY SMTT(40), <3>1, <1>1, <1>4, <2>2 DEF TypeOK
    <3>2. CASE u # w
      <4>1. r \in new[u] /\ r \in Row
            BY Zenon, <3>2, <1>1 DEF TypeOK
      <4> QED BY SMTT(40), <3>2, <4>1, <1>1 DEF PendingValid, TypeOK, Row
    <3> QED BY Zenon, <3>1, <3>2
  <2>5. \A u, v \in Writers : u # v =>
          \A r \in new'[u], q \in new'[v] : r.path # q.path /\ r.id # q.id
    <3> SUFFICES ASSUME NEW u \in Writers, NEW v \in Writers, u # v,
                        NEW r \in new'[u], NEW q \in new'[v]
                 PROVE  r.path # q.path /\ r.id # q.id
        BY Zenon
    <3>1. CASE u = w
          BY SMTT(40), <3>1, <1>1, <1>4, <2>3 DEF TypeOK
    <3>2. CASE v = w
          BY SMTT(40), <3>2, <1>1, <1>4, <2>3 DEF TypeOK
    <3>3. CASE u # w /\ v # w
          BY SMTT(40), <3>3, <1>1 DEF PendingValid
    <3> QED BY Zenon, <3>1, <3>2, <3>3
  <2> QED BY SMTT(40), <1>1, <2>1, <2>4, <2>5 DEF PendingValid, Ids
<1> QED BY Zenon, <1>5, <1>6, <1>7, <1>8, <1>9

\* A transaction that rolls back, on the conflict or on any other error.
LEMMA RollbackStep ==
    ASSUME IInv, NEW w \in Writers, InsertConflict(w) \/ Fail(w)
    PROVE  IInv'
<1> USE DEF IInv
<1>1. /\ UNCHANGED <<rows, req, sweep>>
      /\ nextId' \in {nextId, nextId + 1}
      /\ closed'[w] = {} /\ new'[w] = {}
      /\ \A u \in Writers \ {w} : pc'[u] = pc[u] /\ new'[u] = new[u] /\ closed'[u] = closed[u]
  <2>1. CASE InsertConflict(w)
    <3>1. new[w] = {}
          BY Zenon, <2>1 DEF InsertConflict, PendingValid, TypeOK
    <3> QED BY ZenonT(60), <2>1, <3>1 DEF InsertConflict, TypeOK
  <2>2. CASE Fail(w)
        BY ZenonT(60), <2>2 DEF Fail, TypeOK
  <2> QED BY Zenon, <2>1, <2>2
<1>2. TypeOK'
  <2>1. CASE InsertConflict(w)
    <3>1. attempt' \in [Writers -> 1..MaxAttempts]
          BY SMTT(40), <2>1, MaxAttemptsAssumption DEF InsertConflict, TypeOK
    <3>2. pc' \in [Writers -> {"idle"} \cup Running \cup Returned] /\ nextId' \in Nat \ {0}
          BY SMTT(40), <2>1 DEF InsertConflict, TypeOK, Running, Returned
    <3> QED BY Zenon, <2>1, <3>1, <3>2 DEF InsertConflict, TypeOK
  <2>2. CASE Fail(w)
        BY Zenon, <2>2 DEF Fail, TypeOK, Running, Returned
  <2> QED BY Zenon, <2>1, <2>2
<1>3. IdsUnique' /\ SingleOpenVersion'
      BY SMTT(40), <1>1 DEF IdsUnique, SingleOpenVersion, TypeOK, Row
<1>4. LocksValid'
      BY SMTT(40), <1>1 DEF LocksValid, OpenAt
<1>5. PendingValid'
  <2>1. \A u \in Writers \ {w} : Colliding(u)' = Colliding(u)
        BY ZenonT(60), <1>1 DEF Colliding, OpenAt
  <2>2. \A u \in Writers \ {w} : \A r \in new[u] : r.id < nextId'
        BY SMTT(40), <1>1 DEF PendingValid, TypeOK, Row
  <2> QED BY SMTT(40), <1>1, <2>1, <2>2 DEF PendingValid, Ids
<1> QED BY Zenon, <1>2, <1>3, <1>4, <1>5

(***************************************************************************)
(* The commit of Store: the closed row and the new one appear together.    *)
(***************************************************************************)
LEMMA CommitStep ==
    ASSUME IInv, NEW w \in Writers, NEW outcome \in {"done", "failed"}, Commit(w, outcome)
    PROVE  IInv'
<1> USE DEF IInv
<1> DEFINE kept == CloseRows(closed[w], ts[w])
<1>1. /\ UNCHANGED <<nextId, req, sweep>>
      /\ rows' = kept \cup new[w]
      /\ pc[w] = "commit" /\ closed'[w] = {} /\ new'[w] = {}
      /\ \A u \in Writers \ {w} : pc'[u] = pc[u] /\ new'[u] = new[u] /\ closed'[u] = closed[u]
      BY Zenon DEF TypeOK, Commit
<1>2. /\ rows \subseteq Row /\ ts[w] \in Nat /\ new[w] \subseteq Row
      /\ \A r \in rows : r.version >= 1
      BY Zenon DEF TypeOK
<1>3. \A s \in kept : /\ s \in Row
                      /\ \E r \in rows : r.id = s.id /\ r.path = s.path /\ r.version = s.version
                      /\ IsOpen(s) => s \in rows /\ s.id \notin closed[w]
      BY SMTT(40), <1>2, CloseRowsMember
<1>4. \A r \in rows : r.id \notin closed[w] => r \in kept
      BY Zenon, CloseRowsKeeps
<1>5. \A s, r \in kept : s.id = r.id => s = r
  <2> SUFFICES ASSUME NEW s \in kept, NEW r \in kept, s.id = r.id PROVE s = r
      BY Zenon
  <2>1. PICK x \in rows : /\ x.id = s.id
                          /\ x.id \in closed[w] => s = [x EXCEPT !.to = ts[w]]
                          /\ x.id \notin closed[w] => s = x
        BY SMTT(40), <1>2, CloseRowsMember
  <2>2. PICK y \in rows : /\ y.id = r.id
                          /\ y.id \in closed[w] => r = [y EXCEPT !.to = ts[w]]
                          /\ y.id \notin closed[w] => r = y
        BY SMTT(40), <1>2, CloseRowsMember
  <2>3. x = y
        BY Zenon, <2>1, <2>2 DEF IdsUnique
  <2> QED BY ZenonT(60), <2>1, <2>2, <2>3
<1>6. \A r \in new[w] : /\ r.path = req[w].path /\ IsOpen(r) /\ r.version >= 1
                        /\ r.id < nextId /\ r.id \notin Ids(rows)
                        /\ new[w] = {r} /\ Colliding(w) = {}
      BY Zenon DEF PendingValid
<1> HIDE DEF kept
<1>7. TypeOK'
  <2>1. rows' \subseteq Row /\ \A r \in rows' : r.version >= 1
        BY Zenon, <1>1, <1>2, <1>3, <1>6
  <2>2. Superseded(w) \in Nat
        BY Zenon DEF Superseded, TypeOK
  <2>3. \A r \in new[w] : [id |-> r.id, path |-> r.path, version |-> r.version,
                           sup |-> Superseded(w)] \in LogEntry
        BY SMTT(40), <1>2, <1>6, <2>2 DEF LogEntry, Row
  <2>4. log' \subseteq LogEntry
        BY ZenonT(60), <2>3 DEF Commit, TypeOK
  <2>5. pc' \in [Writers -> {"idle"} \cup Running \cup Returned]
        BY Zenon DEF Commit, TypeOK, Returned
  <2>6. /\ closed' \in [Writers -> SUBSET Nat] /\ seen' \in [Writers -> SUBSET Nat]
        /\ new' \in [Writers -> SUBSET Row]
        BY Zenon DEF Commit, TypeOK
  <2> QED BY Zenon, <2>1, <2>4, <2>5, <2>6 DEF Commit, TypeOK
<1>8. IdsUnique'
  <2>1. \A r \in rows' : r.id < nextId
        BY ZenonT(60), <1>1, <1>3, <1>6 DEF IdsUnique
  <2>2. \A r \in kept, q \in new[w] : r.id # q.id
        BY ZenonT(180), <1>3, <1>6, InIds
  <2>3. \A r, q \in rows' : r.id = q.id => r = q
        BY SMTT(40), <1>1, <1>5, <1>6, <2>2
  <2> QED BY Zenon, <1>1, <2>1, <2>3 DEF IdsUnique
<1>9. \A s \in rows' : IsOpen(s) => s \in new[w] \/ (s \in rows /\ s.id \notin closed[w])
      BY Zenon, <1>1, <1>3
<1>10. SingleOpenVersion'
  <2> SUFFICES ASSUME NEW r \in rows', NEW s \in rows',
                      r.path = s.path, IsOpen(r), IsOpen(s)
               PROVE  r = s
      BY Zenon DEF SingleOpenVersion, IsOpen
  <2>1. \A x \in rows, y \in new[w] :
          x.id \notin closed[w] /\ IsOpen(x) => x.path # y.path
        BY Zenon, <1>6 DEF Colliding, OpenAt
  <2> QED BY Zenon, <1>6, <1>9, <2>1 DEF SingleOpenVersion
<1>11. LocksValid'
  <2>1. \A u \in Writers \ {w} : \A id \in closed[u] :
          \E r \in OpenAt(req[u].path) : r.id = id /\ r.id \notin closed[w]
        BY SMTT(40) DEF LocksValid
  <2>2. \A u \in Writers \ {w} : \A id \in closed[u] :
          \E r \in rows' : r.path = req[u].path /\ IsOpen(r) /\ r.id = id
        BY ZenonT(60), <1>1, <1>4, <2>1 DEF OpenAt
  <2>3. \A u \in Writers : \A id \in closed'[u] :
          /\ pc'[u] \in {"insert", "commit"} /\ id \notin sweep.closed
          /\ \E r \in rows' : r.path = req[u].path /\ IsOpen(r) /\ r.id = id
        BY SMTT(40), <1>1, <2>2 DEF LocksValid
  <2>4. \A u, v \in Writers : u # v => closed'[u] \cap closed'[v] = {}
        BY Zenon, <1>1 DEF LocksValid
  <2> QED BY SMTT(40), <1>1, <2>3, <2>4 DEF LocksValid, OpenAt, IsOpen
<1>12. PendingValid'
  <2>1. ASSUME NEW u \in Writers \ {w}, NEW r \in new[u]
        PROVE  Colliding(u)' = {} /\ r.id \notin Ids(rows')
    <3>1. /\ Colliding(u) = {} /\ r.path = req[u].path /\ r.id \notin Ids(rows)
          /\ \A q \in new[w] : q.path # r.path /\ q.id # r.id
          BY SMTT(40) DEF PendingValid
    <3>2. \A q \in rows' : IsOpen(q) /\ q.path = req[u].path => q \in rows
          BY Zenon, <1>9, <3>1
    <3>3. Colliding(u)' = {}
          BY Zenon, <1>1, <3>1, <3>2 DEF Colliding, OpenAt, IsOpen
    <3>4. r.id \notin Ids(rows')
          BY SMTT(40), <1>1, <1>3, <3>1, InIds
    <3> QED BY Zenon, <3>3, <3>4
  <2>2. \A u \in Writers : \A r \in new'[u] :
          /\ u # w /\ r \in new[u]
          /\ pc'[u] = "commit" /\ new'[u] = {r}
          /\ r.path = req[u].path /\ IsOpen(r) /\ r.version >= 1 /\ r.id < nextId
        BY ZenonT(60), <1>1 DEF PendingValid
  <2>3. \A u, v \in Writers : u # v =>
          \A r \in new'[u], q \in new'[v] : r.path # q.path /\ r.id # q.id
        BY SMTT(40), <1>1 DEF PendingValid
  <2> QED BY ZenonT(60), <1>1, <2>1, <2>2, <2>3 DEF PendingValid, Ids, IsOpen
<1> QED BY Zenon, <1>7, <1>8, <1>10, <1>11, <1>12

(***************************************************************************)
(* The expiry worker.                                                      *)
(***************************************************************************)
LEMMA SweepQuietStep ==
    ASSUME IInv, SweepScan \/ SweepFail \/ (\E id \in sweep.seen : SweepLock(id))
    PROVE  IInv'
<1> USE DEF IInv
<1>1. /\ UNCHANGED <<rows, nextId, clock, storeVars, log>>
      BY Zenon DEF SweepScan, SweepFail, SweepLock
<1>2. \A R \in SUBSET rows : Ids(R) \in SUBSET Nat
      BY SMTT(40) DEF TypeOK, Ids, Row
<1>3. /\ sweep' \in [pc : {"idle", "lock"}, rule : {"ttl", "age"}, ts : Nat,
                     seen : SUBSET Nat, closed : SUBSET Nat]
      /\ \A w \in Writers : \A id \in closed[w] : id \notin sweep'.closed
  <2>1. CASE SweepScan
    <3>1. Ids({r \in rows : Due(r, sweep.rule, clock)}) \in SUBSET Nat
          BY Zenon, <1>2
    <3> QED BY Zenon, <2>1, <3>1 DEF SweepScan, TypeOK, LocksValid
  <2>2. CASE SweepFail
        BY Zenon, <2>2 DEF SweepFail, TypeOK, LocksValid
  <2>3. ASSUME NEW id \in sweep.seen, SweepLock(id)
        PROVE  /\ sweep' \in [pc : {"idle", "lock"}, rule : {"ttl", "age"}, ts : Nat,
                              seen : SUBSET Nat, closed : SUBSET Nat]
               /\ \A w \in Writers : \A i \in closed[w] : i \notin sweep'.closed
    <3> DEFINE got == Ids({r \in rows : r.id = id /\ Due(r, sweep.rule, sweep.ts)})
    <3>1. got \in SUBSET Nat
          BY Zenon, <1>2
    <3>2. \A i \in got : i = id
          BY SMTT(40), InIds
    <3> HIDE DEF got
    <3>3. sweep' = [sweep EXCEPT !.seen = @ \ {id}, !.closed = @ \cup got]
          BY Zenon, <2>3 DEF SweepLock, got
    <3>4. sweep'.closed = sweep.closed \cup got
          BY Zenon, <3>3 DEF TypeOK
    <3>5. \A w \in Writers : id \notin closed[w]
          BY Zenon, <2>3 DEF SweepLock, HeldByWriter
    <3>6. sweep' \in [pc : {"idle", "lock"}, rule : {"ttl", "age"}, ts : Nat,
                      seen : SUBSET Nat, closed : SUBSET Nat]
          BY Zenon, <3>1, <3>3 DEF TypeOK
    <3> QED BY SMTT(40), <3>2, <3>4, <3>5, <3>6 DEF LocksValid
  <2> QED BY Zenon, <2>1, <2>2, <2>3
<1>4. TypeOK'
      BY Zenon, <1>1, <1>3 DEF TypeOK, storeVars
<1>5. IdsUnique' /\ SingleOpenVersion'
      BY Zenon, <1>1 DEF IdsUnique, SingleOpenVersion
<1>6. LocksValid'
      BY SMTT(40), <1>1, <1>3 DEF LocksValid, OpenAt, storeVars
<1>7. PendingValid'
  <2>1. \A u \in Writers : Colliding(u)' = Colliding(u)
        BY Zenon, <1>1 DEF Colliding, OpenAt, storeVars
  <2> QED BY ZenonT(60), <1>1, <2>1 DEF PendingValid, Ids, storeVars
<1> QED BY Zenon, <1>4, <1>5, <1>6, <1>7

(***************************************************************************)
(* Steps that close rows nobody else has locked, or delete closed rows:    *)
(* every open row of the new table is one of the old table.                *)
(***************************************************************************)
Shrinks ==
    /\ UNCHANGED <<nextId, storeVars>>
    /\ \A s \in rows' : /\ s \in Row
                        /\ \E r \in rows : r.id = s.id /\ r.version = s.version
                        /\ IsOpen(s) => s \in rows
    /\ \A s, r \in rows' : s.id = r.id => s = r
    /\ \A r \in rows : IsOpen(r) /\ HeldByWriter(r.id) => r \in rows'

LEMMA ShrinksPreserves ==
    ASSUME IInv, Shrinks, TypeOK', sweep'.closed \subseteq sweep.closed
    PROVE  IInv'
<1> USE DEF IInv
<1>1. IdsUnique'
      BY Zenon DEF IdsUnique, Shrinks
<1>2. SingleOpenVersion'
      BY Zenon DEF SingleOpenVersion, Shrinks, IsOpen
<1>3. LocksValid'
  <2>1. \A w \in Writers : \A id \in closed[w] :
          \E r \in rows' : r.path = req[w].path /\ IsOpen(r) /\ r.id = id
        BY SMTT(40) DEF LocksValid, OpenAt, Shrinks, HeldByWriter
  <2> QED BY SMTT(40), <2>1 DEF LocksValid, OpenAt, IsOpen, Shrinks, storeVars
<1>4. PendingValid'
  <2>1. \A u \in Writers : Colliding(u)' \subseteq Colliding(u)
        BY Zenon DEF Colliding, OpenAt, Shrinks, storeVars, IsOpen
  <2>2. \A r \in rows' : r.id \in Ids(rows)
        BY Zenon, InIds DEF Shrinks
  <2>3. Ids(rows)' \subseteq Ids(rows)
        BY Zenon, <2>2 DEF Ids
  <2> QED BY SMTT(40), <2>1, <2>3 DEF PendingValid, Shrinks, storeVars, IsOpen
<1> QED BY Zenon, <1>1, <1>2, <1>3, <1>4

LEMMA SweepCommitStep ==
    ASSUME IInv, SweepCommit
    PROVE  IInv'
<1> USE DEF IInv
<1>1. /\ rows' = CloseRows(sweep.closed, sweep.ts)
      /\ rows \subseteq Row /\ sweep.ts \in Nat
      /\ sweep'.closed = {}
      BY Zenon DEF SweepCommit, TypeOK
<1>2. \A s \in rows' :
        /\ s \in Row
        /\ \E r \in rows : /\ r.id = s.id /\ r.version = s.version
                           /\ r.id \in sweep.closed => s = [r EXCEPT !.to = sweep.ts]
                           /\ r.id \notin sweep.closed => s = r
        /\ IsOpen(s) => s \in rows
      BY SMTT(40), <1>1, CloseRowsMember
<1>3. \A r \in rows : r.id \notin sweep.closed => r \in rows'
      BY Zenon, <1>1, CloseRowsKeeps
<1>4. \A r \in rows : HeldByWriter(r.id) => r.id \notin sweep.closed
      BY Zenon DEF HeldByWriter, LocksValid
<1>5. \A s, r \in rows' : s.id = r.id => s = r
  <2> SUFFICES ASSUME NEW s \in rows', NEW r \in rows', s.id = r.id PROVE s = r
      BY Zenon
  <2>1. PICK x \in rows : /\ x.id = s.id
                          /\ x.id \in sweep.closed => s = [x EXCEPT !.to = sweep.ts]
                          /\ x.id \notin sweep.closed => s = x
        BY Zenon, <1>2
  <2>2. PICK y \in rows : /\ y.id = r.id
                          /\ y.id \in sweep.closed => r = [y EXCEPT !.to = sweep.ts]
                          /\ y.id \notin sweep.closed => r = y
        BY Zenon, <1>2
  <2>3. x = y
        BY Zenon, <2>1, <2>2 DEF IdsUnique
  <2> QED BY Zenon, <2>1, <2>2, <2>3
<1>6. UNCHANGED <<nextId, storeVars>>
      BY Zenon DEF SweepCommit
<1>7. Shrinks
      BY Zenon, <1>2, <1>3, <1>4, <1>5, <1>6 DEF Shrinks
<1>8. TypeOK'
  <2>1. rows' \subseteq Row /\ \A r \in rows' : r.version >= 1
        BY Zenon, <1>2 DEF TypeOK
  <2>2. sweep' \in [pc : {"idle", "lock"}, rule : {"ttl", "age"}, ts : Nat,
                    seen : SUBSET Nat, closed : SUBSET Nat]
        BY Zenon DEF SweepCommit, OtherRule, TypeOK
  <2> QED BY Zenon, <2>1, <2>2 DEF SweepCommit, TypeOK, storeVars
<1> QED BY Zenon, <1>1, <1>7, <1>8, ShrinksPreserves

LEMMA DeletionStep ==
    ASSUME IInv, PruneSuperseded \/ (\E p \in Paths, k \in Keeps : CompactPathHistory(p, k))
    PROVE  IInv'
<1> USE DEF IInv
<1>1. /\ UNCHANGED <<nextId, clock, storeVars, sweep, log>>
      /\ rows' \subseteq rows
      /\ \A r \in rows : IsOpen(r) => r \in rows'
      BY Zenon DEF PruneSuperseded, CompactPathHistory
<1>2. TypeOK'
      BY Zenon, <1>1 DEF TypeOK, storeVars
<1>3. Shrinks
      BY Zenon, <1>1 DEF Shrinks, TypeOK, IdsUnique
<1> QED BY Zenon, <1>1, <1>2, <1>3, ShrinksPreserves

LEMMA IdleStep ==
    ASSUME IInv, Tick \/ UNCHANGED vars
    PROVE  IInv'
<1> USE DEF IInv
<1>1. UNCHANGED <<rows, nextId, storeVars, sweep, log>>
      BY Zenon DEF Tick, vars
<1>2. TypeOK'
  <2>1. clock' \in Nat
        BY SMTT(40) DEF Tick, vars, TypeOK
  <2> QED BY Zenon, <1>1, <2>1 DEF TypeOK, storeVars
<1>3. Shrinks
      BY Zenon, <1>1 DEF Shrinks, TypeOK, IdsUnique
<1> QED BY Zenon, <1>1, <1>2, <1>3, ShrinksPreserves

(***************************************************************************)
(* Main theorems.                                                          *)
(***************************************************************************)
\* IInv holds at the start and every step of Store, of the workers and of the
\* clock preserves it.
THEOREM InductiveInvariant == Spec => []IInv
<1>1. Init => IInv
  <2> SUFFICES ASSUME Init PROVE IInv
      BY Zenon
  <2>1. TypeOK
        BY SMTT(40), MaxAttemptsAssumption DEF Init, TypeOK, Running, Returned
  <2>2. IdsUnique /\ LocksValid /\ PendingValid /\ SingleOpenVersion
        BY Zenon DEF Init, IdsUnique, LocksValid, PendingValid, SingleOpenVersion
  <2> QED BY Zenon, <2>1, <2>2 DEF IInv
<1>2. IInv /\ [Next]_vars => IInv'
  <2> SUFFICES ASSUME IInv, [Next]_vars PROVE IInv'
      BY Zenon
  <2>1. ASSUME NEW w \in Writers, StoreStep(w) PROVE IInv'
        BY Zenon, <2>1, QuietStep, CloseCurrentStep, InsertVersionStep, RollbackStep, CommitStep
           DEF StoreStep
  <2>2. CASE SweepScan \/ SweepFail \/ (\E id \in sweep.seen : SweepLock(id))
        BY Zenon, <2>2, SweepQuietStep
  <2>3. CASE SweepCommit
        BY Zenon, <2>3, SweepCommitStep
  <2>4. CASE PruneSuperseded \/ (\E p \in Paths, k \in Keeps : CompactPathHistory(p, k))
        BY Zenon, <2>4, DeletionStep
  <2>5. CASE Tick \/ UNCHANGED vars
        BY Zenon, <2>5, IdleStep
  <2> QED BY Zenon, <2>1, <2>2, <2>3, <2>4, <2>5 DEF Next
<1> QED BY <1>1, <1>2, PTL DEF Spec

\* Every reachable state is well typed; in particular the attempt counter of
\* Store never passes maxStoreAttempts and versions are positive.
THEOREM TypeCorrect == Spec => []TypeOK
<1>1. IInv => TypeOK
      BY Zenon DEF IInv
<1> QED BY <1>1, InductiveInvariant, PTL

\* Whatever the number of simultaneous Store calls and however they interleave
\* with expiry, pruning and compaction, a path has at most one open version.
THEOREM OneOpenVersion == Spec => []SingleOpenVersion
<1>1. IInv => SingleOpenVersion
      BY Zenon DEF IInv
<1> QED BY <1>1, InductiveInvariant, PTL

(***************************************************************************)
(* The retries of Store: the number of attempts a call has used up is      *)
(* bounded by the number of other calls that have returned.                *)
(***************************************************************************)
\* The calls that have returned are never fewer, and one more when a call returns.
LEMMA RivalsGrow ==
    ASSUME NEW w \in Writers,
           \A u \in Writers \ {w} : pc[u] \in Returned => pc'[u] \in Returned
    PROVE  /\ Cardinality(Rivals(w)) \in Nat /\ Cardinality(Rivals(w))' \in Nat
           /\ Cardinality(Rivals(w)) <= Cardinality(Rivals(w))'
           /\ (\E u \in Writers \ {w} : pc[u] \notin Returned /\ pc'[u] \in Returned)
                 => Cardinality(Rivals(w)) + 1 <= Cardinality(Rivals(w))'
<1> DEFINE old == {u \in Writers \ {w} : pc[u] \in Returned}
           now == {u \in Writers \ {w} : pc'[u] \in Returned}
<1>1. Rivals(w) = old /\ Rivals(w)' = now
      BY Zenon DEF Rivals
<1>2. old \in SUBSET now /\ now \in SUBSET Writers
      BY Zenon
<1>3. \A u : u \in Writers \ {w} /\ pc[u] \notin Returned /\ pc'[u] \in Returned
               => u \notin old /\ old \cup {u} \in SUBSET now
      BY Zenon
<1> HIDE DEF old, now
<1>4. IsFiniteSet(now)
      BY Zenon, <1>2, WritersAssumption, FS_Subset
<1>5. IsFiniteSet(old) /\ Cardinality(old) <= Cardinality(now)
      BY Zenon, <1>2, <1>4, FS_Subset
<1>6. Cardinality(old) \in Nat /\ Cardinality(now) \in Nat
      BY Zenon, <1>4, <1>5, FS_CardinalityType
<1>7. ASSUME NEW u \in Writers \ {w}, pc[u] \notin Returned, pc'[u] \in Returned
      PROVE  Cardinality(old) + 1 <= Cardinality(now)
  <2>1. u \notin old /\ old \cup {u} \in SUBSET now
        BY Zenon, <1>3, <1>7
  <2>2. Cardinality(old \cup {u}) = Cardinality(old) + 1
        BY Zenon, <1>5, <2>1, FS_AddElement
  <2>3. Cardinality(old \cup {u}) <= Cardinality(now)
        BY Zenon, <1>4, <2>1, FS_Subset
  <2> QED BY Zenon, <2>2, <2>3
<1> QED BY Zenon, <1>1, <1>5, <1>6, <1>7

\* There are fewer other calls than calls.
LEMMA RivalsBound ==
    ASSUME NEW w \in Writers
    PROVE  Cardinality(Rivals(w)) + 1 <= Cardinality(Writers)
<1>1. Rivals(w) \in SUBSET (Writers \ {w})
      BY Zenon DEF Rivals
<1>2. /\ IsFiniteSet(Writers \ {w})
      /\ Cardinality(Writers \ {w}) = Cardinality(Writers) - 1
      BY Zenon, WritersAssumption, FS_RemoveElement
<1>3. IsFiniteSet(Rivals(w)) /\ Cardinality(Rivals(w)) <= Cardinality(Writers) - 1
      BY ZenonT(60), <1>1, <1>2, FS_Subset
<1>4. Cardinality(Rivals(w)) \in Nat /\ Cardinality(Writers) \in Nat
      BY Zenon, <1>3, WritersAssumption, FS_CardinalityType
<1> QED BY SMTT(40), <1>3, <1>4

\* A call whose own state a step leaves alone is up to date after it, unless the
\* step added an open row.
LEMMA StaysUpToDate ==
    ASSUME NEW w \in Writers, UpToDate(w), \A s \in rows' : IsOpen(s) => s \in rows,
           pc'[w] = pc[w], req'[w] = req[w], seen'[w] = seen[w], closed'[w] = closed[w]
    PROVE  UpToDate(w)'
<1>1. OpenAt(req[w].path)' \subseteq OpenAt(req[w].path)
      BY Zenon DEF OpenAt, IsOpen
<1>2. Colliding(w)' \subseteq Colliding(w)
      BY Zenon DEF Colliding, OpenAt, IsOpen
<1>3. Ids(OpenAt(req[w].path))' \subseteq Ids(OpenAt(req[w].path))
      BY Zenon, <1>1 DEF Ids
<1> QED BY Zenon, <1>2, <1>3 DEF UpToDate

\* Only a commit of Store adds an open row.
LEMMA NoRowOpens ==
    ASSUME IInv, [Next]_vars, ~\E w \in Writers, o \in {"done", "failed"} : Commit(w, o)
    PROVE  \A s \in rows' : IsOpen(s) => s \in rows
<1>1. CASE SweepCommit
  <2>1. rows' = CloseRows(sweep.closed, sweep.ts) /\ rows \subseteq Row /\ sweep.ts \in Nat
        BY Zenon, <1>1 DEF SweepCommit, IInv, TypeOK
  <2> QED BY Zenon, <2>1, CloseRowsMember
<1>2. CASE PruneSuperseded \/ (\E p \in Paths, k \in Keeps : CompactPathHistory(p, k))
      BY Zenon, <1>2 DEF PruneSuperseded, CompactPathHistory
<1>3. CASE SweepScan \/ SweepFail \/ (\E id \in sweep.seen : SweepLock(id)) \/ Tick
  <2>1. rows' = rows
        BY Zenon, <1>3 DEF SweepScan, SweepFail, SweepLock, Tick
  <2> QED BY Zenon, <2>1
<1>4. CASE UNCHANGED vars
      BY Zenon, <1>4 DEF vars
<1>5. ASSUME NEW w \in Writers, StoreStep(w) PROVE rows' = rows
  <2>1. \A o \in {"done", "failed"} : ~Commit(w, o)
        BY Zenon
  <2> QED BY Zenon, <1>5, <2>1 DEF StoreStep, Begin, CloseScan, CloseCurrent, InsertVersion,
                            InsertConflict, Fail
<1> QED BY Zenon, <1>1, <1>2, <1>3, <1>4, <1>5 DEF Next

\* A step of the workers or of the clock changes no call.
LEMMA OthersLeaveCalls ==
    ASSUME [Next]_vars, ~\E w \in Writers : StoreStep(w)
    PROVE  UNCHANGED storeVars
<1>1. CASE UNCHANGED vars
      BY Zenon, <1>1 DEF vars
<1>2. CASE Next
      BY Zenon, <1>2 DEF Next, SweepScan, SweepFail, SweepLock, SweepCommit,
                              PruneSuperseded, CompactPathHistory, Tick
<1> QED BY Zenon, <1>1, <1>2

\* A step of one call changes no other call, and a call that has returned stays so.
LEMMA StepOfOneCall ==
    ASSUME TypeOK, NEW u \in Writers, StoreStep(u)
    PROVE  /\ req' = req
           /\ pc[u] \notin Returned
           /\ \A w \in Writers \ {u} : /\ pc'[w] = pc[w] /\ seen'[w] = seen[w]
                                       /\ closed'[w] = closed[w] /\ attempt'[w] = attempt[w]
<1> USE DEF TypeOK, Returned
<1>1. CASE Begin(u) \/ CloseScan(u) \/ CloseCurrent(u) \/ InsertVersion(u)
      BY Zenon, <1>1 DEF Begin, CloseScan, CloseCurrent, InsertVersion
<1>2. CASE InsertConflict(u)
      BY Zenon, <1>2 DEF InsertConflict
<1>3. ASSUME NEW o \in {"done", "failed"}, Commit(u, o)
      PROVE  /\ req' = req
             /\ pc[u] \notin Returned
             /\ \A w \in Writers \ {u} : /\ pc'[w] = pc[w] /\ seen'[w] = seen[w]
                                         /\ closed'[w] = closed[w] /\ attempt'[w] = attempt[w]
      BY Zenon, <1>3 DEF Commit
<1>4. CASE Fail(u)
      BY Zenon, <1>4 DEF Fail
<1> QED BY Zenon, <1>1, <1>2, <1>3, <1>4 DEF StoreStep

\* What a step of the call itself does to its attempts: the counter grows only
\* on a conflict, when the call is not up to date, and the call gives up only
\* when the counter has reached maxStoreAttempts.
LEMMA StepOfTheCall ==
    ASSUME TypeOK, NEW w \in Writers, StoreStep(w), UpToDate(w) \/ pc[w] \in {"lock", "insert"}
    PROVE  \/ /\ attempt'[w] = attempt[w]
              /\ UpToDate(w)' \/ ~UpToDate(w)
              /\ pc'[w] # "exhausted"
           \/ /\ ~UpToDate(w)
              /\ attempt'[w] = attempt[w] + 1
              /\ UpToDate(w)'
              /\ pc'[w] # "exhausted"
           \/ /\ ~UpToDate(w)
              /\ attempt[w] >= MaxAttempts
<1> USE DEF TypeOK
<1>1. CASE Begin(w)
      BY Zenon, <1>1 DEF Begin, UpToDate
<1>2. CASE CloseScan(w)
  <2>1. pc'[w] = "lock" /\ seen'[w] = Ids(OpenAt(req[w].path)) /\ attempt' = attempt
        BY Zenon, <1>2 DEF CloseScan
  <2>2. Ids(OpenAt(req[w].path))' = Ids(OpenAt(req[w].path))
        BY Zenon, <1>2 DEF CloseScan, Ids, OpenAt
  <2> QED BY Zenon, <2>1, <2>2 DEF UpToDate
<1>3. CASE CloseCurrent(w)
  <2>1. /\ pc[w] = "lock" /\ pc'[w] = "insert" /\ attempt' = attempt /\ rows' = rows /\ req' = req
        /\ closed'[w] = seen[w] \cap Ids(OpenAt(req[w].path))
        BY Zenon, <1>3 DEF CloseCurrent
  <2>2. ASSUME UpToDate(w) PROVE Colliding(w)' = {}
    <3>1. \A r \in OpenAt(req[w].path) : r.id \in closed'[w]
          BY Zenon, <2>1, <2>2, InIds DEF UpToDate
    <3> QED BY Zenon, <2>1, <3>1 DEF Colliding, OpenAt
  <2> QED BY Zenon, <2>1, <2>2 DEF UpToDate
<1>4. CASE InsertVersion(w)
      BY Zenon, <1>4 DEF InsertVersion, UpToDate
<1>5. CASE InsertConflict(w)
  <2>1. ~UpToDate(w)
        BY Zenon, <1>5 DEF InsertConflict, UpToDate
  <2>2. CASE attempt[w] >= MaxAttempts
        BY Zenon, <2>1, <2>2
  <2>3. CASE ~(attempt[w] >= MaxAttempts)
        BY Zenon, <1>5, <2>1, <2>3 DEF InsertConflict, UpToDate
  <2> QED BY Zenon, <2>2, <2>3
<1>6. ASSUME NEW o \in {"done", "failed"}, Commit(w, o)
      PROVE  attempt'[w] = attempt[w] /\ UpToDate(w)' /\ pc'[w] # "exhausted"
      BY Zenon, <1>6 DEF Commit, UpToDate
<1>7. CASE Fail(w)
      BY Zenon, <1>7 DEF Fail, UpToDate
<1> QED BY Zenon, <1>1, <1>2, <1>3, <1>4, <1>5, <1>6, <1>7 DEF StoreStep

\* With at most maxStoreAttempts simultaneous Store calls, no call ever runs out
\* of retries, whatever the expiry worker and the pruning do meanwhile: an attempt
\* that fails on the unique index was beaten by a call that has returned since.
THEOREM RetriesAreEnough ==
    ASSUME Cardinality(Writers) <= MaxAttempts
    PROVE  Spec => []RetriesSuffice
<1>1. Init => RetriesInv
  <2> SUFFICES ASSUME Init, NEW w \in Writers
               PROVE  /\ attempt[w] <= Cardinality(Rivals(w)) + 1
                      /\ UpToDate(w)
                      /\ pc[w] # "exhausted"
      BY Zenon DEF RetriesInv
  <2>1. attempt[w] = 1 /\ pc[w] = "idle" /\ Rivals(w) = {}
        BY Zenon DEF Init, Rivals, Returned
  <2>2. UpToDate(w)
        BY Zenon, <2>1 DEF UpToDate
  <2> QED BY SMTT(40), <2>1, <2>2, FS_EmptySet
<1>2. IInv /\ RetriesInv /\ [Next]_vars => RetriesInv'
  <2> SUFFICES ASSUME IInv, RetriesInv, [Next]_vars, NEW w \in Writers
               PROVE  /\ attempt'[w] <= Cardinality(Rivals(w))' + 1
                      /\ ~UpToDate(w)' => attempt'[w] <= Cardinality(Rivals(w))'
                      /\ pc'[w] # "exhausted"
      BY Zenon DEF RetriesInv
  <2>1. TypeOK
        BY Zenon DEF IInv
  <2>2. /\ attempt[w] <= Cardinality(Rivals(w)) + 1
        /\ ~UpToDate(w) => attempt[w] <= Cardinality(Rivals(w))
        /\ pc[w] # "exhausted" /\ attempt[w] \in Nat
        BY SMTT(40), <2>1, MaxAttemptsAssumption DEF RetriesInv, TypeOK
  <2>3. CASE ~\E u \in Writers : StoreStep(u)
    <3>1. UNCHANGED storeVars
          BY Zenon, <2>3, OthersLeaveCalls
    <3>2. \A s \in rows' : IsOpen(s) => s \in rows
          BY Zenon, <2>3, NoRowOpens DEF StoreStep
    <3>3. UpToDate(w) => UpToDate(w)'
          BY Zenon, <3>1, <3>2, StaysUpToDate DEF storeVars
    <3>4. Rivals(w)' = Rivals(w)
          BY Zenon, <3>1 DEF storeVars, Rivals
    <3> QED BY Zenon, <2>2, <3>1, <3>3, <3>4 DEF storeVars
  <2>4. ASSUME NEW u \in Writers \ {w}, StoreStep(u)
        PROVE  /\ attempt'[w] <= Cardinality(Rivals(w))' + 1
               /\ ~UpToDate(w)' => attempt'[w] <= Cardinality(Rivals(w))'
               /\ pc'[w] # "exhausted"
    <3>1. /\ req' = req /\ pc[u] \notin Returned
          /\ pc'[w] = pc[w] /\ seen'[w] = seen[w]
          /\ closed'[w] = closed[w] /\ attempt'[w] = attempt[w]
          /\ \A x \in Writers \ {w} : pc[x] \in Returned => pc'[x] \in Returned
          BY Zenon, <2>1, <2>4, StepOfOneCall
    <3>2. /\ Cardinality(Rivals(w)) \in Nat /\ Cardinality(Rivals(w))' \in Nat
          /\ Cardinality(Rivals(w)) <= Cardinality(Rivals(w))'
          /\ pc'[u] \in Returned => Cardinality(Rivals(w)) + 1 <= Cardinality(Rivals(w))'
          BY ZenonT(60), <3>1, RivalsGrow
    <3>3. CASE pc'[u] \in Returned
          BY SMTT(40), <2>2, <3>1, <3>2, <3>3
    <3>4. CASE pc'[u] \notin Returned
      <4>1. ~\E x \in Writers, o \in {"done", "failed"} : Commit(x, o)
        <5> SUFFICES ASSUME NEW x \in Writers, NEW o \in {"done", "failed"}, Commit(x, o)
                     PROVE  FALSE
            BY Zenon
        <5>1. pc[x] \notin Returned /\ pc'[x] \in Returned
              BY Zenon, <2>1 DEF Commit, Returned, TypeOK
        <5>2. x = u
              BY Zenon, <2>1, <2>4, <5>1, StepOfOneCall
        <5> QED BY Zenon, <5>1, <5>2, <3>4
      <4>2. UpToDate(w) => UpToDate(w)'
            BY ZenonT(60), <4>1, <3>1, NoRowOpens, StaysUpToDate
      <4> QED BY SMTT(40), <2>2, <3>1, <3>2, <4>2
    <3> QED BY Zenon, <3>3, <3>4
  <2>5. CASE StoreStep(w)
    <3>1. \A x \in Writers \ {w} : pc[x] \in Returned => pc'[x] \in Returned
          BY Zenon, <2>1, <2>5, StepOfOneCall
    <3>2. /\ Cardinality(Rivals(w)) \in Nat /\ Cardinality(Rivals(w))' \in Nat
          /\ Cardinality(Rivals(w)) <= Cardinality(Rivals(w))'
          BY Zenon, <3>1, RivalsGrow
    <3>3. attempt[w] <= Cardinality(Rivals(w)) => attempt[w] < MaxAttempts
          BY SMTT(40), <2>2, <3>2, RivalsBound, MaxAttemptsAssumption, FS_CardinalityType, WritersAssumption
    <3>4. UpToDate(w) \/ pc[w] \in {"lock", "insert"}
          BY Zenon DEF UpToDate
    <3>5. \/ /\ attempt'[w] = attempt[w]
             /\ UpToDate(w)' \/ ~UpToDate(w)
             /\ pc'[w] # "exhausted"
          \/ /\ ~UpToDate(w)
             /\ attempt'[w] = attempt[w] + 1
             /\ UpToDate(w)'
             /\ pc'[w] # "exhausted"
          \/ /\ ~UpToDate(w)
             /\ attempt[w] >= MaxAttempts
          BY Zenon, <2>1, <2>5, <3>4, StepOfTheCall
    <3> QED BY SMTT(40), <2>2, <3>2, <3>3, <3>5, MaxAttemptsAssumption
  <2> QED BY Zenon, <2>3, <2>4, <2>5
<1>3. RetriesInv => RetriesSuffice
      BY Zenon DEF RetriesInv, RetriesSuffice
<1> QED BY <1>1, <1>2, <1>3, InductiveInvariant, PTL DEF Spec

(***************************************************************************)
(* What a transaction about to commit knows: it has inserted, with a fresh *)
(* id, the successor of the row it closed.                                 *)
(***************************************************************************)
PendingFollows ==
    \A w \in Writers :
        /\ pc[w] = "commit" => new[w] # {}
        /\ \A r \in new[w] :
             /\ closed[w] = {} => r.version = 1
             /\ \A x \in rows : x.id \in closed[w] => r.version = x.version + 1

LoggedIds ==
    \A h \in log : h.id < nextId /\ \A w \in Writers : \A r \in new[w] : r.id # h.id

RInv == IInv /\ PendingFollows /\ LoggedIds

(***************************************************************************)
(* The current version of a path, from the open rows of the path.          *)
(***************************************************************************)
\* A path has no open row or exactly one.
LEMMA OneOpenRow ==
    ASSUME SingleOpenVersion, NEW r, NEW p, r \in OpenAt(p)
    PROVE  OpenAt(p) = {r}
BY Zenon DEF SingleOpenVersion, OpenAt

\* The version callers see is that of the open row.
LEMMA CurrentOfOpen ==
    ASSUME NEW r, NEW p, OpenAt(p) = {r}
    PROVE  CurrentVersion(p) = [id |-> r.id, version |-> r.version]
<1>1. (CHOOSE x \in OpenAt(p) : TRUE) = r
      BY Zenon
<1> QED BY Zenon, <1>1 DEF CurrentVersion

\* The same in the next state.
LEMMA CurrentOfOpenNext ==
    ASSUME NEW r, NEW p, OpenAt(p)' = {r}
    PROVE  CurrentVersion(p)' = [id |-> r.id, version |-> r.version]
<1>1. (CHOOSE x \in OpenAt(p)' : TRUE) = r
      BY Zenon
<1> QED BY Zenon, <1>1 DEF CurrentVersion

\* The same open rows make the same version current.
LEMMA SameOpenSameCurrent ==
    ASSUME NEW p, OpenAt(p)' = OpenAt(p)
    PROVE  CurrentVersion(p)' = CurrentVersion(p)
BY Zenon DEF CurrentVersion, NoVersion

\* The number Store gives its row follows the one row it closed.
LEMMA NextVersionFollows ==
    ASSUME IInv, NEW w \in Writers, NEW x \in rows, x.id \in closed[w]
    PROVE  NextVersion(w) = x.version + 1
<1>1. ASSUME NEW y \in rows, y.id \in closed[w] PROVE y = x
  <2>1. PICK a \in OpenAt(req[w].path) : a.id = x.id
        BY Zenon DEF IInv, LocksValid
  <2>2. PICK b \in OpenAt(req[w].path) : b.id = y.id
        BY Zenon, <1>1 DEF IInv, LocksValid
  <2>3. a = x /\ b = y
        BY Zenon, <2>1, <2>2 DEF IInv, IdsUnique, OpenAt
  <2>4. a = b
        BY Zenon DEF IInv, SingleOpenVersion, OpenAt
  <2> QED BY Zenon, <2>3, <2>4
<1>2. ClosedRows(w) = {x}
      BY Zenon, <1>1 DEF ClosedRows
<1> DEFINE c == CHOOSE r \in ClosedRows(w) : TRUE
<1>3. c = x
      BY Zenon, <1>2
<1>4. NextVersion(w) = c.version + 1
      BY Zenon DEF NextVersion
<1> HIDE DEF c
<1> QED BY Zenon, <1>3, <1>4

(***************************************************************************)
(* RInv is inductive: only Store changes what it is about.                 *)
(***************************************************************************)
LEMMA InsertFollows ==
    ASSUME RInv, NEW w \in Writers, InsertVersion(w)
    PROVE  PendingFollows' /\ LoggedIds'
<1> USE DEF RInv
<1> DEFINE row == [id |-> nextId, path |-> req[w].path, version |-> NextVersion(w),
                   from |-> ts[w], to |-> NULL, expires |-> req[w].expires]
<1>1. /\ UNCHANGED <<rows, closed, log>>
      /\ nextId' = nextId + 1 /\ nextId \in Nat
      /\ new'[w] = {row} /\ pc'[w] = "commit"
      /\ \A u \in Writers \ {w} : pc'[u] = pc[u] /\ new'[u] = new[u]
      BY Zenon DEF IInv, TypeOK, InsertVersion
<1>2. row.id = nextId /\ row.version = NextVersion(w)
      BY Zenon
<1> HIDE DEF row
<1>3. closed[w] = {} => row.version = 1
      BY Zenon, <1>2 DEF NextVersion
<1>4. \A x \in rows : x.id \in closed[w] => row.version = x.version + 1
      BY Zenon, <1>2, NextVersionFollows
<1>5. PendingFollows'
      BY ZenonT(60), <1>1, <1>3, <1>4 DEF PendingFollows
<1>6. \A h \in log : h.id \in Nat /\ h.id < nextId
      BY Zenon DEF IInv, TypeOK, LogEntry, LoggedIds
<1>7. LoggedIds'
      BY SMTT(40), <1>1, <1>2, <1>6 DEF LoggedIds
<1> QED BY Zenon, <1>5, <1>7

LEMMA CommitFollows ==
    ASSUME RInv, NEW w \in Writers, NEW outcome \in {"done", "failed"}, Commit(w, outcome)
    PROVE  PendingFollows' /\ LoggedIds'
<1> USE DEF RInv
<1>1. /\ nextId' = nextId
      /\ rows' = CloseRows(closed[w], ts[w]) \cup new[w]
      /\ log' = log \cup {[id |-> r.id, path |-> r.path, version |-> r.version,
                           sup |-> Superseded(w)] : r \in new[w]}
      /\ closed'[w] = {} /\ new'[w] = {} /\ pc'[w] # "commit"
      /\ \A u \in Writers \ {w} : pc'[u] = pc[u] /\ new'[u] = new[u] /\ closed'[u] = closed[u]
      BY Zenon DEF IInv, TypeOK, Commit
<1>2. rows \subseteq Row /\ ts[w] \in Nat
      BY Zenon DEF IInv, TypeOK
<1>3. \A s \in CloseRows(closed[w], ts[w]) : \E r \in rows : r.id = s.id /\ r.version = s.version
      BY SMTT(40), <1>2, CloseRowsMember
<1>4. ASSUME NEW u \in Writers \ {w}, NEW r \in new[u], NEW x \in rows', x.id \in closed[u]
      PROVE  r.version = x.version + 1
  <2>1. x \notin new[w]
    <3>1. x.id \in Ids(rows)
          BY SMTT(40), <1>4, InIds DEF IInv, LocksValid, OpenAt
    <3> QED BY Zenon, <3>1 DEF IInv, PendingValid
  <2>2. PICK y \in rows : y.id = x.id /\ y.version = x.version
        BY Zenon, <1>1, <1>3, <1>4, <2>1
  <2> QED BY ZenonT(60), <1>4, <2>2 DEF PendingFollows
<1>5. PendingFollows'
      BY SMTT(40), <1>1, <1>4 DEF PendingFollows
<1>6. \A h \in log' : h \in log \/ \E r \in new[w] : h.id = r.id
      BY SMTT(40), <1>1
<1>7. \A r \in new[w] : /\ r.id < nextId
                        /\ \A u \in Writers \ {w} : \A q \in new[u] : q.id # r.id
      BY SMTT(40) DEF IInv, PendingValid
<1>8. LoggedIds'
      BY SMTT(40), <1>1, <1>6, <1>7 DEF LoggedIds
<1> QED BY Zenon, <1>5, <1>8

\* The other steps of Store insert nothing and commit nothing.
LEMMA OtherStoreFollows ==
    ASSUME RInv, NEW w \in Writers,
           Begin(w) \/ CloseScan(w) \/ CloseCurrent(w) \/ InsertConflict(w) \/ Fail(w)
    PROVE  PendingFollows' /\ LoggedIds'
<1> USE DEF RInv
<1>1. /\ UNCHANGED <<rows, log>>
      /\ nextId' \in {nextId, nextId + 1} /\ nextId \in Nat
      /\ pc'[w] # "commit"
      /\ \A u \in Writers \ {w} : pc'[u] = pc[u] /\ new'[u] = new[u] /\ closed'[u] = closed[u]
      BY ZenonT(40) DEF IInv, TypeOK, Begin, CloseScan, CloseCurrent, InsertConflict, Fail
<1>2. new'[w] = {}
  <2>1. CASE pc[w] = "commit"
        BY Zenon, <2>1 DEF IInv, TypeOK, Begin, CloseScan, CloseCurrent, InsertConflict, Fail
  <2>2. CASE pc[w] # "commit"
    <3>1. new[w] = {}
          BY ZenonT(60), <2>2 DEF IInv, TypeOK, PendingValid
    <3> QED BY Zenon, <3>1 DEF IInv, TypeOK, Begin, CloseScan, CloseCurrent, InsertConflict, Fail
  <2> QED BY Zenon, <2>1, <2>2
<1>3. PendingFollows'
      BY SMTT(40), <1>1, <1>2 DEF PendingFollows
<1>4. \A h \in log : h.id \in Nat /\ h.id < nextId
      BY Zenon DEF IInv, TypeOK, LogEntry, LoggedIds
<1>5. LoggedIds'
      BY SMTT(40), <1>1, <1>2, <1>4 DEF LoggedIds
<1> QED BY Zenon, <1>3, <1>5

\* A step outside Store keeps the rows that transactions have closed, or shrinks
\* the table.
LEMMA OutsideFollows ==
    ASSUME RInv, UNCHANGED <<nextId, storeVars, log>>,
           \A s \in rows' : \E r \in rows : r.id = s.id /\ r.version = s.version
    PROVE  PendingFollows' /\ LoggedIds'
BY SMTT(40) DEF RInv, PendingFollows, LoggedIds, storeVars

\* What steps outside Store do to the open rows and to identities.
LEMMA OutsideShrinks ==
    ASSUME IInv,
           \/ SweepScan \/ SweepFail \/ SweepCommit \/ PruneSuperseded \/ Tick
           \/ \E id \in sweep.seen : SweepLock(id)
           \/ \E p \in Paths, k \in Keeps : CompactPathHistory(p, k)
    PROVE  /\ UNCHANGED <<nextId, storeVars, log>>
           /\ \A s \in rows' : \E r \in rows : r.id = s.id /\ r.version = s.version
           /\ \A p : OpenAt(p)' \subseteq OpenAt(p)
<1>1. UNCHANGED <<nextId, storeVars, log>>
      BY Zenon DEF SweepScan, SweepFail, SweepCommit, PruneSuperseded, Tick, SweepLock, CompactPathHistory
<1>2. CASE SweepCommit
  <2>1. rows' = CloseRows(sweep.closed, sweep.ts) /\ rows \subseteq Row /\ sweep.ts \in Nat
        BY Zenon, <1>2 DEF SweepCommit, IInv, TypeOK
  <2>2. \A s \in rows' : \E r \in rows : r.id = s.id /\ r.version = s.version
        BY SMTT(40), <2>1, CloseRowsMember
  <2>3. \A s \in rows' : IsOpen(s) => s \in rows
        BY Zenon, <2>1, CloseRowsMember
  <2>4. ASSUME NEW p PROVE OpenAt(p)' \subseteq OpenAt(p)
        BY Zenon, <2>3 DEF OpenAt, IsOpen
  <2> QED BY Zenon, <1>1, <2>2, <2>4
<1>3. CASE ~SweepCommit
  <2>1. rows' \subseteq rows
    <3>1. CASE SweepScan \/ SweepFail \/ Tick \/ \E id \in sweep.seen : SweepLock(id)
      <4>1. rows' = rows
            BY Zenon, <3>1 DEF SweepScan, SweepFail, Tick, SweepLock
      <4> QED BY Zenon, <4>1
    <3>2. CASE PruneSuperseded \/ \E p \in Paths, k \in Keeps : CompactPathHistory(p, k)
          BY Zenon, <3>2 DEF PruneSuperseded, CompactPathHistory
    <3> QED BY Zenon, <1>3, <3>1, <3>2
  <2>2. ASSUME NEW p PROVE OpenAt(p)' \subseteq OpenAt(p)
        BY Zenon, <2>1 DEF OpenAt, IsOpen
  <2> QED BY Zenon, <1>1, <2>1, <2>2
<1> QED BY Zenon, <1>2, <1>3

\* What a transaction about to commit will write follows what is committed, through
\* every step of Store, of the workers and of the clock.
THEOREM Follows == Spec => []RInv
<1>1. Init => PendingFollows /\ LoggedIds
      BY Zenon DEF Init, PendingFollows, LoggedIds
<1>2. IInv /\ PendingFollows /\ LoggedIds /\ [Next]_vars => PendingFollows' /\ LoggedIds'
  <2> SUFFICES ASSUME IInv, PendingFollows, LoggedIds, [Next]_vars
               PROVE  PendingFollows' /\ LoggedIds'
      BY Zenon
  <2>0. RInv
        BY Zenon DEF RInv
  <2>1. ASSUME NEW w \in Writers, StoreStep(w) PROVE PendingFollows' /\ LoggedIds'
        BY Zenon, <2>0, <2>1, InsertFollows, CommitFollows, OtherStoreFollows DEF StoreStep
  <2>2. CASE \/ SweepScan \/ SweepFail \/ SweepCommit \/ PruneSuperseded \/ Tick
             \/ \E id \in sweep.seen : SweepLock(id)
             \/ \E p \in Paths, k \in Keeps : CompactPathHistory(p, k)
        BY Zenon, <2>0, <2>2, OutsideShrinks, OutsideFollows
  <2>3. CASE UNCHANGED vars
        BY ZenonT(60), <2>3 DEF vars, storeVars, PendingFollows, LoggedIds
  <2> QED BY Zenon, <2>1, <2>2, <2>3 DEF Next
<1> QED BY <1>1, <1>2, InductiveInvariant, PTL DEF Spec, RInv

(***************************************************************************)
(* The refinement: the commit of Store is Put, the commit of a sweep is    *)
(* Expire, and every other step leaves the abstract store as it is.        *)
(***************************************************************************)
\* A commit replaces the open row of its path and leaves the other paths alone.
LEMMA CommitOpens ==
    ASSUME RInv, NEW w \in Writers, NEW outcome \in {"done", "failed"}, Commit(w, outcome),
           NEW r \in new[w], NEW p, p = req[w].path
    PROVE  /\ OpenAt(p)' = {r}
           /\ \A q \in Paths \ {p} : OpenAt(q)' = OpenAt(q)
<1> USE DEF RInv
<1> DEFINE kept == CloseRows(closed[w], ts[w])
<1>1. rows' = kept \cup {r} /\ rows \subseteq Row /\ ts[w] \in Nat
      BY Zenon DEF Commit, IInv, PendingValid, TypeOK
<1>2. r.path = p /\ IsOpen(r) /\ Colliding(w) = {}
      BY Zenon DEF IInv, PendingValid
<1>3. \A s \in kept : IsOpen(s) => s \in rows /\ s.id \notin closed[w]
      BY Zenon, <1>1, CloseRowsMember
<1>4. \A s \in rows : s.id \notin closed[w] => s \in kept
      BY Zenon, CloseRowsKeeps
<1> HIDE DEF kept
<1>5. OpenAt(p)' = {r}
  <2>1. \A s \in kept : ~(IsOpen(s) /\ s.path = p)
        BY Zenon, <1>2, <1>3 DEF Colliding, OpenAt
  <2> QED BY Zenon, <1>1, <1>2, <2>1 DEF OpenAt, IsOpen
<1>6. ASSUME NEW q \in Paths \ {p} PROVE OpenAt(q)' = OpenAt(q)
  <2>1. ASSUME NEW s \in OpenAt(q) PROVE s.id \notin closed[w]
        BY SMTT(40), <2>1 DEF IInv, LocksValid, IdsUnique, OpenAt
  <2>2. \A s \in OpenAt(q) : s \in kept /\ IsOpen(s) /\ s.path = q
        BY Zenon, <1>4, <2>1 DEF OpenAt
  <2>3. \A s \in rows' : IsOpen(s) /\ s.path = q => s \in rows
        BY Zenon, <1>1, <1>2, <1>3
  <2> QED BY Zenon, <1>1, <2>2, <2>3 DEF OpenAt, IsOpen
<1> QED BY Zenon, <1>5, <1>6

\* The row a commit adds has the number after the current one and supersedes it.
LEMMA CommitSucceeds ==
    ASSUME RInv, NEW w \in Writers, pc[w] = "commit", NEW r \in new[w]
    PROVE  /\ Superseded(w) = CurrentVersion(req[w].path).id
           /\ CurrentVersion(req[w].path) = NoVersion => r.version = 1
           /\ CurrentVersion(req[w].path) # NoVersion =>
                r.version = CurrentVersion(req[w].path).version + 1
<1> USE DEF RInv
<1> DEFINE p == req[w].path
<1>1. Colliding(w) = {}
      BY Zenon DEF IInv, PendingValid
<1>2. CASE closed[w] = {}
  <2>1. OpenAt(p) = {}
        BY Zenon, <1>1, <1>2 DEF Colliding
  <2>2. CurrentVersion(p) = NoVersion
        BY Zenon, <2>1 DEF CurrentVersion
  <2>3. r.version = 1
        BY Zenon, <1>2 DEF PendingFollows
  <2> QED BY SMTT(40), <1>2, <2>2, <2>3 DEF Superseded, NoVersion
<1>3. CASE closed[w] # {}
  <2>1. PICK id \in closed[w] : TRUE
        BY Zenon, <1>3
  <2>2. PICK x \in OpenAt(p) : x.id = id
        BY Zenon, <2>1 DEF IInv, LocksValid
  <2>3. OpenAt(p) = {x}
        BY Zenon, OneOpenRow DEF IInv
  <2>4. closed[w] = {id}
        BY SMTT(40), <2>1, <2>2, <2>3 DEF IInv, LocksValid
  <2>5. Superseded(w) = id
        BY Zenon, <2>4 DEF Superseded
  <2>6. CurrentVersion(p) = [id |-> x.id, version |-> x.version]
        BY Zenon, <2>3, CurrentOfOpen
  <2>7. x \in rows /\ x.version >= 1 /\ x.version \in Nat
        BY Zenon, <2>2 DEF OpenAt, IInv, TypeOK, Row
  <2>8. r.version = x.version + 1
        BY Zenon, <2>1, <2>2, <2>7 DEF PendingFollows
  <2> QED BY SMTT(40), <2>2, <2>5, <2>6, <2>7, <2>8 DEF NoVersion
<1> QED BY Zenon, <1>2, <1>3

LEMMA CommitIsPut ==
    ASSUME RInv, NEW w \in Writers, NEW outcome \in {"done", "failed"}, Commit(w, outcome)
    PROVE  Abstract!Next
<1> USE DEF RInv
<1>1. pc[w] = "commit"
      BY Zenon DEF Commit
<1>2. PICK r \in new[w] : TRUE
      BY Zenon, <1>1 DEF PendingFollows
<1>3. PICK p \in Paths : p = req[w].path
      BY ZenonT(60) DEF IInv, TypeOK, Requests
<1> DEFINE cur == [q \in Paths |-> CurrentVersion(q)]
           number == IF CurrentVersion(p) = NoVersion THEN 1 ELSE CurrentVersion(p).version + 1
<1>4. /\ new[w] = {r} /\ r.path = p /\ r.version >= 1 /\ r.version \in Nat
      BY SMTT(40), <1>3 DEF IInv, PendingValid, TypeOK, Row
<1>5. /\ OpenAt(p)' = {r}
      /\ \A q \in Paths \ {p} : OpenAt(q)' = OpenAt(q)
      BY ZenonT(60), <1>3, CommitOpens
<1>6. r.version = number /\ Superseded(w) = CurrentVersion(p).id
      BY Zenon, <1>1, <1>3, CommitSucceeds
<1> HIDE DEF number
<1>7. cur'[p] = [id |-> r.id, version |-> number]
      BY Zenon, <1>5, <1>6, CurrentOfOpenNext
<1>8. \A q \in Paths \ {p} : cur'[q] = cur[q]
      BY Zenon, <1>5, SameOpenSameCurrent
<1>9. cur' = [cur EXCEPT ![p] = [id |-> r.id, version |-> number]]
  <2> DEFINE next == [id |-> r.id, version |-> number]
  <2>1. \A q \in Paths : cur'[q] = IF q = p THEN next ELSE cur[q]
        BY Zenon, <1>7, <1>8
  <2>2. cur' = [q \in Paths |-> cur'[q]] /\ cur = [q \in Paths |-> cur[q]]
        BY Zenon
  <2> HIDE DEF cur, next
  <2>3. cur' = [cur EXCEPT ![p] = next]
        BY Zenon, <2>1, <2>2
  <2> QED BY Zenon, <2>3 DEF next
<1>10. log' = log \cup {[id |-> r.id, path |-> p, version |-> number, sup |-> cur[p].id]}
      BY Zenon, <1>3, <1>4, <1>6 DEF Commit
<1>11. r.id \notin {h.id : h \in log}
      BY ZenonT(60), <1>2 DEF LoggedIds
<1>12. cur'[p] # NoVersion /\ cur'[p].id = r.id
      BY SMTT(40), <1>4, <1>6, <1>7 DEF NoVersion
<1>13. number = IF cur[p] = NoVersion THEN 1 ELSE cur[p].version + 1
      BY Zenon DEF number
<1>14. Abstract!Put(p, r.id)
      BY ZenonT(60), <1>9, <1>10, <1>11, <1>13 DEF Abstract!Put, Abstract!NextNumber
<1> QED BY Zenon, <1>12, <1>14 DEF Abstract!Next

\* Rows change by a commit only.
LEMMA QuietStoreStep ==
    ASSUME NEW w \in Writers, StoreStep(w), ~ \E outcome \in {"done", "failed"} : Commit(w, outcome)
    PROVE  UNCHANGED <<rows, sweep, log>>
BY Zenon DEF StoreStep, Begin, CloseScan, CloseCurrent, InsertVersion, InsertConflict, Fail

\* A step that only takes open rows away empties the paths it changes.
LEMMA ShrinkingIsExpiry ==
    ASSUME IInv, log' = log, \A p : OpenAt(p)' \subseteq OpenAt(p)
    PROVE  Abstract!Next \/ UNCHANGED Abstract!vars
<1> DEFINE cur == [p \in Paths |-> CurrentVersion(p)]
           P == {p \in Paths : cur'[p] # cur[p]}
<1>1. ASSUME NEW p \in Paths, cur'[p] # cur[p]
      PROVE  cur'[p] = NoVersion /\ cur[p] # NoVersion
  <2>1. OpenAt(p)' # OpenAt(p)
        BY Zenon, <1>1, SameOpenSameCurrent
  <2>2. PICK r \in OpenAt(p) : r \notin OpenAt(p)'
        BY Zenon, <2>1
  <2>3. OpenAt(p) = {r}
        BY Zenon, <2>2, OneOpenRow DEF IInv
  <2>4. OpenAt(p)' = {}
        BY Zenon, <2>2, <2>3
  <2>5. CurrentVersion(p)' = NoVersion
        BY Zenon, <2>4 DEF CurrentVersion, NoVersion
  <2>6. CurrentVersion(p) = [id |-> r.id, version |-> r.version]
        BY Zenon, <2>3, CurrentOfOpen
  <2>7. r.version >= 1 /\ r.version \in Nat
        BY Zenon DEF OpenAt, IInv, TypeOK, Row
  <2> QED BY SMTT(40), <2>5, <2>6, <2>7 DEF NoVersion
<1>2. cur' = [p \in Paths |-> cur'[p]] /\ cur = [p \in Paths |-> cur[p]]
      BY Zenon
<1>3. CASE P = {}
  <2> HIDE DEF cur
  <2>1. cur' = cur
        BY Zenon, <1>2, <1>3
  <2> QED BY Zenon, <2>1 DEF Abstract!vars, cur
<1>4. CASE P # {}
  <2>1. \A p \in P : cur[p] # NoVersion
        BY Zenon, <1>1
  <2>2. cur' = [p \in Paths |-> IF p \in P THEN NoVersion ELSE cur[p]]
    <3>1. \A p \in Paths : cur'[p] = IF p \in P THEN NoVersion ELSE cur[p]
          BY Zenon, <1>1
    <3> HIDE DEF cur
    <3> QED BY Zenon, <1>2, <3>1
  <2>3. Abstract!Expire(P)
        BY Zenon, <1>4, <2>1, <2>2 DEF Abstract!Expire
  <2> QED BY Zenon, <2>3 DEF Abstract!Next
<1> QED BY Zenon, <1>3, <1>4

\* The transactions of Store and the statements of the workers implement the
\* store that replaces, in one step, the version of a path by its successor.
THEOREM ImplementsVersionedStore == Spec => StoreIsAtomic
<1>1. Init => Abstract!Init
  <2> SUFFICES ASSUME Init PROVE Abstract!Init
      BY Zenon
  <2>1. \A p \in Paths : CurrentVersion(p) = NoVersion
        BY Zenon DEF Init, CurrentVersion, OpenAt
  <2>2. log = {}
        BY Zenon DEF Init
  <2> QED BY Zenon, <2>1, <2>2 DEF Abstract!Init
<1>2. RInv /\ [Next]_vars => [Abstract!Next]_(Abstract!vars)
  <2> SUFFICES ASSUME RInv, [Next]_vars PROVE Abstract!Next \/ UNCHANGED Abstract!vars
      BY Zenon
  <2>1. ASSUME NEW w \in Writers, NEW outcome \in {"done", "failed"}, Commit(w, outcome)
        PROVE  Abstract!Next
        BY Zenon, <2>1, CommitIsPut
  <2>2. CASE \/ SweepScan \/ SweepFail \/ SweepCommit \/ PruneSuperseded \/ Tick
             \/ \E id \in sweep.seen : SweepLock(id)
             \/ \E p \in Paths, k \in Keeps : CompactPathHistory(p, k)
        BY Zenon, <2>2, OutsideShrinks, ShrinkingIsExpiry DEF RInv
  <2>3. CASE UNCHANGED <<rows, log>>
    <3>1. \A p : OpenAt(p)' = OpenAt(p)
          BY Zenon, <2>3 DEF OpenAt, IsOpen
    <3> QED BY Zenon, <2>3, <3>1, ShrinkingIsExpiry DEF RInv
  <2>4. CASE UNCHANGED vars
        BY Zenon, <2>3, <2>4 DEF vars
  <2> QED BY Zenon, <2>1, <2>2, <2>3, <2>4, QuietStoreStep DEF Next
<1> QED BY <1>1, <1>2, Follows, PTL DEF Spec, StoreIsAtomic, Abstract!Spec

(***************************************************************************)
(* The table is append-only.                                               *)
(***************************************************************************)
\* What the expiry worker has locked is open.
SweepHoldsOpen == \A id \in sweep.closed : \E r \in rows : r.id = id /\ IsOpen(r)

\* A commit that closes open rows and adds rows with fresh ids changes nothing else.
LEMMA ClosingAppends ==
    ASSUME IInv, NEW ids, NEW t \in Nat, NEW added,
           rows' = CloseRows(ids, t) \cup added,
           \A id \in ids : \E r \in rows : r.id = id /\ IsOpen(r),
           \A n \in added : n.id \notin Ids(rows)
    PROVE  AppendOnlyStep
<1>1. rows \subseteq Row
      BY Zenon DEF IInv, TypeOK
<1>2. ASSUME NEW r \in rows, IsOpen(r) PROVE \E s \in rows' : SameIdentity(r, s)
  <2>1. CASE r.id \in ids
    <3>1. [r EXCEPT !.to = t] \in rows'
          BY Zenon, <2>1 DEF CloseRows
    <3>2. SameIdentity(r, [r EXCEPT !.to = t])
          BY Zenon, <1>1 DEF SameIdentity, Row
    <3> QED BY Zenon, <3>1, <3>2
  <2>2. CASE r.id \notin ids
    <3>1. r \in rows'
          BY Zenon, <2>2, CloseRowsKeeps
    <3>2. SameIdentity(r, r)
          BY Zenon, <1>1 DEF SameIdentity, Row
    <3> QED BY Zenon, <3>1, <3>2
  <2> QED BY Zenon, <2>1, <2>2
<1>3. ASSUME NEW r \in rows, ~IsOpen(r), NEW s \in rows', s.id = r.id PROVE s = r
  <2>1. s \in CloseRows(ids, t)
        BY Zenon, <1>3, InIds
  <2>2. PICK x \in rows : /\ x.id = s.id
                          /\ x.id \notin ids => s = x
        BY SMTT(40), <1>1, <2>1, CloseRowsMember
  <2>3. x = r
        BY Zenon, <1>3, <2>2 DEF IInv, IdsUnique
  <2>4. r.id \notin ids
        BY Zenon, <1>3 DEF IInv, IdsUnique
  <2> QED BY Zenon, <2>2, <2>3, <2>4
<1> QED BY Zenon, <1>2, <1>3 DEF AppendOnlyStep

\* A step that only takes closed rows away, or none.
LEMMA DeletingAppends ==
    ASSUME IInv, rows' \subseteq rows, \A r \in rows : IsOpen(r) => r \in rows'
    PROVE  AppendOnlyStep
<1>1. \A r \in rows : SameIdentity(r, r)
      BY Zenon DEF IInv, TypeOK, SameIdentity, Row
<1> QED BY Zenon, <1>1 DEF AppendOnlyStep, IInv, IdsUnique

\* A commit keeps the rows the expiry worker has locked open.
LEMMA CommitKeepsSweep ==
    ASSUME IInv, SweepHoldsOpen, NEW w \in Writers, NEW outcome \in {"done", "failed"},
           Commit(w, outcome)
    PROVE  SweepHoldsOpen'
<1>1. rows' = CloseRows(closed[w], ts[w]) \cup new[w] /\ sweep' = sweep
      BY Zenon DEF Commit
<1>2. ASSUME NEW id \in sweep.closed PROVE \E r \in rows' : r.id = id /\ IsOpen(r)
  <2>1. PICK r \in rows : r.id = id /\ IsOpen(r)
        BY Zenon DEF SweepHoldsOpen
  <2>2. r.id \notin closed[w]
        BY Zenon, <2>1 DEF IInv, LocksValid
  <2> QED BY Zenon, <1>1, <2>1, <2>2, CloseRowsKeeps
<1> QED BY Zenon, <1>1, <1>2 DEF SweepHoldsOpen, IsOpen

\* The worker locks rows that are open, and deletions spare open rows.
LEMMA OutsideKeepsSweep ==
    ASSUME IInv, SweepHoldsOpen,
           \/ SweepScan \/ SweepFail \/ SweepCommit \/ PruneSuperseded \/ Tick
           \/ \E id \in sweep.seen : SweepLock(id)
           \/ \E p \in Paths, k \in Keeps : CompactPathHistory(p, k)
    PROVE  SweepHoldsOpen'
<1>1. CASE SweepFail \/ SweepCommit
  <2>1. ASSUME SweepFail PROVE sweep'.closed = {}
        BY Zenon, <2>1 DEF SweepFail, IInv, TypeOK
  <2>2. ASSUME SweepCommit PROVE sweep'.closed = {}
    <3>1. sweep' = [sweep EXCEPT !.pc = "idle", !.closed = {}, !.rule = OtherRule]
          BY Zenon, <2>2 DEF SweepCommit
    <3> QED BY Zenon, <3>1 DEF IInv, TypeOK
  <2> QED BY Zenon, <1>1, <2>1, <2>2 DEF SweepHoldsOpen
<1>2. CASE SweepScan
  <2>1. sweep'.closed = sweep.closed /\ rows' = rows
        BY Zenon, <1>2 DEF SweepScan, IInv, TypeOK
  <2> QED BY Zenon, <2>1 DEF SweepHoldsOpen, IsOpen
<1>3. ASSUME NEW id \in sweep.seen, SweepLock(id) PROVE SweepHoldsOpen'
  <2> DEFINE got == Ids({r \in rows : r.id = id /\ Due(r, sweep.rule, sweep.ts)})
  <2>1. sweep' = [sweep EXCEPT !.seen = @ \ {id}, !.closed = @ \cup got] /\ rows' = rows
        BY Zenon, <1>3 DEF SweepLock
  <2>2. \A i \in got : \E r \in rows : r.id = i /\ IsOpen(r)
        BY SMTT(40), InIds DEF Due
  <2> HIDE DEF got
  <2>3. sweep'.closed = sweep.closed \cup got
        BY Zenon, <2>1 DEF IInv, TypeOK
  <2> QED BY Zenon, <2>1, <2>2, <2>3 DEF SweepHoldsOpen, IsOpen
<1>4. CASE Tick \/ PruneSuperseded \/ \E p \in Paths, k \in Keeps : CompactPathHistory(p, k)
  <2>1. sweep' = sweep /\ \A r \in rows : IsOpen(r) => r \in rows'
        BY Zenon, <1>4 DEF Tick, PruneSuperseded, CompactPathHistory
  <2> QED BY Zenon, <2>1 DEF SweepHoldsOpen, IsOpen
<1> QED BY Zenon, <1>1, <1>2, <1>3, <1>4

\* No step of Store, expiry, pruning or compaction rewrites a closed row, deletes
\* the current one or changes anything of it but its end.
THEOREM RowsAreAppendOnly == Spec => AppendOnly
<1>1. Init => SweepHoldsOpen
      BY SMTT(40) DEF Init, SweepHoldsOpen
<1>2. IInv /\ SweepHoldsOpen /\ [Next]_vars => SweepHoldsOpen'
  <2> SUFFICES ASSUME IInv, SweepHoldsOpen, [Next]_vars PROVE SweepHoldsOpen'
      BY Zenon
  <2>1. CASE UNCHANGED <<rows, sweep>>
        BY Zenon, <2>1 DEF SweepHoldsOpen, IsOpen
  <2>2. CASE UNCHANGED vars
        BY Zenon, <2>1, <2>2 DEF vars
  <2> QED BY Zenon, <2>1, <2>2, QuietStoreStep, CommitKeepsSweep, OutsideKeepsSweep DEF Next
<1>3. IInv /\ SweepHoldsOpen /\ [Next]_vars => [AppendOnlyStep]_vars
  <2> SUFFICES ASSUME IInv, SweepHoldsOpen, Next PROVE AppendOnlyStep
      BY Zenon
  <2>1. ASSUME NEW w \in Writers, NEW outcome \in {"done", "failed"}, Commit(w, outcome)
        PROVE  AppendOnlyStep
    <3>1. rows' = CloseRows(closed[w], ts[w]) \cup new[w] /\ ts[w] \in Nat
          BY Zenon, <2>1 DEF Commit, IInv, TypeOK
    <3>2. \A id \in closed[w] : \E r \in rows : r.id = id /\ IsOpen(r)
          BY ZenonT(60) DEF IInv, LocksValid, OpenAt
    <3>3. \A n \in new[w] : n.id \notin Ids(rows)
          BY Zenon DEF IInv, PendingValid
    <3> QED BY Zenon, <3>1, <3>2, <3>3, ClosingAppends
  <2>2. CASE SweepCommit
    <3> DEFINE none == {}
    <3>1. rows' = CloseRows(sweep.closed, sweep.ts)
          BY Zenon, <2>2 DEF SweepCommit
    <3>2. rows' = CloseRows(sweep.closed, sweep.ts) \cup none
          BY Zenon, <3>1
    <3>3. sweep.ts \in Nat /\ \A n \in none : n.id \notin Ids(rows)
          BY Zenon DEF IInv, TypeOK
    <3> HIDE DEF none
    <3>4. \A id \in sweep.closed : \E r \in rows : r.id = id /\ IsOpen(r)
          BY Zenon DEF SweepHoldsOpen
    <3> QED BY Zenon, <3>2, <3>3, <3>4, ClosingAppends
  <2>3. CASE PruneSuperseded \/ \E p \in Paths, k \in Keeps : CompactPathHistory(p, k)
    <3>1. rows' \subseteq rows /\ \A r \in rows : IsOpen(r) => r \in rows'
          BY Zenon, <2>3 DEF PruneSuperseded, CompactPathHistory
    <3> QED BY Zenon, <3>1, DeletingAppends
  <2>4. CASE rows' = rows
        BY Zenon, <2>4, DeletingAppends
  <2>5. CASE SweepScan \/ SweepFail \/ Tick \/ \E id \in sweep.seen : SweepLock(id)
    <3>1. rows' = rows
          BY Zenon, <2>5 DEF SweepScan, SweepFail, Tick, SweepLock
    <3> QED BY Zenon, <2>4, <3>1
  <2> QED BY Zenon, <2>1, <2>2, <2>3, <2>4, <2>5, QuietStoreStep DEF Next
<1> QED BY <1>1, <1>2, <1>3, InductiveInvariant, PTL DEF Spec, AppendOnly
=============================================================================

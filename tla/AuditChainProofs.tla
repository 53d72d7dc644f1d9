-------------------------- MODULE AuditChainProofs --------------------------
(***************************************************************************)
(* Proofs for any numbers of tenants, writers, readers and rows:           *)
(* concurrent writers keep every tenant's audit chain intact and never     *)
(* lose a row to the unique index; Verify and Export read an untouched     *)
(* chain completely, and their verdict on a chain is right.                *)
(***************************************************************************)
EXTENDS AuditChain, TLAPS

\* Shapes of the functions the actions update.
Shape ==
    /\ table = [t \in Tenants |-> table[t]]
    /\ row = [w \in Writers |-> row[w]]
    /\ removed = [t \in Tenants |-> removed[t]]
    /\ \A w \in Writers : row[w].seq \in Nat
    /\ \A w \in Writers : pc[w] # "idle" => row[w].body \in Bodies
    /\ \A w \in Writers : pc[w] \in {"insert", "commit"} => row[w].seq # 0
    /\ \A t \in Tenants : \A r \in removed[t] : r.seq \in Nat \ {0} /\ r.body \in Bodies

\* A writer past the advisory lock holds the lock of its tenant.
HoldsLock ==
    \A w \in Writers : pc[w] \in {"tail", "insert", "commit"} => lock[tenant[w]] = w

\* Row r may be appended to the chain of t: it continues the tail.
Continues(t, r) ==
    /\ r.seq \in Nat \ {0}
    /\ r.hash = Hash(r.prev, Canonical(t, r.seq, r.body))
    /\ \A q \in table[t] : q.seq < r.seq
    /\ r.seq = 1 => r.prev = GenesisHash
    /\ r.seq > 1 => \E q \in table[t] : q.seq = r.seq - 1 /\ q.hash = r.prev

\* A row computed from the tail still continues it when it is inserted.
PendingContinues ==
    \A w \in Writers :
        pc[w] \in {"insert", "commit"} /\ changed[tenant[w]] = "no" => Continues(tenant[w], row[w])

\* The inductive invariant.
IInv ==
    /\ TypeOK
    /\ Shape
    /\ HoldsLock
    /\ PendingContinues
    /\ ChainIntact
    /\ NoRowLost

\* Initially nothing is chained, locked or pending.
LEMMA InitIInv == Init => IInv
  BY SMTT(40), AuditAssumption DEF Init, IInv, TypeOK, Shape, HoldsLock, PendingContinues, ChainIntact,
     NoRowLost, Intact, NoRow, NoTenant

\* A row that was waiting and is left alone still continues the chain when the
\* table is left alone.
LEMMA PendingKept ==
    ASSUME PendingContinues, table' = table, changed' = changed,
           \A x \in Writers : pc'[x] \in {"insert", "commit"} =>
               pc[x] \in {"insert", "commit"} /\ tenant'[x] = tenant[x] /\ row'[x] = row[x]
    PROVE  PendingContinues'
  <1>1. SUFFICES ASSUME NEW x \in Writers, pc'[x] \in {"insert", "commit"}, changed'[tenant'[x]] = "no"
                 PROVE  Continues(tenant[x], row[x])'
    BY Zenon DEF PendingContinues
  <1>2. pc[x] \in {"insert", "commit"} /\ tenant'[x] = tenant[x] /\ row'[x] = row[x]
    BY Zenon, <1>1
  <1>3. changed[tenant[x]] = "no"
    BY Zenon, <1>1, <1>2
  <1>4. Continues(tenant[x], row[x])
    BY Zenon, <1>2, <1>3 DEF PendingContinues
  <1>. QED BY Zenon, <1>2, <1>4 DEF Continues

\* Steps that change only the stage of writers, and locks, keep the invariant.
LEMMA BeginStep ==
    ASSUME IInv, NEW w \in Writers, NEW t \in Tenants, NEW b \in Bodies, Begin(w, t, b)
    PROVE  IInv'
  <1>1. TypeOK' /\ Shape'
    BY Zenon DEF IInv, TypeOK, Shape, Begin, NoRow
  <1>2. HoldsLock'
    BY Zenon DEF IInv, TypeOK, HoldsLock, Begin
  <1>3. PendingContinues'
    <2>1. table' = table /\ changed' = changed
      BY Zenon DEF Begin
    <2>2. \A x \in Writers : pc'[x] \in {"insert", "commit"} =>
              pc[x] \in {"insert", "commit"} /\ tenant'[x] = tenant[x] /\ row'[x] = row[x]
      BY Zenon DEF IInv, TypeOK, Shape, Begin
    <2>. QED BY Zenon, <2>1, <2>2, PendingKept DEF IInv
  <1>4. ChainIntact' /\ NoRowLost'
    BY Zenon DEF IInv, ChainIntact, NoRowLost, Intact, Begin
  <1>. QED BY Zenon, <1>1, <1>2, <1>3, <1>4 DEF IInv

\* The advisory lock is granted to one writer at a time.
LEMMA LockStep ==
    ASSUME IInv, NEW w \in Writers, Lock(w)
    PROVE  IInv'
  <1>1. TypeOK' /\ Shape'
    BY Zenon DEF IInv, TypeOK, Shape, Lock
  <1>2. HoldsLock'
    BY Zenon, AuditAssumption DEF IInv, TypeOK, HoldsLock, Lock
  <1>3. PendingContinues'
    <2>1. table' = table /\ changed' = changed
      BY Zenon DEF Lock
    <2>2. \A x \in Writers : pc'[x] \in {"insert", "commit"} =>
              pc[x] \in {"insert", "commit"} /\ tenant'[x] = tenant[x] /\ row'[x] = row[x]
      BY Zenon DEF IInv, TypeOK, Shape, Lock
    <2>. QED BY Zenon, <2>1, <2>2, PendingKept DEF IInv
  <1>4. ChainIntact' /\ NoRowLost'
    BY Zenon DEF IInv, ChainIntact, NoRowLost, Intact, Lock
  <1>. QED BY Zenon, <1>1, <1>2, <1>3, <1>4 DEF IInv

\* The trigger computes a row that continues the tail it has read.
LEMMA ChainRowStep ==
    ASSUME IInv, NEW w \in Writers, ChainRow(w)
    PROVE  IInv'
  <1> DEFINE t == tenant[w]
  <1>0. t \in Tenants
    BY Zenon DEF IInv, TypeOK, ChainRow
  <1>1. PICK n, p :
            /\ n \in Nat \ {0}
            /\ row' = [row EXCEPT ![w] = Chained(t, n, @.body, p)]
            /\ \A q \in table[t] : q.seq < n
            /\ n = 1 => p = GenesisHash
            /\ n > 1 => \E q \in table[t] : q.seq = n - 1 /\ q.hash = p
    <2>1. CASE table[t] = {} /\ row' = [row EXCEPT ![w] = Chained(t, 1, @.body, GenesisHash)]
      <3>1. \A q \in table[t] : q.seq < 1
        BY Zenon, <2>1
      <3>2. 1 \in Nat \ {0} /\ ~(1 > 1)
        BY SMTT(40)
      <3>. QED BY Zenon, <2>1, <3>1, <3>2
    <2>2. CASE \E r \in table[t] : IsTail(t, r) /\ row' = [row EXCEPT ![w] = Chained(t, r.seq + 1, @.body, r.hash)]
      <3>1. PICK r \in table[t] : IsTail(t, r) /\ row' = [row EXCEPT ![w] = Chained(t, r.seq + 1, @.body, r.hash)]
        BY Zenon, <2>2
      <3>2. r.seq \in Nat \ {0} /\ \A q \in table[t] : q.seq \in Nat
        BY Zenon, <1>0 DEF IInv, TypeOK
      <3>3. \A q \in table[t] : q.seq < r.seq + 1
        BY SMTT(40), <3>1, <3>2 DEF IsTail
      <3>4. r.seq + 1 \in Nat \ {0} /\ r.seq + 1 > 1 /\ r.seq + 1 # 1 /\ (r.seq + 1) - 1 = r.seq
        BY SMTT(40), <3>2
      <3>. QED BY Zenon, <3>1, <3>3, <3>4
    <2>. QED BY Zenon, <2>1, <2>2 DEF ChainRow
  <1>2. row'[w] = [seq |-> n, body |-> row[w].body, prev |-> p, hash |-> Hash(p, Canonical(t, n, row[w].body))]
    BY Zenon, <1>1 DEF Chained, IInv, Shape
  <1>3. \A x \in Writers : x # w => row'[x] = row[x]
    BY Zenon, <1>1 DEF IInv, Shape
  <1>4. TypeOK'
    BY Zenon DEF IInv, TypeOK, ChainRow
  <1>5. Shape'
    <2>1. row' = [x \in Writers |-> row'[x]]
      BY Zenon, <1>1 DEF IInv, Shape
    <2>2. n \in Nat \ {0}
      BY Zenon, <1>1
    <2>. QED BY SMTT(40), <1>2, <1>3, <2>1, <2>2 DEF IInv, Shape, TypeOK, ChainRow
  <1>6. HoldsLock'
    BY Zenon DEF IInv, TypeOK, HoldsLock, ChainRow
  <1>7. Continues(t, row'[w])
    BY SMTT(40), <1>1, <1>2 DEF Continues
  <1>8. PendingContinues'
    <2>1. SUFFICES ASSUME NEW x \in Writers, pc'[x] \in {"insert", "commit"}, changed'[tenant'[x]] = "no"
                   PROVE  Continues(tenant[x], row[x])'
      BY Zenon DEF PendingContinues
    <2>2. table' = table /\ tenant' = tenant /\ changed' = changed
      BY Zenon DEF ChainRow
    <2>3. CASE x = w
      BY Zenon, <1>7, <2>2, <2>3 DEF Continues
    <2>4. CASE x # w
      <3>1. pc[x] = pc'[x] /\ row'[x] = row[x]
        BY Zenon, <1>3, <2>4 DEF ChainRow, IInv, TypeOK
      <3>2. Continues(tenant[x], row[x])
        BY Zenon, <2>1, <2>2, <3>1 DEF IInv, PendingContinues
      <3>. QED BY Zenon, <2>2, <3>1, <3>2 DEF Continues
    <2>. QED BY Zenon, <2>3, <2>4
  <1>9. ChainIntact' /\ NoRowLost'
    BY ZenonT(60) DEF IInv, ChainIntact, NoRowLost, Intact, ChainRow
  <1>. QED BY Zenon, <1>4, <1>5, <1>6, <1>8, <1>9 DEF IInv

\* The unique index lets the row in.
LEMMA InsertRowStep ==
    ASSUME IInv, NEW w \in Writers, InsertRow(w)
    PROVE  IInv'
  <1>1. TypeOK' /\ Shape'
    BY Zenon DEF IInv, TypeOK, Shape, InsertRow
  <1>2. HoldsLock'
    BY Zenon DEF IInv, TypeOK, HoldsLock, InsertRow
  <1>3. PendingContinues'
    <2>1. table' = table /\ changed' = changed
      BY Zenon DEF InsertRow
    <2>2. \A x \in Writers : pc'[x] \in {"insert", "commit"} =>
              pc[x] \in {"insert", "commit"} /\ tenant'[x] = tenant[x] /\ row'[x] = row[x]
      BY Zenon DEF IInv, TypeOK, Shape, InsertRow
    <2>. QED BY Zenon, <2>1, <2>2, PendingKept DEF IInv
  <1>4. ChainIntact' /\ NoRowLost'
    BY Zenon DEF IInv, ChainIntact, NoRowLost, Intact, InsertRow
  <1>. QED BY Zenon, <1>1, <1>2, <1>3, <1>4 DEF IInv

\* A transaction that ends without committing leaves the other writers' locks.
LEMMA ReleaseStep ==
    ASSUME IInv, NEW w \in Writers,
           pc' = [pc EXCEPT ![w] = "idle"],
           row' = [row EXCEPT ![w] = NoRow],
           lock' = Release(w),
           UNCHANGED <<tenant, changed, removed>>
    PROVE  /\ lock' \in [Tenants -> Writers \cup {NoLock}]
           /\ pc' \in [Writers -> {"idle", "lock", "tail", "insert", "commit"}]
           /\ \A x \in Writers : pc'[x] # "idle" => tenant'[x] \in Tenants /\ x # w
           /\ row' = [x \in Writers |-> row'[x]]
           /\ \A x \in Writers : row'[x].seq \in Nat
           /\ \A x \in Writers : pc'[x] # "idle" => row'[x].body \in Bodies /\ row'[x] = row[x] /\ pc'[x] = pc[x]
           /\ \A x \in Writers : pc'[x] \in {"insert", "commit"} => row'[x].seq # 0
           /\ HoldsLock'
  BY Zenon DEF IInv, TypeOK, Shape, HoldsLock, Release, NoRow

\* A rollback keeps the invariant.
LEMMA RollbackStep ==
    ASSUME IInv, NEW w \in Writers, Rollback(w)
    PROVE  IInv'
  <1>1. pc' = [pc EXCEPT ![w] = "idle"] /\ row' = [row EXCEPT ![w] = NoRow] /\ lock' = Release(w)
        /\ UNCHANGED <<table, tenant, lost, changed, removed>>
    BY Zenon DEF Rollback
  <1>2. TypeOK' /\ Shape' /\ HoldsLock'
    BY Zenon, <1>1, ReleaseStep DEF IInv, TypeOK, Shape
  <1>3. PendingContinues'
    <2>1. \A x \in Writers : pc'[x] # "idle" => pc[x] = pc'[x] /\ row'[x] = row[x]
      BY Zenon, <1>1, ReleaseStep
    <2>. QED BY Zenon, <1>1, <2>1, PendingKept DEF IInv
  <1>4. ChainIntact' /\ NoRowLost'
    BY Zenon, <1>1 DEF IInv, ChainIntact, NoRowLost, Intact
  <1>. QED BY Zenon, <1>2, <1>3, <1>4 DEF IInv

\* A conflict on chain_seq needs a chain that maintenance has changed.
LEMMA InsertConflictStep ==
    ASSUME IInv, NEW w \in Writers, InsertConflict(w)
    PROVE  IInv'
  <1>1. /\ pc[w] = "insert"
        /\ \E r \in table[tenant[w]] : r.seq = row[w].seq
        /\ pc' = [pc EXCEPT ![w] = "idle"] /\ row' = [row EXCEPT ![w] = NoRow] /\ lock' = Release(w)
        /\ lost' = lost \cup {tenant[w]}
        /\ UNCHANGED <<table, tenant, changed, removed>>
    BY Zenon DEF InsertConflict
  <1>2. tenant[w] \in Tenants
    BY Zenon, <1>1 DEF IInv, TypeOK
  <1>3. TypeOK' /\ Shape' /\ HoldsLock'
    BY Zenon, <1>1, <1>2, ReleaseStep DEF IInv, TypeOK, Shape
  <1>4. PendingContinues'
    <2>1. \A x \in Writers : pc'[x] # "idle" => pc[x] = pc'[x] /\ row'[x] = row[x]
      BY Zenon, <1>1, ReleaseStep
    <2>. QED BY Zenon, <1>1, <2>1, PendingKept DEF IInv
  <1>5. ChainIntact'
    BY ZenonT(60), <1>1 DEF IInv, ChainIntact, Intact
  <1>6. changed[tenant[w]] # "no"
    <2>1. SUFFICES ASSUME changed[tenant[w]] = "no" PROVE FALSE
      BY Zenon
    <2>2. row[w].seq \in Nat /\ \A q \in table[tenant[w]] : q.seq < row[w].seq
      BY Zenon, <1>1, <2>1 DEF IInv, PendingContinues, Continues
    <2>. QED BY SMTT(40), <1>1, <2>2
  <1>7. NoRowLost'
    BY Zenon, <1>1, <1>6 DEF IInv, NoRowLost
  <1>. QED BY Zenon, <1>3, <1>4, <1>5, <1>7 DEF IInv

\* Committing appends a row that continues the chain.
LEMMA CommitStep ==
    ASSUME IInv, NEW w \in Writers, Commit(w)
    PROVE  IInv'
  <1> DEFINE t == tenant[w]
  <1>1. /\ pc[w] = "commit"
        /\ table' = [table EXCEPT ![t] = @ \cup {row[w]}]
        /\ pc' = [pc EXCEPT ![w] = "idle"] /\ row' = [row EXCEPT ![w] = NoRow] /\ lock' = Release(w)
        /\ UNCHANGED <<tenant, lost, changed, removed>>
    BY Zenon DEF Commit
  <1>2. t \in Tenants /\ row[w].seq \in Nat /\ row[w].body \in Bodies
    BY Zenon, <1>1 DEF IInv, TypeOK, Shape
  <1>3. table'[t] = table[t] \cup {row[w]} /\ \A u \in Tenants : u # t => table'[u] = table[u]
    BY Zenon, <1>1, <1>2 DEF IInv, Shape
  <1>4. TypeOK'
    <2>1. \A u \in Tenants : \A r \in table'[u] : r.seq \in Nat \ {0} /\ r.body \in Bodies
      BY SMTT(40), <1>1, <1>2, <1>3 DEF IInv, TypeOK, Shape
    <2>. QED BY Zenon, <1>1, <2>1, ReleaseStep DEF IInv, TypeOK
  <1>5. Shape'
    <2>1. table' = [u \in Tenants |-> table'[u]]
      BY Zenon, <1>1 DEF IInv, Shape
    <2>. QED BY Zenon, <1>1, <2>1, ReleaseStep DEF IInv, Shape
  <1>6. HoldsLock'
    BY Zenon, <1>1, ReleaseStep
  <1>7. PendingContinues'
    <2>1. SUFFICES ASSUME NEW x \in Writers, pc'[x] \in {"insert", "commit"}, changed'[tenant'[x]] = "no"
                   PROVE  Continues(tenant[x], row[x])'
      BY Zenon, <1>1, ReleaseStep DEF PendingContinues
    <2>2. x # w /\ pc[x] = pc'[x] /\ row'[x] = row[x] /\ tenant'[x] = tenant[x] /\ tenant[x] \in Tenants
      BY Zenon, <1>1, <2>1, ReleaseStep
    <2>3. tenant[x] # t
      BY Zenon, <1>1, <2>1, <2>2 DEF IInv, HoldsLock
    <2>4. Continues(tenant[x], row[x])
      BY Zenon, <1>1, <2>1, <2>2 DEF IInv, PendingContinues
    <2>. QED BY Zenon, <1>3, <2>2, <2>3, <2>4 DEF Continues
  <1>8. ChainIntact'
    <2>1. SUFFICES ASSUME NEW u \in Tenants, changed[u] = "no" PROVE Intact(u)'
      BY Zenon, <1>1 DEF ChainIntact
    <2>2. Intact(u) /\ \A r \in table[u] : r.seq \in Nat \ {0}
      BY Zenon, <2>1 DEF IInv, ChainIntact, TypeOK
    <2>3. CASE u # t
      BY Zenon, <1>3, <2>2, <2>3 DEF Intact
    <2>4. CASE u = t
      <3>1. Continues(t, row[w])
        BY Zenon, <1>1, <2>1, <2>4 DEF IInv, PendingContinues
      <3>2. \A r, q \in table'[t] : r.seq = q.seq => r = q
        BY SMTT(40), <1>3, <2>2, <2>4, <3>1 DEF Intact, Continues
      <3>3. \A r \in table'[t] : r.hash = Hash(r.prev, Canonical(t, r.seq, r.body)) /\ (r.seq = 1 => r.prev = GenesisHash)
        BY Zenon, <1>3, <2>2, <2>4, <3>1 DEF Intact, Continues
      <3>4. \A r \in table'[t] : r.seq > 1 => \E q \in table'[t] : q.seq = r.seq - 1 /\ q.hash = r.prev
        BY ZenonT(60), <1>3, <2>2, <2>4, <3>1 DEF Intact, Continues
      <3>. QED BY Zenon, <2>4, <3>2, <3>3, <3>4 DEF Intact
    <2>. QED BY Zenon, <2>3, <2>4
  <1>9. NoRowLost'
    BY Zenon, <1>1 DEF IInv, NoRowLost
  <1>. QED BY Zenon, <1>4, <1>5, <1>6, <1>7, <1>8, <1>9 DEF IInv

\* Maintenance and restoring mark the tenant as changed: the others keep their
\* chains.
LEMMA MaintenanceStep ==
    ASSUME IInv, NEW t \in Tenants, NEW rows, NEW gone, NEW mark,
           mark \in {"edit", "hole", "end", "restored"},
           \A r \in rows \cup gone : r.seq \in Nat \ {0} /\ r.body \in Bodies,
           table' = [table EXCEPT ![t] = rows],
           changed' = [changed EXCEPT ![t] = mark],
           removed' = [removed EXCEPT ![t] = gone],
           UNCHANGED <<lock, pc, tenant, row, lost>>
    PROVE  IInv'
  <1>1. table'[t] = rows /\ \A u \in Tenants : u # t => table'[u] = table[u]
    BY Zenon DEF IInv, Shape
  <1>2. removed'[t] = gone /\ \A u \in Tenants : u # t => removed'[u] = removed[u]
    BY Zenon DEF IInv, Shape
  <1>3. changed'[t] = mark /\ \A u \in Tenants : u # t => changed'[u] = changed[u]
    BY Zenon DEF IInv, TypeOK
  <1>4. TypeOK'
    BY Zenon, <1>1 DEF IInv, TypeOK
  <1>5. Shape'
    BY Zenon, <1>2 DEF IInv, Shape
  <1>6. HoldsLock'
    BY Zenon DEF IInv, HoldsLock
  <1>7. PendingContinues'
    <2>1. SUFFICES ASSUME NEW x \in Writers, pc[x] \in {"insert", "commit"}, changed'[tenant[x]] = "no"
                   PROVE  Continues(tenant[x], row[x])'
      BY Zenon DEF PendingContinues
    <2>2. tenant[x] \in Tenants
      BY Zenon, <2>1 DEF IInv, TypeOK
    <2>3. tenant[x] # t /\ changed[tenant[x]] = "no"
      BY Zenon, <1>3, <2>1, <2>2
    <2>4. Continues(tenant[x], row[x])
      BY Zenon, <2>1, <2>3 DEF IInv, PendingContinues
    <2>. QED BY Zenon, <1>1, <2>2, <2>3, <2>4 DEF Continues
  <1>8. ChainIntact'
    BY SMTT(40), <1>1, <1>3 DEF IInv, ChainIntact, Intact
  <1>9. NoRowLost'
    BY Zenon, <1>3 DEF IInv, NoRowLost, TypeOK
  <1>. QED BY Zenon, <1>4, <1>5, <1>6, <1>7, <1>8, <1>9 DEF IInv

\* Readers change nothing that writers and maintenance use.
LEMMA ReadersOnlyRead ==
    ASSUME NEW v \in Readers, ReaderStep(v)
    PROVE  UNCHANGED writing
  <1>1. ASSUME NEW t, StartVerify(v, t) PROVE UNCHANGED writing
    BY Zenon, <1>1 DEF StartVerify
  <1>2. ASSUME NEW t, NEW from, NEW to, NEW limit, StartExport(v, t, from, to, limit) PROVE UNCHANGED writing
    BY Zenon, <1>2 DEF StartExport
  <1>3. ASSUME ReadBatch(v) PROVE UNCHANGED writing
    BY Zenon, <1>3 DEF ReadBatch
  <1>4. ASSUME AddRow(v) PROVE UNCHANGED writing
    BY Zenon, <1>4 DEF AddRow
  <1>5. ASSUME Finish(v) PROVE UNCHANGED writing
    BY Zenon, <1>5 DEF Finish
  <1>. QED BY Zenon, <1>1, <1>2, <1>3, <1>4, <1>5 DEF ReaderStep

\* Every step keeps the inductive invariant.
LEMMA NextIInv == IInv /\ [Next]_vars => IInv'
  <1>1. SUFFICES ASSUME IInv, [Next]_vars PROVE IInv'
    BY Zenon
  <1>2. ASSUME NEW w \in Writers, WriterStep(w) PROVE IInv'
    BY Zenon, <1>1, <1>2, BeginStep, LockStep, ChainRowStep, InsertRowStep, InsertConflictStep, CommitStep, RollbackStep
       DEF WriterStep
  <1>3. ASSUME UNCHANGED writing PROVE IInv'
    <2>1. TypeOK' /\ Shape' /\ HoldsLock'
      BY Zenon, <1>1, <1>3 DEF writing, IInv, TypeOK, Shape, HoldsLock
    <2>2. PendingContinues'
      BY Zenon, <1>1, <1>3, PendingKept DEF writing, IInv
    <2>3. ChainIntact' /\ NoRowLost'
      BY Zenon, <1>1, <1>3 DEF writing, IInv, ChainIntact, Intact, NoRowLost
    <2>. QED BY Zenon, <2>1, <2>2, <2>3 DEF IInv
  <1>4. ASSUME NEW v \in Readers, ReaderStep(v) PROVE IInv'
    <2>1. UNCHANGED writing
      BY Zenon, <1>4, ReadersOnlyRead
    <2>. QED BY Zenon, <1>3, <2>1
  <1>5. ASSUME NEW t \in Tenants, NEW r \in table[t], NEW b \in Bodies, MaintainUpdate(t, r, b) PROVE IInv'
    <2> DEFINE new == [seq |-> r.seq, body |-> b, prev |-> r.prev, hash |-> r.hash]
    <2>1. /\ table' = [table EXCEPT ![t] = (table[t] \ {r}) \cup {new}]
          /\ changed' = [changed EXCEPT ![t] = "edit"]
          /\ removed' = [removed EXCEPT ![t] = removed[t]]
          /\ UNCHANGED <<lock, pc, tenant, row, lost>>
      BY Zenon, <1>1, <1>5 DEF MaintainUpdate, IInv, Shape
    <2>2. \A q \in ((table[t] \ {r}) \cup {new}) \cup removed[t] : q.seq \in Nat \ {0} /\ q.body \in Bodies
      BY SMTT(40), <1>1 DEF IInv, TypeOK, Shape
    <2>. QED BY Zenon, <1>1, <2>1, <2>2, MaintenanceStep
  <1>6. ASSUME NEW t \in Tenants, NEW r \in table[t], MaintainDelete(t, r) PROVE IInv'
    <2>1. PICK mark \in {"hole", "end"} :
            /\ table' = [table EXCEPT ![t] = table[t] \ {r}]
            /\ changed' = [changed EXCEPT ![t] = mark]
            /\ removed' = [removed EXCEPT ![t] = {r}]
            /\ UNCHANGED <<lock, pc, tenant, row, lost>>
      BY Zenon, <1>6 DEF MaintainDelete
    <2>2. \A q \in (table[t] \ {r}) \cup {r} : q.seq \in Nat \ {0} /\ q.body \in Bodies
      BY Zenon, <1>1 DEF IInv, TypeOK
    <2>. QED BY Zenon, <1>1, <2>1, <2>2, MaintenanceStep
  <1>7. ASSUME NEW t \in Tenants, NEW r \in removed[t], RestoreRow(t, r) PROVE IInv'
    <2>1. /\ table' = [table EXCEPT ![t] = table[t] \cup {r}]
          /\ changed' = [changed EXCEPT ![t] = "restored"]
          /\ removed' = [removed EXCEPT ![t] = {}]
          /\ UNCHANGED <<lock, pc, tenant, row, lost>>
      BY Zenon, <1>7 DEF RestoreRow
    <2>2. \A q \in (table[t] \cup {r}) \cup {} : q.seq \in Nat \ {0} /\ q.body \in Bodies
      BY Zenon, <1>1, <1>7 DEF IInv, TypeOK, Shape
    <2>. QED BY Zenon, <1>1, <2>1, <2>2, MaintenanceStep
  <1>. QED
    BY Zenon, <1>1, <1>2, <1>3, <1>4, <1>5, <1>6, <1>7 DEF Next, Maintain, Restore, vars, writing

\* The inductive invariant holds of every reachable state.
THEOREM InductiveInvariant == Spec => []IInv
  BY InitIInv, NextIInv, PTL DEF Spec

\* The table, its locks and its writers keep their types.
THEOREM TypeCorrect == Spec => []TypeOK
  <1>1. IInv => TypeOK
    BY Zenon DEF IInv
  <1>. QED BY <1>1, InductiveInvariant, PTL

\* Concurrent writers never fork the chain of a tenant: the advisory lock held
\* until commit makes every row continue the one committed before it.
THEOREM NeverForks == Spec => []ChainIntact
  <1>1. IInv => ChainIntact
    BY Zenon DEF IInv
  <1>. QED BY <1>1, InductiveInvariant, PTL

\* No request loses its audit row to the unique index.
THEOREM AllRowsAccepted == Spec => []NoRowLost
  <1>1. IInv => NoRowLost
    BY Zenon DEF IInv
  <1>. QED BY <1>1, InductiveInvariant, PTL

\* A committed row of a chain that maintenance left alone is never changed.
THEOREM NeverRewritten == Spec => AppendOnly
  <1>1. ASSUME IInv, [Next]_vars
        PROVE  [\A t \in Tenants : changed'[t] = "no" => table[t] \subseteq table'[t]]_vars
    <2>1. SUFFICES ASSUME NEW t \in Tenants, changed'[t] = "no" PROVE table[t] \subseteq table'[t]
      BY Zenon
    <2>2. ASSUME NEW w \in Writers, WriterStep(w) PROVE table[t] \subseteq table'[t]
      BY ZenonT(30), <1>1, <2>2 DEF WriterStep, Begin, Lock, ChainRow, InsertRow, InsertConflict, Commit, Rollback, IInv, Shape
    <2>3. ASSUME NEW v \in Readers, ReaderStep(v) PROVE table[t] \subseteq table'[t]
      BY Zenon, <2>3, ReadersOnlyRead DEF writing
    <2>4. ASSUME Maintain PROVE table[t] \subseteq table'[t]
      BY ZenonT(60), <1>1, <2>1, <2>4 DEF Maintain, MaintainUpdate, MaintainDelete, IInv, Shape, TypeOK
    <2>5. ASSUME Restore PROVE table[t] \subseteq table'[t]
      BY SMTT(40), <1>1, <2>5 DEF Restore, RestoreRow, IInv, Shape
    <2>. QED BY Zenon, <1>1, <2>2, <2>3, <2>4, <2>5 DEF Next, vars, writing
  <1>. QED BY <1>1, InductiveInvariant, PTL DEF Spec, AppendOnly

(***************************************************************************)
(* Readers of the chain, and chains under maintenance.  The parts of the   *)
(* invariant are stated of a tenant's rows, of the deleted row kept by the *)
(* operator and of the mark that says what maintenance did.                *)
(***************************************************************************)
Marks == {"no", "edit", "hole", "end", "restored"}

\* Until a deletion at an end, sequence numbers only grow.
Growing == {"no", "edit", "hole"}

Taken(rows, r) == \E q \in rows : q.seq = r.seq

BadHash(t, r) == r.hash # Hash(r.prev, Canonical(t, r.seq, r.body))

\* A set of rows that is one chain, and a row that may be appended to it.
ChainOf(t, rows) ==
    /\ \A r, q \in rows : r.seq = q.seq => r = q
    /\ \A r \in rows :
          /\ r.hash = Hash(r.prev, Canonical(t, r.seq, r.body))
          /\ r.seq = 1 => r.prev = GenesisHash
          /\ r.seq > 1 => \E q \in rows : q.seq = r.seq - 1 /\ q.hash = r.prev

Prolongs(t, rows, r) ==
    /\ r.seq \in Nat \ {0}
    /\ r.hash = Hash(r.prev, Canonical(t, r.seq, r.body))
    /\ \A q \in rows : q.seq < r.seq
    /\ r.seq = 1 => r.prev = GenesisHash
    /\ r.seq > 1 => \E q \in rows : q.seq = r.seq - 1 /\ q.hash = r.prev

Numbered(rows) == \A r \in rows : r.seq \in Nat \ {0}

\* An untouched chain has a tail.  An edit leaves a row whose hash is wrong; a
\* deletion from the middle leaves a number without a row between two that have
\* one.  A deleted row completes the chain, unless its number has been taken.
ChainSound(t, rows, gone, mark) ==
    /\ Numbered(rows) /\ Numbered(gone)
    /\ mark \in Growing => \A r, q \in rows : r.seq = q.seq => r = q
    /\ mark = "no" /\ rows # {} => \E r \in rows : \A q \in rows : q.seq <= r.seq
    /\ mark = "edit" => \E e \in rows : BadHash(t, e)
    /\ mark = "hole" => \A g \in gone :
          /\ ~Taken(rows, g)
          /\ \E q \in rows : q.seq < g.seq
          /\ \E q \in rows : q.seq > g.seq
    /\ mark \in {"hole", "end"} => \E g \in gone : gone = {g} /\ (Taken(rows, g) \/ ChainOf(t, rows \cup {g}))
    /\ mark \in {"no", "edit", "restored"} => gone = {}
    /\ mark = "restored" => ChainOf(t, rows)

\* A waiting row is above all rows as long as numbers grow, takes the number of
\* the deleted row or continues the completed chain, and after the restore
\* continues the chain or is refused.
WaitSound(t, rows, gone, mark, stage, r) ==
    /\ mark \in Growing => \A q \in rows : q.seq < r.seq
    /\ mark \in {"hole", "end"} => \A g \in gone :
          Taken(rows, g) \/ r.seq = g.seq \/ Prolongs(t, rows \cup {g}, r)
    /\ mark = "restored" => Prolongs(t, rows, r) \/ (stage = "insert" /\ Taken(rows, r))

ChainsSound == \A t \in Tenants : ChainSound(t, table[t], removed[t], changed[t])

WaitersSound ==
    \A w \in Writers : pc[w] \in {"insert", "commit"} =>
        WaitSound(tenant[w], table[tenant[w]], removed[tenant[w]], changed[tenant[w]], pc[w], row[w])

\* What a reader has yet to read comes after what it has read and what it holds.
BatchInOrder(rd, rows) ==
    /\ rd.queue \subseteq rows
    /\ \A q \in rd.queue : q.seq > rd.after
    /\ \A r \in rows \ rd.queue : r.seq > rd.after => \A q \in rd.queue : q.seq < r.seq
    /\ rd.started => rd.lastSeq = rd.after

\* An untouched chain has been read without a gap, up to rd.after.
ReadSoFar(rd, rows) ==
    /\ ~rd.broken
    /\ rd.seen = rd.from .. rd.after /\ rd.after >= rd.from - 1
    /\ rd.started => \E r \in rows : r.seq = rd.after /\ r.hash = rd.lastHash
    /\ rd.kind = "verify" =>
          /\ rd.head = 0 \/ \E r \in rows : r.seq = rd.head
          /\ ~rd.more => \A r \in rows : r.seq > rd.after /\ r.seq <= rd.head => r \in rd.queue

\* Row r is still to be read.
Ahead(rd, r) == r.seq > rd.after /\ (~rd.more => r \in rd.queue)

\* The damage has been reported or is still ahead.
EditAhead(rd, rows) == rd.broken \/ \E e \in rows : BadHash(rd.tenant, e) /\ Ahead(rd, e)

HoleAhead(rd, rows, gone) ==
    rd.broken \/ \A g \in gone :
        /\ rd.after < g.seq
        /\ \E q \in rows : q.seq > g.seq /\ Ahead(rd, q)
        /\ ~rd.started => \E q \in rows : q.seq < g.seq /\ Ahead(rd, q)

\* Types of the fields of a reader that is at work.  A chain that is untouched
\* was so when the call started.
ReaderType(rd, mark) ==
    /\ DOMAIN rd = {"kind", "tenant", "from", "after", "end", "left", "queue", "more", "started",
                    "lastSeq", "lastHash", "broken", "seen", "head", "changed"}
    /\ rd.kind \in {"verify", "export"}
    /\ rd.tenant \in Tenants
    /\ rd.from \in Nat \ {0} /\ rd.after \in Nat /\ \A q \in rd.queue : q.seq \in Nat
    /\ rd.more \in BOOLEAN /\ rd.started \in BOOLEAN /\ rd.broken \in BOOLEAN
    /\ rd.kind = "verify" => rd.end = 0 /\ rd.from = 1
    /\ mark = "no" => rd.changed = "no" /\ rd.end \in Nat /\ rd.head \in Nat

\* What holds of a reader as long as the chain is as it was when it started.
ReaderSound(rd, rows, gone, mark) ==
    rd.changed = mark =>
        /\ mark = "no" \/ (mark \in Growing /\ rd.kind = "verify") => BatchInOrder(rd, rows)
        /\ mark = "no" => ReadSoFar(rd, rows)
        /\ mark = "edit" /\ rd.kind = "verify" => EditAhead(rd, rows)
        /\ mark = "hole" /\ rd.kind = "verify" => HoleAhead(rd, rows, gone)

ReadersSound ==
    \A v \in Readers : reader[v].kind # "idle" =>
        /\ ReaderType(reader[v], changed[reader[v].tenant])
        /\ ReaderSound(reader[v], table[reader[v].tenant], removed[reader[v].tenant], changed[reader[v].tenant])

\* What a call returned is right as long as the chain is as it was when the call started.
ResultSound(res, mark) ==
    /\ res.tenant \in Tenants
    /\ mark = "no" =>
          /\ res.changed = "no"
          /\ res.valid
          /\ res.seen = res.from .. (res.next - 1)
          /\ res.kind = "verify" => res.head \in res.seen \cup {0}
    /\ res.kind = "verify" /\ mark \in {"edit", "hole"} /\ res.changed = mark => ~res.valid

ResultsSound ==
    \A v \in Readers : result[v].kind # "idle" => ResultSound(result[v], changed[result[v].tenant])

\* The inductive invariant of readers and maintenance.
ReadInv ==
    /\ IInv
    /\ ChainsSound /\ WaitersSound
    /\ reader = [v \in Readers |-> reader[v]] /\ ReadersSound
    /\ result = [v \in Readers |-> result[v]] /\ ResultsSound

(***************************************************************************)
(* What each write does to a tenant's chain and to the waiting rows.       *)
(***************************************************************************)
\* An untouched chain is ChainOf its rows, and a waiting row prolongs them.
LEMMA IntactIsChainOf ==
    ASSUME NEW t, Intact(t)
    PROVE  ChainOf(t, table[t])
  BY Zenon DEF Intact, ChainOf

\* The row that the trigger computes from the tail is a sound waiting row.
LEMMA ChainedWaits ==
    ASSUME NEW t, NEW rows, NEW gone, NEW mark \in Marks, ChainSound(t, rows, gone, mark),
           NEW n \in Nat \ {0}, NEW p, NEW r, r.seq = n, r.prev = p,
           r.hash = Hash(r.prev, Canonical(t, r.seq, r.body)),
           \/ rows = {} /\ n = 1 /\ p = GenesisHash
           \/ \E q \in rows : (\A x \in rows : x.seq <= q.seq) /\ n = q.seq + 1 /\ p = q.hash
    PROVE  WaitSound(t, rows, gone, mark, "insert", r)
  <1>1. Numbered(rows) /\ Numbered(gone)
    BY Zenon DEF ChainSound
  <1>2. \A q \in rows : q.seq < n
    BY SMTT(40), <1>1 DEF Numbered
  <1>3. Prolongs(t, rows, r)
    BY SMTT(40), <1>1, <1>2 DEF Prolongs, Numbered
  <1>4. ASSUME NEW g \in gone, mark \in {"hole", "end"}
        PROVE  Taken(rows, g) \/ r.seq = g.seq \/ Prolongs(t, rows \cup {g}, r)
    <2>0. PICK h \in gone : gone = {h} /\ (Taken(rows, h) \/ ChainOf(t, rows \cup {h}))
      BY Zenon, <1>4 DEF ChainSound
    <2>1. Taken(rows, g) \/ ChainOf(t, rows \cup {g})
      BY Zenon, <2>0, g = h
    <2>2. SUFFICES ASSUME ChainOf(t, rows \cup {g}), r.seq # g.seq PROVE Prolongs(t, rows \cup {g}, r)
      BY Zenon, <2>1
    <2>3. g.seq \in Nat \ {0}
      BY Zenon, <1>1 DEF Numbered
    <2>4. g.seq < n
      <3>1. SUFFICES ASSUME g.seq > n PROVE FALSE
        BY SMTT(40), <2>2, <2>3
      <3>2. PICK q \in rows \cup {g} : q.seq = g.seq - 1
        BY SMTT(40), <2>2, <2>3, <3>1 DEF ChainOf
      <3>3. q \in rows
        BY SMTT(40), <2>3, <3>2
      <3>. QED BY SMTT(40), <1>2, <2>3, <3>1, <3>2, <3>3
    <2>. QED BY Zenon, <1>3, <2>4 DEF Prolongs
  <1>. QED BY Zenon, <1>2, <1>3, <1>4 DEF WaitSound

\* A committed row keeps the chain sound, in whatever way it was damaged.
LEMMA CommitKeepsChain ==
    ASSUME NEW t, NEW rows, NEW gone, NEW mark \in Marks, ChainSound(t, rows, gone, mark),
           NEW r, r.seq \in Nat \ {0}, WaitSound(t, rows, gone, mark, "commit", r)
    PROVE  ChainSound(t, rows \cup {r}, gone, mark)
  <1>1. Numbered(rows) /\ Numbered(gone) /\ Numbered(rows \cup {r})
    BY Zenon DEF ChainSound, Numbered
  <1>2. ASSUME mark \in Growing PROVE \A x, q \in rows \cup {r} : x.seq = q.seq => x = q
    <2>1. \A q \in rows : q.seq < r.seq /\ q.seq \in Nat
      BY Zenon, <1>1, <1>2 DEF WaitSound, Numbered
    <2>2. \A x, q \in rows : x.seq = q.seq => x = q
      BY Zenon, <1>2 DEF ChainSound
    <2>. QED BY SMTT(40), <2>1, <2>2
  <1>3. ASSUME mark = "no" PROVE \E x \in rows \cup {r} : \A q \in rows \cup {r} : q.seq <= x.seq
    <2>1. \A q \in rows : q.seq < r.seq /\ q.seq \in Nat
      BY Zenon, <1>1, <1>3 DEF WaitSound, Growing, Numbered
    <2>2. \A q \in rows \cup {r} : q.seq <= r.seq
      BY SMTT(40), <2>1
    <2>. QED BY Zenon, <2>2
  <1>4. ASSUME mark = "edit" PROVE \E e \in rows \cup {r} : BadHash(t, e)
    BY Zenon, <1>4 DEF ChainSound
  <1>5. ASSUME mark = "hole", NEW g \in gone
        PROVE  /\ ~Taken(rows \cup {r}, g)
               /\ \E q \in rows \cup {r} : q.seq < g.seq
               /\ \E q \in rows \cup {r} : q.seq > g.seq
    <2>1. ~Taken(rows, g) /\ (\E q \in rows : q.seq < g.seq) /\ (\E q \in rows : q.seq > g.seq)
      BY Zenon, <1>5 DEF ChainSound
    <2>2. \A q \in rows : q.seq < r.seq /\ q.seq \in Nat
      BY Zenon, <1>1, <1>5 DEF WaitSound, Growing, Numbered
    <2>3. g.seq \in Nat
      BY Zenon, <1>1 DEF Numbered
    <2>. QED BY SMTT(40), <2>1, <2>2, <2>3 DEF Taken
  <1>6. ASSUME mark \in {"hole", "end"}
        PROVE  \E g \in gone : gone = {g} /\ (Taken(rows \cup {r}, g) \/ ChainOf(t, (rows \cup {r}) \cup {g}))
    <2>1. PICK g \in gone : gone = {g} /\ (Taken(rows, g) \/ ChainOf(t, rows \cup {g}))
      BY Zenon, <1>6 DEF ChainSound
    <2>2. CASE Taken(rows, g) \/ r.seq = g.seq
      BY Zenon, <2>1, <2>2 DEF Taken
    <2>3. CASE ChainOf(t, rows \cup {g}) /\ Prolongs(t, rows \cup {g}, r)
      <3>1. Numbered(rows \cup {g})
        BY Zenon, <1>1 DEF Numbered
      <3>2. ChainOf(t, (rows \cup {r}) \cup {g})
        BY SMTT(40), <2>3, <3>1 DEF ChainOf, Prolongs, Numbered
      <3>. QED BY Zenon, <2>1, <3>2
    <2>. QED BY Zenon, <1>6, <2>1, <2>2, <2>3 DEF WaitSound
  <1>7. mark \in {"no", "edit", "restored"} => gone = {}
    BY Zenon DEF ChainSound
  <1>8. ASSUME mark = "restored" PROVE ChainOf(t, rows \cup {r})
    <2>1. ChainOf(t, rows) /\ Prolongs(t, rows, r)
      BY Zenon, <1>8 DEF ChainSound, WaitSound
    <2>. QED BY SMTT(40), <1>1, <2>1 DEF ChainOf, Prolongs, Numbered
  <1>. QED BY Zenon, <1>1, <1>2, <1>3, <1>4, <1>5, <1>6, <1>7, <1>8 DEF ChainSound

\* Editing the body of a row leaves its hash wrong and every number in place.
LEMMA EditDamages ==
    ASSUME NEW t, NEW rows, NEW gone, ChainSound(t, rows, gone, "no"), ChainOf(t, rows),
           NEW x \in rows, NEW b, b # x.body, NEW y,
           y = [seq |-> x.seq, body |-> b, prev |-> x.prev, hash |-> x.hash],
           NEW edited, edited = (rows \ {x}) \cup {y}
    PROVE  /\ ChainSound(t, edited, gone, "edit")
           /\ \A stage, r : WaitSound(t, rows, gone, "no", stage, r) => WaitSound(t, edited, gone, "edit", stage, r)
  <1>1. y.seq = x.seq /\ y.body = b /\ y.prev = x.prev /\ y.hash = x.hash
    BY Zenon
  <1>2. BadHash(t, y)
    BY SMTT(40), <1>1 DEF BadHash, ChainOf, Hash, Canonical
  <1>3. Numbered(rows) /\ Numbered(gone) /\ gone = {}
    BY Zenon DEF ChainSound
  <1>4. ChainSound(t, edited, gone, "edit")
    <2>1. Numbered(edited)
      BY Zenon, <1>1, <1>3 DEF Numbered
    <2>2. \A r, q \in edited : r.seq = q.seq => r = q
      BY SMTT(40), <1>1 DEF ChainOf
    <2>3. \E e \in edited : BadHash(t, e)
      BY Zenon, <1>2
    <2>. QED BY Zenon, <1>3, <2>1, <2>2, <2>3 DEF ChainSound
  <1>5. ASSUME NEW stage, NEW r, WaitSound(t, rows, gone, "no", stage, r)
        PROVE  WaitSound(t, edited, gone, "edit", stage, r)
    BY Zenon, <1>1, <1>5 DEF WaitSound, Growing
  <1>. QED BY Zenon, <1>4, <1>5

\* A deleted row completes the chain; from the middle it leaves a hole.
LEMMA DeleteDamages ==
    ASSUME NEW t, NEW rows, NEW gone, ChainSound(t, rows, gone, "no"), ChainOf(t, rows), NEW x \in rows,
           NEW mark \in {"hole", "end"},
           mark = "hole" => (\E q \in rows : q.seq < x.seq) /\ (\E q \in rows : q.seq > x.seq)
    PROVE  /\ ChainSound(t, rows \ {x}, {x}, mark)
           /\ \A stage, r : Prolongs(t, rows, r) => WaitSound(t, rows \ {x}, {x}, mark, stage, r)
  <1>1. Numbered(rows \ {x}) /\ Numbered({x}) /\ Numbered(rows)
    BY Zenon DEF ChainSound, Numbered
  <1>2. (rows \ {x}) \cup {x} = rows
    BY Zenon
  <1>3. ~Taken(rows \ {x}, x)
    BY Zenon DEF Taken, ChainOf
  <1>4. ChainSound(t, rows \ {x}, {x}, mark)
    <2>1. \A r, q \in rows \ {x} : r.seq = q.seq => r = q
      BY Zenon DEF ChainOf
    <2>2. mark = "hole" => /\ \E q \in rows \ {x} : q.seq < x.seq
                           /\ \E q \in rows \ {x} : q.seq > x.seq
      BY SMTT(40), <1>1 DEF Numbered
    <2>3. ChainOf(t, (rows \ {x}) \cup {x})
      BY Zenon, <1>2
    <2>. QED BY Zenon, <1>1, <1>3, <2>1, <2>2, <2>3 DEF ChainSound
  <1>5. ASSUME NEW stage, NEW r, Prolongs(t, rows, r)
        PROVE  WaitSound(t, rows \ {x}, {x}, mark, stage, r)
    <2>1. Prolongs(t, (rows \ {x}) \cup {x}, r)
      BY Zenon, <1>2, <1>5
    <2>2. \A q \in rows \ {x} : q.seq < r.seq
      BY Zenon, <1>5 DEF Prolongs
    <2>. QED BY Zenon, <2>1, <2>2 DEF WaitSound
  <1>. QED BY Zenon, <1>4, <1>5

\* Restoring the deleted row makes the chain whole; a waiting row that has not
\* been inserted continues it or will be refused.
LEMMA RestoreCompletes ==
    ASSUME NEW t, NEW rows, NEW gone, NEW mark \in Marks, ChainSound(t, rows, gone, mark),
           NEW g \in gone, ~Taken(rows, g), NEW whole, whole = rows \cup {g}
    PROVE  /\ ChainSound(t, whole, {}, "restored")
           /\ \A r : \A stage \in {"insert", "commit"} :
                 WaitSound(t, rows, gone, mark, stage, r) /\ (stage = "commit" => r.seq # g.seq)
                 => WaitSound(t, whole, {}, "restored", stage, r)
  <1>1. mark \in {"hole", "end"}
    BY Zenon DEF ChainSound, Marks
  <1>2. ChainOf(t, whole)
    <2>1. PICK h \in gone : gone = {h} /\ (Taken(rows, h) \/ ChainOf(t, rows \cup {h}))
      BY Zenon, <1>1 DEF ChainSound
    <2>. QED BY Zenon, <2>1, g = h
  <1>3. ChainSound(t, whole, {}, "restored")
    <2>1. Numbered(whole) /\ Numbered({})
      BY Zenon DEF ChainSound, Numbered
    <2>. QED BY Zenon, <1>2, <2>1 DEF ChainSound, Growing
  <1>4. ASSUME NEW r, NEW stage \in {"insert", "commit"}, WaitSound(t, rows, gone, mark, stage, r),
               stage = "commit" => r.seq # g.seq
        PROVE  WaitSound(t, whole, {}, "restored", stage, r)
    <2>1. r.seq = g.seq \/ Prolongs(t, whole, r)
      BY Zenon, <1>1, <1>4 DEF WaitSound
    <2>2. r.seq = g.seq => Taken(whole, r) /\ stage = "insert"
      BY Zenon, <1>4 DEF Taken
    <2>. QED BY Zenon, <2>1, <2>2 DEF WaitSound, Growing
  <1>. QED BY Zenon, <1>3, <1>4

(***************************************************************************)
(* What a reader's steps, and rows appended meanwhile, do to what it knows. *)
(***************************************************************************)
\* Reader nd is rd with a batch read, and with row r fed to the verifier.
Filled(nd, rd, batch, more) ==
    /\ DOMAIN nd = DOMAIN rd
    /\ nd.queue = batch /\ nd.more = more
    /\ nd.kind = rd.kind /\ nd.tenant = rd.tenant /\ nd.from = rd.from /\ nd.after = rd.after
    /\ nd.end = rd.end /\ nd.started = rd.started /\ nd.lastSeq = rd.lastSeq
    /\ nd.lastHash = rd.lastHash /\ nd.broken = rd.broken /\ nd.seen = rd.seen
    /\ nd.head = rd.head /\ nd.changed = rd.changed

Fed(nd, rd, r, broken) ==
    /\ DOMAIN nd = DOMAIN rd
    /\ nd.queue = rd.queue \ {r} /\ nd.more = rd.more
    /\ nd.kind = rd.kind /\ nd.tenant = rd.tenant /\ nd.from = rd.from /\ nd.after = r.seq
    /\ nd.end = rd.end /\ nd.started = TRUE /\ nd.lastSeq = r.seq
    /\ nd.lastHash = r.hash /\ nd.broken = broken /\ nd.seen = rd.seen \cup {r.seq}
    /\ nd.head = rd.head /\ nd.changed = rd.changed

\* Reading a batch changes the batch and whether there is more.
LEMMA BatchFields ==
    ASSUME NEW rd, NEW mark, ReaderType(rd, mark), NEW batch, NEW more,
           NEW nd, nd = [rd EXCEPT !.queue = batch, !.more = more]
    PROVE  Filled(nd, rd, batch, more)
  BY Zenon DEF ReaderType, Filled

\* Feeding a row changes the position, the last hash and the verdict.
LEMMA RowFields ==
    ASSUME NEW rd, NEW mark, ReaderType(rd, mark), NEW r, NEW broken,
           NEW nd, nd = [rd EXCEPT !.queue = @ \ {r}, !.started = TRUE, !.lastSeq = r.seq, !.lastHash = r.hash,
                                   !.broken = broken, !.seen = @ \cup {r.seq},
                                   !.after = r.seq, !.left = @ - 1]
    PROVE  Fed(nd, rd, r, broken)
  BY Zenon DEF ReaderType, Fed

\* A batch holds the rows that come next.
LEMMA BatchSound ==
    ASSUME NEW t, NEW rows, NEW gone, NEW mark \in Marks, ChainSound(t, rows, gone, mark),
           NEW rd, ReaderType(rd, mark), ReaderSound(rd, rows, gone, mark), rd.tenant = t, rd.queue = {},
           NEW batch, NEW more \in BOOLEAN,
           NEW unread, unread = {r \in rows : r.seq > rd.after /\ (rd.end = 0 \/ r.seq <= rd.end)},
           batch \subseteq unread, \A r \in batch, q \in unread \ batch : r.seq < q.seq,
           ~more => batch = unread,
           NEW nd, Filled(nd, rd, batch, more)
    PROVE  ReaderType(nd, mark) /\ ReaderSound(nd, rows, gone, mark)
  <1>0. \A r \in batch : r.seq \in Nat
    BY Zenon DEF ChainSound, Numbered
  <1>1. /\ ReaderType(nd, mark)
        /\ nd.queue = batch /\ nd.more = more
        /\ nd.kind = rd.kind /\ nd.tenant = rd.tenant /\ nd.from = rd.from /\ nd.after = rd.after
        /\ nd.end = rd.end /\ nd.started = rd.started /\ nd.lastSeq = rd.lastSeq
        /\ nd.lastHash = rd.lastHash /\ nd.broken = rd.broken /\ nd.seen = rd.seen
        /\ nd.head = rd.head /\ nd.changed = rd.changed
    BY Zenon, <1>0 DEF ReaderType, Filled
  <1>2. SUFFICES ASSUME rd.changed = mark PROVE ReaderSound(nd, rows, gone, mark)
    BY Zenon, <1>1 DEF ReaderSound
  <1>3. Numbered(rows)
    BY Zenon DEF ChainSound
  <1>4. rd.after \in Nat /\ rd.more \in BOOLEAN /\ (rd.kind = "verify" => rd.end = 0)
    BY Zenon DEF ReaderType
  <1>5. ASSUME mark = "no" \/ (mark \in Growing /\ rd.kind = "verify") PROVE BatchInOrder(nd, rows)
    <2>1. rd.started => rd.lastSeq = rd.after
      BY Zenon, <1>2, <1>5 DEF ReaderSound, BatchInOrder
    <2>2. rd.end \in Nat
      BY SMTT(40), <1>5 DEF ReaderType
    <2>3. \A r \in rows \ batch : r.seq > rd.after => \A q \in batch : q.seq < r.seq
      BY SMTT(40), <1>3, <2>2 DEF Numbered
    <2>. QED BY Zenon, <1>1, <2>1, <2>3 DEF BatchInOrder
  <1>6. ASSUME mark = "no" PROVE ReadSoFar(nd, rows)
    <2>1. ReadSoFar(rd, rows)
      BY Zenon, <1>2, <1>6 DEF ReaderSound
    <2>. QED BY Zenon, <1>1, <1>4, <2>1 DEF ReadSoFar
  <1>7. ASSUME NEW r \in rows, rd.kind = "verify", Ahead(rd, r) PROVE Ahead(nd, r)
    BY Zenon, <1>1, <1>4, <1>7 DEF Ahead
  <1>8. ASSUME mark = "edit", rd.kind = "verify" PROVE EditAhead(nd, rows)
    <2>1. EditAhead(rd, rows)
      BY Zenon, <1>2, <1>8 DEF ReaderSound
    <2>. QED BY Zenon, <1>1, <1>7, <1>8, <2>1 DEF EditAhead
  <1>9. ASSUME mark = "hole", rd.kind = "verify" PROVE HoleAhead(nd, rows, gone)
    <2>1. HoleAhead(rd, rows, gone)
      BY Zenon, <1>2, <1>9 DEF ReaderSound
    <2>. QED BY Zenon, <1>1, <1>7, <1>9, <2>1 DEF HoleAhead
  <1>. QED BY Zenon, <1>1, <1>2, <1>5, <1>6, <1>8, <1>9 DEF ReaderSound

\* The next row of an untouched chain is the one after the last that was read.
LEMMA NextRowFollows ==
    ASSUME NEW t, NEW rows, Numbered(rows), ChainOf(t, rows),
           NEW rd, ReaderType(rd, "no"), BatchInOrder(rd, rows), ReadSoFar(rd, rows), rd.tenant = t,
           NEW r \in rd.queue, \A q \in rd.queue : r.seq <= q.seq
    PROVE  r \in rows /\ r.seq = rd.after + 1 /\ ~Breaks(rd, r)
  <1>1. /\ r \in rows /\ r.seq \in Nat /\ r.seq > rd.after /\ rd.after \in Nat /\ rd.started \in BOOLEAN
        /\ \A q \in rows : q.seq \in Nat
    BY Zenon DEF BatchInOrder, ReaderType, Numbered
  <1>2. r.seq = rd.after + 1
    <2>1. SUFFICES ASSUME r.seq > rd.after + 1 PROVE FALSE
      BY SMTT(40), <1>1
    <2>2. PICK p \in rows : p.seq = r.seq - 1
      BY SMTT(40), <1>1, <2>1 DEF ChainOf
    <2>3. p \notin rd.queue /\ p.seq > rd.after
      BY SMTT(40), <1>1, <2>1, <2>2
    <2>4. r.seq < p.seq
      BY Zenon, <2>2, <2>3 DEF BatchInOrder
    <2>. QED BY SMTT(40), <1>1, <2>2, <2>4
  <1>3. r.hash = Hash(r.prev, Canonical(rd.tenant, r.seq, r.body)) /\ (r.seq = 1 => r.prev = GenesisHash)
    BY Zenon, <1>1 DEF ChainOf
  <1>4. rd.started => r.seq = rd.lastSeq + 1 /\ r.prev = rd.lastHash
    <2>1. SUFFICES ASSUME rd.started PROVE r.seq = rd.lastSeq + 1 /\ r.prev = rd.lastHash
      BY Zenon
    <2>2. rd.lastSeq = rd.after
      BY Zenon, <2>1 DEF BatchInOrder
    <2>3. PICK x \in rows : x.seq = rd.after /\ x.hash = rd.lastHash
      BY Zenon, <2>1 DEF ReadSoFar
    <2>4. rd.after > 0
      BY SMTT(40), <1>1, <2>3 DEF Numbered
    <2>5. PICK p \in rows : p.seq = r.seq - 1 /\ p.hash = r.prev
      BY SMTT(40), <1>1, <1>2, <2>4 DEF ChainOf
    <2>6. p.seq = x.seq
      BY SMTT(40), <1>1, <1>2, <2>3, <2>5
    <2>7. p = x
      BY Zenon, <2>6 DEF ChainOf
    <2>. QED BY Zenon, <1>2, <2>2, <2>3, <2>5, <2>7
  <1>. QED BY Zenon, <1>1, <1>2, <1>3, <1>4 DEF Breaks

\* Feeding the next row to the verifier: an untouched chain goes on without a
\* break, and damage is reported or stays ahead.
LEMMA RowSound ==
    ASSUME NEW t, NEW rows, NEW gone, NEW mark \in Marks, ChainSound(t, rows, gone, mark),
           mark = "no" => ChainOf(t, rows),
           NEW rd, ReaderType(rd, mark), ReaderSound(rd, rows, gone, mark), rd.tenant = t,
           NEW r \in rd.queue, \A q \in rd.queue : r.seq <= q.seq,
           NEW broken \in BOOLEAN, broken <=> rd.broken \/ Breaks(rd, r),
           NEW nd, Fed(nd, rd, r, broken)
    PROVE  ReaderType(nd, mark) /\ ReaderSound(nd, rows, gone, mark)
  <1>1. /\ ReaderType(nd, mark) /\ DOMAIN nd = DOMAIN rd
        /\ nd.queue = rd.queue \ {r} /\ nd.more = rd.more
        /\ nd.kind = rd.kind /\ nd.tenant = rd.tenant /\ nd.from = rd.from /\ nd.after = r.seq
        /\ nd.end = rd.end /\ nd.started = TRUE /\ nd.lastSeq = r.seq
        /\ nd.lastHash = r.hash /\ nd.broken = broken /\ nd.seen = rd.seen \cup {r.seq}
        /\ nd.head = rd.head /\ nd.changed = rd.changed
    <2>1. r.seq \in Nat /\ (\A q \in rd.queue \ {r} : q.seq \in Nat)
      BY Zenon DEF ReaderType
    <2>2. TRUE \in BOOLEAN
      BY Zenon
    <2>. QED BY Zenon, <2>1, <2>2 DEF ReaderType, Fed
  <1>2. SUFFICES ASSUME rd.changed = mark, mark = "no" \/ (mark \in Growing /\ rd.kind = "verify")
                 PROVE  ReaderSound(nd, rows, gone, mark)
    BY Zenon, <1>1 DEF ReaderSound, Growing
  <1>3. Numbered(rows)
    BY Zenon DEF ChainSound
  <1>4. /\ rd.after \in Nat /\ rd.more \in BOOLEAN /\ rd.started \in BOOLEAN /\ rd.broken \in BOOLEAN
        /\ rd.from \in Nat
        /\ r.seq \in Nat /\ \A q \in rd.queue : q.seq \in Nat
        /\ \A q \in rows : q.seq \in Nat
    BY Zenon, <1>3 DEF ReaderType, Numbered
  <1>5. BatchInOrder(rd, rows)
    BY Zenon, <1>2 DEF ReaderSound
  <1>6. \A x, q \in rows : x.seq = q.seq => x = q
    BY Zenon, <1>2 DEF ChainSound, Growing
  <1>7. r \in rows /\ r.seq > rd.after
    BY Zenon, <1>5 DEF BatchInOrder
  <1>8. \A q \in rows : q.seq > rd.after /\ q # r => q.seq > r.seq
    <2>1. SUFFICES ASSUME NEW q \in rows, q.seq > rd.after, q # r PROVE q.seq > r.seq
      BY Zenon
    <2>2. CASE q \in rd.queue
      BY SMTT(40), <1>4, <1>6, <1>7, <2>1, <2>2
    <2>3. CASE q \notin rd.queue
      BY Zenon, <1>4, <1>5, <2>1, <2>3 DEF BatchInOrder
    <2>. QED BY Zenon, <2>2, <2>3
  <1>9. BatchInOrder(nd, rows)
    <2>1. nd.queue \subseteq rows
      BY Zenon, <1>1, <1>5 DEF BatchInOrder
    <2>2. \A q \in nd.queue : q.seq > nd.after
      BY Zenon, <1>1, <1>5, <1>8 DEF BatchInOrder
    <2>3. ASSUME NEW x \in rows \ nd.queue, x.seq > nd.after, NEW q \in nd.queue PROVE q.seq < x.seq
      <3>1. x # r /\ x \notin rd.queue /\ x.seq > rd.after /\ q \in rd.queue
        BY SMTT(40), <1>1, <1>4, <1>7, <2>3
      <3>. QED BY Zenon, <2>3, <3>1, <1>5 DEF BatchInOrder
    <2>. QED BY Zenon, <1>1, <2>1, <2>2, <2>3 DEF BatchInOrder
  <1>10. ASSUME NEW q \in rows, Ahead(rd, q), q # r PROVE Ahead(nd, q)
    BY Zenon, <1>1, <1>4, <1>8, <1>10 DEF Ahead
  <1>11. ASSUME mark = "no" PROVE ReadSoFar(nd, rows)
    <2>1. ReadSoFar(rd, rows) /\ ChainOf(t, rows) /\ ReaderType(rd, "no")
      BY Zenon, <1>2, <1>11 DEF ReaderSound
    <2>2. r.seq = rd.after + 1 /\ ~Breaks(rd, r)
      BY Zenon, <1>3, <1>5, <2>1, NextRowFollows
    <2>3. ~nd.broken
      BY Zenon, <1>1, <2>1, <2>2 DEF ReadSoFar
    <2>4. nd.seen = nd.from .. nd.after /\ nd.after >= nd.from - 1
      BY SMTT(40), <1>1, <1>4, <2>1, <2>2 DEF ReadSoFar
    <2>5. nd.kind = "verify" =>
              /\ nd.head = 0 \/ \E x \in rows : x.seq = nd.head
              /\ ~nd.more => \A x \in rows : x.seq > nd.after /\ x.seq <= nd.head => x \in nd.queue
      BY SMTT(40), <1>1, <1>4, <1>7, <2>1 DEF ReadSoFar
    <2>6. \E x \in rows : x.seq = nd.after /\ x.hash = nd.lastHash
      BY Zenon, <1>1, <1>7
    <2>. QED BY Zenon, <2>3, <2>4, <2>5, <2>6 DEF ReadSoFar
  <1>12. ASSUME mark = "edit", rd.kind = "verify" PROVE EditAhead(nd, rows)
    <2>1. EditAhead(rd, rows)
      BY Zenon, <1>2, <1>12 DEF ReaderSound
    <2>2. BadHash(rd.tenant, r) => broken
      BY Zenon DEF BadHash, Breaks
    <2>. QED BY Zenon, <1>1, <1>10, <2>1, <2>2 DEF EditAhead
  <1>13. ASSUME mark = "hole", rd.kind = "verify" PROVE HoleAhead(nd, rows, gone)
    <2>1. HoleAhead(rd, rows, gone)
      BY Zenon, <1>2, <1>13 DEF ReaderSound
    <2>2. SUFFICES ASSUME ~broken, NEW g \in gone
                   PROVE  r.seq < g.seq /\ \E q \in rows : q.seq > g.seq /\ Ahead(nd, q)
      BY Zenon, <1>1 DEF HoleAhead
    <2>3. /\ rd.after < g.seq
          /\ \E q \in rows : q.seq > g.seq /\ Ahead(rd, q)
          /\ ~rd.started => \E q \in rows : q.seq < g.seq /\ Ahead(rd, q)
      BY Zenon, <2>1, <2>2 DEF HoleAhead
    <2>4. g.seq \in Nat /\ r.seq # g.seq
      BY Zenon, <1>7, <1>13 DEF ChainSound, Numbered, Taken
    <2>5. r.seq < g.seq
      <3>1. SUFFICES ASSUME r.seq > g.seq PROVE FALSE
        BY SMTT(40), <1>4, <2>4
      <3>2. CASE rd.started
        <4>1. r.seq = rd.lastSeq + 1 /\ rd.lastSeq = rd.after
          BY Zenon, <1>5, <2>2, <3>2 DEF Breaks, BatchInOrder
        <4>. QED BY SMTT(40), <1>4, <2>3, <2>4, <3>1, <4>1
      <3>3. CASE ~rd.started
        <4>1. PICK q \in rows : q.seq < g.seq /\ q.seq > rd.after
          BY Zenon, <2>3, <3>3 DEF Ahead
        <4>. QED BY SMTT(40), <1>4, <1>8, <2>4, <3>1, <4>1
      <3>. QED BY ZenonT(60), <1>4, <3>2, <3>3
    <2>6. PICK q \in rows : q.seq > g.seq /\ Ahead(rd, q)
      BY Zenon, <2>3
    <2>7. q # r
      BY SMTT(40), <1>4, <2>4, <2>5, <2>6
    <2>. QED BY Zenon, <1>10, <2>5, <2>6, <2>7
  <1>. QED BY Zenon, <1>1, <1>9, <1>11, <1>12, <1>13 DEF ReaderSound

\* A call that has read all it wants returns what the chain says.
LEMMA FinishSound ==
    ASSUME NEW t, NEW rows, NEW gone, NEW mark \in Marks, ChainSound(t, rows, gone, mark),
           NEW rd, ReaderType(rd, mark), ReaderSound(rd, rows, gone, mark), rd.tenant = t,
           rd.queue = {}, ~WantsBatch(rd),
           NEW res,
           res = [kind |-> rd.kind, tenant |-> rd.tenant, valid |-> ~rd.broken, from |-> rd.from,
                  seen |-> rd.seen, complete |-> rd.after >= rd.end, next |-> rd.after + 1,
                  head |-> rd.head, changed |-> rd.changed]
    PROVE  ResultSound(res, mark)
  <1>1. /\ res.kind = rd.kind /\ res.tenant = rd.tenant /\ (res.valid <=> ~rd.broken) /\ res.from = rd.from
        /\ res.seen = rd.seen /\ res.next = rd.after + 1 /\ res.head = rd.head /\ res.changed = rd.changed
    BY Zenon
  <1>2. rd.kind \in {"verify", "export"} /\ rd.tenant \in Tenants /\ rd.after \in Nat /\ rd.more \in BOOLEAN
    BY Zenon DEF ReaderType
  <1>3. rd.kind = "verify" => ~rd.more
    BY Zenon, <1>2 DEF WantsBatch
  <1>4. Numbered(rows)
    BY Zenon DEF ChainSound
  <1>5. ASSUME mark = "no"
        PROVE  /\ res.changed = "no" /\ res.valid
               /\ res.seen = res.from .. (res.next - 1)
               /\ res.kind = "verify" => res.head \in res.seen \cup {0}
    <2>1. rd.changed = "no" /\ rd.head \in Nat
      BY Zenon, <1>5 DEF ReaderType
    <2>2. ReadSoFar(rd, rows)
      BY Zenon, <1>5, <2>1 DEF ReaderSound
    <2>3. res.valid /\ res.seen = res.from .. (res.next - 1)
      BY SMTT(40), <1>1, <1>2, <2>2 DEF ReadSoFar
    <2>4. ASSUME rd.kind = "verify" PROVE rd.head \in rd.seen \cup {0}
      <3>1. SUFFICES ASSUME rd.head # 0 PROVE rd.head \in rd.seen
        BY Zenon
      <3>2. PICK r \in rows : r.seq = rd.head
        BY Zenon, <2>2, <2>4, <3>1 DEF ReadSoFar
      <3>3. rd.head <= rd.after
        BY SMTT(40), <1>2, <1>3, <2>1, <2>2, <2>4, <3>2 DEF ReadSoFar
      <3>4. rd.from = 1 /\ rd.seen = rd.from .. rd.after
        BY Zenon, <2>2, <2>4 DEF ReadSoFar, ReaderType
      <3>. QED BY SMTT(40), <1>2, <2>1, <3>1, <3>3, <3>4
    <2>. QED BY Zenon, <1>1, <2>1, <2>3, <2>4
  <1>6. ASSUME rd.kind = "verify", mark = "edit", rd.changed = mark PROVE rd.broken
    <2>1. EditAhead(rd, rows)
      BY Zenon, <1>6 DEF ReaderSound
    <2>. QED BY Zenon, <1>3, <1>6, <2>1 DEF EditAhead, Ahead
  <1>7. ASSUME rd.kind = "verify", mark = "hole", rd.changed = mark PROVE rd.broken
    <2>1. HoleAhead(rd, rows, gone)
      BY Zenon, <1>7 DEF ReaderSound
    <2>2. gone # {}
      BY Zenon, <1>7 DEF ChainSound
    <2>. QED BY Zenon, <1>3, <1>7, <2>1, <2>2 DEF HoleAhead, Ahead
  <1>. QED BY Zenon, <1>1, <1>2, <1>5, <1>6, <1>7 DEF ResultSound

\* A call starts with nothing read.
Fresh(rd, kind, t, after, end, head, mark) ==
    /\ rd.kind = kind /\ rd.tenant = t /\ rd.from = after + 1 /\ rd.after = after /\ rd.end = end
    /\ rd.queue = {} /\ rd.more = TRUE /\ rd.started = FALSE /\ rd.broken = FALSE /\ rd.seen = {}
    /\ rd.head = head /\ rd.changed = mark
    /\ DOMAIN rd = {"kind", "tenant", "from", "after", "end", "left", "queue", "more", "started",
                    "lastSeq", "lastHash", "broken", "seen", "head", "changed"}

\* A new reader has read nothing.
LEMMA NewReaderIsFresh ==
    ASSUME NEW kind, NEW t, NEW after, NEW end, NEW limit, NEW rd, rd = NewReader(kind, t, after, end, limit)
    PROVE  Fresh(rd, kind, t, after, end, Head0(t), changed[t])
  BY Zenon DEF NewReader, Fresh

\* A call that has just started is sound.
LEMMA StartSound ==
    ASSUME NEW t \in Tenants, NEW rows, NEW gone, NEW mark \in Marks, ChainSound(t, rows, gone, mark),
           NEW kind \in {"verify", "export"}, NEW after \in Nat, NEW end, NEW limit, NEW head,
           kind = "verify" => after = 0 /\ end = 0,
           mark = "no" => end \in Nat /\ head \in Nat /\ (head = 0 \/ \E r \in rows : r.seq = head),
           NEW rd,
           Fresh(rd, kind, t, after, end, head, mark)
    PROVE  ReaderType(rd, mark) /\ ReaderSound(rd, rows, gone, mark)
  <1>1. /\ rd.kind = kind /\ rd.tenant = t /\ rd.from = after + 1 /\ rd.after = after /\ rd.end = end
        /\ rd.queue = {} /\ rd.more = TRUE /\ rd.started = FALSE /\ rd.broken = FALSE /\ rd.seen = {}
        /\ rd.head = head /\ rd.changed = mark
        /\ DOMAIN rd = {"kind", "tenant", "from", "after", "end", "left", "queue", "more", "started",
                        "lastSeq", "lastHash", "broken", "seen", "head", "changed"}
    BY Zenon DEF Fresh
  <1>2. Numbered(rows)
    BY Zenon DEF ChainSound
  <1>3. ReaderType(rd, mark)
    <2>1. after + 1 \in Nat \ {0} /\ (kind = "verify" => end = 0 /\ after + 1 = 1)
      BY SMTT(40)
    <2>2. rd.from \in Nat \ {0} /\ (rd.kind = "verify" => rd.end = 0 /\ rd.from = 1)
      BY Zenon, <1>1, <2>1
    <2>3. rd.more \in BOOLEAN /\ rd.started \in BOOLEAN /\ rd.broken \in BOOLEAN
      BY Zenon, <1>1
    <2>. QED BY Zenon, <1>1, <2>2, <2>3 DEF ReaderType
  <1>4. BatchInOrder(rd, rows)
    BY Zenon, <1>1 DEF BatchInOrder
  <1>5. mark = "no" => ReadSoFar(rd, rows)
    BY SMTT(40), <1>1 DEF ReadSoFar
  <1>6. \A r \in rows : kind = "verify" => Ahead(rd, r)
    BY SMTT(40), <1>1, <1>2 DEF Ahead, Numbered
  <1>7. ASSUME mark = "edit", kind = "verify" PROVE EditAhead(rd, rows)
    BY Zenon, <1>1, <1>6, <1>7 DEF EditAhead, ChainSound
  <1>8. ASSUME mark = "hole", kind = "verify" PROVE HoleAhead(rd, rows, gone)
    <2>1. Numbered(gone)
      BY Zenon DEF ChainSound
    <2>2. SUFFICES ASSUME NEW g \in gone
                   PROVE  /\ rd.after < g.seq
                          /\ \E q \in rows : q.seq > g.seq /\ Ahead(rd, q)
                          /\ \E q \in rows : q.seq < g.seq /\ Ahead(rd, q)
      BY Zenon DEF HoleAhead
    <2>3. (\E q \in rows : q.seq < g.seq) /\ (\E q \in rows : q.seq > g.seq)
      BY Zenon, <1>8 DEF ChainSound
    <2>. QED BY SMTT(40), <1>1, <1>6, <1>8, <2>1, <2>3 DEF Numbered
  <1>. QED BY Zenon, <1>1, <1>3, <1>4, <1>5, <1>7, <1>8 DEF ReaderSound

\* ChainHead of an untouched chain is the number of a row, or 0.
LEMMA HeadOfChain ==
    ASSUME NEW t, NEW gone, ChainSound(t, table[t], gone, "no")
    PROVE  Head0(t) \in Nat /\ (Head0(t) = 0 \/ \E r \in table[t] : r.seq = Head0(t))
  <1>1. CASE table[t] = {}
    BY Zenon, <1>1 DEF Head0
  <1>2. CASE table[t] # {}
    <2>1. \E r \in table[t] : IsTail(t, r)
      BY Zenon, <1>2 DEF ChainSound, IsTail
    <2>2. PICK r \in table[t] : r = CHOOSE x \in table[t] : IsTail(t, x)
      BY Zenon, <2>1
    <2>3. Head0(t) = r.seq
      BY Zenon, <1>2, <2>2 DEF Head0
    <2>. QED BY Zenon, <2>3 DEF ChainSound, Numbered
  <1>. QED BY Zenon, <1>1, <1>2

\* A row appended meanwhile comes after all that a reader holds.
LEMMA AppendSound ==
    ASSUME NEW t, NEW rows, NEW gone, NEW mark \in Marks, ChainSound(t, rows, gone, mark),
           NEW r, r.seq \in Nat \ {0}, NEW stage, WaitSound(t, rows, gone, mark, stage, r),
           NEW rd, ReaderType(rd, mark), ReaderSound(rd, rows, gone, mark)
    PROVE  ReaderSound(rd, rows \cup {r}, gone, mark)
  <1>1. SUFFICES ASSUME rd.changed = mark, mark \in Growing PROVE ReaderSound(rd, rows \cup {r}, gone, mark)
    BY Zenon DEF ReaderSound, Growing
  <1>2. \A q \in rows : q.seq < r.seq
    BY Zenon, <1>1 DEF WaitSound
  <1>3. Numbered(rows) /\ rd.after \in Nat
    BY Zenon DEF ChainSound, ReaderType
  <1>4. ASSUME BatchInOrder(rd, rows) PROVE BatchInOrder(rd, rows \cup {r})
    BY Zenon, <1>2, <1>4 DEF BatchInOrder
  <1>5. ASSUME mark = "no", ReadSoFar(rd, rows) PROVE ReadSoFar(rd, rows \cup {r})
    <2>1. rd.head \in Nat
      BY Zenon, <1>5 DEF ReaderType
    <2>2. rd.kind = "verify" => ~(r.seq <= rd.head)
      BY SMTT(40), <1>2, <1>3, <1>5, <2>1 DEF ReadSoFar, Numbered
    <2>. QED BY Zenon, <1>5, <2>2 DEF ReadSoFar
  <1>6. ASSUME EditAhead(rd, rows) PROVE EditAhead(rd, rows \cup {r})
    BY Zenon, <1>6 DEF EditAhead
  <1>7. ASSUME HoleAhead(rd, rows, gone) PROVE HoleAhead(rd, rows \cup {r}, gone)
    BY Zenon, <1>7 DEF HoleAhead
  <1>. QED BY Zenon, <1>1, <1>4, <1>5, <1>6, <1>7 DEF ReaderSound

(***************************************************************************)
(* The steps.                                                              *)
(***************************************************************************)
\* A step that leaves the chains and the readers alone.
LEMMA QuietStep ==
    ASSUME ReadInv, IInv', UNCHANGED <<table, changed, removed, reader, result>>, WaitersSound'
    PROVE  ReadInv'
  BY Zenon DEF ReadInv, ChainsSound, ReadersSound, ResultsSound

\* What is known of a tenant's chain, and of the row of a waiting writer.
LEMMA TenantFacts ==
    ASSUME ReadInv
    PROVE  /\ \A t \in Tenants : changed[t] \in Marks /\ ChainSound(t, table[t], removed[t], changed[t])
           /\ \A w \in Writers : pc[w] \in {"insert", "commit"} =>
                 /\ tenant[w] \in Tenants /\ row[w].seq \in Nat \ {0}
                 /\ WaitSound(tenant[w], table[tenant[w]], removed[tenant[w]], changed[tenant[w]], pc[w], row[w])
           /\ \A w, x \in Writers :
                 pc[w] \in {"insert", "commit"} /\ pc[x] \in {"insert", "commit"} /\ tenant[w] = tenant[x] => w = x
  <1>1. TypeOK /\ Shape /\ HoldsLock /\ ChainsSound /\ WaitersSound
    BY Zenon DEF ReadInv, IInv
  <1>2. \A t \in Tenants : changed[t] \in Marks /\ ChainSound(t, table[t], removed[t], changed[t])
    BY Zenon, <1>1 DEF TypeOK, Marks, ChainsSound
  <1>3. \A w \in Writers : pc[w] \in {"insert", "commit"} => tenant[w] \in Tenants /\ row[w].seq \in Nat \ {0}
    BY Zenon, <1>1 DEF TypeOK, Shape
  <1>4. \A w, x \in Writers :
                 pc[w] \in {"insert", "commit"} /\ pc[x] \in {"insert", "commit"} /\ tenant[w] = tenant[x] => w = x
    BY Zenon, <1>1 DEF HoldsLock
  <1>. QED BY Zenon, <1>1, <1>2, <1>3, <1>4 DEF WaitersSound

\* Steps of a writer before its row is committed.
LEMMA WriterKeeps ==
    ASSUME ReadInv, IInv', NEW w \in Writers, NEW t \in Tenants, NEW b \in Bodies,
           Begin(w, t, b) \/ Lock(w) \/ InsertConflict(w) \/ Rollback(w)
    PROVE  ReadInv'
  <1>1. UNCHANGED <<table, changed, removed, reader, result>>
    BY Zenon DEF Begin, Lock, InsertConflict, Rollback
  <1>2. \A x \in Writers : pc'[x] \in {"insert", "commit"} =>
            pc[x] = pc'[x] /\ tenant'[x] = tenant[x] /\ row'[x] = row[x]
    <2>1. TypeOK /\ Shape
      BY Zenon DEF ReadInv, IInv
    <2>. QED BY ZenonT(60), <2>1 DEF Begin, Lock, InsertConflict, Rollback, TypeOK, Shape
  <1>3. WaitersSound'
    BY Zenon, <1>1, <1>2 DEF ReadInv, WaitersSound
  <1>. QED BY Zenon, <1>1, <1>3, QuietStep

\* The trigger computes the row from the tail it reads under the lock.
LEMMA ChainRowKeeps ==
    ASSUME ReadInv, IInv', NEW w \in Writers, ChainRow(w)
    PROVE  ReadInv'
  <1> DEFINE t == tenant[w]
  <1>1. UNCHANGED <<table, changed, removed, reader, result, tenant>> /\ pc[w] = "tail"
        /\ pc' = [pc EXCEPT ![w] = "insert"]
    BY Zenon DEF ChainRow
  <1>2. TypeOK /\ Shape /\ t \in Tenants
    BY Zenon, <1>1 DEF ReadInv, IInv, TypeOK
  <1>3. PICK n, p :
            /\ n \in Nat \ {0}
            /\ row' = [row EXCEPT ![w] = Chained(t, n, @.body, p)]
            /\ \/ table[t] = {} /\ n = 1 /\ p = GenesisHash
               \/ \E q \in table[t] : (\A x \in table[t] : x.seq <= q.seq) /\ n = q.seq + 1 /\ p = q.hash
    <2>1. CASE table[t] = {} /\ row' = [row EXCEPT ![w] = Chained(t, 1, @.body, GenesisHash)]
      <3>1. 1 \in Nat \ {0}
        BY SMTT(40)
      <3>. QED BY Zenon, <2>1, <3>1
    <2>2. CASE \E r \in table[t] : IsTail(t, r) /\ row' = [row EXCEPT ![w] = Chained(t, r.seq + 1, @.body, r.hash)]
      <3>1. PICK r \in table[t] : IsTail(t, r) /\ row' = [row EXCEPT ![w] = Chained(t, r.seq + 1, @.body, r.hash)]
        BY Zenon, <2>2
      <3>2. r.seq \in Nat \ {0} /\ (\A x \in table[t] : x.seq <= r.seq)
        BY Zenon, <1>2, <3>1 DEF TypeOK, IsTail
      <3>3. r.seq + 1 \in Nat \ {0}
        BY SMTT(40), <3>2
      <3>. QED BY Zenon, <3>1, <3>2, <3>3
    <2>. QED BY Zenon, <2>1, <2>2 DEF ChainRow
  <1>4. PICK r : r = Chained(t, n, row[w].body, p)
    BY Zenon
  <1>5. row'[w] = r /\ \A x \in Writers : x # w => row'[x] = row[x] /\ pc'[x] = pc[x]
    BY Zenon, <1>1, <1>2, <1>3, <1>4 DEF Shape, TypeOK
  <1>6. r.seq = n /\ r.prev = p /\ r.hash = Hash(r.prev, Canonical(t, r.seq, r.body))
    BY Zenon, <1>4 DEF Chained
  <1>7. changed[t] \in Marks /\ ChainSound(t, table[t], removed[t], changed[t])
    BY Zenon, <1>2, TenantFacts
  <1>8. WaitSound(t, table[t], removed[t], changed[t], "insert", r)
    BY Zenon, <1>3, <1>6, <1>7, ChainedWaits
  <1>9. WaitersSound'
    <2>1. SUFFICES ASSUME NEW x \in Writers, pc'[x] \in {"insert", "commit"}
                   PROVE  WaitSound(tenant[x], table[tenant[x]], removed[tenant[x]], changed[tenant[x]], pc'[x], row'[x])
      BY Zenon, <1>1 DEF WaitersSound
    <2>2. CASE x = w
      <3>1. pc'[x] = "insert"
        BY Zenon, <1>1, <1>2, <2>2 DEF TypeOK
      <3>. QED BY Zenon, <1>5, <1>8, <2>2, <3>1
    <2>3. CASE x # w
      BY Zenon, <1>5, <2>1, <2>3, TenantFacts
    <2>. QED BY Zenon, <2>2, <2>3
  <1>. QED BY Zenon, <1>1, <1>9, QuietStep

\* The unique index lets in only a row whose number is free.
LEMMA InsertRowKeeps ==
    ASSUME ReadInv, IInv', NEW w \in Writers, InsertRow(w)
    PROVE  ReadInv'
  <1>1. UNCHANGED <<table, changed, removed, reader, result, tenant, row>> /\ pc[w] = "insert"
        /\ pc' = [pc EXCEPT ![w] = "commit"] /\ ~Taken(table[tenant[w]], row[w])
    BY Zenon DEF InsertRow, Taken
  <1>2. pc'[w] = "commit" /\ \A x \in Writers : x # w => pc'[x] = pc[x]
    BY Zenon, <1>1 DEF ReadInv, IInv, TypeOK
  <1>3. WaitersSound'
    <2>1. SUFFICES ASSUME NEW x \in Writers, pc'[x] \in {"insert", "commit"}
                   PROVE  WaitSound(tenant[x], table[tenant[x]], removed[tenant[x]], changed[tenant[x]], pc'[x], row[x])
      BY Zenon, <1>1 DEF WaitersSound
    <2>2. CASE x = w
      <3>1. WaitSound(tenant[x], table[tenant[x]], removed[tenant[x]], changed[tenant[x]], "insert", row[x])
        BY Zenon, <1>1, <2>2, TenantFacts
      <3>. QED BY Zenon, <1>1, <1>2, <2>2, <3>1 DEF WaitSound
    <2>3. CASE x # w
      BY Zenon, <1>2, <2>1, <2>3, TenantFacts
    <2>. QED BY Zenon, <2>2, <2>3
  <1>. QED BY Zenon, <1>1, <1>3, QuietStep

\* A committed row is appended to one chain, while readers are at work on it.
LEMMA CommitKeeps ==
    ASSUME ReadInv, IInv', NEW w \in Writers, Commit(w)
    PROVE  ReadInv'
  <1>1. PICK t, r : t = tenant[w] /\ r = row[w]
    BY Zenon
  <1>2. /\ pc[w] = "commit" /\ table' = [table EXCEPT ![t] = @ \cup {r}]
        /\ pc' = [pc EXCEPT ![w] = "idle"] /\ row' = [row EXCEPT ![w] = NoRow]
        /\ UNCHANGED <<tenant, changed, removed, reader, result>>
    BY Zenon, <1>1 DEF Commit
  <1>3. /\ t \in Tenants /\ r.seq \in Nat \ {0} /\ changed[t] \in Marks
        /\ ChainSound(t, table[t], removed[t], changed[t])
        /\ WaitSound(t, table[t], removed[t], changed[t], "commit", r)
    BY Zenon, <1>1, <1>2, TenantFacts
  <1>4. table'[t] = table[t] \cup {r} /\ \A u \in Tenants : u # t => table'[u] = table[u]
    BY Zenon, <1>2, <1>3 DEF ReadInv, IInv, Shape
  <1>5. ChainsSound'
    <2>1. SUFFICES ASSUME NEW u \in Tenants PROVE ChainSound(u, table'[u], removed[u], changed[u])
      BY Zenon, <1>2 DEF ChainsSound
    <2>2. CASE u = t
      <3>1. ChainSound(t, table[t] \cup {r}, removed[t], changed[t])
        BY Zenon, <1>3, CommitKeepsChain
      <3>. QED BY Zenon, <1>4, <2>2, <3>1
    <2>3. CASE u # t
      BY Zenon, <1>4, <2>3, TenantFacts
    <2>. QED BY Zenon, <2>2, <2>3
  <1>6. WaitersSound'
    <2>1. SUFFICES ASSUME NEW x \in Writers, pc'[x] \in {"insert", "commit"}
                   PROVE  WaitSound(tenant[x], table'[tenant[x]], removed[tenant[x]], changed[tenant[x]], pc'[x], row'[x])
      BY Zenon, <1>2 DEF WaitersSound
    <2>2. x # w /\ pc'[x] = pc[x] /\ row'[x] = row[x]
      BY Zenon, <1>2, <2>1 DEF ReadInv, IInv, TypeOK, Shape
    <2>3. tenant[x] # t /\ tenant[x] \in Tenants
      BY Zenon, <1>1, <1>2, <2>1, <2>2, TenantFacts
    <2>4. table'[tenant[x]] = table[tenant[x]]
      BY Zenon, <1>4, <2>3
    <2>. QED BY Zenon, <2>1, <2>2, <2>4, TenantFacts
  <1>7. ReadersSound'
    <2>1. SUFFICES ASSUME NEW v \in Readers, reader[v].kind # "idle"
                   PROVE  /\ ReaderType(reader[v], changed[reader[v].tenant])
                          /\ ReaderSound(reader[v], table'[reader[v].tenant], removed[reader[v].tenant],
                                         changed[reader[v].tenant])
      <3>1. reader' = reader /\ changed' = changed /\ removed' = removed
        BY Zenon, <1>2
      <3>. QED BY Zenon, <3>1 DEF ReadersSound
    <2>2. PICK rd, u : rd = reader[v] /\ u = rd.tenant
      BY Zenon
    <2>3. ReaderType(rd, changed[u]) /\ ReaderSound(rd, table[u], removed[u], changed[u])
      BY Zenon, <2>1, <2>2 DEF ReadInv, ReadersSound
    <2>4. ReaderSound(rd, table'[u], removed[u], changed[u])
      <3>1. CASE u = t
        <4>1. ReaderType(rd, changed[t]) /\ ReaderSound(rd, table[t], removed[t], changed[t])
          BY Zenon, <2>3, <3>1
        <4>2. ReaderSound(rd, table[t] \cup {r}, removed[t], changed[t])
          BY Zenon, <1>3, <4>1, AppendSound
        <4>. QED BY Zenon, <1>4, <3>1, <4>2
      <3>2. CASE u # t
        <4>1. u \in Tenants
          BY Zenon, <2>2, <2>3 DEF ReaderType
        <4>. QED BY Zenon, <1>4, <2>3, <3>2, <4>1
      <3>. QED BY Zenon, <3>1, <3>2
    <2>. QED BY Zenon, <2>2, <2>3, <2>4
  <1>8. ResultsSound' /\ reader' = [v \in Readers |-> reader'[v]] /\ result' = [v \in Readers |-> result'[v]]
    BY Zenon, <1>2 DEF ReadInv, ResultsSound
  <1>. QED BY Zenon, <1>5, <1>6, <1>7, <1>8 DEF ReadInv

\* Maintenance marks a chain that was untouched, or restores one: no reader and
\* no result was started under the new mark.
LEMMA MarkKeeps ==
    ASSUME ReadInv, IInv', NEW t \in Tenants, NEW rows, NEW gone, NEW mark \in Marks \ {"no"},
           changed[t] = "no" \/ mark = "restored",
           table' = [table EXCEPT ![t] = rows],
           changed' = [changed EXCEPT ![t] = mark],
           removed' = [removed EXCEPT ![t] = gone],
           UNCHANGED <<pc, tenant, row, reader, result>>,
           ChainSound(t, rows, gone, mark),
           \A x \in Writers : pc[x] \in {"insert", "commit"} /\ tenant[x] = t =>
               WaitSound(t, rows, gone, mark, pc[x], row[x])
    PROVE  ReadInv'
  <1>1. /\ table'[t] = rows /\ changed'[t] = mark /\ removed'[t] = gone
        /\ \A u \in Tenants : u # t => table'[u] = table[u] /\ changed'[u] = changed[u] /\ removed'[u] = removed[u]
    BY Zenon DEF ReadInv, IInv, Shape, TypeOK
  <1>2. ChainsSound'
    <2>1. SUFFICES ASSUME NEW u \in Tenants PROVE ChainSound(u, table'[u], removed'[u], changed'[u])
      BY Zenon DEF ChainsSound
    <2>2. CASE u = t
      BY Zenon, <1>1, <2>2
    <2>3. CASE u # t
      BY Zenon, <1>1, <2>3, TenantFacts
    <2>. QED BY Zenon, <2>2, <2>3
  <1>3. WaitersSound'
    <2>1. SUFFICES ASSUME NEW x \in Writers, pc[x] \in {"insert", "commit"}
                   PROVE  WaitSound(tenant[x], table'[tenant[x]], removed'[tenant[x]], changed'[tenant[x]], pc[x], row[x])
      BY Zenon DEF WaitersSound
    <2>2. CASE tenant[x] = t
      BY SMTT(40), <1>1, <2>1, <2>2
    <2>3. CASE tenant[x] # t
      <3>1. tenant[x] \in Tenants
        BY Zenon, <2>1, TenantFacts
      <3>. QED BY Zenon, <1>1, <2>1, <2>3, <3>1, TenantFacts
    <2>. QED BY Zenon, <2>2, <2>3
  <1>4. ReadersSound'
    <2>1. SUFFICES ASSUME NEW v \in Readers, reader[v].kind # "idle"
                   PROVE  /\ ReaderType(reader[v], changed'[reader[v].tenant])
                          /\ ReaderSound(reader[v], table'[reader[v].tenant], removed'[reader[v].tenant],
                                         changed'[reader[v].tenant])
      BY Zenon DEF ReadersSound
    <2>2. PICK rd, u : rd = reader[v] /\ u = rd.tenant
      BY Zenon
    <2>3. ReaderType(rd, changed[u]) /\ ReaderSound(rd, table[u], removed[u], changed[u])
      BY Zenon, <2>1, <2>2 DEF ReadInv, ReadersSound
    <2>4. ReaderType(rd, changed'[u]) /\ ReaderSound(rd, table'[u], removed'[u], changed'[u])
      <3>1. CASE u = t
        <4>1. ReaderType(rd, mark)
          BY Zenon, <2>3, <3>1 DEF ReaderType
        <4>2. mark # "restored" => rd.changed = "no"
          BY Zenon, <2>3, <3>1 DEF ReaderType
        <4>3. ReaderSound(rd, rows, gone, mark)
          BY Zenon, <4>2 DEF ReaderSound, Growing
        <4>. QED BY Zenon, <1>1, <3>1, <4>1, <4>3
      <3>2. CASE u # t
        <4>1. u \in Tenants
          BY Zenon, <2>2, <2>3 DEF ReaderType
        <4>. QED BY Zenon, <1>1, <2>3, <3>2, <4>1
      <3>. QED BY Zenon, <3>1, <3>2
    <2>. QED BY Zenon, <2>2, <2>4
  <1>5. ResultsSound'
    <2>1. SUFFICES ASSUME NEW v \in Readers, result[v].kind # "idle"
                   PROVE  ResultSound(result[v], changed'[result[v].tenant])
      BY Zenon DEF ResultsSound
    <2>2. PICK res, u : res = result[v] /\ u = res.tenant
      BY Zenon
    <2>3. ResultSound(res, changed[u])
      BY Zenon, <2>1, <2>2 DEF ReadInv, ResultsSound
    <2>4. ResultSound(res, changed'[u])
      <3>1. CASE u = t
        <4>1. mark # "restored" => res.changed = "no"
          BY Zenon, <2>3, <3>1 DEF ResultSound
        <4>2. ResultSound(res, mark)
          BY Zenon, <2>3, <4>1 DEF ResultSound
        <4>. QED BY Zenon, <1>1, <3>1, <4>2
      <3>2. CASE u # t
        <4>1. u \in Tenants
          BY Zenon, <2>2, <2>3 DEF ResultSound
        <4>. QED BY Zenon, <1>1, <2>3, <3>2, <4>1
      <3>. QED BY Zenon, <3>1, <3>2
    <2>. QED BY Zenon, <2>2, <2>4
  <1>6. reader' = [v \in Readers |-> reader'[v]] /\ result' = [v \in Readers |-> result'[v]]
    BY Zenon DEF ReadInv
  <1>. QED BY Zenon, <1>2, <1>3, <1>4, <1>5, <1>6 DEF ReadInv

\* What an untouched chain and its waiting rows look like.
LEMMA UntouchedFacts ==
    ASSUME ReadInv, NEW t \in Tenants, changed[t] = "no"
    PROVE  /\ ChainSound(t, table[t], removed[t], "no") /\ ChainOf(t, table[t])
           /\ \A x \in Writers : pc[x] \in {"insert", "commit"} /\ tenant[x] = t =>
                 /\ WaitSound(t, table[t], removed[t], "no", pc[x], row[x])
                 /\ Prolongs(t, table[t], row[x])
  <1>1. ChainSound(t, table[t], removed[t], "no")
    BY Zenon, TenantFacts
  <1>2. ChainOf(t, table[t])
    BY Zenon, IntactIsChainOf DEF ReadInv, IInv, ChainIntact
  <1>3. ASSUME NEW x \in Writers, pc[x] \in {"insert", "commit"}, tenant[x] = t
        PROVE  WaitSound(t, table[t], removed[t], "no", pc[x], row[x]) /\ Prolongs(t, table[t], row[x])
    <2>1. WaitSound(t, table[t], removed[t], "no", pc[x], row[x])
      BY Zenon, <1>3, TenantFacts
    <2>2. Continues(t, row[x])
      BY Zenon, <1>3 DEF ReadInv, IInv, PendingContinues
    <2>. QED BY Zenon, <2>1, <2>2 DEF Continues, Prolongs
  <1>. QED BY Zenon, <1>1, <1>2, <1>3

\* An operator edits a row.
LEMMA MaintainUpdateKeeps ==
    ASSUME ReadInv, IInv', NEW t \in Tenants, NEW r \in table[t], NEW b \in Bodies, MaintainUpdate(t, r, b)
    PROVE  ReadInv'
  <1>1. PICK y : y = [seq |-> r.seq, body |-> b, prev |-> r.prev, hash |-> r.hash]
    BY Zenon
  <1>2. PICK rows : rows = (table[t] \ {r}) \cup {y}
    BY Zenon
  <1>3. /\ changed[t] = "no" /\ b # r.body
        /\ table' = [table EXCEPT ![t] = rows]
        /\ changed' = [changed EXCEPT ![t] = "edit"]
        /\ UNCHANGED <<pc, tenant, row, reader, result, removed>>
    BY Zenon, <1>1, <1>2 DEF MaintainUpdate
  <1>4. removed' = [removed EXCEPT ![t] = removed[t]]
    <2>1. removed' = removed
      BY Zenon, <1>3
    <2>2. removed = [u \in Tenants |-> removed[u]]
      BY Zenon DEF ReadInv, IInv, Shape
    <2>. QED BY Zenon, <2>1, <2>2
  <1>5. /\ ChainSound(t, rows, removed[t], "edit")
        /\ \A stage, x : WaitSound(t, table[t], removed[t], "no", stage, x)
                         => WaitSound(t, rows, removed[t], "edit", stage, x)
    <2>1. ChainSound(t, table[t], removed[t], "no") /\ ChainOf(t, table[t])
      BY Zenon, <1>3, UntouchedFacts
    <2>2. b # r.body
      BY Zenon, <1>3
    <2>. QED BY Zenon, <1>1, <1>2, <2>1, <2>2, EditDamages
  <1>6. \A x \in Writers : pc[x] \in {"insert", "commit"} /\ tenant[x] = t =>
            WaitSound(t, rows, removed[t], "edit", pc[x], row[x])
    BY Zenon, <1>3, <1>5, UntouchedFacts
  <1>7. "edit" \in Marks \ {"no"}
    BY Zenon DEF Marks
  <1>8. PICK gone : gone = removed[t]
    BY Zenon
  <1>. QED BY Zenon, <1>3, <1>4, <1>5, <1>6, <1>7, <1>8, MarkKeeps

\* An operator deletes a row, and keeps it.
LEMMA MaintainDeleteKeeps ==
    ASSUME ReadInv, IInv', NEW t \in Tenants, NEW r \in table[t], MaintainDelete(t, r)
    PROVE  ReadInv'
  <1>1. PICK rows : rows = table[t] \ {r}
    BY Zenon
  <1>2. PICK mark \in {"hole", "end"} : mark = IF Inner(t, r) THEN "hole" ELSE "end"
    BY Zenon
  <1>3. /\ changed[t] = "no"
        /\ table' = [table EXCEPT ![t] = rows]
        /\ changed' = [changed EXCEPT ![t] = mark]
        /\ removed' = [removed EXCEPT ![t] = {r}]
        /\ UNCHANGED <<pc, tenant, row, reader, result>>
    BY Zenon, <1>1, <1>2 DEF MaintainDelete
  <1>4. mark = "hole" => (\E q \in table[t] : q.seq < r.seq) /\ (\E q \in table[t] : q.seq > r.seq)
    BY Zenon, <1>2 DEF Inner
  <1>5. /\ ChainSound(t, rows, {r}, mark)
        /\ \A stage, x : Prolongs(t, table[t], x) => WaitSound(t, rows, {r}, mark, stage, x)
    <2>1. ChainSound(t, table[t], removed[t], "no") /\ ChainOf(t, table[t])
      BY Zenon, <1>3, UntouchedFacts
    <2>2. /\ ChainSound(t, table[t] \ {r}, {r}, mark)
          /\ \A stage, x : Prolongs(t, table[t], x) => WaitSound(t, table[t] \ {r}, {r}, mark, stage, x)
      BY Zenon, <1>2, <1>4, <2>1, DeleteDamages
    <2>. QED BY Zenon, <1>1, <2>2
  <1>6. \A x \in Writers : pc[x] \in {"insert", "commit"} /\ tenant[x] = t =>
            WaitSound(t, rows, {r}, mark, pc[x], row[x])
    BY Zenon, <1>3, <1>5, UntouchedFacts
  <1>7. mark \in Marks \ {"no"}
    BY Zenon DEF Marks
  <1>. QED BY Zenon, <1>3, <1>5, <1>6, <1>7, MarkKeeps

\* The deleted row is inserted again, verbatim and without the lock.
LEMMA RestoreRowKeeps ==
    ASSUME ReadInv, IInv', NEW t \in Tenants, NEW r \in removed[t], RestoreRow(t, r)
    PROVE  ReadInv'
  <1>1. PICK rows : rows = table[t] \cup {r}
    BY Zenon
  <1>2. /\ ~Taken(table[t], r)
        /\ \A x \in Writers : ~(pc[x] = "commit" /\ tenant[x] = t /\ row[x].seq = r.seq)
        /\ table' = [table EXCEPT ![t] = rows]
        /\ changed' = [changed EXCEPT ![t] = "restored"]
        /\ removed' = [removed EXCEPT ![t] = {}]
        /\ UNCHANGED <<pc, tenant, row, reader, result>>
    BY Zenon, <1>1 DEF RestoreRow, Taken
  <1>3. changed[t] \in Marks /\ ChainSound(t, table[t], removed[t], changed[t])
    BY Zenon, TenantFacts
  <1>4. /\ ChainSound(t, rows, {}, "restored")
        /\ \A x : \A stage \in {"insert", "commit"} :
              WaitSound(t, table[t], removed[t], changed[t], stage, x) /\ (stage = "commit" => x.seq # r.seq)
              => WaitSound(t, rows, {}, "restored", stage, x)
    BY ZenonT(60), <1>1, <1>2, <1>3, RestoreCompletes
  <1>5. \A x \in Writers : pc[x] \in {"insert", "commit"} /\ tenant[x] = t =>
            WaitSound(t, rows, {}, "restored", pc[x], row[x])
    <2>1. SUFFICES ASSUME NEW x \in Writers, pc[x] \in {"insert", "commit"}, tenant[x] = t
                   PROVE  WaitSound(t, rows, {}, "restored", pc[x], row[x])
      BY Zenon
    <2>2. WaitSound(t, table[t], removed[t], changed[t], pc[x], row[x])
      BY Zenon, <2>1, TenantFacts
    <2>3. pc[x] = "commit" => row[x].seq # r.seq
      BY Zenon, <1>2, <2>1
    <2>. QED BY Zenon, <1>4, <2>1, <2>2, <2>3
  <1>6. "restored" \in Marks \ {"no"}
    BY Zenon DEF Marks
  <1>. QED BY Zenon, <1>2, <1>4, <1>5, <1>6, MarkKeeps

\* A step of one reader: the chains and the other readers stay as they are.
LEMMA ReaderKeeps ==
    ASSUME ReadInv, IInv', UNCHANGED writing, NEW v \in Readers, NEW nd, NEW res,
           reader' = [reader EXCEPT ![v] = nd],
           result' = [result EXCEPT ![v] = res],
           nd.kind # "idle" =>
               /\ ReaderType(nd, changed[nd.tenant])
               /\ ReaderSound(nd, table[nd.tenant], removed[nd.tenant], changed[nd.tenant]),
           res.kind # "idle" => ResultSound(res, changed[res.tenant])
    PROVE  ReadInv'
  <1>1. UNCHANGED <<table, changed, removed, pc, tenant, row>>
    BY Zenon DEF writing
  <1>2. ChainsSound' /\ WaitersSound'
    BY Zenon, <1>1 DEF ReadInv, ChainsSound, WaitersSound
  <1>3. /\ reader = [u \in Readers |-> reader[u]] /\ result = [u \in Readers |-> result[u]]
        /\ ReadersSound /\ ResultsSound
    BY Zenon DEF ReadInv
  <1>4. reader' = [u \in Readers |-> reader'[u]] /\ result' = [u \in Readers |-> result'[u]]
    BY Zenon, <1>3
  <1>5. \A u \in Readers : /\ u = v => reader'[u] = nd /\ result'[u] = res
                           /\ u # v => reader'[u] = reader[u] /\ result'[u] = result[u]
    BY Zenon, <1>3
  <1>6. ReadersSound'
    <2>1. SUFFICES ASSUME NEW u \in Readers, reader'[u].kind # "idle"
                   PROVE  /\ ReaderType(reader'[u], changed[reader'[u].tenant])
                          /\ ReaderSound(reader'[u], table[reader'[u].tenant], removed[reader'[u].tenant],
                                         changed[reader'[u].tenant])
      BY Zenon, <1>1 DEF ReadersSound
    <2>2. CASE u = v
      BY Zenon, <1>5, <2>1, <2>2
    <2>3. CASE u # v
      <3>1. reader'[u] = reader[u]
        BY Zenon, <1>5, <2>3
      <3>2. PICK rd : rd = reader[u]
        BY Zenon
      <3>3. rd.kind # "idle"
        BY Zenon, <2>1, <3>1, <3>2
      <3>4. /\ ReaderType(rd, changed[rd.tenant])
            /\ ReaderSound(rd, table[rd.tenant], removed[rd.tenant], changed[rd.tenant])
        BY Zenon, <1>3, <3>2, <3>3 DEF ReadersSound
      <3>. QED BY Zenon, <3>1, <3>2, <3>4
    <2>. QED BY Zenon, <2>2, <2>3
  <1>7. ResultsSound'
    BY Zenon, <1>1, <1>3, <1>5 DEF ResultsSound
  <1>. QED BY Zenon, <1>2, <1>4, <1>6, <1>7 DEF ReadInv

\* What is known of a reader that is at work.
LEMMA ReaderFacts ==
    ASSUME ReadInv, NEW v \in Readers, reader[v].kind # "idle", NEW rd, rd = reader[v], NEW t, t = rd.tenant
    PROVE  /\ t \in Tenants /\ changed[t] \in Marks
           /\ ChainSound(t, table[t], removed[t], changed[t])
           /\ changed[t] = "no" => ChainOf(t, table[t])
           /\ ReaderType(rd, changed[t]) /\ ReaderSound(rd, table[t], removed[t], changed[t])
           /\ result = [result EXCEPT ![v] = result[v]]
           /\ result[v].kind # "idle" => ResultSound(result[v], changed[result[v].tenant])
  <1>1. ReaderType(rd, changed[t]) /\ ReaderSound(rd, table[t], removed[t], changed[t])
    BY Zenon DEF ReadInv, ReadersSound
  <1>2. t \in Tenants
    BY Zenon, <1>1 DEF ReaderType
  <1>3. changed[t] \in Marks /\ ChainSound(t, table[t], removed[t], changed[t])
    BY Zenon, <1>2, TenantFacts
  <1>4. changed[t] = "no" => ChainOf(t, table[t])
    BY Zenon, <1>2, UntouchedFacts
  <1>5. result = [result EXCEPT ![v] = result[v]]
    <2>1. result = [u \in Readers |-> result[u]]
      BY Zenon DEF ReadInv
    <2>. QED BY Zenon, <2>1
  <1>6. result[v].kind # "idle" => ResultSound(result[v], changed[result[v].tenant])
    BY Zenon DEF ReadInv, ResultsSound
  <1>. QED BY Zenon, <1>1, <1>2, <1>3, <1>4, <1>5, <1>6

\* A batch is read.
LEMMA ReadBatchKeeps ==
    ASSUME ReadInv, IInv', NEW v \in Readers, ReadBatch(v)
    PROVE  ReadInv'
  <1>1. PICK rd, t : rd = reader[v] /\ t = rd.tenant
    BY Zenon
  <1>0. PICK n : n = IF rd.kind = "export" /\ rd.left < BatchSize THEN rd.left ELSE BatchSize
    BY Zenon
  <1>2. PICK batch \in ChainBatch(t, rd.after, rd.end, n) :
            reader' = [reader EXCEPT ![v] = [rd EXCEPT !.queue = batch, !.more = (Cardinality(batch) = n)]]
    BY ZenonT(60), <1>0, <1>1 DEF ReadBatch
  <1>3. rd.kind # "idle" /\ rd.queue = {} /\ UNCHANGED writing /\ result' = result
    BY Zenon, <1>1 DEF ReadBatch, WantsBatch
  <1>4. PICK more \in BOOLEAN : more = (Cardinality(batch) = n)
    BY Zenon
  <1>5. PICK nd : nd = [rd EXCEPT !.queue = batch, !.more = more]
    BY Zenon
  <1>6. reader' = [reader EXCEPT ![v] = nd]
    BY Zenon, <1>2, <1>4, <1>5
  <1>7. /\ t \in Tenants /\ changed[t] \in Marks
        /\ ChainSound(t, table[t], removed[t], changed[t])
        /\ ReaderType(rd, changed[t]) /\ ReaderSound(rd, table[t], removed[t], changed[t])
        /\ result = [result EXCEPT ![v] = result[v]]
        /\ result[v].kind # "idle" => ResultSound(result[v], changed[result[v].tenant])
    BY Zenon, <1>1, <1>3, ReaderFacts
  <1>8. PICK unread : unread = {r \in table[t] : r.seq > rd.after /\ (rd.end = 0 \/ r.seq <= rd.end)}
    BY Zenon
  <1>9. /\ batch \subseteq unread
        /\ \A r \in batch, q \in unread \ batch : r.seq < q.seq
        /\ batch = unread \/ Cardinality(batch) = n
    BY Zenon, <1>2, <1>8 DEF ChainBatch
  <1>10. ~more => batch = unread
    BY Zenon, <1>4, <1>9
  <1>11. Filled(nd, rd, batch, more)
    BY Zenon, <1>5, <1>7, BatchFields
  <1>12. ReaderType(nd, changed[t]) /\ ReaderSound(nd, table[t], removed[t], changed[t])
    <2>1. rd.tenant = t /\ rd.queue = {}
      BY Zenon, <1>1, <1>3
    <2>2. ChainSound(t, table[t], removed[t], changed[t]) /\ changed[t] \in Marks
      BY Zenon, <1>7
    <2>3. ReaderType(rd, changed[t]) /\ ReaderSound(rd, table[t], removed[t], changed[t])
      BY Zenon, <1>7
    <2>4. batch \subseteq unread /\ \A r \in batch, q \in unread \ batch : r.seq < q.seq
      BY Zenon, <1>9
    <2>. QED BY ZenonT(60), <1>8, <1>10, <1>11, <2>1, <2>2, <2>3, <2>4, BatchSound
  <1>13. nd.tenant = t
    BY Zenon, <1>1, <1>11 DEF Filled
  <1>. QED BY Zenon, <1>3, <1>6, <1>7, <1>12, <1>13, ReaderKeeps

\* A row is fed to the verifier.
LEMMA AddRowKeeps ==
    ASSUME ReadInv, IInv', NEW v \in Readers, AddRow(v)
    PROVE  ReadInv'
  <1>1. PICK rd, t : rd = reader[v] /\ t = rd.tenant
    BY Zenon
  <1>2. rd.kind # "idle" /\ UNCHANGED writing /\ result' = result
    BY Zenon, <1>1 DEF AddRow
  <1>3. PICK r \in rd.queue :
            /\ \A q \in rd.queue : r.seq <= q.seq
            /\ reader' = [reader EXCEPT ![v] =
                   [rd EXCEPT !.queue = @ \ {r}, !.started = TRUE, !.lastSeq = r.seq, !.lastHash = r.hash,
                              !.broken = @ \/ Breaks(rd, r), !.seen = @ \cup {r.seq},
                              !.after = r.seq, !.left = @ - 1]]
    <2>1. \E r \in reader[v].queue :
            /\ \A q \in reader[v].queue : r.seq <= q.seq
            /\ reader' = [reader EXCEPT ![v] =
                   [reader[v] EXCEPT !.queue = @ \ {r}, !.started = TRUE, !.lastSeq = r.seq, !.lastHash = r.hash,
                              !.broken = @ \/ Breaks(reader[v], r), !.seen = @ \cup {r.seq},
                              !.after = r.seq, !.left = @ - 1]]
      BY Zenon DEF AddRow
    <2>. QED BY ZenonT(60), <1>1, <2>1
  <1>4. PICK broken \in BOOLEAN : broken = (rd.broken \/ Breaks(rd, r))
    BY Zenon
  <1>5. PICK nd : nd = [rd EXCEPT !.queue = @ \ {r}, !.started = TRUE, !.lastSeq = r.seq, !.lastHash = r.hash,
                                  !.broken = broken, !.seen = @ \cup {r.seq},
                                  !.after = r.seq, !.left = @ - 1]
    BY Zenon
  <1>6. reader' = [reader EXCEPT ![v] = nd]
    BY Zenon, <1>3, <1>4, <1>5
  <1>7. /\ t \in Tenants /\ changed[t] \in Marks
        /\ ChainSound(t, table[t], removed[t], changed[t])
        /\ changed[t] = "no" => ChainOf(t, table[t])
        /\ ReaderType(rd, changed[t]) /\ ReaderSound(rd, table[t], removed[t], changed[t])
        /\ result = [result EXCEPT ![v] = result[v]]
        /\ result[v].kind # "idle" => ResultSound(result[v], changed[result[v].tenant])
    BY Zenon, <1>1, <1>2, ReaderFacts
  <1>8. broken <=> rd.broken \/ Breaks(rd, r)
    BY Zenon, <1>4
  <1>9. Fed(nd, rd, r, broken)
    BY Zenon, <1>5, <1>7, RowFields
  <1>10. \A q \in rd.queue : r.seq <= q.seq
    BY Zenon, <1>3
  <1>11. ReaderType(nd, changed[t]) /\ ReaderSound(nd, table[t], removed[t], changed[t])
    BY ZenonT(30), <1>1, <1>7, <1>8, <1>9, <1>10, RowSound
  <1>12. nd.tenant = t
    BY Zenon, <1>1, <1>9 DEF Fed
  <1>. QED BY Zenon, <1>2, <1>6, <1>7, <1>11, <1>12, ReaderKeeps

\* A call returns.
LEMMA FinishKeeps ==
    ASSUME ReadInv, IInv', NEW v \in Readers, Finish(v)
    PROVE  ReadInv'
  <1>1. PICK rd, t : rd = reader[v] /\ t = rd.tenant
    BY Zenon
  <1>2. PICK res :
            res = [kind |-> rd.kind, tenant |-> rd.tenant, valid |-> ~rd.broken, from |-> rd.from,
                   seen |-> rd.seen, complete |-> rd.after >= rd.end, next |-> rd.after + 1,
                   head |-> rd.head, changed |-> rd.changed]
    BY Zenon
  <1>3. rd.kind # "idle" /\ rd.queue = {} /\ ~WantsBatch(rd) /\ UNCHANGED writing
    BY Zenon, <1>1 DEF Finish
  <1>4. reader' = [reader EXCEPT ![v] = NoReader] /\ result' = [result EXCEPT ![v] = res]
    BY Zenon, <1>1, <1>2 DEF Finish
  <1>5. /\ t \in Tenants /\ changed[t] \in Marks
        /\ ChainSound(t, table[t], removed[t], changed[t])
        /\ ReaderType(rd, changed[t]) /\ ReaderSound(rd, table[t], removed[t], changed[t])
    BY Zenon, <1>1, <1>3, ReaderFacts
  <1>6. rd.tenant = t
    BY Zenon, <1>1
  <1>7. ResultSound(res, changed[t])
    BY ZenonT(60), <1>2, <1>3, <1>5, <1>6, FinishSound
  <1>8. res.tenant = t
    BY Zenon, <1>2, <1>6
  <1>9. NoReader.kind = "idle"
    BY Zenon DEF NoReader
  <1>. QED BY Zenon, <1>3, <1>4, <1>7, <1>8, <1>9, ReaderKeeps

\* A call starts, whatever its range.
LEMMA StartKeeps ==
    ASSUME ReadInv, IInv', NEW v \in Readers, NEW t \in Tenants, NEW kind \in {"verify", "export"},
           NEW after \in Nat, NEW end, NEW limit,
           kind = "verify" => after = 0 /\ end = 0,
           changed[t] = "no" => end \in Nat,
           result[v].kind = "idle",
           reader' = [reader EXCEPT ![v] = NewReader(kind, t, after, end, limit)],
           UNCHANGED <<writing, result>>
    PROVE  ReadInv'
  <1>1. PICK rd : rd = NewReader(kind, t, after, end, limit)
    BY Zenon
  <1>2. PICK head, mark : head = Head0(t) /\ mark = changed[t]
    BY Zenon
  <1>3. Fresh(rd, kind, t, after, end, head, mark)
    BY Zenon, <1>1, <1>2, NewReaderIsFresh
  <1>4. mark \in Marks /\ ChainSound(t, table[t], removed[t], mark)
    BY Zenon, <1>2, TenantFacts
  <1>5. mark = "no" => end \in Nat /\ head \in Nat /\ (head = 0 \/ \E r \in table[t] : r.seq = head)
    BY Zenon, <1>2, <1>4, HeadOfChain
  <1>6. ReaderType(rd, mark) /\ ReaderSound(rd, table[t], removed[t], mark)
    BY Zenon, <1>3, <1>4, <1>5, StartSound
  <1>7. rd.tenant = t
    BY Zenon, <1>3 DEF Fresh
  <1>8. reader' = [reader EXCEPT ![v] = rd]
    BY Zenon, <1>1
  <1>9. result' = [result EXCEPT ![v] = result[v]]
    <2>1. result = [u \in Readers |-> result[u]]
      BY Zenon DEF ReadInv
    <2>. QED BY Zenon, <2>1
  <1>10. UNCHANGED writing
    BY Zenon
  <1>11. ReaderType(rd, changed[rd.tenant])
         /\ ReaderSound(rd, table[rd.tenant], removed[rd.tenant], changed[rd.tenant])
    BY Zenon, <1>2, <1>6, <1>7
  <1>12. PICK res : res = result[v]
    BY Zenon
  <1>13. (res.kind # "idle" => ResultSound(res, changed[res.tenant])) /\ result' = [result EXCEPT ![v] = res]
    BY Zenon, <1>9, <1>12
  <1>. QED BY Zenon, <1>8, <1>10, <1>11, <1>13, ReaderKeeps

\* Verify starts at the first row.
LEMMA StartVerifyKeeps ==
    ASSUME ReadInv, IInv', NEW v \in Readers, NEW t \in Tenants, StartVerify(v, t)
    PROVE  ReadInv'
  <1>1. /\ result[v].kind = "idle"
        /\ reader' = [reader EXCEPT ![v] = NewReader("verify", t, 0, 0, 0)]
        /\ UNCHANGED <<writing, result>>
    BY Zenon DEF StartVerify
  <1>2. 0 \in Nat /\ "verify" \in {"verify", "export"}
    BY Zenon
  <1>. QED BY Zenon, <1>1, <1>2, StartKeeps

\* Export starts at from_seq and ends at to_seq or at the head.
LEMMA StartExportKeeps ==
    ASSUME ReadInv, IInv', NEW v \in Readers, NEW t \in Tenants, NEW a \in ExportArgs,
           StartExport(v, t, a[1], a[2], a[3])
    PROVE  ReadInv'
  <1>1. PICK end : end = IF a[2] > 0 /\ a[2] < Head0(t) THEN a[2] ELSE Head0(t)
    BY Zenon
  <1>2. /\ result[v].kind = "idle"
        /\ reader' = [reader EXCEPT ![v] = NewReader("export", t, a[1] - 1, end, a[3])]
        /\ UNCHANGED <<writing, result>>
    BY Zenon, <1>1 DEF StartExport
  <1>3. a[1] \in Nat \ {0} /\ a[2] \in Nat
    BY Zenon, AuditAssumption
  <1>4. PICK after, limit : after \in Nat /\ after = a[1] - 1 /\ limit = a[3]
    BY SMTT(40), <1>3
  <1>5. changed[t] = "no" => end \in Nat
    <2>1. changed[t] = "no" => Head0(t) \in Nat
      BY Zenon, UntouchedFacts, HeadOfChain
    <2>. QED BY Zenon, <1>1, <1>3, <2>1
  <1>6. "export" \in {"verify", "export"} /\ "export" # "verify"
    BY Zenon
  <1>7. reader' = [reader EXCEPT ![v] = NewReader("export", t, after, end, limit)]
    BY Zenon, <1>2, <1>4
  <1>8. result[v].kind = "idle" /\ UNCHANGED <<writing, result>>
    BY Zenon, <1>2
  <1>. QED BY ZenonT(60), <1>4, <1>5, <1>6, <1>7, <1>8, StartKeeps

\* Initially there is no row, no reader and no result.
LEMMA InitReadInv == Init => ReadInv
  <1>1. SUFFICES ASSUME Init PROVE ReadInv
    BY Zenon
  <1>2. IInv
    BY Zenon, <1>1, InitIInv
  <1>3. \A t \in Tenants : table[t] = {} /\ removed[t] = {} /\ changed[t] = "no"
    BY Zenon, <1>1 DEF Init
  <1>4. \A t : ChainSound(t, {}, {}, "no")
    BY Zenon DEF ChainSound, Numbered
  <1>5. ChainsSound
    BY Zenon, <1>3, <1>4 DEF ChainsSound
  <1>6. WaitersSound
    BY Zenon, <1>1 DEF Init, WaitersSound
  <1>7. /\ reader = [v \in Readers |-> reader[v]] /\ ReadersSound
        /\ result = [v \in Readers |-> result[v]] /\ ResultsSound
    BY Zenon, <1>1 DEF Init, NoReader, ReadersSound, ResultsSound
  <1>. QED BY Zenon, <1>2, <1>5, <1>6, <1>7 DEF ReadInv

\* Every step keeps the invariant of readers and maintenance.
LEMMA NextReadInv == ReadInv /\ [Next]_vars => ReadInv'
  <1>1. SUFFICES ASSUME ReadInv, [Next]_vars PROVE ReadInv'
    BY Zenon
  <1>2. IInv'
    BY Zenon, <1>1, NextIInv DEF ReadInv
  <1>3. ASSUME NEW w \in Writers, WriterStep(w) PROVE ReadInv'
    <2>1. ASSUME NEW t \in Tenants, NEW b \in Bodies, Begin(w, t, b) PROVE ReadInv'
      BY Zenon, <1>1, <1>2, <2>1, WriterKeeps
    <2>2. ASSUME Lock(w) \/ InsertConflict(w) \/ Rollback(w) PROVE ReadInv'
      <3>1. PICK t \in Tenants, b \in Bodies : TRUE
        BY Zenon, <1>1, <2>2 DEF ReadInv, IInv, TypeOK, Shape, Lock, InsertConflict, Rollback
      <3>. QED BY Zenon, <1>1, <1>2, <2>2, WriterKeeps
    <2>. QED BY Zenon, <1>1, <1>2, <1>3, <2>1, <2>2, ChainRowKeeps, InsertRowKeeps, CommitKeeps DEF WriterStep
  <1>4. ASSUME NEW v \in Readers, ReaderStep(v) PROVE ReadInv'
    BY Zenon, <1>1, <1>2, <1>4, StartVerifyKeeps, StartExportKeeps, ReadBatchKeeps, AddRowKeeps, FinishKeeps
       DEF ReaderStep
  <1>5. ASSUME Maintain PROVE ReadInv'
    BY Zenon, <1>1, <1>2, <1>5, MaintainUpdateKeeps, MaintainDeleteKeeps DEF Maintain
  <1>6. ASSUME Restore PROVE ReadInv'
    BY Zenon, <1>1, <1>2, <1>6, RestoreRowKeeps DEF Restore
  <1>7. ASSUME UNCHANGED vars PROVE ReadInv'
    <2>1. UNCHANGED <<table, changed, removed, reader, result, pc, tenant, row>>
      BY Zenon, <1>7 DEF vars, writing
    <2>2. WaitersSound'
      BY ZenonT(60), <1>1, <2>1 DEF ReadInv, WaitersSound
    <2>. QED BY Zenon, <1>1, <1>2, <2>1, <2>2, QuietStep
  <1>. QED BY Zenon, <1>1, <1>3, <1>4, <1>5, <1>6, <1>7 DEF Next

\* What holds of readers, results and chains under maintenance holds of every
\* reachable state.
THEOREM ReadersInvariant == Spec => []ReadInv
  BY InitReadInv, NextReadInv, PTL DEF Spec

\* Verify and Export read an untouched chain completely, batch by batch, while
\* writers append to it.
THEOREM UntouchedIsReadWhole == Spec => []ReadsAreComplete
  <1>1. ReadInv => ReadsAreComplete
    <2>1. SUFFICES ASSUME ReadInv, NEW v \in Readers, result[v].kind # "idle", changed[result[v].tenant] = "no"
                   PROVE  /\ result[v].valid
                          /\ result[v].seen = result[v].from .. (result[v].next - 1)
                          /\ result[v].kind = "verify" => result[v].head \in result[v].seen \cup {0}
      BY Zenon DEF ReadsAreComplete
    <2>2. ResultSound(result[v], "no")
      BY Zenon, <2>1 DEF ReadInv, ResultsSound
    <2>. QED BY Zenon, <2>2 DEF ResultSound
  <1>. QED BY <1>1, ReadersInvariant, PTL

\* Verify is right both ways: no false alarm on an untouched chain, a restored
\* chain is whole, and an edit or a hole that was there when it started is reported.
THEOREM VerdictHolds == Spec => []VerdictIsRight
  <1>1. ReadInv => NoFalseAlarm
    <2>1. SUFFICES ASSUME ReadInv, NEW v \in Readers, reader[v].kind # "idle", changed[reader[v].tenant] = "no"
                   PROVE  ~reader[v].broken
      BY Zenon DEF NoFalseAlarm
    <2>2. PICK rd, t : rd = reader[v] /\ t = rd.tenant
      BY Zenon
    <2>3. ReaderType(rd, "no") /\ ReaderSound(rd, table[t], removed[t], "no")
      BY SMTT(40), <2>1, <2>2, ReaderFacts
    <2>4. ReadSoFar(rd, table[t])
      BY Zenon, <2>3 DEF ReaderType, ReaderSound
    <2>. QED BY Zenon, <2>2, <2>4 DEF ReadSoFar
  <1>2. ReadInv => RestoreHeals
    <2>1. SUFFICES ASSUME ReadInv, NEW t \in Tenants, changed[t] = "restored" PROVE Intact(t)
      BY Zenon DEF RestoreHeals
    <2>2. ChainOf(t, table[t])
      BY Zenon, <2>1, TenantFacts DEF ChainSound
    <2>. QED BY Zenon, <2>2 DEF ChainOf, Intact
  <1>3. ReadInv => EditsAndHolesReported
    <2>1. SUFFICES ASSUME ReadInv, NEW v \in Readers, result[v].kind = "verify",
                          result[v].changed \in {"edit", "hole"}, changed[result[v].tenant] = result[v].changed
                   PROVE  ~result[v].valid
      BY Zenon DEF EditsAndHolesReported
    <2>2. ResultSound(result[v], changed[result[v].tenant])
      BY Zenon, <2>1 DEF ReadInv, ResultsSound
    <2>. QED BY Zenon, <2>1, <2>2 DEF ResultSound
  <1>4. ReadInv => VerdictIsRight
    BY Zenon, <1>1, <1>2, <1>3 DEF VerdictIsRight
  <1>. QED BY <1>4, ReadersInvariant, PTL
=============================================================================

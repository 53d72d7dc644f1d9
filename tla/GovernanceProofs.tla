------------------------- MODULE GovernanceProofs -------------------------
(***************************************************************************)
(* Proofs about the parts of GovernanceParts, for any numbers of erasers,  *)
(* workers, labels and callers: an erasure is exact, and the entity        *)
(* registry is sound.                                                      *)
(***************************************************************************)
EXTENDS GovernanceParts, TLAPS

(***************************************************************************)
(* The erasure of a path prefix.                                           *)
(***************************************************************************)

AllKinds == {Kinds[i] : i \in DOMAIN Kinds} \cup {"vertex"}

\* The rows there can be once s versions are stored and w derived rows are written.
MemoryRows(s) == [id : 0..s, under : BOOLEAN]
DerivedRows(w) == [row : 1..w, kind : AllKinds, id : Nat, under : BOOLEAN]

TxRows(s, w) ==
    [step : 0..Erase!GraphStep, dry : BOOLEAN,
     collected : SUBSET MemoryRows(s), gone : SUBSET MemoryRows(s),
     lost : SUBSET DerivedRows(w), found : SUBSET DerivedRows(w)]

\* How far an erasure has come.  What it collected is under the prefix; what it found was
\* derived from that; what it deleted nobody else has removed; before the commit it has
\* deleted all versions it collected that are left; it has deleted what it found of the
\* kinds it is through with; and after the commit it owes that.
TxInv(t, mem, der, owe) ==
    /\ \A m \in t.collected : m.under
    /\ \A d \in t.found : \E m \in t.collected : d.id = m.id
    /\ t.gone \subseteq mem
    /\ t.step = Erase!CommitStep => t.collected \cap mem \subseteq t.gone
    /\ t.step <= Erase!CommitStep =>
         \A d \in t.found \cap der, i \in DOMAIN Kinds : i < t.step /\ d.kind = Kinds[i] => d \in t.lost
    /\ t.step = Erase!GraphStep => \A d \in t.found : d.kind # "vertex" => d \in owe

EraseTypes ==
    /\ stored \in Nat /\ written \in Nat
    /\ memories \subseteq MemoryRows(stored)
    /\ derived \subseteq DerivedRows(written)
    /\ owed \subseteq MemoryRows(stored) \cup DerivedRows(written)
    /\ reads \in [Derivers -> MemoryRows(stored)]
    /\ tx \in [Erasers -> TxRows(stored, written)]

\* The audit rows and the commits they count.
EvidenceInv ==
    /\ \E S : audit \in Seq(S)
    /\ \E S : eRemoved \in Seq(S)
    /\ Len(audit) = Len(eRemoved)
    /\ Erase!CountsAreExact

\* No version is deleted by two erasures.
GoneApart == \A e, f \in Erasers : e # f => tx[e].gone \cap tx[f].gone = {}

EraseInv ==
    /\ EraseTypes
    /\ \A e \in Erasers : TxInv(tx[e], memories, derived, owed)
    /\ GoneApart
    /\ Erase!NothingFoundRemains
    /\ EvidenceInv

\* The steps of an erasure are counted from the number of its tables.
LEMMA KindsFacts ==
    /\ Len(Kinds) \in Nat /\ DOMAIN Kinds = 1..Len(Kinds)
    /\ Erase!MemoryStep = Len(Kinds) + 1 /\ Erase!CommitStep = Len(Kinds) + 2
    /\ Erase!GraphStep = Len(Kinds) + 3
  <1>1. Kinds \in Seq(STRING)
    BY Zenon, EraseAssumption DEF Erase!ErasureAssumption
  <1>. QED BY SMTT(40), <1>1 DEF Erase!MemoryStep, Erase!CommitStep, Erase!GraphStep

\* A later table has room for every earlier row, and a row of a new number is new.
LEMMA RowsGrow ==
    ASSUME NEW s \in Nat
    PROVE  /\ MemoryRows(s) \subseteq MemoryRows(s + 1)
           /\ \A u \in BOOLEAN : /\ [id |-> s + 1, under |-> u] \in MemoryRows(s + 1)
                                 /\ [id |-> s + 1, under |-> u] \notin MemoryRows(s)
  BY SMTT(40) DEF MemoryRows

\* Writing more derived rows keeps those there are among the possible ones.
LEMMA DerivedGrow ==
    ASSUME NEW w \in Nat
    PROVE  /\ DerivedRows(w) \subseteq DerivedRows(w + 1)
           /\ \A k \in AllKinds, i \in Nat, u \in BOOLEAN :
                /\ [row |-> w + 1, kind |-> k, id |-> i, under |-> u] \in DerivedRows(w + 1)
                /\ [row |-> w + 1, kind |-> k, id |-> i, under |-> u] \notin DerivedRows(w)
  BY SMTT(40) DEF DerivedRows

\* A derived row that is new is none of those written before.
LEMMA RowsApart ==
    ASSUME NEW s, NEW w, NEW r \in MemoryRows(s)
    PROVE  r \notin DerivedRows(w)
  <1>1. DOMAIN r = {"id", "under"}
    BY SMTT(40) DEF MemoryRows
  <1>2. \A d \in DerivedRows(w) : DOMAIN d = {"row", "kind", "id", "under"}
    BY SMTT(40) DEF DerivedRows
  <1>. QED BY SMTT(40), <1>1, <1>2

\* A transaction's record has room for more rows when there are more.
LEMMA TxGrow ==
    ASSUME NEW s \in Nat, NEW w \in Nat
    PROVE  TxRows(s, w) \subseteq TxRows(s + 1, w) /\ TxRows(s, w) \subseteq TxRows(s, w + 1)
  <1>1. MemoryRows(s) \subseteq MemoryRows(s + 1) /\ DerivedRows(w) \subseteq DerivedRows(w + 1)
    BY Zenon, RowsGrow, DerivedGrow
  <1>2. \A A, B : A \subseteq B => SUBSET A \subseteq SUBSET B
    BY Zenon
  <1>. QED BY SMTT(40), <1>1, <1>2 DEF TxRows

\* The record of a transaction, field by field.
LEMMA TxFacts ==
    ASSUME NEW s, NEW w, NEW t \in TxRows(s, w)
    PROVE  /\ t.step \in 0..Erase!GraphStep /\ t.dry \in BOOLEAN
           /\ t.collected \subseteq MemoryRows(s) /\ t.gone \subseteq MemoryRows(s)
           /\ t.lost \subseteq DerivedRows(w) /\ t.found \subseteq DerivedRows(w)
  BY SMTT(40) DEF TxRows

\* The record of no transaction fits everywhere.
LEMMA NoTxFits ==
    ASSUME NEW s \in Nat, NEW w \in Nat, NEW mem, NEW der, NEW owe
    PROVE  Erase!NoTx \in TxRows(s, w) /\ TxInv(Erase!NoTx, mem, der, owe)
  BY SMTT(40), KindsFacts DEF Erase!NoTx, TxRows, TxInv

\* No erasure has begun.
LEMMA EraseInit == Erase!Init => EraseInv
  <1>1. SUFFICES ASSUME Erase!Init PROVE EraseInv
    BY Zenon
  <1>2. Erase!NoMemory \in MemoryRows(0)
    BY SMTT(40) DEF Erase!NoMemory, MemoryRows
  <1>3. EraseTypes
    <2>1. stored = 0 /\ written = 0 /\ 0 \in Nat
      BY SMTT(40), <1>1 DEF Erase!Init
    <2>2. tx \in [Erasers -> TxRows(stored, written)]
      BY Zenon, <1>1, <2>1, NoTxFits DEF Erase!Init
    <2>3. reads \in [Derivers -> MemoryRows(stored)]
      BY Zenon, <1>1, <2>1, <1>2 DEF Erase!Init
    <2>. QED BY Zenon, <1>1, <2>1, <2>2, <2>3 DEF Erase!Init, EraseTypes
  <1>4. \A e \in Erasers : TxInv(tx[e], memories, derived, owed) /\ tx[e] = Erase!NoTx
    BY Zenon, <1>1, <1>3, NoTxFits DEF Erase!Init, EraseTypes
  <1>5. GoneApart
    BY SMTT(40), <1>4 DEF GoneApart, Erase!NoTx
  <1>6. Erase!NothingFoundRemains
    BY Zenon, <1>1 DEF Erase!Init, Erase!NothingFoundRemains
  <1>7. EvidenceInv
    <2>1. audit \in Seq({}) /\ eRemoved \in Seq({}) /\ Len(audit) = 0 /\ Len(eRemoved) = 0
      BY SMTT(40), <1>1 DEF Erase!Init
    <2>2. DOMAIN audit = {}
      BY SMTT(40), <1>1 DEF Erase!Init
    <2>. QED BY Zenon, <2>1, <2>2 DEF EvidenceInv, Erase!CountsAreExact
  <1>. QED BY Zenon, <1>3, <1>4, <1>5, <1>6, <1>7 DEF EraseInv

\* A version that is stored has a number of its own: it was neither collected by an
\* erasure that goes on nor found by one that is over.
LEMMA StoreKeeps ==
    ASSUME EraseInv, NEW under \in BOOLEAN, Erase!Store(under)
    PROVE  EraseInv'
  <1>1. DEFINE new == [id |-> stored + 1, under |-> under]
  <1>2. EraseTypes /\ stored \in Nat /\ written \in Nat /\ stored' = stored + 1 /\ memories' = memories \cup {new}
    BY Zenon DEF EraseInv, EraseTypes, Erase!Store
  <1>3. UNCHANGED <<derived, written, reads, tx, audit, eRemoved, owed>>
    BY Zenon DEF Erase!Store
  <1>4. MemoryRows(stored) \subseteq MemoryRows(stored') /\ new \in MemoryRows(stored') /\ new \notin MemoryRows(stored)
    BY Zenon, <1>2, RowsGrow
  <1>5. new \notin DerivedRows(written)
    BY Zenon, <1>4, RowsApart
  <1>6. TxRows(stored, written) \subseteq TxRows(stored', written)
    BY Zenon, <1>2, TxGrow
  <1>7. EraseTypes'
    <2>1. stored' \in Nat
      BY SMTT(40), <1>2
    <2>2. reads' \in [Derivers -> MemoryRows(stored')] /\ tx' \in [Erasers -> TxRows(stored', written')]
      BY SMTT(40), <1>2, <1>3, <1>4, <1>6 DEF EraseTypes
    <2>. QED BY Zenon, <1>2, <1>3, <1>4, <2>1, <2>2 DEF EraseTypes
  <1>8. ASSUME NEW e \in Erasers PROVE TxInv(tx[e], memories', derived, owed)
    <2>1. TxInv(tx[e], memories, derived, owed)
      BY Zenon DEF EraseInv
    <2>2. tx[e].collected \subseteq MemoryRows(stored)
      BY SMTT(40), <1>2 DEF EraseTypes, TxRows
    <2>. QED BY Zenon, <1>2, <1>4, <2>1, <2>2 DEF TxInv
  <1>9. Erase!NothingFoundRemains'
    BY Zenon, <1>2, <1>3, <1>4, <1>5 DEF EraseInv, EraseTypes, Erase!NothingFoundRemains
  <1>10. GoneApart' /\ EvidenceInv'
    BY Zenon, <1>3 DEF EraseInv, GoneApart, EvidenceInv, Erase!CountsAreExact
  <1>. QED BY Zenon, <1>3, <1>7, <1>8, <1>9, <1>10 DEF EraseInv

\* Reading a memory touches no row.
LEMMA ReadMemoryKeeps ==
    ASSUME EraseInv, NEW w \in Derivers, Erase!ReadMemory(w)
    PROVE  EraseInv'
  <1>1. UNCHANGED <<memories, stored, derived, written, tx, audit, eRemoved, owed>>
    BY Zenon DEF Erase!ReadMemory
  <1>2. EraseTypes'
    <2>1. reads' \in [Derivers -> MemoryRows(stored)]
      BY Zenon DEF EraseInv, EraseTypes, Erase!ReadMemory
    <2>. QED BY Zenon, <1>1, <2>1 DEF EraseInv, EraseTypes
  <1>. QED BY Zenon, <1>1, <1>2 DEF EraseInv, GoneApart, EvidenceInv, Erase!CountsAreExact, Erase!NothingFoundRemains

\* A derived row that is written has a number of its own, even when its memory has been
\* erased since the worker read it.
LEMMA WriteDerivedKeeps ==
    ASSUME EraseInv, NEW w \in Derivers, NEW k \in AllKinds, Erase!WriteDerived(w, k)
    PROVE  EraseInv'
  <1>1. DEFINE new == [row |-> written + 1, kind |-> k, id |-> reads[w].id, under |-> reads[w].under]
  <1>2. EraseTypes /\ stored \in Nat /\ written \in Nat /\ written' = written + 1 /\ derived' = derived \cup {new}
    BY Zenon DEF EraseInv, EraseTypes, Erase!WriteDerived
  <1>3. UNCHANGED <<memories, stored, tx, audit, eRemoved, owed>>
    BY Zenon DEF Erase!WriteDerived
  <1>4. reads[w].id \in Nat /\ reads[w].under \in BOOLEAN
    <2>1. reads[w] \in MemoryRows(stored)
      BY Zenon, <1>2 DEF EraseTypes
    <2>. QED BY SMTT(40), <1>2, <2>1 DEF MemoryRows
  <1>5. DerivedRows(written) \subseteq DerivedRows(written') /\ new \in DerivedRows(written') /\ new \notin DerivedRows(written)
    BY Zenon, <1>2, <1>4, DerivedGrow
  <1>6. new \notin MemoryRows(stored)
    BY Zenon, <1>5, RowsApart
  <1>7. TxRows(stored, written) \subseteq TxRows(stored, written')
    BY Zenon, <1>2, TxGrow
  <1>8. EraseTypes'
    <2>1. written' \in Nat
      BY SMTT(40), <1>2
    <2>2. Erase!NoMemory \in MemoryRows(stored)
      BY SMTT(40), <1>2 DEF Erase!NoMemory, MemoryRows
    <2>3. reads' \in [Derivers -> MemoryRows(stored)]
      BY Zenon, <1>2, <2>2 DEF EraseTypes, Erase!WriteDerived
    <2>4. tx' \in [Erasers -> TxRows(stored', written')]
      BY SMTT(40), <1>2, <1>3, <1>7 DEF EraseTypes
    <2>. QED BY Zenon, <1>2, <1>3, <1>5, <2>1, <2>3, <2>4 DEF EraseTypes
  <1>9. ASSUME NEW e \in Erasers PROVE TxInv(tx[e], memories, derived', owed)
    <2>1. TxInv(tx[e], memories, derived, owed)
      BY Zenon DEF EraseInv
    <2>2. tx[e].found \subseteq DerivedRows(written)
      BY SMTT(40), <1>2 DEF EraseTypes, TxRows
    <2>. QED BY Zenon, <1>2, <1>5, <2>1, <2>2 DEF TxInv
  <1>10. Erase!NothingFoundRemains'
    BY Zenon, <1>2, <1>3, <1>5, <1>6 DEF EraseInv, EraseTypes, Erase!NothingFoundRemains
  <1>11. GoneApart' /\ EvidenceInv'
    BY Zenon, <1>3 DEF EraseInv, GoneApart, EvidenceInv, Erase!CountsAreExact
  <1>. QED BY Zenon, <1>3, <1>8, <1>9, <1>10, <1>11 DEF EraseInv

\* What a step of one erasure leaves to show when it touches nothing but its own record:
\* that the record is right, and that it deletes no version another one deletes.
LEMMA OwnStep ==
    ASSUME EraseInv, NEW e \in Erasers,
           tx' \in [Erasers -> TxRows(stored, written)],
           TxInv(tx'[e], memories, derived, owed),
           \A f \in Erasers \ {e} : tx'[e].gone \cap tx[f].gone = {},
           \A f \in Erasers \ {e} : tx'[f] = tx[f],
           UNCHANGED <<memories, stored, derived, written, reads, audit, eRemoved, owed>>
    PROVE  EraseInv'
  <1>1. EraseTypes'
    BY Zenon DEF EraseInv, EraseTypes
  <1>2. \A f \in Erasers : TxInv(tx'[f], memories, derived, owed)
    BY Zenon DEF EraseInv
  <1>3. GoneApart'
    <2>1. SUFFICES ASSUME NEW f \in Erasers, NEW g \in Erasers, f # g
                   PROVE  tx'[f].gone \cap tx'[g].gone = {}
      BY Zenon DEF GoneApart
    <2>2. CASE f = e
      BY Zenon, <2>1, <2>2
    <2>3. CASE g = e
      BY Zenon, <2>1, <2>3
    <2>4. CASE f # e /\ g # e
      BY Zenon, <2>1, <2>4 DEF EraseInv, GoneApart
    <2>. QED BY Zenon, <2>2, <2>3, <2>4
  <1>. QED BY Zenon, <1>1, <1>2, <1>3 DEF EraseInv, EvidenceInv, Erase!CountsAreExact, Erase!NothingFoundRemains

\* An erasure begins.
LEMMA CollectKeeps ==
    ASSUME EraseInv, NEW e \in Erasers, NEW dry \in BOOLEAN, Erase!Collect(e, dry)
    PROVE  EraseInv'
  <1>1. DEFINE col == {m \in memories : m.under}
               fnd == {d \in derived : d.id \in {m.id : m \in {n \in memories : n.under}}}
               t == [step |-> 1, dry |-> dry, gone |-> {}, lost |-> {}, collected |-> col, found |-> fnd]
  <1>2. EraseTypes
    BY Zenon DEF EraseInv
  <1>3. tx' = [tx EXCEPT ![e] = t]
    BY Zenon DEF Erase!Collect
  <1>4. /\ \A d \in fnd : \E m \in col : d.id = m.id
        /\ \A m \in col : m.under
        /\ col \in SUBSET MemoryRows(stored) /\ fnd \in SUBSET DerivedRows(written)
    BY Zenon, <1>2 DEF EraseTypes
  <1>. HIDE DEF col, fnd
  <1>5. t.step = 1 /\ t.collected = col /\ t.gone = {} /\ t.found = fnd
    BY SMTT(40)
  <1>6. t \in TxRows(stored, written)
    BY SMTT(40), <1>4, KindsFacts DEF TxRows
  <1>7. TxInv(t, memories, derived, owed)
    <2>1. t.step # Erase!CommitStep /\ t.step # Erase!GraphStep /\ \A i \in DOMAIN Kinds : ~(i < t.step)
      BY SMTT(40), <1>5, KindsFacts
    <2>. HIDE DEF t
    <2>. QED BY Zenon, <1>4, <1>5, <2>1 DEF TxInv
  <1>8. UNCHANGED <<memories, stored, derived, written, reads, audit, eRemoved, owed>>
    BY Zenon DEF Erase!Collect
  <1>. HIDE DEF t
  <1>9. tx' \in [Erasers -> TxRows(stored, written)] /\ tx'[e] = t /\ \A f \in Erasers \ {e} : tx'[f] = tx[f]
    BY Zenon, <1>2, <1>3, <1>6 DEF EraseTypes
  <1>. QED BY Zenon, <1>5, <1>7, <1>8, <1>9, OwnStep

\* A statement deletes the rows of its table that match: with those it deletes, the
\* erasure is through with one more kind.
LEMMA DeleteDerivedKeeps ==
    ASSUME EraseInv, NEW e \in Erasers, Erase!DeleteDerived(e)
    PROVE  EraseInv'
  <1>1. DEFINE o == tx[e]
               t == tx'[e]
               rows == {d \in derived \ o.lost : d.kind = Kinds[o.step] /\ Erase!Matches(e, d)}
  <1>2. /\ EraseTypes /\ tx \in [Erasers -> TxRows(stored, written)]
        /\ o \in TxRows(stored, written) /\ TxInv(o, memories, derived, owed)
    BY Zenon DEF EraseInv, EraseTypes
  <1>3. o.step \in 1..Len(Kinds) /\ o.step + 1 \in 0..Erase!GraphStep
    <2>1. o.step \in 1..Len(Kinds)
      BY Zenon, KindsFacts DEF Erase!DeleteDerived
    <2>. QED BY SMTT(40), <2>1, KindsFacts
  <1>4. o.lost \cup rows \in SUBSET DerivedRows(written)
    <2>1. o.lost \subseteq DerivedRows(written)
      BY Zenon, <1>2, TxFacts
    <2>. QED BY Zenon, <1>2, <2>1 DEF EraseTypes
  <1>5. tx' = [tx EXCEPT ![e].lost = @ \cup rows, ![e].step = @ + 1]
    BY Zenon DEF Erase!DeleteDerived
  <1>6. ASSUME NEW d \in o.found \cap derived, d.kind = Kinds[o.step]
        PROVE  d \in o.lost \cup rows
    BY Zenon, <1>2, <1>6 DEF TxInv, Erase!Matches
  <1>. HIDE DEF rows
  <1>7. /\ tx' \in [Erasers -> TxRows(stored, written)]
        /\ t.step = o.step + 1 /\ t.collected = o.collected /\ t.gone = o.gone
        /\ t.found = o.found /\ t.lost = o.lost \cup rows
        /\ \A f \in Erasers \ {e} : tx'[f] = tx[f]
    <2>1. PICK g : g = [tx EXCEPT ![e].lost = o.lost \cup rows]
      BY Zenon
    <2>2. /\ g \in [Erasers -> TxRows(stored, written)]
          /\ g[e].step = o.step /\ g[e].collected = o.collected /\ g[e].gone = o.gone
          /\ g[e].found = o.found /\ g[e].lost = o.lost \cup rows
          /\ \A f \in Erasers \ {e} : g[f] = tx[f]
      BY SMTT(40), <1>2, <1>4, <2>1 DEF TxRows
    <2>3. tx' = [g EXCEPT ![e].step = o.step + 1]
      <3>1. tx' = [g EXCEPT ![e].step = @ + 1]
        BY Zenon, <1>2, <1>5, <2>1
      <3>. QED BY Zenon, <2>2, <3>1
    <2>. QED BY SMTT(40), <1>3, <2>2, <2>3 DEF TxRows
  <1>8. TxInv(t, memories, derived, owed)
    <2>1. /\ t.step # Erase!CommitStep /\ t.step # Erase!GraphStep /\ o.step <= Erase!CommitStep
          /\ \A i \in DOMAIN Kinds : i < t.step => i < o.step \/ i = o.step
      BY SMTT(40), <1>3, <1>7, KindsFacts
    <2>2. ASSUME NEW d \in t.found \cap derived, NEW i \in DOMAIN Kinds, i < t.step, d.kind = Kinds[i]
          PROVE  d \in t.lost
      BY Zenon, <1>2, <1>6, <1>7, <2>1, <2>2 DEF TxInv
    <2>. HIDE DEF o, t
    <2>. QED BY ZenonT(60), <1>2, <1>7, <2>1, <2>2 DEF TxInv
  <1>9. \A f \in Erasers \ {e} : t.gone \cap tx[f].gone = {}
    BY Zenon, <1>7 DEF EraseInv, GoneApart
  <1>10. UNCHANGED <<memories, stored, derived, written, reads, audit, eRemoved, owed>>
    BY Zenon DEF Erase!DeleteDerived
  <1>. QED BY Zenon, <1>7, <1>8, <1>9, <1>10, OwnStep

\* An erasure that is given up, or whose cleanup failed, leaves no record.
LEMMA DropTx ==
    ASSUME EraseInv, NEW e \in Erasers, tx' = [tx EXCEPT ![e] = Erase!NoTx],
           UNCHANGED <<memories, stored, derived, written, reads, audit, eRemoved, owed>>
    PROVE  EraseInv'
  <1>1. stored \in Nat /\ written \in Nat /\ tx \in [Erasers -> TxRows(stored, written)]
    BY Zenon DEF EraseInv, EraseTypes
  <1>2. Erase!NoTx \in TxRows(stored, written) /\ TxInv(Erase!NoTx, memories, derived, owed)
    BY Zenon, <1>1, NoTxFits
  <1>3. Erase!NoTx.gone = {}
    BY SMTT(40) DEF Erase!NoTx
  <1>4. tx' \in [Erasers -> TxRows(stored, written)] /\ tx'[e] = Erase!NoTx /\ \A f \in Erasers \ {e} : tx'[f] = tx[f]
    BY Zenon, <1>1, <1>2
  <1>5. TxInv(tx'[e], memories, derived, owed) /\ \A f \in Erasers \ {e} : tx'[e].gone \cap tx[f].gone = {}
    BY Zenon, <1>2, <1>3, <1>4
  <1>. QED BY Zenon, <1>4, <1>5, OwnStep

\* The versions under the prefix are deleted, unless another erasure has deleted one.
LEMMA DeleteMemoriesKeeps ==
    ASSUME EraseInv, NEW e \in Erasers, Erase!DeleteMemories(e)
    PROVE  EraseInv'
  <1>1. DEFINE o == tx[e]
               t == tx'[e]
               rows == {m \in memories : m.under}
  <1>2. /\ EraseTypes /\ tx \in [Erasers -> TxRows(stored, written)]
        /\ o \in TxRows(stored, written) /\ TxInv(o, memories, derived, owed)
    BY Zenon DEF EraseInv, EraseTypes
  <1>3. UNCHANGED <<memories, stored, derived, written, reads, audit, eRemoved, owed>>
    BY Zenon DEF Erase!DeleteMemories
  <1>4. CASE o.dry
    <2>1. tx' = [tx EXCEPT ![e] = Erase!NoTx]
      BY Zenon, <1>4 DEF Erase!DeleteMemories
    <2>. QED BY Zenon, <1>3, <2>1, DropTx
  <1>5. CASE ~o.dry
    <2>1. tx' = [tx EXCEPT ![e] = [@ EXCEPT !.gone = rows, !.step = Erase!CommitStep]] /\ o.step = Erase!MemoryStep
      BY Zenon, <1>5 DEF Erase!DeleteMemories
    <2>2. \A f \in Erasers \ {e} : tx[f].gone \cap rows = {}
      BY Zenon DEF Erase!DeleteMemories, Erase!Unlocked
    <2>3. o.collected \cap memories \subseteq rows /\ rows \subseteq memories /\ rows \in SUBSET MemoryRows(stored)
      BY Zenon, <1>2 DEF TxInv, EraseTypes
    <2>. HIDE DEF rows
    <2>4. PICK g : g = [tx EXCEPT ![e].gone = rows]
      BY Zenon
    <2>5. tx' = [g EXCEPT ![e].step = Erase!CommitStep]
      BY Zenon, <1>2, <2>1, <2>4
    <2>6. /\ g \in [Erasers -> TxRows(stored, written)]
          /\ g[e].step = o.step /\ g[e].collected = o.collected /\ g[e].gone = rows
          /\ g[e].found = o.found /\ g[e].lost = o.lost
          /\ \A f \in Erasers \ {e} : g[f] = tx[f]
      BY SMTT(40), <1>2, <2>3, <2>4 DEF TxRows
    <2>7. Erase!CommitStep \in 0..Erase!GraphStep
      BY SMTT(40), KindsFacts
    <2>8. /\ tx' \in [Erasers -> TxRows(stored, written)]
          /\ t.step = Erase!CommitStep /\ t.collected = o.collected /\ t.gone = rows
          /\ t.found = o.found /\ t.lost = o.lost
          /\ \A f \in Erasers \ {e} : tx'[f] = tx[f]
      BY SMTT(40), <2>5, <2>6, <2>7 DEF TxRows
    <2>9. /\ Erase!CommitStep # Erase!GraphStep /\ o.step <= Erase!CommitStep
          /\ \A i \in DOMAIN Kinds : i < o.step
      BY SMTT(40), <2>1, KindsFacts
    <2>10. TxInv(t, memories, derived, owed)
      <3>. HIDE DEF o, t
      <3>. QED BY Zenon, <1>2, <2>3, <2>8, <2>9 DEF TxInv
    <2>. QED BY Zenon, <1>3, <2>2, <2>8, <2>10, OwnStep
  <1>. QED BY Zenon, <1>4, <1>5

\* r is s with x appended.
Grown(r, s, x) ==
    /\ Len(r) = Len(s) + 1 /\ Len(s) \in Nat
    /\ DOMAIN r = 1..(Len(s) + 1) /\ DOMAIN s = 1..Len(s)
    /\ r[Len(s) + 1] = x /\ \A i \in 1..Len(s) : r[i] = s[i]

\* What a commit appends keeps the rows and the commits in step.
LEMMA EvidenceGrows ==
    ASSUME NEW A, NEW s \in Seq(A), NEW x
    PROVE  Append(s, x) \in Seq(A \cup {x}) /\ Grown(Append(s, x), s, x)
  <1>1. s \in Seq(A \cup {x})
    BY SMTT(40)
  <1>. QED BY SMTT(40), <1>1 DEF Grown

\* The commit removes what was deleted and writes the audit row.  Nothing of what was
\* collected is left, nor, of any kind of table, of what was found.
LEMMA CommitKeeps ==
    ASSUME EraseInv, NEW e \in Erasers, Erase!Commit(e)
    PROVE  EraseInv'
  <1>1. DEFINE o == tx[e]
               t == tx'[e]
               fnd == {d \in o.found : d.kind # "vertex"}
  <1>2. /\ EraseTypes /\ tx \in [Erasers -> TxRows(stored, written)]
        /\ o \in TxRows(stored, written) /\ TxInv(o, memories, derived, owed)
    BY Zenon DEF EraseInv, EraseTypes
  <1>3. /\ o.step = Erase!CommitStep
        /\ memories' = memories \ o.gone /\ derived' = derived \ o.lost
        /\ owed' = owed \cup o.collected \cup fnd
        /\ UNCHANGED <<stored, written, reads>>
    BY Zenon DEF Erase!Commit
  <1>4. /\ tx' \in [Erasers -> TxRows(stored, written)]
        /\ t.step = Erase!GraphStep /\ t.collected = o.collected /\ t.gone = {}
        /\ t.found = o.found
        /\ \A f \in Erasers \ {e} : tx'[f] = tx[f]
    <2>1. PICK g : g = [tx EXCEPT ![e].step = Erase!GraphStep]
      BY Zenon
    <2>2. PICK h : h = [g EXCEPT ![e].gone = {}]
      BY Zenon
    <2>3. tx' = [h EXCEPT ![e].lost = {}]
      <3>1. tx' = [tx EXCEPT ![e].step = Erase!GraphStep, ![e].gone = {}, ![e].lost = {}]
        BY Zenon DEF Erase!Commit
      <3>. QED BY Zenon, <1>2, <2>1, <2>2, <3>1
    <2>4. Erase!GraphStep \in 0..Erase!GraphStep
      BY SMTT(40), KindsFacts
    <2>5. /\ g \in [Erasers -> TxRows(stored, written)]
          /\ g[e].step = Erase!GraphStep /\ g[e].collected = o.collected /\ g[e].found = o.found
          /\ \A f \in Erasers \ {e} : g[f] = tx[f]
      BY SMTT(40), <1>2, <2>1, <2>4 DEF TxRows
    <2>6. /\ h \in [Erasers -> TxRows(stored, written)]
          /\ h[e].step = Erase!GraphStep /\ h[e].collected = o.collected /\ h[e].found = o.found
          /\ h[e].gone = {}
          /\ \A f \in Erasers \ {e} : h[f] = tx[f]
      BY SMTT(40), <2>2, <2>5 DEF TxRows
    <2>. QED BY SMTT(40), <2>3, <2>6 DEF TxRows
  <1>5. o.collected \subseteq MemoryRows(stored) /\ o.found \subseteq DerivedRows(written)
    BY Zenon, <1>2, TxFacts
  <1>6. EraseTypes'
    BY Zenon, <1>2, <1>3, <1>4, <1>5 DEF EraseTypes
  <1>7. TxInv(t, memories', derived', owed')
    <2>1. Erase!GraphStep # Erase!CommitStep /\ ~(Erase!GraphStep <= Erase!CommitStep)
      BY SMTT(40), KindsFacts
    <2>2. \A d \in t.found : d.kind # "vertex" => d \in owed'
      BY Zenon, <1>3, <1>4
    <2>. HIDE DEF o, t
    <2>. QED BY Zenon, <1>2, <1>4, <2>1, <2>2 DEF TxInv
  <1>8. ASSUME NEW f \in Erasers \ {e} PROVE TxInv(tx'[f], memories', derived', owed')
    <2>1. tx'[f] = tx[f] /\ TxInv(tx[f], memories, derived, owed) /\ tx[f].gone \cap o.gone = {}
      BY Zenon, <1>4 DEF EraseInv, GoneApart
    <2>. HIDE DEF o
    <2>. QED BY Zenon, <1>3, <2>1 DEF TxInv
  <1>9. GoneApart'
    <2>1. SUFFICES ASSUME NEW f \in Erasers, NEW g \in Erasers, f # g
                   PROVE  tx'[f].gone \cap tx'[g].gone = {}
      BY Zenon DEF GoneApart
    <2>2. CASE f = e
      BY Zenon, <1>4, <2>2
    <2>3. CASE g = e
      BY Zenon, <1>4, <2>3
    <2>4. CASE f # e /\ g # e
      BY Zenon, <1>4, <2>1, <2>4 DEF EraseInv, GoneApart
    <2>. QED BY Zenon, <2>2, <2>3, <2>4
  <1>10. Erase!NothingFoundRemains'
    <2>1. o.collected \cap memories' = {}
      BY Zenon, <1>2, <1>3 DEF TxInv
    <2>2. ASSUME NEW d \in fnd, d \in derived' PROVE FALSE
      <3>1. d \in DerivedRows(written) /\ d \in o.found \cap derived /\ d \notin o.lost
        BY Zenon, <1>3, <1>5, <2>2
      <3>2. d.kind \in AllKinds
        BY SMTT(40), <3>1 DEF DerivedRows
      <3>3. PICK i \in DOMAIN Kinds : d.kind = Kinds[i]
        BY Zenon, <3>2 DEF AllKinds
      <3>4. i < o.step /\ o.step <= Erase!CommitStep
        BY SMTT(40), <1>3, KindsFacts
      <3>. QED BY Zenon, <1>2, <3>1, <3>3, <3>4 DEF TxInv
    <2>3. o.collected \cap derived' = {} /\ fnd \cap memories' = {}
      BY Zenon, <1>2, <1>3, <1>5, RowsApart DEF EraseTypes
    <2>. QED BY Zenon, <1>3, <2>1, <2>2, <2>3 DEF EraseInv, Erase!NothingFoundRemains
  <1>11. EvidenceInv'
    <2>1. DEFINE row == Erase!Counts(e)
                 out == memories \ memories'
    <2>2. audit' = Append(audit, row) /\ eRemoved' = Append(eRemoved, out)
      BY Zenon DEF Erase!Commit
    <2>3. row.versions = Erase!Cardinality(out)
      <3>1. out = o.gone
        BY Zenon, <1>2, <1>3 DEF TxInv
      <3>2. row.versions = Erase!Cardinality(o.gone)
        BY SMTT(40) DEF Erase!Counts
      <3>. QED BY Zenon, <3>1, <3>2
    <2>4. PICK A, B : audit \in Seq(A) /\ eRemoved \in Seq(B)
      BY Zenon DEF EraseInv, EvidenceInv
    <2>. HIDE DEF row, out
    <2>5. audit' \in Seq(A \cup {row}) /\ Grown(audit', audit, row)
      BY Zenon, <2>2, <2>4, EvidenceGrows
    <2>6. eRemoved' \in Seq(B \cup {out}) /\ Grown(eRemoved', eRemoved, out)
      BY Zenon, <2>2, <2>4, EvidenceGrows
    <2>7. Len(audit) = Len(eRemoved)
      BY Zenon DEF EraseInv, EvidenceInv
    <2>8. ASSUME NEW i \in DOMAIN audit' PROVE audit'[i].versions = Erase!Cardinality(eRemoved'[i])
      <3>1. i \in 1..Len(audit) \/ i = Len(audit) + 1
        BY SMTT(40), <2>5 DEF Grown
      <3>2. CASE i = Len(audit) + 1
        BY Zenon, <2>3, <2>5, <2>6, <2>7, <3>2 DEF Grown
      <3>3. CASE i \in 1..Len(audit)
        BY Zenon, <2>5, <2>6, <2>7, <3>3 DEF Grown, EraseInv, EvidenceInv, Erase!CountsAreExact
      <3>. QED BY Zenon, <3>1, <3>2, <3>3
    <2>. QED BY Zenon, <2>5, <2>6, <2>7, <2>8 DEF Grown, EvidenceInv, Erase!CountsAreExact
  <1>. QED BY Zenon, <1>6, <1>7, <1>8, <1>9, <1>10, <1>11 DEF EraseInv

\* The vertices of the collected ids go after the commit, and are owed from then on.
LEMMA EraseGraphKeeps ==
    ASSUME EraseInv, NEW e \in Erasers, Erase!EraseGraphVertices(e)
    PROVE  EraseInv'
  <1>1. DEFINE o == tx[e]
  <1>2. /\ EraseTypes /\ stored \in Nat /\ written \in Nat /\ tx \in [Erasers -> TxRows(stored, written)]
        /\ o \in TxRows(stored, written) /\ TxInv(o, memories, derived, owed)
    BY Zenon DEF EraseInv, EraseTypes
  <1>3. /\ o.step = Erase!GraphStep
        /\ derived' = {d \in derived : ~(d.kind = "vertex" /\ d.id \in {m.id : m \in o.collected})}
        /\ owed' = owed \cup o.found
        /\ tx' = [tx EXCEPT ![e] = Erase!NoTx]
        /\ UNCHANGED <<memories, stored, written, reads, audit, eRemoved>>
    BY Zenon DEF Erase!EraseGraphVertices
  <1>4. derived' \subseteq derived
    BY Zenon, <1>3
  <1>5. /\ tx' \in [Erasers -> TxRows(stored, written)] /\ tx'[e] = Erase!NoTx
        /\ \A f \in Erasers \ {e} : tx'[f] = tx[f]
    BY Zenon, <1>2, <1>3, NoTxFits
  <1>6. o.found \subseteq DerivedRows(written)
    BY Zenon, <1>2, TxFacts
  <1>7. EraseTypes'
    BY Zenon, <1>2, <1>3, <1>4, <1>5, <1>6 DEF EraseTypes
  <1>8. ASSUME NEW f \in Erasers PROVE TxInv(tx'[f], memories', derived', owed')
    <2>1. CASE f = e
      BY Zenon, <1>2, <1>5, <2>1, NoTxFits
    <2>2. CASE f # e
      <3>1. tx'[f] = tx[f] /\ TxInv(tx[f], memories, derived, owed)
        BY Zenon, <1>5, <2>2 DEF EraseInv
      <3>. HIDE DEF o
      <3>. QED BY Zenon, <1>3, <1>4, <3>1 DEF TxInv
    <2>. QED BY Zenon, <2>1, <2>2
  <1>9. GoneApart'
    <2>1. SUFFICES ASSUME NEW f \in Erasers, NEW g \in Erasers, f # g
                   PROVE  tx'[f].gone \cap tx'[g].gone = {}
      BY Zenon DEF GoneApart
    <2>2. Erase!NoTx.gone = {}
      BY SMTT(40) DEF Erase!NoTx
    <2>3. CASE f = e \/ g = e
      BY Zenon, <1>5, <2>2, <2>3
    <2>4. CASE f # e /\ g # e
      BY Zenon, <1>5, <2>1, <2>4 DEF EraseInv, GoneApart
    <2>. QED BY Zenon, <2>3, <2>4
  <1>10. Erase!NothingFoundRemains'
    <2>1. o.found \cap memories = {}
      BY Zenon, <1>2, <1>6, RowsApart DEF EraseTypes
    <2>2. ASSUME NEW d \in o.found, d \in derived' PROVE FALSE
      <3>1. CASE d.kind = "vertex"
        BY Zenon, <1>2, <1>3, <2>2, <3>1 DEF TxInv
      <3>2. CASE d.kind # "vertex"
        BY Zenon, <1>2, <1>3, <1>4, <2>2, <3>2 DEF TxInv, EraseInv, Erase!NothingFoundRemains
      <3>. QED BY Zenon, <3>1, <3>2
    <2>. QED BY Zenon, <1>3, <1>4, <2>1, <2>2 DEF EraseInv, Erase!NothingFoundRemains
  <1>11. EvidenceInv'
    BY Zenon, <1>3 DEF EraseInv, EvidenceInv, Erase!CountsAreExact
  <1>. QED BY Zenon, <1>7, <1>8, <1>9, <1>10, <1>11 DEF EraseInv

\* ErasureIsExact: whatever versions are stored, rows derived and erasures of the prefix
\* overlap meanwhile, what a committed erasure found never comes back, and each
\* gdpr_erase row counts the versions its own commit removed.
THEOREM ErasuresAreExact == Erase!Spec => []ErasureIsExact
  <1>1. Erase!Init => EraseInv
    BY Zenon, EraseInit
  <1>2. EraseInv /\ [Erase!Next]_(Erase!vars) => EraseInv'
    <2>1. SUFFICES ASSUME EraseInv, [Erase!Next]_(Erase!vars) PROVE EraseInv'
      BY Zenon
    <2>2. CASE UNCHANGED Erase!vars
      BY Zenon, <2>1, <2>2 DEF Erase!vars, EraseInv, EraseTypes, GoneApart, EvidenceInv,
           Erase!CountsAreExact, Erase!NothingFoundRemains
    <2>3. CASE \E under \in BOOLEAN : Erase!Store(under)
      BY Zenon, <2>1, <2>3, StoreKeeps
    <2>4. CASE \E w \in Derivers : Erase!ReadMemory(w)
      BY Zenon, <2>1, <2>4, ReadMemoryKeeps
    <2>5. CASE \E w \in Derivers, k \in AllKinds : Erase!WriteDerived(w, k)
      BY Zenon, <2>1, <2>5, WriteDerivedKeeps
    <2>6. CASE \E e \in Erasers, dry \in BOOLEAN : Erase!Collect(e, dry)
      BY Zenon, <2>1, <2>6, CollectKeeps
    <2>7. ASSUME NEW e \in Erasers, Erase!DeleteDerived(e) \/ Erase!DeleteMemories(e) \/ Erase!Commit(e)
          PROVE  EraseInv'
      BY Zenon, <2>1, <2>7, DeleteDerivedKeeps, DeleteMemoriesKeeps, CommitKeeps
    <2>8. ASSUME NEW e \in Erasers, Erase!EraseGraphVertices(e) \/ Erase!Fail(e)
          PROVE  EraseInv'
      BY Zenon, <2>1, <2>8, EraseGraphKeeps, DropTx DEF Erase!Fail
    <2>. QED BY Zenon, <2>1, <2>2, <2>3, <2>4, <2>5, <2>6, <2>7, <2>8 DEF Erase!Next, AllKinds
  <1>3. EraseInv => ErasureIsExact
    BY Zenon DEF EraseInv, EvidenceInv, ErasureIsExact, Erase!ErasureIsExact
  <1>. QED BY <1>1, <1>2, <1>3, PTL DEF Erase!Spec

(***************************************************************************)
(* The entity registry.                                                    *)
(***************************************************************************)

Statuses == {"pending", "accepted", "rejected"}
ProposalRows == [alias : Labels, target : Labels, status : Statuses]
CallFields == {"op", "at", "memory", "alias", "canon", "slot", "todo", "found", "id"}

\* The tables: an alias names an entity that is registered, and the alias of a proposal
\* that was accepted is in force.
TablesInv(d) ==
    /\ DOMAIN d = {"entities", "alias", "proposals"}
    /\ d.entities \subseteq Labels
    /\ d.alias \in [Labels -> Labels \cup {None}]
    /\ d.proposals \in Seq(ProposalRows)
    /\ \A k \in Labels : d.alias[k] # None => d.alias[k] \in d.entities
    /\ \A i \in DOMAIN d.proposals :
         d.proposals[i].status = "accepted" => d.alias[d.proposals[i].alias] # None

\* The tables only grow, and an alias keeps its entity unless one was repointed.
Grows(d, e, rep) ==
    /\ d.entities \subseteq e.entities
    /\ \A k \in Labels : d.alias[k] # None => e.alias[k] # None /\ (~rep => e.alias[k] = d.alias[k])
    /\ DOMAIN d.proposals \subseteq DOMAIN e.proposals
    /\ \A i \in DOMAIN d.proposals : e.proposals[i].alias = d.proposals[i].alias

\* The mention of a label: of itself, or of the entity it is an alias of.
Stands(key, label, d) == key = label \/ d.alias[label] = key

\* Where an operation is: the fields it has set.
CallTypes(r) ==
    /\ DOMAIN r = CallFields
    /\ r.at = "next" => r.op = "extract"
    /\ r.at = "snapshot" => r.op = "extract"
    /\ r.at = "canon" => r.op # "accept"
    /\ r.at # "idle" /\ r.op = "extract" =>
         r.memory \in Memories /\ r.todo \subseteq [slot : Slots, key : Labels]
    /\ r.at \in {"canon", "alias", "snapshot", "merge"} => r.alias \in Labels /\ r.canon \in Labels

\* What an operation is about to name in an alias, a snapshot or a merge is registered.
CallNames(r, d) == r.at \in {"alias", "snapshot", "merge"} => r.canon \in d.entities

\* What it resolved on a replica, and the alias it wrote, still hold.
CallStands(r, d, rep) ==
    /\ r.at \in {"canon", "alias", "snapshot"} /\ r.op = "extract" /\ ~rep => Stands(r.canon, r.alias, d)
    /\ r.at = "merge" => d.alias[r.alias] # None /\ (~rep => d.alias[r.alias] = r.canon)

\* It reviews a proposal there is, and stores its status after the alias.
CallReviews(r, d) ==
    /\ r.at \in {"alias", "merge"} /\ r.op = "accept" =>
         r.id \in DOMAIN d.proposals /\ d.proposals[r.id].alias = r.alias
    /\ r.at = "status" =>
         /\ r.id \in DOMAIN d.proposals
         /\ r.op = "accept" => d.alias[d.proposals[r.id].alias] # None

\* The mentions it has noted.
CallFound(S, d, rep) ==
    \A f \in S : f.label \in Labels /\ f.key \in d.entities /\ (~rep => Stands(f.key, f.label, d))

CallInv(r, d, rep) ==
    /\ CallTypes(r) /\ CallNames(r, d) /\ CallStands(r, d, rep)
    /\ CallReviews(r, d) /\ CallFound(r.found, d, rep)

MentionsInv(edges, d) ==
    \A e \in edges : /\ DOMAIN e = {"memory", "slot", "key"}
                     /\ e.memory \in Memories /\ e.key \in d.entities

FlatIn(d) == \A k \in Labels : d.alias[k] \notin {None, k} => d.alias[d.alias[k]] \in {None, d.alias[k]}

\* A label a memory was extracted with has a mention that stands for it.
FoundInv(edges, labels, d, rep) ==
    /\ \A m \in Memories : labels[m] \subseteq Labels
    /\ FlatIn(d) /\ ~rep =>
         \A m \in Memories : \A k \in labels[m] :
            \E e \in edges : e.memory = m /\ Stands(e.key, k, d)

RegistryInv ==
    /\ TablesInv(db) /\ TablesInv(replica)
    /\ repointed \in BOOLEAN
    /\ Grows(replica, db, repointed)
    /\ call = [c \in Callers |-> call[c]]
    /\ \A c \in Callers : CallInv(call[c], db, repointed)
    /\ MentionsInv(mentions, db)
    /\ extracted = [m \in Memories |-> extracted[m]]
    /\ FoundInv(mentions, extracted, db, repointed)

\* None is no label.
LEMMA NoneFacts == None \notin Labels
  BY Zenon, RegistryAssumption DEF Registry!RegistryAssumption

\* The fields of a proposal.
LEMMA ProposalFacts ==
    ASSUME NEW d, TablesInv(d), NEW i \in DOMAIN d.proposals
    PROVE  /\ d.proposals[i] \in ProposalRows
           /\ d.proposals[i].alias \in Labels /\ d.proposals[i].target \in Labels
           /\ d.proposals[i].status \in Statuses
  <1>1. d.proposals \in Seq(ProposalRows)
    BY Zenon DEF TablesInv
  <1>2. PICK q : q = d.proposals
    BY Zenon
  <1>3. \A j \in DOMAIN q : q[j] \in ProposalRows
    BY SMTT(40), <1>1, <1>2
  <1>4. \A p \in ProposalRows : p.alias \in Labels /\ p.target \in Labels /\ p.status \in Statuses
    BY SMTT(40) DEF ProposalRows
  <1>. QED BY Zenon, <1>2, <1>3, <1>4

\* What an operation relies on goes on to hold when the tables grow.
LEMMA CallGrows ==
    ASSUME NEW d, NEW e, NEW old, NEW rep, Grows(d, e, rep), old => rep,
           TablesInv(d), NEW r, CallInv(r, d, old)
    PROVE  CallInv(r, e, rep)
  <1>1. CallNames(r, e)
    BY Zenon DEF CallInv, CallNames, Grows
  <1>2. d.entities \subseteq Labels
    BY Zenon DEF TablesInv
  <1>3. CallFound(r.found, e, rep)
    <2>1. SUFFICES ASSUME NEW f \in r.found
                   PROVE  f.label \in Labels /\ f.key \in e.entities /\ (~rep => Stands(f.key, f.label, e))
      BY Zenon DEF CallFound
    <2>2. f.label \in Labels /\ f.key \in d.entities /\ (~rep => Stands(f.key, f.label, d))
      BY Zenon DEF CallInv, CallFound
    <2>3. f.key \in Labels /\ f.key \in e.entities
      BY Zenon, <1>2, <2>2 DEF Grows
    <2>. QED BY Zenon, <2>2, <2>3, NoneFacts DEF Stands, Grows
  <1>4. CallStands(r, e, rep)
    <2>1. ASSUME r.at \in {"canon", "alias", "snapshot"}, r.op = "extract", ~rep PROVE Stands(r.canon, r.alias, e)
      <3>1. r.alias \in Labels /\ r.canon \in Labels /\ Stands(r.canon, r.alias, d)
        BY Zenon, <2>1 DEF CallInv, CallStands, CallTypes
      <3>. QED BY Zenon, <2>1, <3>1, NoneFacts DEF Stands, Grows
    <2>2. ASSUME r.at = "merge" PROVE e.alias[r.alias] # None /\ (~rep => e.alias[r.alias] = r.canon)
      <3>1. r.alias \in Labels /\ d.alias[r.alias] # None /\ (~rep => d.alias[r.alias] = r.canon)
        BY Zenon, <2>2 DEF CallInv, CallStands, CallTypes
      <3>. QED BY Zenon, <3>1 DEF Grows
    <2>. QED BY Zenon, <2>1, <2>2 DEF CallStands
  <1>5. CallReviews(r, e)
    <2>1. \A i \in DOMAIN d.proposals : d.proposals[i].alias \in Labels
      BY Zenon, ProposalFacts
    <2>. QED BY Zenon, <2>1 DEF CallInv, CallReviews, Grows
  <1>. QED BY Zenon, <1>1, <1>3, <1>4, <1>5 DEF CallInv

\* So does what the graph says of the labels.  When the aliases are flat after the step
\* and none was repointed, they were flat before it.
LEMMA FoundGrows ==
    ASSUME NEW d, NEW e, NEW old, NEW rep, Grows(d, e, rep), old => rep, TablesInv(d), TablesInv(e),
           NEW edges, MentionsInv(edges, d), NEW labels, FoundInv(edges, labels, d, old)
    PROVE  MentionsInv(edges, e) /\ FoundInv(edges, labels, e, rep)
  <1>1. MentionsInv(edges, e)
    BY Zenon DEF MentionsInv, Grows
  <1>2. ASSUME FlatIn(e), ~rep PROVE FlatIn(d)
    <2>1. SUFFICES ASSUME NEW k \in Labels, d.alias[k] \notin {None, k}
                   PROVE  d.alias[d.alias[k]] \in {None, d.alias[k]}
      BY Zenon DEF FlatIn
    <2>2. d.alias[k] \in Labels /\ e.alias[k] = d.alias[k]
      BY Zenon, <1>2, <2>1 DEF TablesInv, Grows
    <2>3. e.alias[d.alias[k]] \in {None, d.alias[k]}
      BY Zenon, <1>2, <2>1, <2>2 DEF FlatIn
    <2>. QED BY Zenon, <1>2, <2>2, <2>3 DEF Grows
  <1>3. ASSUME FlatIn(e), ~rep, NEW m \in Memories, NEW k \in labels[m]
        PROVE  \E x \in edges : x.memory = m /\ Stands(x.key, k, e)
    <2>1. k \in Labels /\ \E x \in edges : x.memory = m /\ Stands(x.key, k, d)
      BY Zenon, <1>2, <1>3 DEF FoundInv
    <2>2. PICK x \in edges : x.memory = m /\ Stands(x.key, k, d)
      BY Zenon, <2>1
    <2>3. x.key \in Labels
      BY Zenon DEF MentionsInv, TablesInv
    <2>4. Stands(x.key, k, e)
      BY Zenon, <1>3, <2>1, <2>2, <2>3, NoneFacts DEF Stands, Grows
    <2>. QED BY Zenon, <2>2, <2>4
  <1>. QED BY Zenon, <1>1, <1>3 DEF FoundInv

\* The tables grow with themselves, and from a replica with them.
LEMMA GrowsTrans ==
    ASSUME NEW a, NEW b, NEW c, NEW old, NEW rep, old => rep,
           Grows(a, b, old), Grows(b, c, rep)
    PROVE  Grows(a, c, rep)
  BY Zenon DEF Grows

\* Tables that stay the same.
LEMMA GrowsRefl == ASSUME NEW a, NEW rep PROVE Grows(a, a, rep)
  BY Zenon DEF Grows

\* What the other operations, the replica and the graph need of a step that changes the tables.
LEMMA TablesStep ==
    ASSUME RegistryInv, NEW e, NEW rep, TablesInv(e), Grows(db, e, rep), repointed => rep
    PROVE  /\ Grows(replica, e, rep)
           /\ \A c \in Callers : CallInv(call[c], e, rep)
           /\ MentionsInv(mentions, e) /\ FoundInv(mentions, extracted, e, rep)
  <1>1. /\ TablesInv(db) /\ Grows(replica, db, repointed)
        /\ \A c \in Callers : CallInv(call[c], db, repointed)
        /\ MentionsInv(mentions, db) /\ FoundInv(mentions, extracted, db, repointed)
    BY Zenon DEF RegistryInv
  <1>2. Grows(replica, e, rep)
    BY Zenon, <1>1, GrowsTrans
  <1>3. ASSUME NEW c \in Callers PROVE CallInv(call[c], e, rep)
    <2>1. PICK r : r = call[c]
      BY Zenon
    <2>2. CallInv(r, db, repointed)
      BY Zenon, <1>1, <2>1
    <2>3. CallInv(r, e, rep)
      BY Zenon, <1>1, <2>2, CallGrows
    <2>. QED BY Zenon, <2>1, <2>3
  <1>4. MentionsInv(mentions, e) /\ FoundInv(mentions, extracted, e, rep)
    BY Zenon, <1>1, FoundGrows
  <1>. QED BY Zenon, <1>2, <1>3, <1>4

\* An idle caller needs nothing of the tables.
LEMMA IdleKeeps == ASSUME NEW d, NEW rep PROVE CallInv(Registry!Idle, d, rep)
  <1>1. PICK r : r = Registry!Idle
    BY Zenon
  <1>2. DOMAIN r = CallFields /\ r.at = "idle" /\ r.found = {}
    BY SMTT(40), <1>1 DEF Registry!Idle, CallFields
  <1>3. CallInv(r, d, rep)
    BY SMTT(40), <1>2 DEF CallInv, CallTypes, CallNames, CallStands, CallReviews, CallFound
  <1>. QED BY Zenon, <1>1, <1>3

\* A step of one caller leaves the others where they are.
OneCall(c) == /\ call' = [x \in Callers |-> call'[x]]
              /\ \A x \in Callers \ {c} : call'[x] = call[x]

\* It is enough to look at the caller that moved.
LEMMA OneCallKeeps ==
    ASSUME NEW c \in Callers, OneCall(c), NEW d, NEW rep,
           \A x \in Callers : CallInv(call[x], d, rep), CallInv(call'[c], d, rep)
    PROVE  /\ call' = [x \in Callers |-> call'[x]]
           /\ \A x \in Callers : CallInv(call'[x], d, rep)
  BY Zenon DEF OneCall

\* Return makes the caller idle.
LEMMA ReturnMoves ==
    ASSUME RegistryInv, NEW c \in Callers, Registry!Return(c)
    PROVE  OneCall(c) /\ call'[c] = Registry!Idle
  <1>1. call = [x \in Callers |-> call[x]]
    BY Zenon DEF RegistryInv
  <1>. QED BY Zenon, <1>1 DEF Registry!Return, OneCall

\* All fields but where it is.
Kept(r, s) ==
    /\ r.op = s.op /\ r.memory = s.memory /\ r.alias = s.alias /\ r.canon = s.canon
    /\ r.slot = s.slot /\ r.todo = s.todo /\ r.found = s.found /\ r.id = s.id

\* Goto changes where the operation is and nothing else.
LEMMA GotoMoves ==
    ASSUME RegistryInv, NEW c \in Callers, NEW at, Registry!Goto(c, at)
    PROVE  /\ OneCall(c) /\ DOMAIN call'[c] = CallFields
           /\ call'[c].at = at /\ Kept(call'[c], call[c])
  <1>1. call = [x \in Callers |-> call[x]]
    BY Zenon DEF RegistryInv
  <1>2. DOMAIN call[c] = CallFields
    BY Zenon DEF RegistryInv, CallInv, CallTypes
  <1>3. OneCall(c)
    BY Zenon, <1>1 DEF Registry!Goto, OneCall
  <1>4. call'[c] = [call[c] EXCEPT !.at = at]
    BY Zenon, <1>1 DEF Registry!Goto
  <1>5. PICK r : r = call[c]
    BY Zenon
  <1>6. PICK s : s = [r EXCEPT !.at = at]
    BY Zenon
  <1>7. DOMAIN s = CallFields /\ s.at = at /\ Kept(s, r)
    BY SMTT(40), <1>2, <1>5, <1>6 DEF CallFields, Kept
  <1>. QED BY Zenon, <1>3, <1>4, <1>5, <1>6, <1>7

\* Start gives an idle caller its operation.
LEMMA StartMoves ==
    ASSUME RegistryInv, NEW c \in Callers, NEW with, Registry!Start(c, with)
    PROVE  OneCall(c) /\ call'[c] = with
  <1>1. call = [x \in Callers |-> call[x]]
    BY Zenon DEF RegistryInv
  <1>. QED BY Zenon, <1>1 DEF Registry!Start, OneCall

\* A step that changes no table and no edge.
LEMMA CallOnly ==
    ASSUME RegistryInv, NEW c \in Callers, OneCall(c), CallInv(call'[c], db, repointed),
           UNCHANGED <<db, replica, mentions, extracted, repointed>>
    PROVE  RegistryInv'
  <1>1. \A x \in Callers : CallInv(call[x], db, repointed)
    BY Zenon DEF RegistryInv
  <1>2. /\ call' = [x \in Callers |-> call'[x]]
        /\ \A x \in Callers : CallInv(call'[x], db, repointed)
    BY Zenon, <1>1, OneCallKeeps
  <1>3. /\ db' = db /\ replica' = replica /\ mentions' = mentions /\ extracted' = extracted
        /\ repointed' = repointed
    BY Zenon
  <1>. QED BY Zenon, <1>2, <1>3 DEF RegistryInv

\* Extract: the labels to promote are those of the answer.
LEMMA ExtractKeeps ==
    ASSUME RegistryInv, NEW c \in Callers, NEW m \in Memories, NEW a \in Answers,
           Registry!Extract(c, m, a)
    PROVE  RegistryInv'
  <1>1. PICK t : t = Registry!PromoteEntities(a)
    BY Zenon
  <1>2. t \subseteq [slot : Slots, key : Labels]
    BY Zenon, <1>1 DEF Registry!PromoteEntities
  <1>3. PICK r : r = [Registry!Idle EXCEPT !.op = "extract", !.at = "next", !.memory = m, !.todo = t]
    BY Zenon
  <1>4. DOMAIN r = CallFields /\ r.at = "next" /\ r.op = "extract" /\ r.memory = m /\ r.todo = t /\ r.found = {}
    BY SMTT(40), <1>3 DEF Registry!Idle, CallFields
  <1>5. CallInv(r, db, repointed)
    BY SMTT(40), <1>2, <1>4 DEF CallInv, CallTypes, CallNames, CallStands, CallReviews, CallFound
  <1>6. Registry!Start(c, r) /\ UNCHANGED <<db, replica, mentions, extracted, repointed>>
    BY Zenon, <1>1, <1>3 DEF Registry!Extract
  <1>7. OneCall(c) /\ call'[c] = r
    BY Zenon, <1>6, StartMoves
  <1>. QED BY Zenon, <1>5, <1>6, <1>7, CallOnly

\* AddManualAlias starts with the entity, which need not be registered.
LEMMA AddManualAliasKeeps ==
    ASSUME RegistryInv, NEW c \in Callers, NEW k \in Labels, NEW a \in Labels,
           Registry!AddManualAlias(c, k, a)
    PROVE  RegistryInv'
  <1>3. PICK r : r = [Registry!Idle EXCEPT !.op = "manual", !.at = "canon", !.alias = a, !.canon = k]
    BY Zenon
  <1>4. DOMAIN r = CallFields /\ r.at = "canon" /\ r.op = "manual" /\ r.alias = a /\ r.canon = k /\ r.found = {}
    BY SMTT(40), <1>3 DEF Registry!Idle, CallFields
  <1>5. CallInv(r, db, repointed)
    BY SMTT(40), <1>4 DEF CallInv, CallTypes, CallNames, CallStands, CallReviews, CallFound
  <1>6. Registry!Start(c, r) /\ UNCHANGED <<db, replica, mentions, extracted, repointed>>
    BY Zenon, <1>3 DEF Registry!AddManualAlias
  <1>7. OneCall(c) /\ call'[c] = r
    BY Zenon, <1>6, StartMoves
  <1>. QED BY Zenon, <1>5, <1>6, <1>7, CallOnly

\* AcceptProposal reads a proposal and a target on the replica: the tables have both.
LEMMA AcceptKeeps ==
    ASSUME RegistryInv, NEW c \in Callers, NEW id, Registry!AcceptProposal(c, id)
    PROVE  RegistryInv'
  <1>1. /\ TablesInv(replica) /\ Grows(replica, db, repointed) /\ id \in DOMAIN replica.proposals
        /\ replica.proposals[id].target \in replica.entities
    BY Zenon DEF RegistryInv, Registry!AcceptProposal
  <1>2. PICK a, k : a = replica.proposals[id].alias /\ k = replica.proposals[id].target
    BY Zenon
  <1>3. a \in Labels /\ k \in Labels
    BY Zenon, <1>1, <1>2, ProposalFacts
  <1>4. id \in DOMAIN db.proposals /\ db.proposals[id].alias = a /\ k \in db.entities
    BY Zenon, <1>1, <1>2 DEF Grows
  <1>5. PICK r : r = [Registry!Idle EXCEPT !.op = "accept", !.at = "alias", !.id = id, !.alias = a, !.canon = k]
    BY Zenon
  <1>6. DOMAIN r = CallFields /\ r.at = "alias" /\ r.op = "accept" /\ r.alias = a /\ r.canon = k
        /\ r.id = id /\ r.found = {}
    BY SMTT(40), <1>5 DEF Registry!Idle, CallFields
  <1>7. CallInv(r, db, repointed)
    BY SMTT(40), <1>3, <1>4, <1>6 DEF CallInv, CallTypes, CallNames, CallStands, CallReviews, CallFound
  <1>8. Registry!Start(c, r) /\ UNCHANGED <<db, replica, mentions, extracted, repointed>>
    BY Zenon, <1>2, <1>5 DEF Registry!AcceptProposal
  <1>9. OneCall(c) /\ call'[c] = r
    BY Zenon, <1>8, StartMoves
  <1>. QED BY Zenon, <1>7, <1>8, <1>9, CallOnly

\* RejectProposal goes straight to the status.
LEMMA RejectKeeps ==
    ASSUME RegistryInv, NEW c \in Callers, NEW id, Registry!RejectProposal(c, id)
    PROVE  RegistryInv'
  <1>1. id \in DOMAIN db.proposals
    BY Zenon DEF Registry!RejectProposal
  <1>2. PICK r : r = [Registry!Idle EXCEPT !.op = "reject", !.at = "status", !.id = id]
    BY Zenon
  <1>3. DOMAIN r = CallFields /\ r.at = "status" /\ r.op = "reject" /\ r.id = id /\ r.found = {}
    BY SMTT(40), <1>2 DEF Registry!Idle, CallFields
  <1>4. CallInv(r, db, repointed)
    BY SMTT(40), <1>1, <1>3 DEF CallInv, CallTypes, CallNames, CallStands, CallReviews, CallFound
  <1>5. Registry!Start(c, r) /\ UNCHANGED <<db, replica, mentions, extracted, repointed>>
    BY Zenon, <1>2 DEF Registry!RejectProposal
  <1>6. OneCall(c) /\ call'[c] = r
    BY Zenon, <1>5, StartMoves
  <1>. QED BY Zenon, <1>4, <1>5, <1>6, CallOnly

\* An operation that ends, done or with an error.
LEMMA ReturnKeeps ==
    ASSUME RegistryInv, NEW c \in Callers, Registry!Return(c),
           UNCHANGED <<db, replica, mentions, extracted, repointed>>
    PROVE  RegistryInv'
  <1>1. OneCall(c) /\ call'[c] = Registry!Idle
    BY Zenon, ReturnMoves
  <1>2. CallInv(call'[c], db, repointed)
    BY Zenon, <1>1, IdleKeeps
  <1>. QED BY Zenon, <1>1, <1>2, CallOnly

\* NextSlot resolves a label on the replica: an alias found there still holds in the
\* tables, unless one was repointed.
LEMMA NextSlotKeeps ==
    ASSUME RegistryInv, NEW c \in Callers, NEW p \in call[c].todo, NEW b \in BOOLEAN,
           Registry!NextSlot(c, p, b)
    PROVE  RegistryInv'
  <1>1. /\ TablesInv(replica) /\ Grows(replica, db, repointed)
        /\ call = [x \in Callers |-> call[x]] /\ CallInv(call[c], db, repointed)
    BY Zenon DEF RegistryInv
  <1>2. PICK old : old = call[c]
    BY Zenon
  <1>3. /\ DOMAIN old = CallFields /\ old.at = "next" /\ old.op = "extract"
        /\ old.memory \in Memories /\ old.todo \subseteq [slot : Slots, key : Labels]
        /\ CallFound(old.found, db, repointed)
    BY Zenon, <1>1, <1>2 DEF CallInv, CallTypes, Registry!NextSlot
  <1>4. PICK k, s : k = p.key /\ s = p.slot
    BY Zenon
  <1>5. k \in Labels
    BY SMTT(40), <1>2, <1>3, <1>4
  <1>6. PICK v : v = IF p.slot \in AliasTable /\ ~b THEN Registry!ResolveCanonicalKey(replica, k) ELSE None
    BY Zenon
  <1>7. v = None \/ v = replica.alias[k]
    BY Zenon, <1>6 DEF Registry!ResolveCanonicalKey
  <1>8. PICK canon : canon = IF v = None THEN k ELSE v
    BY Zenon
  <1>9. canon \in Labels /\ (~repointed => Stands(canon, k, db))
    BY Zenon, <1>1, <1>5, <1>7, <1>8, NoneFacts DEF TablesInv, Grows, Stands
  <1>10. call' = [call EXCEPT ![c].at = "canon", ![c].todo = @ \ {p}, ![c].slot = s,
                     ![c].alias = k, ![c].canon = canon]
    BY Zenon, <1>4, <1>6, <1>8 DEF Registry!NextSlot
  <1>11. OneCall(c)
    BY Zenon, <1>1, <1>10 DEF OneCall
  <1>12. PICK r : r = call'[c]
    BY Zenon
  <1>13. /\ DOMAIN r = CallFields /\ r.at = "canon" /\ r.op = old.op /\ r.memory = old.memory
         /\ r.todo = old.todo \ {p} /\ r.alias = k /\ r.canon = canon /\ r.found = old.found
    BY SMTT(40), <1>1, <1>2, <1>3, <1>10, <1>12 DEF CallFields
  <1>14. r.todo \subseteq [slot : Slots, key : Labels]
    BY Zenon, <1>3, <1>13
  <1>15. CallInv(r, db, repointed)
    <2>1. CallTypes(r)
      BY SMTT(40), <1>3, <1>5, <1>9, <1>13, <1>14 DEF CallTypes
    <2>2. CallNames(r, db) /\ CallReviews(r, db)
      BY SMTT(40), <1>13 DEF CallNames, CallReviews
    <2>3. CallStands(r, db, repointed)
      BY SMTT(40), <1>9, <1>13 DEF CallStands
    <2>. QED BY Zenon, <1>3, <1>13, <2>1, <2>2, <2>3 DEF CallInv
  <1>. QED BY Zenon, <1>11, <1>12, <1>15, CallOnly DEF Registry!NextSlot

\* Snapshot notes a mention of a registered entity that stands for the label.
LEMMA SnapshotKeeps ==
    ASSUME RegistryInv, NEW c \in Callers, NEW b \in BOOLEAN, Registry!Snapshot(c, b)
    PROVE  RegistryInv'
  <1>1. call = [x \in Callers |-> call[x]] /\ CallInv(call[c], db, repointed)
    BY Zenon DEF RegistryInv
  <1>2. PICK old : old = call[c]
    BY Zenon
  <1>3. /\ DOMAIN old = CallFields /\ old.at = "snapshot" /\ old.op = "extract"
        /\ old.memory \in Memories /\ old.todo \subseteq [slot : Slots, key : Labels]
        /\ old.alias \in Labels /\ old.canon \in db.entities
        /\ (~repointed => Stands(old.canon, old.alias, db))
        /\ CallFound(old.found, db, repointed)
    BY Zenon, <1>1, <1>2 DEF CallInv, CallTypes, CallNames, CallStands, Registry!Snapshot
  <1>4. PICK new : new = [slot |-> old.slot, key |-> old.canon, label |-> old.alias]
    BY Zenon
  <1>5. new.label = old.alias /\ new.key = old.canon
    BY SMTT(40), <1>4
  <1>6. call' = [call EXCEPT ![c].at = "next", ![c].found = @ \cup {new}]
    BY Zenon, <1>2, <1>4 DEF Registry!Snapshot
  <1>7. OneCall(c)
    BY Zenon, <1>1, <1>6 DEF OneCall
  <1>8. PICK r : r = call'[c]
    BY Zenon
  <1>9. /\ DOMAIN r = CallFields /\ r.at = "next" /\ r.op = old.op /\ r.memory = old.memory
        /\ r.todo = old.todo /\ r.found = old.found \cup {new}
    <2>1. PICK nf : nf = old.found \cup {new}
      BY Zenon
    <2>2. call' = [call EXCEPT ![c].at = "next", ![c].found = nf]
      BY Zenon, <1>2, <1>6, <2>1
    <2>3. r = [old EXCEPT !.at = "next", !.found = nf]
      BY Zenon, <1>1, <1>2, <1>8, <2>2
    <2>4. DOMAIN old = CallFields
      BY Zenon, <1>3
    <2>5. /\ DOMAIN r = CallFields /\ r.at = "next" /\ r.op = old.op /\ r.memory = old.memory
          /\ r.todo = old.todo /\ r.found = nf
      BY SMTT(40), <2>3, <2>4 DEF CallFields
    <2>. QED BY Zenon, <2>1, <2>5
  <1>10. CallFound(r.found, db, repointed)
    BY Zenon, <1>3, <1>5, <1>9 DEF CallFound
  <1>11. CallInv(r, db, repointed)
    <2>1. CallTypes(r)
      BY SMTT(40), <1>3, <1>9 DEF CallTypes
    <2>2. CallNames(r, db) /\ CallStands(r, db, repointed) /\ CallReviews(r, db)
      BY SMTT(40), <1>9 DEF CallNames, CallStands, CallReviews
    <2>. QED BY ZenonT(60), <1>10, <2>1, <2>2 DEF CallInv
  <1>. QED BY Zenon, <1>7, <1>8, <1>11, CallOnly DEF Registry!Snapshot

\* WriteAliasFails: an extraction goes on without the alias, the others end.
LEMMA WriteAliasFailsKeeps ==
    ASSUME RegistryInv, NEW c \in Callers, Registry!WriteAliasFails(c)
    PROVE  RegistryInv'
  <1>1. UNCHANGED <<db, replica, mentions, extracted, repointed>>
    BY Zenon DEF Registry!WriteAliasFails
  <1>2. CASE call[c].op = "extract"
    <2>1. Registry!Goto(c, "snapshot") /\ call[c].at = "alias"
      BY Zenon, <1>2 DEF Registry!WriteAliasFails
    <2>2. /\ OneCall(c) /\ DOMAIN call'[c] = CallFields
          /\ call'[c].at = "snapshot" /\ Kept(call'[c], call[c])
      BY Zenon, <2>1, GotoMoves
    <2>3. PICK r, s : r = call'[c] /\ s = call[c]
      BY Zenon
    <2>4. CallInv(s, db, repointed)
      BY ZenonT(60), <2>3 DEF RegistryInv
    <2>a. r.at = "snapshot" /\ s.at = "alias" /\ s.op = "extract" /\ DOMAIN r = CallFields /\ Kept(r, s)
      BY Zenon, <1>2, <2>1, <2>2, <2>3
    <2>b. /\ r.op = s.op /\ r.memory = s.memory /\ r.todo = s.todo /\ r.alias = s.alias
          /\ r.canon = s.canon /\ r.found = s.found
      BY Zenon, <2>a DEF Kept
    <2>c. CallTypes(r)
      BY SMTT(40), <2>a, <2>b, <2>4 DEF CallInv, CallTypes
    <2>d. CallNames(r, db)
      BY SMTT(40), <2>a, <2>b, <2>4 DEF CallInv, CallNames
    <2>e. CallStands(r, db, repointed)
      BY SMTT(40), <2>a, <2>b, <2>4 DEF CallInv, CallStands
    <2>f. CallReviews(r, db)
      BY SMTT(40), <2>a DEF CallReviews
    <2>g. CallFound(r.found, db, repointed)
      BY Zenon, <2>b, <2>4 DEF CallInv
    <2>5. CallInv(r, db, repointed)
      BY Zenon, <2>c, <2>d, <2>e, <2>f, <2>g DEF CallInv
    <2>. QED BY ZenonT(60), <1>1, <2>2, <2>3, <2>5, CallOnly
  <1>3. CASE call[c].op # "extract"
    BY Zenon, <1>1, <1>3, ReturnKeeps DEF Registry!WriteAliasFails
  <1>. QED BY Zenon, <1>2, <1>3

\* A step of one caller that changes the tables.
LEMMA TablesKeep ==
    ASSUME RegistryInv, NEW c \in Callers, OneCall(c), TablesInv(db'), Grows(db, db', repointed'),
           repointed' \in BOOLEAN, repointed => repointed', CallInv(call'[c], db', repointed'),
           UNCHANGED <<replica, mentions, extracted>>
    PROVE  RegistryInv'
  <1>1. /\ Grows(replica, db', repointed')
        /\ \A x \in Callers : CallInv(call[x], db', repointed')
        /\ MentionsInv(mentions, db') /\ FoundInv(mentions, extracted, db', repointed')
    BY Zenon, TablesStep
  <1>2. /\ call' = [x \in Callers |-> call'[x]]
        /\ \A x \in Callers : CallInv(call'[x], db', repointed')
    BY Zenon, <1>1, OneCallKeeps
  <1>3. replica' = replica /\ mentions' = mentions /\ extracted' = extracted
    BY Zenon
  <1>. QED BY Zenon, <1>1, <1>2, <1>3 DEF RegistryInv

\* UpsertCanonical registers the entity before an alias or a mention names it.
LEMMA UpsertCanonicalKeeps ==
    ASSUME RegistryInv, NEW c \in Callers, Registry!UpsertCanonical(c)
    PROVE  RegistryInv'
  <1>1. TablesInv(db) /\ CallInv(call[c], db, repointed) /\ repointed \in BOOLEAN /\ call[c].at = "canon"
    BY Zenon DEF RegistryInv, Registry!UpsertCanonical
  <1>2. PICK s, k : s = call[c] /\ k = s.canon
    BY Zenon
  <1>3. k \in Labels
    BY Zenon, <1>1, <1>2 DEF CallInv, CallTypes
  <1>4. PICK d : d = db
    BY Zenon
  <1>5. PICK e : e = [d EXCEPT !.entities = d.entities \cup {k}]
    BY Zenon
  <1>6. DOMAIN d = {"entities", "alias", "proposals"}
    BY Zenon, <1>1, <1>4 DEF TablesInv
  <1>7. /\ DOMAIN e = DOMAIN d /\ e.entities = d.entities \cup {k} /\ e.alias = d.alias
        /\ e.proposals = d.proposals
    BY SMTT(40), <1>5, <1>6
  <1>8. TablesInv(e)
    BY Zenon, <1>1, <1>3, <1>4, <1>7 DEF TablesInv
  <1>9. Grows(d, e, repointed)
    BY Zenon, <1>7 DEF Grows
  <1>10. db' = e /\ UNCHANGED <<replica, mentions, extracted, repointed>>
    BY Zenon, <1>2, <1>4, <1>5 DEF Registry!UpsertCanonical, Registry!Register
  <1>11. PICK at : at = IF call[c].alias # call[c].canon THEN "alias"
                        ELSE IF call[c].op = "extract" THEN "snapshot" ELSE "done"
    BY Zenon
  <1>12. Registry!Goto(c, at)
    BY Zenon, <1>11 DEF Registry!UpsertCanonical
  <1>13. /\ OneCall(c) /\ DOMAIN call'[c] = CallFields
         /\ call'[c].at = at /\ Kept(call'[c], call[c])
    BY Zenon, <1>12, GotoMoves
  <1>14. PICK r : r = call'[c]
    BY Zenon
  <1>15. CallInv(s, e, repointed)
    BY Zenon, <1>2, <1>4, <1>8, <1>9, TablesStep
  <1>16. k \in e.entities
    BY Zenon, <1>7
  <1>17. CallInv(r, e, repointed)
    <2>1. /\ s.at = "canon" /\ s.op # "accept" /\ s.alias \in Labels
          /\ s.op = "extract" => s.memory \in Memories /\ s.todo \subseteq [slot : Slots, key : Labels]
      BY SMTT(40), <1>1, <1>2 DEF CallInv, CallTypes
    <2>2. /\ at \in {"alias", "snapshot", "done"} /\ (at = "snapshot" => s.op = "extract")
          /\ DOMAIN r = CallFields /\ r.at = at /\ Kept(r, s)
      BY ZenonT(60), <1>2, <1>11, <1>13, <1>14
    <2>3. CallTypes(r)
      BY SMTT(40), <1>2, <1>3, <2>1, <2>2 DEF CallTypes, Kept
    <2>4. CallNames(r, e)
      BY SMTT(40), <1>2, <1>16, <2>2 DEF CallNames, Kept
    <2>5. ~repointed /\ s.op = "extract" => Stands(s.canon, s.alias, e)
      BY SMTT(40), <1>15, <2>1 DEF CallInv, CallStands
    <2>6. CallStands(r, e, repointed)
      BY SMTT(40), <2>2, <2>5 DEF CallStands, Kept
    <2>7. CallReviews(r, e)
      BY SMTT(40), <2>1, <2>2 DEF CallReviews, Kept
    <2>8. CallFound(r.found, e, repointed)
      BY Zenon, <1>15, <2>2 DEF CallInv, Kept
    <2>. QED BY ZenonT(60), <2>3, <2>4, <2>6, <2>7, <2>8 DEF CallInv
  <1>18. repointed' = repointed /\ replica' = replica /\ mentions' = mentions /\ extracted' = extracted
    BY Zenon, <1>10
  <1>19. /\ TablesInv(db') /\ Grows(db, db', repointed') /\ CallInv(call'[c], db', repointed')
         /\ UNCHANGED <<replica, mentions, extracted>>
    BY ZenonT(60), <1>1, <1>4, <1>8, <1>9, <1>10, <1>14, <1>17, <1>18
  <1>20. repointed' \in BOOLEAN /\ (repointed => repointed')
    BY SMTT(40), <1>1, <1>18
  <1>. QED BY Zenon, <1>13, <1>19, <1>20, TablesKeep

\* WriteAlias points a label to a registered entity, and notes when it had another.
LEMMA WriteAliasKeeps ==
    ASSUME RegistryInv, NEW c \in Callers, Registry!WriteAlias(c)
    PROVE  RegistryInv'
  <1>1. TablesInv(db) /\ CallInv(call[c], db, repointed) /\ repointed \in BOOLEAN /\ call[c].at = "alias"
    BY Zenon DEF RegistryInv, Registry!WriteAlias
  <1>2. PICK s : s = call[c]
    BY Zenon
  <1>3. PICK k, v : k = s.alias /\ v = s.canon
    BY Zenon
  <1>4. k \in Labels /\ v \in Labels /\ v \in db.entities
    BY Zenon, <1>1, <1>2, <1>3 DEF CallInv, CallTypes, CallNames
  <1>5. PICK d : d = db
    BY Zenon
  <1>6. PICK f : f = [d.alias EXCEPT ![k] = v]
    BY Zenon
  <1>7. PICK e : e = [d EXCEPT !.alias = f]
    BY Zenon
  <1>8. DOMAIN d = {"entities", "alias", "proposals"} /\ d.alias \in [Labels -> Labels \cup {None}]
    BY Zenon, <1>1, <1>5 DEF TablesInv
  <1>9. /\ DOMAIN e = DOMAIN d /\ e.entities = d.entities /\ e.alias = f
        /\ e.proposals = d.proposals
    BY SMTT(40), <1>7, <1>8
  <1>10. /\ f \in [Labels -> Labels \cup {None}] /\ f[k] = v
         /\ \A x \in Labels \ {k} : f[x] = d.alias[x]
    BY Zenon, <1>4, <1>6, <1>8
  <1>11. TablesInv(e)
    <2>1. \A x \in Labels : f[x] # None => f[x] \in d.entities
      BY Zenon, <1>1, <1>4, <1>5, <1>10 DEF TablesInv
    <2>2. \A i \in DOMAIN d.proposals : d.proposals[i].status = "accepted" => f[d.proposals[i].alias] # None
      BY ZenonT(60), <1>1, <1>4, <1>5, <1>10, ProposalFacts, NoneFacts DEF TablesInv
    <2>. QED BY ZenonT(60), <1>1, <1>5, <1>9, <1>10, <2>1, <2>2 DEF TablesInv
  <1>12. db' = e /\ repointed' = (repointed \/ d.alias[k] \notin {None, v})
         /\ UNCHANGED <<replica, mentions, extracted>> /\ Registry!Goto(c, Registry!AfterAlias(c))
    BY ZenonT(60), <1>2, <1>3, <1>5, <1>6, <1>7 DEF Registry!WriteAlias, Registry!UpsertActiveAlias
  <1>13. repointed' \in BOOLEAN /\ (repointed => repointed') /\ (~repointed' => d.alias[k] \in {None, v})
    BY Zenon, <1>1, <1>12
  <1>14. Grows(d, e, repointed')
    <2>1. ASSUME NEW x \in Labels, d.alias[x] # None
          PROVE  f[x] # None /\ (~repointed' => f[x] = d.alias[x])
      BY ZenonT(60), <1>4, <1>10, <1>13, <2>1, NoneFacts
    <2>. QED BY Zenon, <1>9, <2>1 DEF Grows
  <1>15. PICK at : at = Registry!AfterAlias(c)
    BY Zenon
  <1>16. /\ OneCall(c) /\ DOMAIN call'[c] = CallFields
         /\ call'[c].at = at /\ Kept(call'[c], call[c])
    BY Zenon, <1>12, <1>15, GotoMoves
  <1>17. PICK r : r = call'[c]
    BY Zenon
  <1>18. \A x \in Callers : CallInv(call[x], e, repointed')
    BY ZenonT(60), <1>5, <1>11, <1>13, <1>14, TablesStep
  <1>19. CallInv(s, e, repointed')
    BY Zenon, <1>2, <1>18
  <1>20. at = (IF s.op = "extract" THEN "snapshot" ELSE "merge") /\ s.at = "alias"
    BY Zenon, <1>1, <1>2, <1>15 DEF Registry!AfterAlias
  <1>21. Kept(r, s) /\ r.at = at /\ DOMAIN r = CallFields /\ e.alias[k] = v /\ v # None
    BY ZenonT(60), <1>2, <1>4, <1>9, <1>10, <1>16, <1>17, NoneFacts
  <1>22. CallInv(r, e, repointed')
    <2>1. CallTypes(r)
      BY SMTT(40), <1>19, <1>20, <1>21 DEF CallInv, CallTypes, Kept
    <2>2. CallNames(r, e)
      BY SMTT(40), <1>19, <1>20, <1>21 DEF CallInv, CallNames, Kept
    <2>3. CallStands(r, e, repointed')
      BY SMTT(40), <1>3, <1>20, <1>21 DEF CallStands, Kept, Stands
    <2>4. CallReviews(r, e) /\ CallFound(r.found, e, repointed')
      BY SMTT(40), <1>19, <1>20, <1>21 DEF CallInv, CallReviews, Kept
    <2>. QED BY ZenonT(60), <2>1, <2>2, <2>3, <2>4 DEF CallInv
  <1>. QED BY ZenonT(60), <1>5, <1>11, <1>12, <1>13, <1>14, <1>16, <1>17, <1>22, TablesKeep

\* A row of the queue is added or replaced.
LEMMA QueueFacts ==
    ASSUME NEW S, NEW q \in Seq(S), NEW x \in S
    PROVE  /\ \A i \in DOMAIN q : [q EXCEPT ![i] = x] \in Seq(S)
           /\ Append(q, x) \in Seq(S) /\ Len(q) \in Nat
           /\ DOMAIN Append(q, x) = DOMAIN q \cup {Len(q) + 1}
           /\ Append(q, x)[Len(q) + 1] = x
           /\ \A i \in DOMAIN q : Append(q, x)[i] = q[i]
  BY SMTT(40)

\* New proposals: the rows that were there keep their label, and each accepted one has its
\* alias.
LEMMA QueueGrows ==
    ASSUME NEW d, TablesInv(d), NEW q \in Seq(ProposalRows), DOMAIN d.proposals \subseteq DOMAIN q,
           \A i \in DOMAIN d.proposals : q[i].alias = d.proposals[i].alias,
           \A i \in DOMAIN q : q[i].status = "accepted" => d.alias[q[i].alias] # None,
           NEW e, e = [d EXCEPT !.proposals = q], NEW rep
    PROVE  TablesInv(e) /\ Grows(d, e, rep)
  <1>1. DOMAIN d = {"entities", "alias", "proposals"}
    BY Zenon DEF TablesInv
  <1>2. DOMAIN e = DOMAIN d /\ e.entities = d.entities /\ e.alias = d.alias /\ e.proposals = q
    BY SMTT(40), <1>1
  <1>3. TablesInv(e)
    BY Zenon, <1>2 DEF TablesInv
  <1>4. Grows(d, e, rep)
    BY Zenon, <1>2 DEF Grows
  <1>. QED BY Zenon, <1>3, <1>4

\* UpdateStatus accepts a proposal only after its alias was written.
LEMMA UpdateStatusKeeps ==
    ASSUME RegistryInv, NEW c \in Callers, Registry!UpdateStatus(c)
    PROVE  RegistryInv'
  <1>1. TablesInv(db) /\ CallInv(call[c], db, repointed) /\ repointed \in BOOLEAN /\ call[c].at = "status"
    BY Zenon DEF RegistryInv, Registry!UpdateStatus
  <1>2. PICK s, d : s = call[c] /\ d = db
    BY Zenon
  <1>3. PICK i, p : i = s.id /\ p = d.proposals[i]
    BY Zenon
  <1>4. i \in DOMAIN d.proposals /\ (s.op = "accept" => d.alias[p.alias] # None)
    BY Zenon, <1>1, <1>2, <1>3 DEF CallInv, CallReviews
  <1>5. p \in ProposalRows /\ p.status \in Statuses /\ p.alias \in Labels /\ p.target \in Labels
    BY ZenonT(60), <1>1, <1>2, <1>3, <1>4, ProposalFacts
  <1>6. p.status = "accepted" => d.alias[p.alias] # None
    BY Zenon, <1>1, <1>2, <1>3, <1>4 DEF TablesInv
  <1>7. PICK v : v = IF p.status # "pending" THEN p.status
                     ELSE IF s.op = "accept" THEN "accepted" ELSE "rejected"
    BY Zenon
  <1>8. v \in Statuses /\ (v = "accepted" => d.alias[p.alias] # None)
    BY Zenon, <1>4, <1>5, <1>6, <1>7 DEF Statuses
  <1>9. PICK x : x = [p EXCEPT !.status = v]
    BY Zenon
  <1>10. x \in ProposalRows /\ x.alias = p.alias /\ x.status = v
    BY SMTT(40), <1>5, <1>8, <1>9 DEF ProposalRows
  <1>11. PICK q : q = [d.proposals EXCEPT ![i] = x]
    BY Zenon
  <1>12. d.proposals \in Seq(ProposalRows)
    BY Zenon, <1>1, <1>2 DEF TablesInv
  <1>13. PICK o : o = d.proposals
    BY Zenon
  <1>14. [o EXCEPT ![i] = x] \in Seq(ProposalRows)
    BY ZenonT(60), <1>4, <1>10, <1>12, <1>13, QueueFacts
  <1>15. q \in Seq(ProposalRows)
    BY Zenon, <1>11, <1>13, <1>14
  <1>16. DOMAIN q = DOMAIN d.proposals /\ q[i] = x /\ \A j \in DOMAIN q \ {i} : q[j] = d.proposals[j]
    BY Zenon, <1>4, <1>11
  <1>17. \A j \in DOMAIN q : q[j].status = "accepted" => d.alias[q[j].alias] # None
    BY Zenon, <1>1, <1>2, <1>8, <1>10, <1>16 DEF TablesInv
  <1>18. PICK e : e = [d EXCEPT !.proposals = q]
    BY Zenon
  <1>19. DOMAIN d.proposals \subseteq DOMAIN q /\ \A j \in DOMAIN d.proposals : q[j].alias = d.proposals[j].alias
    BY Zenon, <1>3, <1>10, <1>16
  <1>20. TablesInv(e) /\ Grows(d, e, repointed)
    BY ZenonT(60), <1>1, <1>2, <1>15, <1>17, <1>18, <1>19, QueueGrows
  <1>21. db' = e /\ Registry!Return(c) /\ UNCHANGED <<replica, mentions, extracted, repointed>>
    BY ZenonT(60), <1>2, <1>3, <1>7, <1>9, <1>11, <1>18 DEF Registry!UpdateStatus
  <1>22. OneCall(c) /\ call'[c] = Registry!Idle
    BY Zenon, <1>21, ReturnMoves
  <1>23. repointed' = repointed /\ replica' = replica /\ mentions' = mentions /\ extracted' = extracted
    BY Zenon, <1>21
  <1>24. /\ TablesInv(db') /\ Grows(db, db', repointed') /\ CallInv(call'[c], db', repointed')
         /\ UNCHANGED <<replica, mentions, extracted>>
    BY ZenonT(60), <1>1, <1>2, <1>20, <1>21, <1>22, <1>23, IdleKeeps
  <1>25. repointed' \in BOOLEAN /\ (repointed => repointed')
    BY SMTT(40), <1>1, <1>23
  <1>. QED BY ZenonT(60), <1>22, <1>24, <1>25, TablesKeep

\* GenerateForMemory appends a pending proposal.
LEMMA GenerateKeeps ==
    ASSUME RegistryInv, NEW m \in Memories, NEW k \in Labels, NEW a \in Labels, NEW t \in Labels,
           Registry!GenerateForMemory(m, k, a, t)
    PROVE  RegistryInv'
  <1>1. TablesInv(db) /\ repointed \in BOOLEAN
    BY Zenon DEF RegistryInv
  <1>2. PICK d, x : d = db /\ x = [alias |-> a, target |-> t, status |-> "pending"]
    BY Zenon
  <1>3. x \in ProposalRows /\ x.status = "pending"
    BY SMTT(40), <1>2 DEF ProposalRows, Statuses
  <1>4. PICK o : o = d.proposals
    BY Zenon
  <1>5. o \in Seq(ProposalRows)
    BY Zenon, <1>1, <1>2, <1>4 DEF TablesInv
  <1>6. PICK q : q = Append(o, x)
    BY Zenon
  <1>7. PICK n : n = Len(o) + 1
    BY Zenon
  <1>8. /\ q \in Seq(ProposalRows) /\ DOMAIN q = DOMAIN o \cup {n} /\ q[n] = x
        /\ \A i \in DOMAIN o : q[i] = o[i]
    BY SMTT(40), <1>3, <1>5, <1>6, <1>7
  <1>9. \A j \in DOMAIN q : q[j].status = "accepted" => d.alias[q[j].alias] # None
    BY Zenon, <1>1, <1>2, <1>3, <1>4, <1>8 DEF TablesInv
  <1>10. DOMAIN d.proposals \subseteq DOMAIN q /\ \A j \in DOMAIN d.proposals : q[j].alias = d.proposals[j].alias
    BY Zenon, <1>4, <1>8
  <1>11. PICK e : e = [d EXCEPT !.proposals = q]
    BY Zenon
  <1>12. TablesInv(e) /\ Grows(d, e, repointed)
    BY ZenonT(60), <1>1, <1>2, <1>8, <1>9, <1>10, <1>11, QueueGrows
  <1>13. db' = e /\ UNCHANGED <<replica, mentions, call, extracted, repointed>>
    BY Zenon, <1>2, <1>4, <1>6, <1>11 DEF Registry!GenerateForMemory
  <1>14. /\ Grows(replica, e, repointed) /\ \A c \in Callers : CallInv(call[c], e, repointed)
         /\ MentionsInv(mentions, e) /\ FoundInv(mentions, extracted, e, repointed)
    BY Zenon, <1>2, <1>12, TablesStep
  <1>15. /\ replica' = replica /\ mentions' = mentions /\ call' = call /\ extracted' = extracted
         /\ repointed' = repointed
    BY Zenon, <1>13
  <1>. QED BY Zenon, <1>12, <1>13, <1>14, <1>15 DEF RegistryInv

\* A step of one caller that changes the graph.
LEMMA GraphKeeps ==
    ASSUME RegistryInv, NEW c \in Callers, OneCall(c), CallInv(call'[c], db, repointed),
           UNCHANGED <<db, replica, repointed>>, MentionsInv(mentions', db),
           extracted' = [m \in Memories |-> extracted'[m]],
           FoundInv(mentions', extracted', db, repointed)
    PROVE  RegistryInv'
  <1>1. \A x \in Callers : CallInv(call[x], db, repointed)
    BY Zenon DEF RegistryInv
  <1>2. /\ call' = [x \in Callers |-> call'[x]]
        /\ \A x \in Callers : CallInv(call'[x], db, repointed)
    BY Zenon, <1>1, OneCallKeeps
  <1>3. db' = db /\ replica' = replica /\ repointed' = repointed
    BY Zenon
  <1>. QED BY Zenon, <1>2, <1>3 DEF RegistryInv

\* ReconcileEntityMentions replaces the mentions of the memory by those it has noted, one
\* for each label.
LEMMA ReconcileKeeps ==
    ASSUME RegistryInv, NEW c \in Callers, Registry!ReconcileEntityMentions(c)
    PROVE  RegistryInv'
  <1>1. /\ CallInv(call[c], db, repointed) /\ MentionsInv(mentions, db)
        /\ extracted = [m \in Memories |-> extracted[m]]
        /\ FoundInv(mentions, extracted, db, repointed) /\ call[c].at = "next"
    BY Zenon DEF RegistryInv, Registry!ReconcileEntityMentions
  <1>2. PICK s, m : s = call[c] /\ m = s.memory
    BY Zenon
  <1>3. m \in Memories /\ CallFound(s.found, db, repointed)
    BY SMTT(40), <1>1, <1>2 DEF CallInv, CallTypes
  <1>4. PICK F, L : /\ F = {[memory |-> m, slot |-> f.slot, key |-> f.key] : f \in s.found}
                    /\ L = {f.label : f \in s.found}
    BY Zenon
  <1>5. /\ mentions' = {e \in mentions : e.memory # m} \cup F
        /\ extracted' = [extracted EXCEPT ![m] = L] /\ Registry!Return(c)
        /\ UNCHANGED <<db, replica, repointed>>
    BY Zenon, <1>2, <1>4 DEF Registry!ReconcileEntityMentions
  <1>6. OneCall(c) /\ call'[c] = Registry!Idle
    BY Zenon, <1>5, ReturnMoves
  <1>7. CallInv(call'[c], db, repointed)
    BY Zenon, <1>6, IdleKeeps
  <1>8. \A x, y, z : LET e == [memory |-> x, slot |-> y, key |-> z]
                     IN  DOMAIN e = {"memory", "slot", "key"} /\ e.memory = x /\ e.key = z
    BY SMTT(40)
  <1>9. MentionsInv(mentions', db)
    <2>1. ASSUME NEW e \in F
          PROVE  DOMAIN e = {"memory", "slot", "key"} /\ e.memory \in Memories /\ e.key \in db.entities
      <3>1. PICK f \in s.found : e = [memory |-> m, slot |-> f.slot, key |-> f.key]
        BY Zenon, <1>4, <2>1
      <3>2. DOMAIN e = {"memory", "slot", "key"} /\ e.memory = m /\ e.key = f.key
        BY Zenon, <1>8, <3>1
      <3>. QED BY Zenon, <1>3, <3>2 DEF CallFound
    <2>. QED BY Zenon, <1>1, <1>5, <2>1 DEF MentionsInv
  <1>10. /\ extracted' = [n \in Memories |-> extracted'[n]] /\ extracted'[m] = L
         /\ \A n \in Memories \ {m} : extracted'[n] = extracted[n]
    BY Zenon, <1>1, <1>3, <1>5
  <1>11. L \subseteq Labels
    BY Zenon, <1>3, <1>4 DEF CallFound
  <1>12. ASSUME FlatIn(db), ~repointed, NEW n \in Memories, NEW k \in extracted'[n]
         PROVE  \E e \in mentions' : e.memory = n /\ Stands(e.key, k, db)
    <2>1. CASE n = m
      <3>1. PICK f \in s.found : k = f.label
        BY Zenon, <1>4, <1>10, <1>12, <2>1
      <3>2. PICK e : e = [memory |-> m, slot |-> f.slot, key |-> f.key]
        BY Zenon
      <3>3. e \in mentions'
        BY Zenon, <1>4, <1>5, <3>2
      <3>4. e.memory = m /\ e.key = f.key
        BY Zenon, <1>8, <3>2
      <3>5. Stands(f.key, k, db)
        BY Zenon, <1>3, <1>12, <3>1 DEF CallFound
      <3>. QED BY Zenon, <2>1, <3>3, <3>4, <3>5
    <2>2. CASE n # m
      <3>0. k \in extracted[n]
        BY Zenon, <1>10, <1>12, <2>2
      <3>1. PICK e \in mentions : e.memory = n /\ Stands(e.key, k, db)
        BY Zenon, <1>1, <1>12, <3>0 DEF FoundInv
      <3>2. e \in mentions'
        BY Zenon, <1>5, <2>2, <3>1
      <3>. QED BY Zenon, <3>1, <3>2
    <2>. QED BY Zenon, <2>1, <2>2
  <1>13. FoundInv(mentions', extracted', db, repointed)
    BY ZenonT(60), <1>1, <1>10, <1>11, <1>12 DEF FoundInv
  <1>. QED BY ZenonT(60), <1>5, <1>6, <1>7, <1>9, <1>10, <1>13, GraphKeeps

\* MergeEntityAliasInGraph moves mentions of the alias to the entity.  A label that stood
\* for the alias is the alias itself, or, aliases being flat, the entity is the alias.
LEMMA MergeKeeps ==
    ASSUME RegistryInv, NEW c \in Callers, Registry!MergeEntityAliasInGraph(c)
    PROVE  RegistryInv'
  <1>1. /\ CallInv(call[c], db, repointed) /\ MentionsInv(mentions, db) /\ TablesInv(db)
        /\ extracted = [m \in Memories |-> extracted[m]]
        /\ FoundInv(mentions, extracted, db, repointed) /\ call[c].at = "merge"
    BY Zenon DEF RegistryInv, Registry!MergeEntityAliasInGraph
  <1>2. PICK s, a, b : s = call[c] /\ a = s.alias /\ b = s.canon
    BY Zenon
  <1>3. /\ a \in Labels /\ b \in db.entities /\ db.alias[a] # None
        /\ ~repointed => db.alias[a] = b
    <2>1. CallTypes(s) /\ CallNames(s, db) /\ CallStands(s, db, repointed) /\ s.at = "merge"
      BY Zenon, <1>1, <1>2 DEF CallInv
    <2>2. a \in Labels
      BY SMTT(40), <1>2, <2>1 DEF CallTypes
    <2>3. b \in db.entities
      BY SMTT(40), <1>2, <2>1 DEF CallNames
    <2>4. db.alias[a] # None /\ (~repointed => db.alias[a] = b)
      BY SMTT(40), <1>2, <2>1 DEF CallStands
    <2>. QED BY Zenon, <2>2, <2>3, <2>4
  <1>. DEFINE Moved(e) == IF e.key = a THEN [e EXCEPT !.key = b] ELSE e
  <1>4. /\ mentions' = {Moved(e) : e \in mentions}
        /\ IF s.op = "accept" THEN Registry!Goto(c, "status") ELSE Registry!Return(c)
        /\ UNCHANGED <<db, replica, extracted, repointed>>
    BY Zenon, <1>2 DEF Registry!MergeEntityAliasInGraph
  <1>5. ASSUME NEW e \in mentions
        PROVE  /\ DOMAIN Moved(e) = {"memory", "slot", "key"} /\ Moved(e).memory = e.memory
               /\ Moved(e).key = IF e.key = a THEN b ELSE e.key
    <2>1. DOMAIN e = {"memory", "slot", "key"}
      BY Zenon, <1>1 DEF MentionsInv
    <2>2. PICK g : g = [e EXCEPT !.key = b]
      BY Zenon
    <2>3. DOMAIN g = {"memory", "slot", "key"} /\ g.memory = e.memory /\ g.key = b
      BY SMTT(40), <2>1, <2>2
    <2>. QED BY Zenon, <2>1, <2>2, <2>3
  <1>6. \A e \in mentions : Moved(e) \in mentions'
    BY Zenon, <1>4
  <1>7. \A g \in mentions' : \E e \in mentions : g = Moved(e)
    BY Zenon, <1>4
  <1>. HIDE DEF Moved
  <1>8. MentionsInv(mentions', db)
    <2>1. SUFFICES ASSUME NEW g \in mentions'
                   PROVE  DOMAIN g = {"memory", "slot", "key"} /\ g.memory \in Memories /\ g.key \in db.entities
      BY Zenon DEF MentionsInv
    <2>2. PICK e \in mentions : g = Moved(e)
      BY Zenon, <1>7
    <2>. QED BY Zenon, <1>1, <1>3, <1>5, <2>2 DEF MentionsInv
  <1>9. ASSUME FlatIn(db), ~repointed, NEW n \in Memories, NEW k \in extracted[n]
        PROVE  \E e \in mentions' : e.memory = n /\ Stands(e.key, k, db)
    <2>1. k \in Labels /\ \E e \in mentions : e.memory = n /\ Stands(e.key, k, db)
      BY Zenon, <1>1, <1>9 DEF FoundInv
    <2>2. PICK e \in mentions : e.memory = n /\ Stands(e.key, k, db)
      BY Zenon, <2>1
    <2>3. PICK g : g = Moved(e)
      BY Zenon
    <2>4. g \in mentions' /\ g.memory = n
      BY Zenon, <1>5, <1>6, <2>2, <2>3
    <2>5. CASE e.key # a
      BY Zenon, <1>5, <2>2, <2>3, <2>4, <2>5
    <2>6. CASE e.key = a
      <3>1. g.key = b
        BY Zenon, <1>5, <2>3, <2>6
      <3>2. k = a \/ (k # a /\ db.alias[k] = a)
        BY Zenon, <2>2, <2>6 DEF Stands
      <3>3. Stands(b, k, db)
        BY Zenon, <1>3, <1>9, <2>1, <3>2, NoneFacts DEF Stands, FlatIn
      <3>. QED BY Zenon, <2>4, <3>1, <3>3
    <2>. QED BY Zenon, <2>5, <2>6
  <1>10. FoundInv(mentions', extracted, db, repointed)
    BY Zenon, <1>1, <1>9 DEF FoundInv
  <1>11. db' = db /\ replica' = replica /\ extracted' = extracted /\ repointed' = repointed
    BY Zenon, <1>4
  <1>12. OneCall(c) /\ CallInv(call'[c], db, repointed)
    <2>1. CASE s.op = "accept"
      <3>1. /\ OneCall(c) /\ DOMAIN call'[c] = CallFields
            /\ call'[c].at = "status" /\ Kept(call'[c], call[c])
        BY ZenonT(60), <1>4, <2>1, GotoMoves
      <3>2. PICK r : r = call'[c]
        BY Zenon
      <3>a. CallReviews(s, db) /\ CallFound(s.found, db, repointed) /\ s.at = "merge"
        BY Zenon, <1>1, <1>2 DEF CallInv
      <3>3. s.id \in DOMAIN db.proposals /\ db.proposals[s.id].alias = a
        BY SMTT(40), <1>2, <2>1, <3>a DEF CallReviews
      <3>b. DOMAIN r = CallFields /\ r.at = "status" /\ Kept(r, s)
        BY Zenon, <1>2, <3>1, <3>2
      <3>c. r.op = "accept" /\ r.id = s.id /\ r.found = s.found
        BY Zenon, <2>1, <3>b DEF Kept
      <3>d. CallTypes(r)
        BY SMTT(40), <3>b, <3>c DEF CallTypes
      <3>e. CallNames(r, db) /\ CallStands(r, db, repointed)
        BY SMTT(40), <3>b DEF CallNames, CallStands
      <3>f. db.alias[db.proposals[r.id].alias] # None /\ r.id \in DOMAIN db.proposals
        BY Zenon, <1>3, <3>3, <3>c
      <3>g. CallReviews(r, db)
        BY SMTT(40), <3>b, <3>f DEF CallReviews
      <3>4. CallInv(r, db, repointed)
        BY Zenon, <3>a, <3>c, <3>d, <3>e, <3>g DEF CallInv
      <3>. QED BY Zenon, <3>1, <3>2, <3>4
    <2>2. CASE s.op # "accept"
      BY ZenonT(60), <1>4, <2>2, ReturnMoves, IdleKeeps
    <2>. QED BY Zenon, <2>1, <2>2
  <1>. QED BY ZenonT(60), <1>1, <1>8, <1>10, <1>11, <1>12, GraphKeeps

\* Replicate: the replica is the tables.
LEMMA ReplicateKeeps ==
    ASSUME RegistryInv, Registry!Replicate PROVE RegistryInv'
  <1>1. /\ replica' = db /\ db' = db /\ mentions' = mentions /\ call' = call
        /\ extracted' = extracted /\ repointed' = repointed
    BY Zenon DEF Registry!Replicate
  <1>2. Grows(db, db, repointed)
    BY Zenon, GrowsRefl
  <1>. QED BY Zenon, <1>1, <1>2 DEF RegistryInv

\* The registry begins empty.
LEMMA RegistryInit == ASSUME Registry!Init PROVE RegistryInv
  <1>1. PICK d : d = [entities |-> {}, alias |-> [k \in Labels |-> None], proposals |-> <<>>]
    BY Zenon
  <1>2. PICK f : f = [k \in Labels |-> None]
    BY Zenon
  <1>3. f \in [Labels -> Labels \cup {None}] /\ \A k \in Labels : f[k] = None
    BY ZenonT(60), <1>2
  <1>4. DOMAIN d = {"entities", "alias", "proposals"} /\ d.entities = {} /\ d.alias = f
        /\ d.proposals = <<>>
    BY SMTT(40), <1>1, <1>2
  <1>5. <<>> \in Seq(ProposalRows) /\ DOMAIN <<>> = {}
    BY SMTT(40)
  <1>6. TablesInv(d)
    BY Zenon, <1>3, <1>4, <1>5 DEF TablesInv
  <1>7. /\ db = d /\ replica = d /\ mentions = {} /\ repointed = FALSE
        /\ call = [c \in Callers |-> Registry!Idle] /\ extracted = [m \in Memories |-> {}]
    BY Zenon, <1>1 DEF Registry!Init
  <1>8. Grows(d, d, repointed)
    BY Zenon, GrowsRefl
  <1>9. call = [c \in Callers |-> call[c]] /\ \A c \in Callers : CallInv(call[c], db, repointed)
    BY Zenon, <1>7, IdleKeeps
  <1>10. extracted = [m \in Memories |-> extracted[m]] /\ \A m \in Memories : extracted[m] = {}
    BY Zenon, <1>7
  <1>11. MentionsInv(mentions, db) /\ FoundInv(mentions, extracted, db, repointed)
    BY Zenon, <1>7, <1>10 DEF MentionsInv, FoundInv
  <1>12. repointed \in BOOLEAN
    <2>1. repointed = FALSE
      BY Zenon, <1>7
    <2>. QED BY Zenon, <2>1
  <1>13. TablesInv(db) /\ TablesInv(replica) /\ Grows(replica, db, repointed)
    BY Zenon, <1>6, <1>7, <1>8
  <1>. QED BY ZenonT(60), <1>9, <1>10, <1>11, <1>12, <1>13 DEF RegistryInv

\* Every step keeps the invariant.
LEMMA RegistryNext == ASSUME RegistryInv, [Registry!Next]_registryVars PROVE RegistryInv'
  <1>1. ASSUME NEW c \in Callers,
               \/ \E m \in Memories, a \in Answers : Registry!Extract(c, m, a)
               \/ \E b \in BOOLEAN : Registry!Snapshot(c, b)
               \/ \E k, a \in Labels : Registry!AddManualAlias(c, k, a)
               \/ \E id \in 1..MaxProposals : Registry!AcceptProposal(c, id) \/ Registry!RejectProposal(c, id)
        PROVE  RegistryInv'
    BY ZenonT(60), <1>1, ExtractKeeps, SnapshotKeeps, AddManualAliasKeeps, AcceptKeeps, RejectKeeps
  <1>6. ASSUME NEW c \in Callers, NEW p \in call[c].todo, NEW b \in BOOLEAN, Registry!NextSlot(c, p, b)
        PROVE  RegistryInv'
    BY Zenon, <1>6, NextSlotKeeps
  <1>2. ASSUME NEW c \in Callers, Registry!StatementFails(c) \/ Registry!ManualDone(c)
        PROVE  RegistryInv'
    <2>1. Registry!Return(c) /\ UNCHANGED <<db, replica, mentions, extracted, repointed>>
      BY Zenon, <1>2 DEF Registry!StatementFails, Registry!ManualDone
    <2>. QED BY Zenon, <2>1, ReturnKeeps
  <1>3. ASSUME NEW c \in Callers,
               \/ Registry!UpsertCanonical(c) \/ Registry!WriteAlias(c) \/ Registry!WriteAliasFails(c)
               \/ Registry!ReconcileEntityMentions(c) \/ Registry!MergeEntityAliasInGraph(c)
               \/ Registry!UpdateStatus(c)
        PROVE  RegistryInv'
    BY ZenonT(60), <1>3, UpsertCanonicalKeeps, WriteAliasKeeps, WriteAliasFailsKeeps, ReconcileKeeps,
       MergeKeeps, UpdateStatusKeeps
  <1>4. ASSUME NEW m \in Memories, NEW k \in Labels, NEW a \in Labels, NEW t \in Labels,
               Registry!GenerateForMemory(m, k, a, t)
        PROVE  RegistryInv'
    BY Zenon, <1>4, GenerateKeeps
  <1>5. ASSUME UNCHANGED registryVars PROVE RegistryInv'
    <2>1. /\ replica' = replica /\ db' = db /\ mentions' = mentions /\ call' = call
          /\ extracted' = extracted /\ repointed' = repointed
      BY Zenon, <1>5 DEF registryVars
    <2>. QED BY Zenon, <2>1 DEF RegistryInv
  <1>. QED BY ZenonT(60), <1>1, <1>2, <1>3, <1>4, <1>5, <1>6, ReplicateKeeps DEF Registry!Next

\* A lookup of k visits the entity k stands for.
LEMMA LookupVisits ==
    ASSUME RegistryInv, NEW k \in Labels, NEW e \in mentions, Stands(e.key, k, db)
    PROVE  e.memory \in Registry!FindMemoriesByEntity(k)
  <1>1. TablesInv(db) /\ e.key \in Labels
    BY Zenon DEF RegistryInv, MentionsInv, TablesInv
  <1>2. e.key \in Registry!ExpandEntityKeys(k)
    <2>1. CASE db.alias[k] = None
      BY Zenon, <1>1, <2>1, NoneFacts DEF Stands, Registry!ExpandEntityKeys, Registry!ResolveCanonicalKey
    <2>2. CASE db.alias[k] # None
      <3>1. db.alias[k] \in db.entities
        BY Zenon, <1>1, <2>2 DEF TablesInv
      <3>. QED BY Zenon, <2>2, <3>1 DEF Stands, Registry!ExpandEntityKeys, Registry!ResolveCanonicalKey
    <2>. QED BY Zenon, <2>1, <2>2
  <1>. QED BY Zenon, <1>2 DEF Registry!FindMemoriesByEntity

\* What the invariant says of a state.
LEMMA RegistrySound == ASSUME RegistryInv PROVE RegistryIsSound
  <1>1. TablesInv(db) /\ MentionsInv(mentions, db) /\ FoundInv(mentions, extracted, db, repointed)
    BY Zenon DEF RegistryInv
  <1>2. Registry!GraphIsRegistered
    BY Zenon, <1>1 DEF TablesInv, MentionsInv, Registry!GraphIsRegistered
  <1>3. Registry!AcceptedIsApplied
    BY Zenon, <1>1 DEF TablesInv, Registry!AcceptedIsApplied
  <1>4. Registry!LookupFindsMemory
    <2>1. SUFFICES ASSUME FlatIn(db), ~repointed, NEW m \in Memories, NEW k \in extracted[m]
                   PROVE  m \in Registry!FindMemoriesByEntity(k)
      BY Zenon DEF Registry!LookupFindsMemory, Registry!Flat, FlatIn
    <2>2. k \in Labels /\ \E e \in mentions : e.memory = m /\ Stands(e.key, k, db)
      BY Zenon, <1>1, <2>1 DEF FoundInv
    <2>3. PICK e \in mentions : e.memory = m /\ Stands(e.key, k, db)
      BY Zenon, <2>2
    <2>. QED BY Zenon, <2>2, <2>3, LookupVisits
  <1>5. Registry!RelatedIsLookup
    <2>1. SUFFICES ASSUME NEW m \in Memories, NEW n \in Registry!FindRelatedViaEntity(m)
                   PROVE  \E k \in Registry!FindEntitiesForMemory(m) : n \in Registry!FindMemoriesByEntity(k)
      BY Zenon DEF Registry!RelatedIsLookup
    <2>2. PICK e \in mentions : n = e.memory /\ e.key \in Registry!FindEntitiesForMemory(m)
      BY Zenon DEF Registry!FindRelatedViaEntity
    <2>3. e.key \in Labels /\ Stands(e.key, e.key, db)
      BY Zenon, <1>1 DEF MentionsInv, TablesInv, Stands
    <2>4. n \in Registry!FindMemoriesByEntity(e.key)
      BY Zenon, <2>2, <2>3, LookupVisits
    <2>. QED BY Zenon, <2>2, <2>4
  <1>. QED BY ZenonT(60), <1>2, <1>3, <1>4, <1>5 DEF RegistryIsSound

\* RegistryIsSound: however extractions, manual aliases and reviews interleave, and
\* whichever of their statements fail, the graph and the aliases name registered entities
\* only, a lookup by a label finds every memory extracted with it as long as aliases are
\* flat and keep their entity, the related memories are among those a lookup finds, and a
\* proposal that shows as accepted has its alias.
THEOREM RegistriesAreSound == Registry!Spec => []RegistryIsSound
  <1>1. Registry!Init => RegistryInv
    BY Zenon, RegistryInit
  <1>2. RegistryInv /\ [Registry!Next]_registryVars => RegistryInv'
    BY Zenon, RegistryNext
  <1>3. RegistryInv => RegistryIsSound
    BY Zenon, RegistrySound
  <1>4. registryVars = Registry!vars
    BY Zenon DEF registryVars, Registry!vars
  <1>. QED BY <1>1, <1>2, <1>3, PTL DEF Registry!Spec, Registry!vars, registryVars
=============================================================================

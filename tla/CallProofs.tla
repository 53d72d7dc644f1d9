----------------------------- MODULE CallProofs -----------------------------
(***************************************************************************)
(* Machine-checked proofs about what calls of clients do to shared rows,   *)
(* for any callers, keys, sessions and bounds: promotions of working       *)
(* memory are exact, and replays are genuine.                              *)
(***************************************************************************)
EXTENDS Idempotency, SessionParts, FiniteSetTheorems, TLAPS

USE ZenonT(60)

(***************************************************************************)
(* The promotion of a session's working memory.                            *)
(***************************************************************************)
RowFields == {"id", "path", "open", "session", "by"}
Target(path) == Promote!promotePath(path)

\* Rows have their fields, and an id is the id of one row.
RowsAreKeyed ==
    /\ nextId \in Nat
    /\ \A r \in sRows : DOMAIN r = RowFields /\ r.id \in Nat /\ r.id < nextId
    /\ \A r, q \in sRows : r.id = q.id => r = q

\* Where a call is, and what it holds: what it has moved and has still to look at are
\* rows it has locked, and so is the row it is about to move.
CallsHold ==
    /\ pc = [p \in Promoters |-> pc[p]] /\ psess = [p \in Promoters |-> psess[p]]
    /\ held = [p \in Promoters |-> held[p]] /\ todo = [p \in Promoters |-> todo[p]]
    /\ cur = [p \in Promoters |-> cur[p]] /\ moved = [p \in Promoters |-> moved[p]]
    /\ promoted = [p \in Promoters |-> promoted[p]]
    /\ \A p \in Promoters :
          /\ IsFiniteSet(moved[p])
          /\ \A i \in moved[p] : i \in held[p] /\ i \notin todo[p]
          /\ \A i \in todo[p] : i \in held[p]
          /\ pc[p] = "update" => cur[p] \in held[p] /\ cur[p] \notin moved[p] /\ cur[p] \notin todo[p]
          /\ pc[p] \notin {"check", "update"} => held[p] = {}
          /\ pc[p] # "idle" => psess[p] \in SessionIds

\* A locked row is current working memory of the session.
OpenIn(i, s) == \E r \in sRows : r.id = i /\ r.open /\ r.session = s
HeldAreOpen == \A p \in Promoters : \A i \in held[p] : OpenIn(i, psess[p])

\* A row is locked by one call.
HeldOnce == \A p, q \in Promoters : p # q => \A i \in held[p] : i \notin held[q]

\* One current row per path.
OneOpen == \A r, q \in sRows : r.open /\ q.open /\ r.path = q.path => r = q

\* As the transaction of p sees them: a row it has moved is alone on its new path.
MovesFit ==
    \A p \in Promoters : \A r, q \in sRows : r.open /\ q.open /\ r.id \in moved[p] =>
        /\ q.id \in moved[p] /\ Target(r.path) = Target(q.path) => r = q
        /\ q.id \notin moved[p] => Target(r.path) # q.path

\* No call has moved a row where another has taken a row away or put one.
Apart(a, b) == Target(a.path) # b.path /\ Target(a.path) # Target(b.path)
MovesApart ==
    \A p, q \in Promoters : p # q =>
        \A a, b \in sRows : a.id \in moved[p] /\ b.id \in moved[q] => Apart(a, b)

\* A promoted row is no working memory.
PromotedIsLongTerm == \A r \in sRows : r.by # NoSession => r.session = NoSession

\* The rows p has promoted.
Reports ==
    \A p \in Promoters :
        /\ pc[p] # "done" => (\A r \in sRows : r.by # p) /\ promoted[p] = Cardinality(moved[p])
        /\ pc[p] = "done" => Cardinality(Promote!PromotedBy(p)) = promoted[p]

PromoteInv ==
    /\ RowsAreKeyed /\ CallsHold /\ HeldAreOpen /\ HeldOnce
    /\ OneOpen /\ MovesFit /\ MovesApart /\ PromotedIsLongTerm /\ Reports

\* The cardinality Sessions speaks of.
LEMMA SameCardinality ==
    ASSUME NEW S PROVE Promote!Cardinality(S) = Cardinality(S)
  BY DEF Promote!Cardinality, Cardinality

\* The row with an id.
LEMMA RowOfIs ==
    ASSUME RowsAreKeyed, NEW r \in sRows
    PROVE  Promote!RowOf(r.id) = r
  <1>1. PICK q : q = Promote!RowOf(r.id)
    OBVIOUS
  <1>2. q \in sRows /\ q.id = r.id
    BY <1>1 DEF Promote!RowOf
  <1>. QED BY <1>1, <1>2 DEF RowsAreKeyed

\* A locked id is the id of a row.
LEMMA HeldRow ==
    ASSUME RowsAreKeyed, HeldAreOpen, NEW p \in Promoters, NEW i \in held[p]
    PROVE  \E r \in sRows : r.id = i /\ Promote!RowOf(i) = r /\ r.open /\ r.session = psess[p]
  <1>1. PICK r \in sRows : r.id = i /\ r.open /\ r.session = psess[p]
    BY DEF HeldAreOpen, OpenIn
  <1>2. Promote!RowOf(i) = r
    BY <1>1, RowOfIs
  <1>. QED BY <1>1, <1>2

\* What the run checks follows.
LEMMA InvImpliesExact ==
    ASSUME PromoteInv
    PROVE  PromotionIsExact
  <1>1. Promote!MovesWhatItRead
    <2>. SUFFICES ASSUME NEW p \in Promoters, NEW i \in moved[p] \cup todo[p]
                  PROVE  Promote!RowOf(i).open /\ Promote!RowOf(i).session = psess[p]
      BY DEF Promote!MovesWhatItRead
    <2>1. i \in held[p]
      BY DEF PromoteInv, CallsHold
    <2>2. RowsAreKeyed /\ HeldAreOpen
      BY DEF PromoteInv
    <2>3. PICK r \in sRows : r.id = i /\ Promote!RowOf(i) = r /\ r.open /\ r.session = psess[p]
      BY <2>1, <2>2, HeldRow
    <2>. QED BY <2>3
  <1>2. Promote!OneCurrentPerPath
    BY DEF PromoteInv, OneOpen, Promote!OneCurrentPerPath, Promote!Open
  <1>3. ASSUME NEW p \in Promoters, pc[p] \notin Promote!Running PROVE Cardinality(Promote!PromotedBy(p)) = promoted[p]
    <2>1. CASE pc[p] = "done"
      BY <2>1 DEF PromoteInv, Reports
    <2>2. CASE pc[p] # "done"
      <3>1. Promote!PromotedBy(p) = {}
        BY <2>2 DEF PromoteInv, Reports, Promote!PromotedBy
      <3>2. moved[p] = {}
        BY <1>3 DEF PromoteInv, CallsHold, Promote!Running
      <3>. QED BY <2>2, <3>1, <3>2 DEF PromoteInv, Reports
    <2>. QED BY <2>1, <2>2
  <1>. QED BY <1>1, <1>2, <1>3, SameCardinality DEF PromotionIsExact, Promote!PromotionIsExact, Promote!ReportIsExact

\* What has been moved fits while neither the rows nor the moves change.
LEMMA SameMoves ==
    ASSUME sRows' = sRows, moved' = moved, MovesFit, MovesApart
    PROVE  MovesFit' /\ MovesApart'
  <1>1. MovesFit'
    BY DEF MovesFit
  <1>2. ASSUME NEW p \in Promoters, NEW q \in Promoters, p # q, NEW a \in sRows', NEW b \in sRows',
               a.id \in moved'[p], b.id \in moved'[q]
        PROVE  Apart(a, b)
    BY <1>2 DEF MovesApart
  <1>3. MovesApart'
    BY <1>2 DEF MovesApart
  <1>. QED BY <1>1, <1>3

\* The same when a call gives its moves up.
LEMMA FewerMoves ==
    ASSUME sRows' = sRows, \A p \in Promoters : moved'[p] = moved[p] \/ moved'[p] = {}, MovesFit, MovesApart
    PROVE  MovesFit' /\ MovesApart'
  <1>1. ASSUME NEW p \in Promoters, NEW r \in sRows', NEW q \in sRows', r.open, q.open, r.id \in moved'[p]
        PROVE  /\ q.id \in moved'[p] /\ Target(r.path) = Target(q.path) => r = q
               /\ q.id \notin moved'[p] => Target(r.path) # q.path
    <2>1. moved'[p] = moved[p]
      BY <1>1
    <2>. QED BY <1>1, <2>1 DEF MovesFit
  <1>2. MovesFit'
    BY <1>1 DEF MovesFit
  <1>3. ASSUME NEW p \in Promoters, NEW q \in Promoters, p # q, NEW a \in sRows', NEW b \in sRows',
               a.id \in moved'[p], b.id \in moved'[q]
        PROVE  Apart(a, b)
    <2>1. moved'[p] = moved[p] /\ moved'[q] = moved[q]
      BY <1>3
    <2>. QED BY <1>3, <2>1 DEF MovesApart
  <1>4. MovesApart'
    BY <1>3 DEF MovesApart
  <1>. QED BY <1>2, <1>4

\* Locked rows stay as they are while the table does.
LEMMA SameHeld ==
    ASSUME sRows' = sRows, HeldAreOpen, \A p \in Promoters : \A i \in held'[p] : i \in held[p] /\ psess'[p] = psess[p]
    PROVE  HeldAreOpen'
  <1>1. \A i, s : OpenIn(i, s) => OpenIn(i, s)'
    BY DEF OpenIn
  <1>2. ASSUME NEW p \in Promoters, NEW i \in held'[p] PROVE OpenIn(i, psess[p])'
    BY <1>1, <1>2 DEF HeldAreOpen
  <1>. QED BY <1>2 DEF HeldAreOpen

\* A call that locks no more rows.
LEMMA FewerHeld ==
    ASSUME HeldOnce, \A p \in Promoters : \A i \in held'[p] : i \in held[p]
    PROVE  HeldOnce'
  BY DEF HeldOnce

\* Steps that change neither rows nor calls.
LEMMA OthersKeepPromote ==
    ASSUME PromoteInv, UNCHANGED <<sRows, nextId, pc, psess, held, todo, cur, moved, promoted>>
    PROVE  PromoteInv'
  <1>1. /\ sRows' = sRows /\ nextId' = nextId /\ pc' = pc /\ psess' = psess /\ held' = held
        /\ todo' = todo /\ cur' = cur /\ moved' = moved /\ promoted' = promoted
    OBVIOUS
  <1>2. RowsAreKeyed' /\ HeldAreOpen' /\ HeldOnce' /\ PromotedIsLongTerm'
    <2>1. RowsAreKeyed'
      BY <1>1 DEF PromoteInv, RowsAreKeyed
    <2>2. HeldAreOpen' /\ HeldOnce'
      BY <1>1, SameHeld, FewerHeld DEF PromoteInv
    <2>3. PromotedIsLongTerm'
      BY <1>1 DEF PromoteInv, PromotedIsLongTerm
    <2>. QED BY <2>1, <2>2, <2>3
  <1>3. CallsHold'
    BY <1>1 DEF PromoteInv, CallsHold
  <1>4. OneOpen'
    <2>1. OneOpen
      BY DEF PromoteInv
    <2>. QED BY <1>1, <2>1 DEF OneOpen
  <1>5. MovesFit' /\ MovesApart'
    BY <1>1, SameMoves DEF PromoteInv
  <1>6. Reports'
    BY <1>1 DEF PromoteInv, Reports, Promote!PromotedBy
  <1>. QED BY <1>2, <1>3, <1>4, <1>5, <1>6 DEF PromoteInv

\* A step of one call that changes no row.
LEMMA CallKeepsPromote ==
    ASSUME PromoteInv, sRows' = sRows, nextId' = nextId, NEW p \in Promoters,
           CallsHold', HeldAreOpen', HeldOnce', MovesFit', MovesApart',
           \A q \in Promoters : q # p => pc'[q] = pc[q] /\ moved'[q] = moved[q] /\ promoted'[q] = promoted[q],
           pc[p] # "done", pc'[p] # "done", promoted'[p] = Cardinality(moved'[p])
    PROVE  PromoteInv'
  <1>1. RowsAreKeyed' /\ OneOpen' /\ PromotedIsLongTerm'
    BY DEF PromoteInv, RowsAreKeyed, OneOpen, PromotedIsLongTerm
  <1>2. \A q \in Promoters : Promote!PromotedBy(q)' = Promote!PromotedBy(q)
    BY DEF Promote!PromotedBy
  <1>3. ASSUME NEW q \in Promoters
        PROVE  /\ pc'[q] # "done" => (\A r \in sRows' : r.by # q) /\ promoted'[q] = Cardinality(moved'[q])
               /\ pc'[q] = "done" => Cardinality(Promote!PromotedBy(q)') = promoted'[q]
    <2>1. CASE q = p
      BY <2>1 DEF PromoteInv, Reports
    <2>2. CASE q # p
      BY <1>2, <2>2 DEF PromoteInv, Reports
    <2>. QED BY <2>1, <2>2
  <1>4. Reports'
    BY <1>3 DEF Reports
  <1>. QED BY <1>1, <1>4 DEF PromoteInv

\* The session is looked up.
LEMMA CheckKeepsPromote ==
    ASSUME PromoteInv, NEW p \in Promoters, NEW s \in SessionIds, Promote!PromoteCheck(p, s)
    PROVE  PromoteInv'
  <1>1. /\ sRows' = sRows /\ nextId' = nextId /\ held' = held /\ todo' = todo /\ cur' = cur
        /\ moved' = moved /\ promoted' = promoted
        /\ pc[p] = "idle" /\ pc' = [pc EXCEPT ![p] = "select"] /\ psess' = [psess EXCEPT ![p] = s]
    BY DEF Promote!PromoteCheck
  <1>2. CallsHold /\ HeldAreOpen /\ HeldOnce /\ MovesFit /\ MovesApart /\ Reports
    BY DEF PromoteInv
  <1>3. /\ pc' = [q \in Promoters |-> pc'[q]] /\ pc'[p] = "select" /\ \A q \in Promoters : q # p => pc'[q] = pc[q]
        /\ psess' = [q \in Promoters |-> psess'[q]] /\ psess'[p] = s /\ \A q \in Promoters : q # p => psess'[q] = psess[q]
    BY <1>1, <1>2 DEF CallsHold
  <1>4. "idle" # "check" /\ "idle" # "update" /\ "idle" # "done" /\ "select" # "check" /\ "select" # "update" /\ "select" # "done"
    BY SMTT(40)
  <1>5. held[p] = {}
    BY <1>1, <1>2, <1>4 DEF CallsHold
  <1>6. CallsHold'
    <2>1. ASSUME NEW q \in Promoters
          PROVE  /\ pc'[q] = "update" => cur[q] \in held[q] /\ cur[q] \notin moved[q] /\ cur[q] \notin todo[q]
                 /\ pc'[q] \notin {"check", "update"} => held[q] = {}
                 /\ pc'[q] # "idle" => psess'[q] \in SessionIds
      <3>1. CASE q = p
        BY <1>3, <1>4, <1>5, <3>1
      <3>2. CASE q # p
        BY <1>2, <1>3, <3>2 DEF CallsHold
      <3>. QED BY <3>1, <3>2
    <2>. QED BY <1>1, <1>2, <1>3, <2>1 DEF CallsHold
  <1>7. \A q \in Promoters : \A i \in held'[q] : i \in held[q] /\ psess'[q] = psess[q]
    BY <1>1, <1>3, <1>5
  <1>8. HeldAreOpen'
    BY <1>1, <1>2, <1>7, SameHeld
  <1>9. HeldOnce'
    BY <1>2, <1>7, FewerHeld
  <1>10. MovesFit' /\ MovesApart'
    BY <1>1, <1>2, SameMoves
  <1>11. /\ \A q \in Promoters : q # p => pc'[q] = pc[q] /\ moved'[q] = moved[q] /\ promoted'[q] = promoted[q]
         /\ pc[p] # "done" /\ pc'[p] # "done" /\ promoted'[p] = Cardinality(moved'[p])
    BY <1>1, <1>2, <1>3, <1>4 DEF Reports
  <1>. QED BY <1>1, <1>6, <1>8, <1>9, <1>10, <1>11, CallKeepsPromote

\* SELECT ... FOR UPDATE locks current rows of the session that nobody else holds.
LEMMA SelectKeepsPromote ==
    ASSUME PromoteInv, NEW p \in Promoters, Promote!SelectForUpdate(p)
    PROVE  PromoteInv'
  <1>1. PICK W : W = Promote!WorkingRows(psess[p])
    OBVIOUS
  <1>2. /\ sRows' = sRows /\ nextId' = nextId /\ psess' = psess /\ cur' = cur
        /\ moved' = moved /\ promoted' = promoted
        /\ pc[p] = "select" /\ pc' = [pc EXCEPT ![p] = "check"]
        /\ held' = [held EXCEPT ![p] = W] /\ todo' = [todo EXCEPT ![p] = W]
        /\ \A q \in Promoters \ {p} : held[q] \cap W = {}
    BY <1>1 DEF Promote!SelectForUpdate
  <1>3. CallsHold /\ HeldAreOpen /\ HeldOnce /\ MovesFit /\ MovesApart /\ Reports
    BY DEF PromoteInv
  <1>4. /\ pc' = [q \in Promoters |-> pc'[q]] /\ pc'[p] = "check" /\ \A q \in Promoters : q # p => pc'[q] = pc[q]
        /\ held' = [q \in Promoters |-> held'[q]] /\ held'[p] = W /\ \A q \in Promoters : q # p => held'[q] = held[q]
        /\ todo' = [q \in Promoters |-> todo'[q]] /\ todo'[p] = W /\ \A q \in Promoters : q # p => todo'[q] = todo[q]
    BY <1>2, <1>3 DEF CallsHold
  <1>5. "select" # "check" /\ "select" # "update" /\ "check" # "update" /\ "select" # "idle" /\ "select" # "done" /\ "check" # "done"
    BY SMTT(40)
  <1>6. moved[p] = {} /\ psess[p] \in SessionIds
    BY <1>2, <1>3, <1>5 DEF CallsHold
  <1>7. CallsHold'
    <2>1. ASSUME NEW q \in Promoters
          PROVE  /\ \A i \in moved[q] : i \in held'[q] /\ i \notin todo'[q]
                 /\ \A i \in todo'[q] : i \in held'[q]
                 /\ pc'[q] = "update" => cur[q] \in held'[q] /\ cur[q] \notin moved[q] /\ cur[q] \notin todo'[q]
                 /\ pc'[q] \notin {"check", "update"} => held'[q] = {}
                 /\ pc'[q] # "idle" => psess[q] \in SessionIds
      <3>1. CASE q = p
        BY <1>4, <1>5, <1>6, <3>1
      <3>2. CASE q # p
        BY <1>3, <1>4, <3>2 DEF CallsHold
      <3>. QED BY <3>1, <3>2
    <2>. QED BY <1>2, <1>3, <1>4, <2>1 DEF CallsHold
  <1>8. HeldAreOpen'
    <2>1. \A i \in W : OpenIn(i, psess[p])
      BY <1>1 DEF Promote!WorkingRows, Promote!Open, OpenIn
    <2>2. \A i, s : OpenIn(i, s) => OpenIn(i, s)'
      BY <1>2 DEF OpenIn
    <2>3. ASSUME NEW q \in Promoters, NEW i \in held'[q] PROVE OpenIn(i, psess[q])'
      <3>1. OpenIn(i, psess[q]) /\ psess'[q] = psess[q]
        BY <1>2, <1>3, <1>4, <2>1, <2>3 DEF HeldAreOpen
      <3>. QED BY <2>2, <3>1
    <2>. QED BY <2>3 DEF HeldAreOpen
  <1>9. HeldOnce'
    <2>1. ASSUME NEW q \in Promoters, NEW r \in Promoters, q # r, NEW i \in held'[q] PROVE i \notin held'[r]
      <3>1. CASE q # p /\ r # p
        BY <1>3, <1>4, <2>1, <3>1 DEF HeldOnce
      <3>2. CASE q = p
        BY <1>2, <1>4, <2>1, <3>2
      <3>3. CASE r = p
        BY <1>2, <1>4, <2>1, <3>3
      <3>. QED BY <3>1, <3>2, <3>3
    <2>. QED BY <2>1 DEF HeldOnce
  <1>10. MovesFit' /\ MovesApart'
    BY <1>2, <1>3, SameMoves
  <1>12. /\ \A q \in Promoters : q # p => pc'[q] = pc[q] /\ moved'[q] = moved[q] /\ promoted'[q] = promoted[q]
         /\ pc[p] # "done" /\ pc'[p] # "done" /\ promoted'[p] = Cardinality(moved'[p])
    BY <1>2, <1>3, <1>4, <1>5 DEF Reports
  <1>. QED BY <1>2, <1>7, <1>8, <1>9, <1>10, <1>12, CallKeepsPromote

\* A row is looked at: it is skipped, or it is the next to be moved.
LEMMA CollisionKeepsPromote ==
    ASSUME PromoteInv, NEW p \in Promoters, NEW id \in todo[p], Promote!CollisionCheck(p, id)
    PROVE  PromoteInv'
  <1>1. /\ sRows' = sRows /\ nextId' = nextId /\ psess' = psess /\ held' = held
        /\ moved' = moved /\ promoted' = promoted
        /\ pc[p] = "check" /\ todo' = [todo EXCEPT ![p] = todo[p] \ {id}]
        /\ \/ pc' = pc /\ cur' = cur
           \/ pc' = [pc EXCEPT ![p] = "update"] /\ cur' = [cur EXCEPT ![p] = id]
    BY DEF Promote!CollisionCheck
  <1>2. CallsHold /\ HeldAreOpen /\ HeldOnce /\ MovesFit /\ MovesApart /\ Reports
    BY DEF PromoteInv
  <1>3. /\ todo' = [q \in Promoters |-> todo'[q]] /\ todo'[p] = todo[p] \ {id} /\ \A q \in Promoters : q # p => todo'[q] = todo[q]
        /\ pc' = [q \in Promoters |-> pc'[q]] /\ \A q \in Promoters : q # p => pc'[q] = pc[q]
        /\ cur' = [q \in Promoters |-> cur'[q]] /\ \A q \in Promoters : q # p => cur'[q] = cur[q]
        /\ pc'[p] = "check" \/ (pc'[p] = "update" /\ cur'[p] = id)
    BY <1>1, <1>2 DEF CallsHold
  <1>4. "check" # "update" /\ "check" # "idle" /\ "check" # "done" /\ "update" # "done" /\ "update" # "idle"
    BY SMTT(40)
  <1>5. /\ psess[p] \in SessionIds /\ id \in held[p] /\ id \notin moved[p]
        /\ \A i \in moved[p] : i \in held[p] /\ i \notin todo[p]
        /\ \A i \in todo[p] : i \in held[p]
    BY <1>1, <1>2, <1>4 DEF CallsHold
  <1>6. CallsHold'
    <2>1. ASSUME NEW q \in Promoters
          PROVE  /\ \A i \in moved[q] : i \in held[q] /\ i \notin todo'[q]
                 /\ \A i \in todo'[q] : i \in held[q]
                 /\ pc'[q] = "update" => cur'[q] \in held[q] /\ cur'[q] \notin moved[q] /\ cur'[q] \notin todo'[q]
                 /\ pc'[q] \notin {"check", "update"} => held[q] = {}
                 /\ pc'[q] # "idle" => psess[q] \in SessionIds
      <3>1. CASE q = p
        BY <1>3, <1>4, <1>5, <3>1
      <3>2. CASE q # p
        BY <1>2, <1>3, <3>2 DEF CallsHold
      <3>. QED BY <3>1, <3>2
    <2>. QED BY <1>1, <1>2, <1>3, <2>1 DEF CallsHold
  <1>7. HeldAreOpen' /\ HeldOnce'
    BY <1>1, <1>2, SameHeld, FewerHeld
  <1>8. MovesFit' /\ MovesApart'
    BY <1>1, <1>2, SameMoves
  <1>9. /\ \A q \in Promoters : q # p => pc'[q] = pc[q] /\ moved'[q] = moved[q] /\ promoted'[q] = promoted[q]
        /\ pc[p] # "done" /\ pc'[p] # "done" /\ promoted'[p] = Cardinality(moved'[p])
    BY <1>1, <1>2, <1>3, <1>4 DEF Reports
  <1>. QED BY <1>1, <1>6, <1>7, <1>8, <1>9, CallKeepsPromote

\* A transaction that is rolled back.
LEMMA AbortKeepsPromote ==
    ASSUME PromoteInv, NEW p \in Promoters, NEW outcome \in {"collided", "deadlock", "failed"},
           Promote!Abort(p, outcome), pc[p] \in {"select", "check", "update"}
    PROVE  PromoteInv'
  <1>1. /\ sRows' = sRows /\ nextId' = nextId /\ psess' = psess
        /\ pc' = [pc EXCEPT ![p] = outcome] /\ held' = [held EXCEPT ![p] = {}] /\ todo' = [todo EXCEPT ![p] = {}]
        /\ moved' = [moved EXCEPT ![p] = {}] /\ cur' = [cur EXCEPT ![p] = 0] /\ promoted' = [promoted EXCEPT ![p] = 0]
    BY DEF Promote!Abort
  <1>2. CallsHold /\ HeldAreOpen /\ HeldOnce /\ MovesFit /\ MovesApart /\ Reports
    BY DEF PromoteInv
  <1>3. /\ pc' = [q \in Promoters |-> pc'[q]] /\ pc'[p] = outcome /\ \A q \in Promoters : q # p => pc'[q] = pc[q]
        /\ held' = [q \in Promoters |-> held'[q]] /\ held'[p] = {} /\ \A q \in Promoters : q # p => held'[q] = held[q]
        /\ todo' = [q \in Promoters |-> todo'[q]] /\ todo'[p] = {} /\ \A q \in Promoters : q # p => todo'[q] = todo[q]
    BY <1>1, <1>2 DEF CallsHold
  <1>4. /\ moved' = [q \in Promoters |-> moved'[q]] /\ moved'[p] = {} /\ \A q \in Promoters : q # p => moved'[q] = moved[q]
        /\ cur' = [q \in Promoters |-> cur'[q]] /\ \A q \in Promoters : q # p => cur'[q] = cur[q]
        /\ promoted' = [q \in Promoters |-> promoted'[q]] /\ promoted'[p] = 0 /\ \A q \in Promoters : q # p => promoted'[q] = promoted[q]
    BY <1>1, <1>2 DEF CallsHold
  <1>5. outcome # "update" /\ outcome # "done" /\ pc[p] # "done" /\ pc[p] # "idle"
    BY SMTT(40)
  <1>6. CallsHold'
    <2>1. ASSUME NEW q \in Promoters
          PROVE  /\ \A i \in moved'[q] : i \in held'[q] /\ i \notin todo'[q]
                 /\ \A i \in todo'[q] : i \in held'[q]
                 /\ pc'[q] = "update" => cur'[q] \in held'[q] /\ cur'[q] \notin moved'[q] /\ cur'[q] \notin todo'[q]
                 /\ pc'[q] \notin {"check", "update"} => held'[q] = {}
                 /\ pc'[q] # "idle" => psess[q] \in SessionIds
                 /\ IsFiniteSet(moved'[q])
      <3>1. CASE q = p
        <4>1. IsFiniteSet({}) /\ psess[p] \in SessionIds
          BY <1>2, <1>5, FS_EmptySet DEF CallsHold
        <4>. QED BY <1>3, <1>4, <1>5, <3>1, <4>1
      <3>2. CASE q # p
        BY <1>2, <1>3, <1>4, <3>2 DEF CallsHold
      <3>. QED BY <3>1, <3>2
    <2>2. /\ pc' = [q \in Promoters |-> pc'[q]] /\ psess' = [q \in Promoters |-> psess'[q]]
          /\ held' = [q \in Promoters |-> held'[q]] /\ todo' = [q \in Promoters |-> todo'[q]]
          /\ cur' = [q \in Promoters |-> cur'[q]] /\ moved' = [q \in Promoters |-> moved'[q]]
          /\ promoted' = [q \in Promoters |-> promoted'[q]]
      BY <1>1, <1>2, <1>3, <1>4 DEF CallsHold
    <2>. QED BY <1>1, <2>1, <2>2 DEF CallsHold
  <1>7. \A q \in Promoters : \A i \in held'[q] : i \in held[q] /\ psess'[q] = psess[q]
    BY <1>1, <1>3
  <1>8. HeldAreOpen' /\ HeldOnce'
    BY <1>1, <1>2, <1>7, SameHeld, FewerHeld
  <1>9. \A q \in Promoters : moved'[q] = moved[q] \/ moved'[q] = {}
    BY <1>4
  <1>10. MovesFit' /\ MovesApart'
    BY <1>1, <1>2, <1>9, FewerMoves
  <1>11. /\ \A q \in Promoters : q # p => pc'[q] = pc[q] /\ moved'[q] = moved[q] /\ promoted'[q] = promoted[q]
         /\ pc[p] # "done" /\ pc'[p] # "done" /\ promoted'[p] = Cardinality(moved'[p])
    <2>1. Cardinality({}) = 0
      BY FS_EmptySet
    <2>. QED BY <1>3, <1>4, <1>5, <2>1
  <1>. QED BY <1>1, <1>6, <1>8, <1>10, <1>11, CallKeepsPromote

\* The row a call has locked is open, and a moved row is one of them.
LEMMA MovedIsOpen ==
    ASSUME RowsAreKeyed, CallsHold, HeldAreOpen, NEW p \in Promoters, NEW r \in sRows, r.id \in held[p] \/ r.id \in moved[p]
    PROVE  r.id \in held[p] /\ r.open /\ r.session = psess[p]
  <1>1. r.id \in held[p]
    BY DEF CallsHold
  <1>2. PICK q \in sRows : q.id = r.id /\ q.open /\ q.session = psess[p]
    BY <1>1, HeldRow
  <1>3. q = r
    BY <1>2 DEF RowsAreKeyed
  <1>. QED BY <1>1, <1>2, <1>3

\* What the unique index and the lock on its entries tell of the row c a call is
\* about to move.
LEMMA UpdateFits ==
    ASSUME PromoteInv, NEW p \in Promoters, Promote!Update(p), NEW c \in sRows, c.id = cur[p]
    PROVE  /\ \A q \in sRows : q.open /\ q.id # c.id =>
                 /\ q.id \in moved[p] => Target(q.path) # Target(c.path)
                 /\ q.id \notin moved[p] => q.path # Target(c.path)
           /\ \A q \in Promoters : q # p => \A b \in sRows : b.id \in moved[q] => Apart(c, b) /\ Apart(b, c)
  <1>1. RowsAreKeyed /\ CallsHold /\ HeldAreOpen /\ HeldOnce /\ MovesFit
    BY DEF PromoteInv
  <1>2. Promote!RowOf(cur[p]) = c
    BY <1>1, RowOfIs
  <1>3. pc[p] = "update" /\ ~Promote!Collides(p) /\ \A q \in Promoters : ~Promote!WaitsFor(p, q)
    BY DEF Promote!Update
  <1>4. ASSUME NEW q \in sRows, q.open, q.id # c.id
        PROVE  /\ q.id \in moved[p] => Target(q.path) # Target(c.path)
               /\ q.id \notin moved[p] => q.path # Target(c.path)
    <2>1. Promote!PathIn(p, q) # Target(c.path)
      BY <1>2, <1>3, <1>4 DEF Promote!Collides, Promote!Open, Target
    <2>. QED BY <2>1 DEF Promote!PathIn, Target
  <1>5. ASSUME NEW q \in Promoters, q # p, NEW b \in sRows, b.id \in moved[q]
        PROVE  Apart(c, b) /\ Apart(b, c)
    <2>1. Promote!RowOf(b.id) = b
      BY <1>1, RowOfIs
    <2>2. Target(c.path) # b.path /\ Target(c.path) # Target(b.path)
      <3>1. Target(c.path) \notin {b.path, Target(b.path)}
        BY <1>2, <1>3, <1>5, <2>1 DEF Promote!WaitsFor, Target
      <3>. QED BY <3>1
    <2>3. b.open /\ b.id \in held[q]
      BY <1>1, <1>5, MovedIsOpen
    <2>4. c.id \in held[p]
      BY <1>1, <1>3 DEF CallsHold
    <2>5. c.open
      BY <1>1, <2>4, MovedIsOpen
    <2>6. c.id \notin moved[q]
      BY <1>1, <1>5, <2>4 DEF HeldOnce, CallsHold
    <2>7. Target(b.path) # c.path
      BY <1>1, <1>5, <2>3, <2>5, <2>6 DEF MovesFit
    <2>. QED BY <2>2, <2>7 DEF Apart
  <1>. QED BY <1>4, <1>5

\* The UPDATE moves one more of the locked rows.
LEMMA UpdateKeepsPromote ==
    ASSUME PromoteInv, NEW p \in Promoters, Promote!Update(p)
    PROVE  PromoteInv'
  <1>1. /\ sRows' = sRows /\ nextId' = nextId /\ psess' = psess /\ held' = held /\ todo' = todo
        /\ pc[p] = "update" /\ pc' = [pc EXCEPT ![p] = "check"] /\ cur' = [cur EXCEPT ![p] = 0]
        /\ moved' = [moved EXCEPT ![p] = moved[p] \cup {cur[p]}] /\ promoted' = [promoted EXCEPT ![p] = promoted[p] + 1]
    BY DEF Promote!Update
  <1>2. RowsAreKeyed /\ CallsHold /\ HeldAreOpen /\ HeldOnce /\ MovesFit /\ MovesApart /\ Reports
    BY DEF PromoteInv
  <1>3. cur[p] \in held[p] /\ cur[p] \notin moved[p] /\ cur[p] \notin todo[p]
    BY <1>1, <1>2 DEF CallsHold
  <1>4. PICK c \in sRows : c.id = cur[p]
    BY <1>2, <1>3, HeldRow
  <1>5. /\ pc' = [q \in Promoters |-> pc'[q]] /\ pc'[p] = "check" /\ \A q \in Promoters : q # p => pc'[q] = pc[q]
        /\ cur' = [q \in Promoters |-> cur'[q]] /\ \A q \in Promoters : q # p => cur'[q] = cur[q]
    BY <1>1, <1>2 DEF CallsHold
  <1>6. /\ moved' = [q \in Promoters |-> moved'[q]] /\ moved'[p] = moved[p] \cup {cur[p]} /\ \A q \in Promoters : q # p => moved'[q] = moved[q]
        /\ promoted' = [q \in Promoters |-> promoted'[q]] /\ promoted'[p] = promoted[p] + 1
        /\ \A q \in Promoters : q # p => promoted'[q] = promoted[q]
    BY <1>1, <1>2 DEF CallsHold
  <1>7. "update" # "check" /\ "update" # "done" /\ "check" # "done" /\ "update" # "idle"
    BY SMTT(40)
  <1>8. IsFiniteSet(moved[p]) /\ promoted[p] = Cardinality(moved[p])
    BY <1>1, <1>2, <1>7 DEF CallsHold, Reports
  <1>9. IsFiniteSet(moved'[p]) /\ promoted'[p] = Cardinality(moved'[p])
    <2>1. /\ IsFiniteSet(moved[p] \cup {cur[p]})
          /\ Cardinality(moved[p] \cup {cur[p]}) = Cardinality(moved[p]) + 1
      BY <1>3, <1>8, FS_AddElement
    <2>. QED BY <1>6, <1>8, <2>1
  <1>10. CallsHold'
    <2>1. ASSUME NEW q \in Promoters
          PROVE  /\ \A i \in moved'[q] : i \in held[q] /\ i \notin todo[q]
                 /\ pc'[q] = "update" => cur'[q] \in held[q] /\ cur'[q] \notin moved'[q] /\ cur'[q] \notin todo[q]
                 /\ pc'[q] \notin {"check", "update"} => held[q] = {}
                 /\ pc'[q] # "idle" => psess[q] \in SessionIds
                 /\ IsFiniteSet(moved'[q])
      <3>1. CASE q = p
        <4>1. psess[p] \in SessionIds /\ \A i \in moved[p] : i \in held[p] /\ i \notin todo[p]
          BY <1>1, <1>2, <1>7 DEF CallsHold
        <4>. QED BY <1>3, <1>5, <1>6, <1>7, <1>9, <3>1, <4>1
      <3>2. CASE q # p
        BY <1>2, <1>5, <1>6, <3>2 DEF CallsHold
      <3>. QED BY <3>1, <3>2
    <2>. QED BY <1>1, <1>2, <1>5, <1>6, <2>1 DEF CallsHold
  <1>11. HeldAreOpen' /\ HeldOnce'
    BY <1>1, <1>2, SameHeld, FewerHeld
  <1>12. /\ \A q \in sRows : q.open /\ q.id # c.id =>
               /\ q.id \in moved[p] => Target(q.path) # Target(c.path)
               /\ q.id \notin moved[p] => q.path # Target(c.path)
         /\ \A q \in Promoters : q # p => \A b \in sRows : b.id \in moved[q] => Apart(c, b) /\ Apart(b, c)
    BY <1>4, UpdateFits
  <1>13. \A r \in sRows : r.id = cur[p] => r = c
    BY <1>2, <1>4 DEF RowsAreKeyed
  <1>14. MovesFit'
    <2>1. ASSUME NEW u \in Promoters, NEW r \in sRows, NEW q \in sRows, r.open, q.open, r.id \in moved'[u]
          PROVE  /\ q.id \in moved'[u] /\ Target(r.path) = Target(q.path) => r = q
                 /\ q.id \notin moved'[u] => Target(r.path) # q.path
      <3>1. CASE u # p
        BY <1>2, <1>6, <2>1, <3>1 DEF MovesFit
      <3>2. CASE u = p /\ r.id \in moved[p]
        <4>1. q.id \notin moved'[u] => Target(r.path) # q.path
          BY <1>2, <1>6, <2>1, <3>2 DEF MovesFit
        <4>2. ASSUME q.id \in moved[p], Target(r.path) = Target(q.path) PROVE r = q
          BY <1>2, <2>1, <3>2, <4>2 DEF MovesFit
        <4>3. ASSUME q.id = cur[p], Target(r.path) = Target(q.path) PROVE r = q
          <5>1. q = c /\ r.id # c.id
            BY <1>3, <1>4, <1>13, <3>2, <4>3
          <5>. QED BY <1>12, <2>1, <3>2, <4>3, <5>1
        <4>. QED BY <1>6, <3>2, <4>1, <4>2, <4>3
      <3>3. CASE u = p /\ r.id = cur[p]
        <4>1. r = c
          BY <1>13, <3>3
        <4>2. CASE q.id = cur[p]
          <5>1. q = c
            BY <1>13, <4>2
          <5>. QED BY <1>6, <3>3, <4>1, <4>2, <5>1
        <4>3. CASE q.id # cur[p]
          <5>1. q.id # c.id /\ (q.id \in moved'[u] => q.id \in moved[p]) /\ (q.id \notin moved'[u] => q.id \notin moved[p])
            BY <1>4, <1>6, <3>3, <4>3
          <5>2. /\ q.id \in moved[p] => Target(q.path) # Target(c.path)
                /\ q.id \notin moved[p] => q.path # Target(c.path)
            BY <1>12, <2>1, <5>1
          <5>. QED BY <4>1, <5>1, <5>2
        <4>. QED BY <4>2, <4>3
      <3>4. u # p \/ (u = p /\ r.id \in moved[p]) \/ (u = p /\ r.id = cur[p])
        BY <1>6, <2>1
      <3>. QED BY <3>1, <3>2, <3>3, <3>4
    <2>. QED BY <1>1, <2>1 DEF MovesFit
  <1>15. MovesApart'
    <2>1. ASSUME NEW u \in Promoters, NEW v \in Promoters, u # v, NEW a \in sRows, NEW b \in sRows,
                 a.id \in moved'[u], b.id \in moved'[v]
          PROVE  Apart(a, b)
      <3>1. CASE a.id \in moved[u] /\ b.id \in moved[v]
        BY <1>2, <2>1, <3>1 DEF MovesApart
      <3>2. CASE u = p /\ a.id = cur[p]
        <4>1. a = c /\ b.id \in moved[v]
          BY <1>6, <1>13, <2>1, <3>2
        <4>. QED BY <1>12, <2>1, <3>2, <4>1
      <3>3. CASE v = p /\ b.id = cur[p]
        <4>1. b = c /\ a.id \in moved[u]
          BY <1>6, <1>13, <2>1, <3>3
        <4>. QED BY <1>12, <2>1, <3>3, <4>1
      <3>4. a.id \in moved[u] \/ (u = p /\ a.id = cur[p])
        BY <1>6, <2>1
      <3>5. b.id \in moved[v] \/ (v = p /\ b.id = cur[p])
        BY <1>6, <2>1
      <3>. QED BY <3>1, <3>2, <3>3, <3>4, <3>5
    <2>. QED BY <1>1, <2>1 DEF MovesApart
  <1>. QED BY <1>1, <1>5, <1>6, <1>7, <1>9, <1>10, <1>11, <1>14, <1>15, CallKeepsPromote

(***************************************************************************)
(* Store closes the current row of its path and adds one.                  *)
(***************************************************************************)
ClosedAt(r, path) == [r EXCEPT !.open = r.open /\ r.path # path]

\* What Store keeps of a row.
LEMMA ClosedParts ==
    ASSUME NEW r, DOMAIN r = RowFields, NEW path
    PROVE  /\ DOMAIN ClosedAt(r, path) = RowFields
           /\ ClosedAt(r, path).id = r.id /\ ClosedAt(r, path).path = r.path
           /\ ClosedAt(r, path).session = r.session /\ ClosedAt(r, path).by = r.by
           /\ ClosedAt(r, path).open <=> r.open /\ r.path # path
  <1>1. PICK b : b = (r.open /\ r.path # path)
    OBVIOUS
  <1>2. PICK s : s = [r EXCEPT !.open = b]
    OBVIOUS
  <1>3. /\ DOMAIN s = RowFields /\ s.id = r.id /\ s.path = r.path /\ s.session = r.session /\ s.by = r.by
        /\ s.open = b
    BY SMTT(40), <1>2 DEF RowFields
  <1>4. s.open <=> r.open /\ r.path # path
    BY <1>1, <1>3
  <1>5. s = ClosedAt(r, path)
    BY <1>1, <1>2 DEF ClosedAt
  <1>. QED BY <1>3, <1>4, <1>5

\* The rows after a Store: those there were, closed where the path is theirs, and
\* the new one, which has an id of its own and was promoted by nobody.
StoredRows(path, e) ==
    /\ e \in sRows' /\ DOMAIN e = RowFields /\ e.id = nextId /\ e.path = path /\ e.by = NoSession
    /\ \A r \in sRows : ClosedAt(r, path) \in sRows'
    /\ \A s \in sRows' : s = e \/ \E r \in sRows : s = ClosedAt(r, path)
    /\ nextId' = nextId + 1

\* The rows after a Store: those before, closed on its path, and the new one.
LEMMA StoreGives ==
    ASSUME NEW path, NEW session, Promote!Store(path, session)
    PROVE  \E e : StoredRows(path, e)
  <1>1. PICK e : e = Promote!NewRow(nextId, path, session)
    OBVIOUS
  <1>2. DOMAIN e = RowFields /\ e.id = nextId /\ e.path = path /\ e.by = NoSession
    <2>1. PICK b : b = TRUE
      OBVIOUS
    <2>2. e = [id |-> nextId, path |-> path, open |-> b, session |-> session, by |-> NoSession]
      BY <1>1, <2>1 DEF Promote!NewRow
    <2>. QED BY SMTT(40), <2>2 DEF RowFields
  <1>3. sRows' = {ClosedAt(r, path) : r \in sRows} \cup {e} /\ nextId' = nextId + 1
    BY <1>1 DEF Promote!Store, ClosedAt
  <1>. QED BY <1>2, <1>3 DEF StoredRows

\* No locked row is on the path.
LEMMA StoreWaits ==
    ASSUME PromoteInv, NEW path, ~Promote!PathHeld(path), NEW p \in Promoters, NEW r \in sRows, r.id \in held[p]
    PROVE  r.path # path /\ (r.id \in moved[p] => Target(r.path) # path)
  <1>1. Promote!RowOf(r.id) = r
    BY RowOfIs DEF PromoteInv
  <1>. QED BY <1>1 DEF Promote!PathHeld, Target

\* The row s was open on another path.
OpenCopy(s, path) ==
    \E r \in sRows : s = ClosedAt(r, path) /\ r.open /\ r.path # path /\ s.id = r.id /\ s.path = r.path

\* The row s was open, and no call has moved it to the path.
MovedCopy(s, path) ==
    \E r \in sRows : s = ClosedAt(r, path) /\ s.id = r.id /\ s.path = r.path /\ r.open /\ Target(r.path) # path

\* An open row after a Store is the new one or was open on another path.
LEMMA OpenAfterStore ==
    ASSUME PromoteInv, NEW path, NEW e, StoredRows(path, e), NEW s \in sRows', s.open
    PROVE  s = e \/ OpenCopy(s, path)
  <1>1. CASE s # e
    <2>1. PICK r \in sRows : s = ClosedAt(r, path)
      BY <1>1 DEF StoredRows
    <2>2. DOMAIN r = RowFields
      BY DEF PromoteInv, RowsAreKeyed
    <2>3. /\ ClosedAt(r, path).id = r.id /\ ClosedAt(r, path).path = r.path
          /\ ClosedAt(r, path).open <=> r.open /\ r.path # path
      BY <2>2, ClosedParts
    <2>4. s.id = r.id /\ s.path = r.path /\ r.open /\ r.path # path
      BY <2>1, <2>3
    <2>. QED BY <2>1, <2>4 DEF OpenCopy
  <1>. QED BY <1>1

\* The id of the new row is locked by nobody.
LEMMA NewIsFree ==
    ASSUME PromoteInv, NEW p \in Promoters
    PROVE  nextId \notin held[p] /\ nextId \notin moved[p]
  <1>1. RowsAreKeyed /\ CallsHold /\ HeldAreOpen
    BY DEF PromoteInv
  <1>2. ASSUME nextId \in held[p] PROVE FALSE
    <2>1. PICK r \in sRows : r.id = nextId
      BY <1>1, <1>2, HeldRow
    <2>2. r.id < nextId /\ nextId \in Nat
      BY <1>1 DEF RowsAreKeyed
    <2>. QED BY SMTT(40), <2>1, <2>2
  <1>. QED BY <1>1, <1>2 DEF CallsHold

\* Store, on a path no promotion holds.
LEMMA StoreKeepsPromote ==
    ASSUME PromoteInv, NEW path, NEW session, Promote!Store(path, session),
           pc' = pc, psess' = psess, held' = held, todo' = todo, cur' = cur, moved' = moved, promoted' = promoted
    PROVE  PromoteInv'
  <1>1. PICK e : StoredRows(path, e)
    BY StoreGives
  <1>2. RowsAreKeyed /\ CallsHold /\ HeldAreOpen /\ HeldOnce /\ OneOpen /\ MovesFit /\ MovesApart
        /\ PromotedIsLongTerm /\ Reports
    BY DEF PromoteInv
  <1>3. ~Promote!PathHeld(path)
    BY DEF Promote!Store
  <1>4. /\ e \in sRows' /\ DOMAIN e = RowFields /\ e.id = nextId /\ e.path = path /\ e.by = NoSession
        /\ \A r \in sRows : ClosedAt(r, path) \in sRows'
        /\ \A s \in sRows' : s = e \/ \E r \in sRows : s = ClosedAt(r, path)
        /\ nextId' = nextId + 1
    BY <1>1 DEF StoredRows
  <1>5. ASSUME NEW r \in sRows
        PROVE  /\ DOMAIN ClosedAt(r, path) = RowFields
               /\ ClosedAt(r, path).id = r.id /\ ClosedAt(r, path).path = r.path
               /\ ClosedAt(r, path).session = r.session /\ ClosedAt(r, path).by = r.by
               /\ ClosedAt(r, path).open <=> r.open /\ r.path # path
    <2>1. DOMAIN r = RowFields
      BY <1>2 DEF RowsAreKeyed
    <2>. QED BY <2>1, ClosedParts
  <1>6. RowsAreKeyed'
    <2>1. nextId \in Nat /\ nextId' \in Nat /\ nextId < nextId'
      <3>1. nextId \in Nat
        BY <1>2 DEF RowsAreKeyed
      <3>. QED BY SMTT(40), <1>4, <3>1
    <2>2. ASSUME NEW r \in sRows PROVE r.id \in Nat /\ r.id < nextId' /\ r.id # nextId
      <3>1. r.id \in Nat /\ r.id < nextId
        BY <1>2 DEF RowsAreKeyed
      <3>. QED BY SMTT(40), <2>1, <3>1
    <2>3. \A s \in sRows' : DOMAIN s = RowFields /\ s.id \in Nat /\ s.id < nextId'
      <3>1. ASSUME NEW s \in sRows' PROVE DOMAIN s = RowFields /\ s.id \in Nat /\ s.id < nextId'
        <4>1. CASE s = e
          BY <1>4, <2>1, <4>1
        <4>2. CASE s # e
          <5>1. PICK r \in sRows : s = ClosedAt(r, path)
            BY <1>4, <4>2
          <5>. QED BY <1>5, <2>2, <5>1
        <4>. QED BY <4>1, <4>2
      <3>. QED BY <3>1
    <2>4. ASSUME NEW s \in sRows', NEW t \in sRows', s.id = t.id PROVE s = t
      <3>1. CASE s = e \/ t = e
        <4>1. ASSUME NEW u \in sRows', u.id = nextId PROVE u = e
          <5>1. ASSUME u # e PROVE FALSE
            <6>1. PICK r \in sRows : u = ClosedAt(r, path)
              BY <1>4, <5>1
            <6>. QED BY <1>5, <2>2, <4>1, <6>1
          <5>. QED BY <5>1
        <4>. QED BY <1>4, <2>4, <3>1, <4>1
      <3>2. CASE s # e /\ t # e
        <4>1. PICK r \in sRows : s = ClosedAt(r, path)
          BY <1>4, <3>2
        <4>2. PICK q \in sRows : t = ClosedAt(q, path)
          BY <1>4, <3>2
        <4>3. r.id = q.id
          BY <1>5, <2>4, <4>1, <4>2
        <4>4. r = q
          BY <1>2, <4>3 DEF RowsAreKeyed
        <4>. QED BY <4>1, <4>2, <4>4
      <3>. QED BY <3>1, <3>2
    <2>. QED BY <2>1, <2>3, <2>4 DEF RowsAreKeyed
  <1>7. CallsHold'
    BY <1>2 DEF CallsHold
  <1>8. HeldAreOpen'
    <2>1. ASSUME NEW p \in Promoters, NEW i \in held[p]
          PROVE  \E s \in sRows' : s.id = i /\ s.open /\ s.session = psess[p]
      <3>1. PICK r \in sRows : r.id = i /\ r.open /\ r.session = psess[p]
        BY <1>2, <2>1, HeldRow
      <3>2. r.path # path
        BY <1>3, <2>1, <3>1, StoreWaits
      <3>3. PICK s \in sRows' : s = ClosedAt(r, path)
        BY <1>4
      <3>. QED BY <1>5, <3>1, <3>2, <3>3
    <2>. QED BY <2>1 DEF HeldAreOpen, OpenIn
  <1>9. HeldOnce'
    BY <1>2 DEF HeldOnce
  <1>10. OneOpen'
    <2>1. ASSUME NEW s \in sRows', NEW t \in sRows', s.open, t.open, s.path = t.path PROVE s = t
      <3>1. s = e \/ OpenCopy(s, path)
        BY <1>1, <2>1, OpenAfterStore
      <3>2. t = e \/ OpenCopy(t, path)
        BY <1>1, <2>1, OpenAfterStore
      <3>3. CASE s = e \/ t = e
        BY <1>4, <2>1, <3>1, <3>2, <3>3 DEF OpenCopy
      <3>4. CASE s # e /\ t # e
        <4>1. PICK r \in sRows : s = ClosedAt(r, path) /\ r.open /\ s.path = r.path
          BY <3>1, <3>4 DEF OpenCopy
        <4>2. PICK q \in sRows : t = ClosedAt(q, path) /\ q.open /\ t.path = q.path
          BY <3>2, <3>4 DEF OpenCopy
        <4>3. r = q
          BY <1>2, <2>1, <4>1, <4>2 DEF OneOpen
        <4>. QED BY <4>1, <4>2, <4>3
      <3>. QED BY <3>3, <3>4
    <2>. QED BY <2>1 DEF OneOpen
  <1>11. ASSUME NEW p \in Promoters, NEW s \in sRows', s.id \in moved[p]
         PROVE  MovedCopy(s, path)
    <2>1. s # e
      BY <1>4, <1>11, NewIsFree
    <2>2. PICK r \in sRows : s = ClosedAt(r, path)
      BY <1>4, <2>1
    <2>3. s.id = r.id /\ s.path = r.path
      BY <1>5, <2>2
    <2>4. r.id \in held[p] /\ r.open
      BY <1>2, <1>11, <2>3, MovedIsOpen
    <2>5. Target(r.path) # path
      BY <1>3, <1>11, <2>3, <2>4, StoreWaits
    <2>. QED BY <2>2, <2>3, <2>4, <2>5 DEF MovedCopy
  <1>12. MovesFit'
    <2>1. ASSUME NEW p \in Promoters, NEW s \in sRows', NEW t \in sRows', s.open, t.open, s.id \in moved[p]
          PROVE  /\ t.id \in moved[p] /\ Target(s.path) = Target(t.path) => s = t
                 /\ t.id \notin moved[p] => Target(s.path) # t.path
      <3>1. PICK r \in sRows : s = ClosedAt(r, path) /\ s.id = r.id /\ s.path = r.path /\ r.open /\ Target(r.path) # path
        <4>1. MovedCopy(s, path)
          BY <1>11, <2>1
        <4>. QED BY <4>1 DEF MovedCopy
      <3>2. ASSUME t.id \in moved[p], Target(s.path) = Target(t.path) PROVE s = t
        <4>1. PICK q \in sRows : t = ClosedAt(q, path) /\ t.id = q.id /\ t.path = q.path /\ q.open /\ Target(q.path) # path
          <5>1. MovedCopy(t, path)
            BY <1>11, <3>2
          <5>. QED BY <5>1 DEF MovedCopy
        <4>2. r = q
          BY <1>2, <2>1, <3>1, <3>2, <4>1 DEF MovesFit
        <4>. QED BY <3>1, <4>1, <4>2
      <3>3. ASSUME t.id \notin moved[p] PROVE Target(s.path) # t.path
        <4>1. CASE t = e
          BY <1>4, <3>1, <4>1
        <4>2. CASE t # e
          <5>1. PICK q \in sRows : /\ t = ClosedAt(q, path) /\ q.open /\ q.path # path
                                   /\ t.id = q.id /\ t.path = q.path
            <6>1. OpenCopy(t, path)
              BY <1>1, <2>1, <4>2, OpenAfterStore
            <6>. QED BY <6>1 DEF OpenCopy
          <5>. QED BY <1>2, <2>1, <3>1, <3>3, <5>1 DEF MovesFit
        <4>. QED BY <4>1, <4>2
      <3>. QED BY <3>2, <3>3
    <2>. QED BY <2>1 DEF MovesFit
  <1>13. MovesApart'
    <2>1. ASSUME NEW p \in Promoters, NEW q \in Promoters, p # q, NEW a \in sRows', NEW b \in sRows',
                 a.id \in moved[p], b.id \in moved[q]
          PROVE  Apart(a, b)
      <3>1. PICK r \in sRows : a.id = r.id /\ a.path = r.path
        <4>1. MovedCopy(a, path)
          BY <1>11, <2>1
        <4>. QED BY <4>1 DEF MovedCopy
      <3>2. PICK s \in sRows : b.id = s.id /\ b.path = s.path
        <4>1. MovedCopy(b, path)
          BY <1>11, <2>1
        <4>. QED BY <4>1 DEF MovedCopy
      <3>3. Apart(r, s)
        BY <1>2, <2>1, <3>1, <3>2 DEF MovesApart
      <3>. QED BY <3>1, <3>2, <3>3 DEF Apart
    <2>. QED BY <2>1 DEF MovesApart
  <1>14. PromotedIsLongTerm'
    <2>1. ASSUME NEW s \in sRows', s.by # NoSession PROVE s.session = NoSession
      <3>1. PICK r \in sRows : s = ClosedAt(r, path)
        BY <1>4, <2>1
      <3>. QED BY <1>2, <1>5, <2>1, <3>1 DEF PromotedIsLongTerm
    <2>. QED BY <2>1 DEF PromotedIsLongTerm
  <1>15. Reports'
    <2>1. ASSUME NEW p \in Promoters, \A r \in sRows : r.by # p PROVE \A s \in sRows' : s.by # p
      <3>1. p # NoSession
        BY PromoteAssumption DEF Promote!SessionsAssumption
      <3>2. ASSUME NEW s \in sRows' PROVE s.by # p
        <4>1. CASE s = e
          BY <1>4, <3>1, <4>1
        <4>2. CASE s # e
          <5>1. PICK r \in sRows : s = ClosedAt(r, path)
            BY <1>4, <4>2
          <5>. QED BY <1>5, <2>1, <5>1
        <4>. QED BY <4>1, <4>2
      <3>. QED BY <3>2
    <2>2. ASSUME NEW p \in Promoters PROVE Promote!PromotedBy(p)' = Promote!PromotedBy(p)
      <3>1. p # NoSession
        BY PromoteAssumption DEF Promote!SessionsAssumption
      <3>2. ASSUME NEW i \in Promote!PromotedBy(p) PROVE i \in Promote!PromotedBy(p)'
        <4>1. PICK r \in sRows : r.by = p /\ r.id = i
          BY <3>2 DEF Promote!PromotedBy
        <4>2. PICK s \in sRows' : s = ClosedAt(r, path)
          BY <1>4
        <4>3. s.by = p /\ s.id = i
          BY <1>5, <4>1, <4>2
        <4>. QED BY <4>3 DEF Promote!PromotedBy
      <3>3. ASSUME NEW i \in Promote!PromotedBy(p)' PROVE i \in Promote!PromotedBy(p)
        <4>1. PICK s \in sRows' : s.by = p /\ s.id = i
          BY <3>3 DEF Promote!PromotedBy
        <4>2. PICK r \in sRows : s = ClosedAt(r, path)
          BY <1>4, <3>1, <4>1
        <4>3. r.by = p /\ r.id = i
          BY <1>5, <4>1, <4>2
        <4>. QED BY <4>3 DEF Promote!PromotedBy
      <3>. QED BY <3>2, <3>3
    <2>. QED BY <1>2, <2>1, <2>2 DEF Reports
  <1>. QED BY <1>6, <1>7, <1>8, <1>9, <1>10, <1>12, <1>13, <1>14, <1>15 DEF PromoteInv

(***************************************************************************)
(* The commit of a promotion.                                              *)
(***************************************************************************)
MovedBy(r, p) == [r EXCEPT !.path = Target(r.path), !.session = NoSession, !.by = p]

\* What a move keeps of a row.
LEMMA MovedParts ==
    ASSUME NEW r, DOMAIN r = RowFields, NEW p
    PROVE  /\ DOMAIN MovedBy(r, p) = RowFields
           /\ MovedBy(r, p).id = r.id /\ MovedBy(r, p).open = r.open
           /\ MovedBy(r, p).path = Target(r.path)
           /\ MovedBy(r, p).session = NoSession /\ MovedBy(r, p).by = p
  <1>1. PICK t : t = Target(r.path)
    OBVIOUS
  <1>2. PICK s : s = [r EXCEPT !.path = t, !.session = NoSession, !.by = p]
    OBVIOUS
  <1>3. /\ DOMAIN s = RowFields /\ s.id = r.id /\ s.open = r.open /\ s.path = t
        /\ s.session = NoSession /\ s.by = p
    BY SMTT(40), <1>2 DEF RowFields
  <1>4. s = MovedBy(r, p)
    BY <1>1, <1>2 DEF MovedBy
  <1>. QED BY <1>1, <1>3, <1>4

\* The row s is r after the commit of p.
After(s, r, p) ==
    /\ s.id = r.id /\ (s.open <=> r.open) /\ DOMAIN s = RowFields
    /\ r.id \in moved[p] => s = MovedBy(r, p) /\ s.path = Target(r.path) /\ s.session = NoSession /\ s.by = p
    /\ r.id \notin moved[p] => s = r

\* The rows after a commit are those before, moved where the call has moved them.
LEMMA CommitGives ==
    ASSUME PromoteInv, NEW p \in Promoters, Promote!PromoteCommit(p)
    PROVE  /\ \A r \in sRows : \E s \in sRows' : After(s, r, p)
           /\ \A s \in sRows' : \E r \in sRows : After(s, r, p)
  <1>1. sRows' = {IF r.id \in moved[p] THEN MovedBy(r, p) ELSE r : r \in sRows}
    BY DEF Promote!PromoteCommit, MovedBy, Target
  <1>2. ASSUME NEW r \in sRows, NEW s, s = IF r.id \in moved[p] THEN MovedBy(r, p) ELSE r PROVE After(s, r, p)
    <2>1. DOMAIN r = RowFields
      BY DEF PromoteInv, RowsAreKeyed
    <2>2. CASE r.id \in moved[p]
      <3>1. s = MovedBy(r, p)
        BY <1>2, <2>2
      <3>2. /\ DOMAIN MovedBy(r, p) = RowFields
            /\ MovedBy(r, p).id = r.id /\ MovedBy(r, p).open = r.open
            /\ MovedBy(r, p).path = Target(r.path)
            /\ MovedBy(r, p).session = NoSession /\ MovedBy(r, p).by = p
        BY <2>1, MovedParts
      <3>. QED BY <2>2, <3>1, <3>2 DEF After
    <2>3. CASE r.id \notin moved[p]
      <3>1. s = r
        BY <1>2, <2>3
      <3>. QED BY <2>1, <2>3, <3>1 DEF After
    <2>. QED BY <2>2, <2>3
  <1>3. ASSUME NEW r \in sRows PROVE \E s \in sRows' : After(s, r, p)
    <2>1. PICK s : s = IF r.id \in moved[p] THEN MovedBy(r, p) ELSE r
      OBVIOUS
    <2>2. s \in sRows'
      BY <1>1, <2>1
    <2>. QED BY <1>2, <2>1, <2>2
  <1>4. ASSUME NEW s \in sRows' PROVE \E r \in sRows : After(s, r, p)
    <2>1. PICK r \in sRows : s = IF r.id \in moved[p] THEN MovedBy(r, p) ELSE r
      BY <1>1
    <2>. QED BY <1>2, <2>1
  <1>. QED BY <1>3, <1>4

\* The commit makes the view of the call the table.
LEMMA CommitKeepsPromote ==
    ASSUME PromoteInv, NEW p \in Promoters, Promote!PromoteCommit(p)
    PROVE  PromoteInv'
  <1>1. /\ nextId' = nextId /\ psess' = psess /\ todo' = todo /\ cur' = cur /\ promoted' = promoted
        /\ pc[p] = "check" /\ todo[p] = {} /\ pc' = [pc EXCEPT ![p] = "done"]
        /\ held' = [held EXCEPT ![p] = {}] /\ moved' = [moved EXCEPT ![p] = {}]
    BY DEF Promote!PromoteCommit
  <1>2. RowsAreKeyed /\ CallsHold /\ HeldAreOpen /\ HeldOnce /\ OneOpen /\ MovesFit /\ MovesApart
        /\ PromotedIsLongTerm /\ Reports
    BY DEF PromoteInv
  <1>3. /\ \A r \in sRows : \E s \in sRows' : After(s, r, p)
        /\ \A s \in sRows' : \E r \in sRows : After(s, r, p)
    BY CommitGives
  <1>4. /\ pc' = [q \in Promoters |-> pc'[q]] /\ pc'[p] = "done" /\ \A q \in Promoters : q # p => pc'[q] = pc[q]
        /\ held' = [q \in Promoters |-> held'[q]] /\ held'[p] = {} /\ \A q \in Promoters : q # p => held'[q] = held[q]
        /\ moved' = [q \in Promoters |-> moved'[q]] /\ moved'[p] = {} /\ \A q \in Promoters : q # p => moved'[q] = moved[q]
    BY <1>1, <1>2 DEF CallsHold
  <1>5. "check" # "done" /\ "done" # "update" /\ "check" # "idle"
    BY SMTT(40)
  <1>6. psess[p] \in SessionIds /\ psess[p] # NoSession
    <2>1. psess[p] \in SessionIds
      BY <1>1, <1>2, <1>5 DEF CallsHold
    <2>. QED BY <2>1, PromoteAssumption DEF Promote!SessionsAssumption
  <1>7. RowsAreKeyed'
    <2>1. ASSUME NEW s \in sRows' PROVE DOMAIN s = RowFields /\ s.id \in Nat /\ s.id < nextId
      <3>1. PICK r \in sRows : After(s, r, p)
        BY <1>3
      <3>. QED BY <1>2, <3>1 DEF RowsAreKeyed, After
    <2>2. ASSUME NEW s \in sRows', NEW t \in sRows', s.id = t.id PROVE s = t
      <3>1. PICK r \in sRows : After(s, r, p)
        BY <1>3
      <3>2. PICK q \in sRows : After(t, q, p)
        BY <1>3
      <3>3. r = q
        BY <1>2, <2>2, <3>1, <3>2 DEF RowsAreKeyed, After
      <3>. QED BY <3>1, <3>2, <3>3 DEF After
    <2>3. nextId' \in Nat
      BY <1>1, <1>2 DEF RowsAreKeyed
    <2>. QED BY <1>1, <2>1, <2>2, <2>3 DEF RowsAreKeyed
  <1>8. CallsHold'
    <2>1. ASSUME NEW q \in Promoters
          PROVE  /\ \A i \in moved'[q] : i \in held'[q] /\ i \notin todo[q]
                 /\ \A i \in todo[q] : i \in held'[q]
                 /\ pc'[q] = "update" => cur[q] \in held'[q] /\ cur[q] \notin moved'[q] /\ cur[q] \notin todo[q]
                 /\ pc'[q] \notin {"check", "update"} => held'[q] = {}
                 /\ pc'[q] # "idle" => psess[q] \in SessionIds
                 /\ IsFiniteSet(moved'[q])
      <3>1. CASE q = p
        <4>1. IsFiniteSet({})
          BY FS_EmptySet
        <4>. QED BY <1>1, <1>4, <1>5, <1>6, <3>1, <4>1
      <3>2. CASE q # p
        BY <1>2, <1>4, <3>2 DEF CallsHold
      <3>. QED BY <3>1, <3>2
    <2>. QED BY <1>1, <1>2, <1>4, <2>1 DEF CallsHold
  <1>9. ASSUME NEW q \in Promoters, q # p, NEW r \in sRows, r.id \in held[q] \/ r.id \in moved[q] PROVE r.id \notin moved[p]
    <2>1. r.id \in held[q]
      BY <1>2, <1>9 DEF CallsHold
    <2>2. r.id \notin held[p]
      BY <1>2, <1>9, <2>1 DEF HeldOnce
    <2>. QED BY <1>2, <2>2 DEF CallsHold
  <1>10. HeldAreOpen'
    <2>1. ASSUME NEW q \in Promoters, NEW i \in held'[q]
          PROVE  \E s \in sRows' : s.id = i /\ s.open /\ s.session = psess'[q]
      <3>1. q # p /\ i \in held[q] /\ psess'[q] = psess[q]
        BY <1>1, <1>4, <2>1
      <3>2. PICK r \in sRows : r.id = i /\ r.open /\ r.session = psess[q]
        BY <1>2, <3>1, HeldRow
      <3>3. PICK s \in sRows' : After(s, r, p)
        BY <1>3
      <3>4. r.id \notin moved[p]
        BY <1>9, <3>1, <3>2
      <3>5. s = r
        BY <3>3, <3>4 DEF After
      <3>. QED BY <3>1, <3>2, <3>5
    <2>. QED BY <2>1 DEF HeldAreOpen, OpenIn
  <1>11. HeldOnce'
    <2>1. \A q \in Promoters : \A i \in held'[q] : i \in held[q]
      BY <1>4
    <2>. QED BY <1>2, <2>1, FewerHeld
  <1>12. OneOpen'
    <2>1. ASSUME NEW s \in sRows', NEW t \in sRows', s.open, t.open, s.path = t.path PROVE s = t
      <3>1. PICK r \in sRows : After(s, r, p)
        BY <1>3
      <3>2. PICK q \in sRows : After(t, q, p)
        BY <1>3
      <3>3. r.open /\ q.open
        BY <2>1, <3>1, <3>2 DEF After
      <3>4. r = q
        <4>1. CASE r.id \in moved[p] /\ q.id \in moved[p]
          <5>1. Target(r.path) = Target(q.path)
            BY <2>1, <3>1, <3>2, <4>1 DEF After
          <5>. QED BY <1>2, <3>3, <4>1, <5>1 DEF MovesFit
        <4>2. CASE r.id \in moved[p] /\ q.id \notin moved[p]
          <5>1. Target(r.path) = q.path
            BY <2>1, <3>1, <3>2, <4>2 DEF After
          <5>. QED BY <1>2, <3>3, <4>2, <5>1 DEF MovesFit
        <4>3. CASE r.id \notin moved[p] /\ q.id \in moved[p]
          <5>1. Target(q.path) = r.path
            BY <2>1, <3>1, <3>2, <4>3 DEF After
          <5>. QED BY <1>2, <3>3, <4>3, <5>1 DEF MovesFit
        <4>4. CASE r.id \notin moved[p] /\ q.id \notin moved[p]
          <5>1. r.path = q.path
            BY <2>1, <3>1, <3>2, <4>4 DEF After
          <5>. QED BY <1>2, <3>3, <5>1 DEF OneOpen
        <4>. QED BY <4>1, <4>2, <4>3, <4>4
      <3>. QED BY <3>1, <3>2, <3>4 DEF After
    <2>. QED BY <2>1 DEF OneOpen
  <1>13. ASSUME NEW u \in Promoters, NEW s \in sRows', s.id \in moved'[u]
         PROVE  u # p /\ moved'[u] = moved[u] /\ s \in sRows /\ s.id \notin moved[p]
    <2>1. u # p /\ moved'[u] = moved[u]
      BY <1>4, <1>13
    <2>2. PICK r \in sRows : After(s, r, p)
      BY <1>3
    <2>3. s.id = r.id
      BY <2>2 DEF After
    <2>4. r.id \notin moved[p]
      BY <1>9, <1>13, <2>1, <2>3
    <2>. QED BY <2>1, <2>2, <2>3, <2>4 DEF After
  <1>14. MovesFit'
    <2>1. ASSUME NEW u \in Promoters, NEW s \in sRows', NEW t \in sRows', s.open, t.open, s.id \in moved'[u]
          PROVE  /\ t.id \in moved'[u] /\ Target(s.path) = Target(t.path) => s = t
                 /\ t.id \notin moved'[u] => Target(s.path) # t.path
      <3>1. u # p /\ moved'[u] = moved[u] /\ s \in sRows /\ s.id \notin moved[p]
        BY <1>13, <2>1
      <3>2. ASSUME t.id \in moved'[u], Target(s.path) = Target(t.path) PROVE s = t
        <4>1. t \in sRows
          BY <1>13, <3>2
        <4>. QED BY <1>2, <2>1, <3>1, <3>2, <4>1 DEF MovesFit
      <3>3. ASSUME t.id \notin moved'[u] PROVE Target(s.path) # t.path
        <4>1. PICK q \in sRows : After(t, q, p)
          BY <1>3
        <4>2. q.open /\ q.id \notin moved[u]
          BY <2>1, <3>1, <3>3, <4>1 DEF After
        <4>3. CASE q.id \in moved[p]
          <5>1. Apart(s, q)
            BY <1>2, <2>1, <3>1, <4>3 DEF MovesApart
          <5>2. t.path = Target(q.path)
            BY <4>1, <4>3 DEF After
          <5>. QED BY <5>1, <5>2 DEF Apart
        <4>4. CASE q.id \notin moved[p]
          <5>1. t = q
            BY <4>1, <4>4 DEF After
          <5>. QED BY <1>2, <2>1, <3>1, <4>2, <5>1 DEF MovesFit
        <4>. QED BY <4>3, <4>4
      <3>. QED BY <3>2, <3>3
    <2>. QED BY <2>1 DEF MovesFit
  <1>15. MovesApart'
    <2>1. ASSUME NEW u \in Promoters, NEW v \in Promoters, u # v, NEW a \in sRows', NEW b \in sRows',
                 a.id \in moved'[u], b.id \in moved'[v]
          PROVE  Apart(a, b)
      <3>1. a \in sRows /\ b \in sRows /\ moved'[u] = moved[u] /\ moved'[v] = moved[v]
        BY <1>13, <2>1
      <3>. QED BY <1>2, <2>1, <3>1 DEF MovesApart
    <2>. QED BY <2>1 DEF MovesApart
  <1>16. PromotedIsLongTerm'
    <2>1. ASSUME NEW s \in sRows', s.by # NoSession PROVE s.session = NoSession
      <3>1. PICK r \in sRows : After(s, r, p)
        BY <1>3
      <3>. QED BY <1>2, <2>1, <3>1 DEF PromotedIsLongTerm, After
    <2>. QED BY <2>1 DEF PromotedIsLongTerm
  <1>17. ASSUME NEW q \in Promoters, q # p, NEW r \in sRows, NEW s \in sRows', After(s, r, p)
         PROVE  s.by = q <=> r.by = q
    <2>1. CASE r.id \notin moved[p]
      BY <1>17, <2>1 DEF After
    <2>2. CASE r.id \in moved[p]
      <3>1. s.by = p
        BY <1>17, <2>2 DEF After
      <3>2. r.session = psess[p]
        BY <1>2, <2>2, MovedIsOpen
      <3>3. r.by = NoSession
        BY <1>2, <1>6, <3>2 DEF PromotedIsLongTerm
      <3>4. q # NoSession
        BY PromoteAssumption DEF Promote!SessionsAssumption
      <3>. QED BY <1>17, <3>1, <3>3, <3>4
    <2>. QED BY <2>1, <2>2
  <1>18. Promote!PromotedBy(p)' = moved[p]
    <2>1. ASSUME NEW i \in moved[p] PROVE i \in Promote!PromotedBy(p)'
      <3>1. i \in held[p]
        BY <1>2, <2>1 DEF CallsHold
      <3>2. PICK r \in sRows : r.id = i
        BY <1>2, <3>1, HeldRow
      <3>3. PICK s \in sRows' : After(s, r, p)
        BY <1>3
      <3>4. s.id = i /\ s.by = p
        BY <2>1, <3>2, <3>3 DEF After
      <3>. QED BY <3>4 DEF Promote!PromotedBy
    <2>2. ASSUME NEW i \in Promote!PromotedBy(p)' PROVE i \in moved[p]
      <3>1. PICK s \in sRows' : s.by = p /\ s.id = i
        BY <2>2 DEF Promote!PromotedBy
      <3>2. PICK r \in sRows : After(s, r, p)
        BY <1>3
      <3>3. r.by # p
        BY <1>1, <1>2, <1>5 DEF Reports
      <3>. QED BY <3>1, <3>2, <3>3 DEF After
    <2>. QED BY <2>1, <2>2
  <1>19. ASSUME NEW q \in Promoters, q # p PROVE Promote!PromotedBy(q)' = Promote!PromotedBy(q)
    <2>1. ASSUME NEW i \in Promote!PromotedBy(q) PROVE i \in Promote!PromotedBy(q)'
      <3>1. PICK r \in sRows : r.by = q /\ r.id = i
        BY <2>1 DEF Promote!PromotedBy
      <3>2. PICK s \in sRows' : After(s, r, p)
        BY <1>3
      <3>3. s.by = q /\ s.id = i
        BY <1>17, <1>19, <3>1, <3>2 DEF After
      <3>. QED BY <3>3 DEF Promote!PromotedBy
    <2>2. ASSUME NEW i \in Promote!PromotedBy(q)' PROVE i \in Promote!PromotedBy(q)
      <3>1. PICK s \in sRows' : s.by = q /\ s.id = i
        BY <2>2 DEF Promote!PromotedBy
      <3>2. PICK r \in sRows : After(s, r, p)
        BY <1>3
      <3>3. r.by = q /\ r.id = i
        BY <1>17, <1>19, <3>1, <3>2 DEF After
      <3>. QED BY <3>3 DEF Promote!PromotedBy
    <2>. QED BY <2>1, <2>2
  <1>20. Reports'
    <2>1. ASSUME NEW q \in Promoters
          PROVE  /\ pc'[q] # "done" => (\A s \in sRows' : s.by # q) /\ promoted[q] = Cardinality(moved'[q])
                 /\ pc'[q] = "done" => Cardinality(Promote!PromotedBy(q)') = promoted[q]
      <3>1. CASE q = p
        <4>1. promoted[p] = Cardinality(moved[p])
          BY <1>1, <1>2, <1>5 DEF Reports
        <4>. QED BY <1>4, <1>18, <3>1, <4>1
      <3>2. CASE q # p
        <4>1. ASSUME pc[q] # "done", NEW s \in sRows' PROVE s.by # q
          <5>1. PICK r \in sRows : After(s, r, p)
            BY <1>3
          <5>2. r.by # q
            BY <1>2, <4>1 DEF Reports
          <5>. QED BY <1>17, <3>2, <5>1, <5>2
        <4>2. pc[q] # "done" => promoted[q] = Cardinality(moved[q])
          BY <1>2 DEF Reports
        <4>3. pc[q] = "done" => Cardinality(Promote!PromotedBy(q)) = promoted[q]
          BY <1>2 DEF Reports
        <4>. QED BY <1>4, <1>19, <3>2, <4>1, <4>2, <4>3
      <3>. QED BY <3>1, <3>2
    <2>. QED BY <1>1, <2>1 DEF Reports
  <1>. QED BY <1>7, <1>8, <1>10, <1>11, <1>12, <1>14, <1>15, <1>16, <1>20 DEF PromoteInv

\* The rows stored before the model starts have ids of their own.
LEMMA StoredIds ==
    /\ Cardinality(Stored) \in Nat
    /\ \A m \in Stored : Promote!StoredId[m] \in 1..Cardinality(Stored)
    /\ \A m, n \in Stored : Promote!StoredId[m] = Promote!StoredId[n] => m = n
  <1>1. IsFiniteSet(Stored)
    <2>1. Promote!IsFiniteSet(Stored)
      BY PromoteAssumption DEF Promote!SessionsAssumption
    <2>. QED BY <2>1 DEF Promote!IsFiniteSet, IsFiniteSet
  <1>2. Cardinality(Stored) \in Nat /\ ExistsBijection(1..Cardinality(Stored), Stored)
    BY <1>1, FS_CardinalityType
  <1>3. PICK f \in [1..Cardinality(Stored) -> Stored] : \A m \in Stored : \E i \in 1..Cardinality(Stored) : f[i] = m
    BY <1>2 DEF ExistsBijection, Bijection, Surjection
  <1>4. PICK g : g = [m \in Stored |-> CHOOSE i \in 1..Cardinality(Stored) : f[i] = m]
    OBVIOUS
  <1>5. \A m \in Stored : g[m] \in 1..Cardinality(Stored) /\ f[g[m]] = m
    BY <1>3, <1>4
  <1>6. g \in [Stored -> 1..Cardinality(Stored)]
    BY <1>4, <1>5
  <1>7. \A m, n \in Stored : g[m] = g[n] => m = n
    BY <1>5
  <1>8. \E h \in [Stored -> 1..Promote!Cardinality(Stored)] : \A m, n \in Stored : h[m] = h[n] => m = n
    BY <1>6, <1>7, SameCardinality
  <1>9. /\ Promote!StoredId \in [Stored -> 1..Promote!Cardinality(Stored)]
        /\ \A m, n \in Stored : Promote!StoredId[m] = Promote!StoredId[n] => m = n
    BY <1>8 DEF Promote!StoredId
  <1>10. Promote!StoredId \in [Stored -> 1..Cardinality(Stored)]
    BY <1>9, SameCardinality
  <1>. QED BY <1>2, <1>9, <1>10

\* What the rows stored before the model starts are.
FirstRow(r, m) ==
    /\ DOMAIN r = RowFields /\ r.id = Promote!StoredId[m] /\ r.path = m[2]
    /\ r.session = m[1] /\ r.by = NoSession

\* They are new rows.
LEMMA FirstRowParts ==
    ASSUME NEW m, NEW r, r = Promote!NewRow(Promote!StoredId[m], m[2], m[1])
    PROVE  FirstRow(r, m)
  BY SMTT(40) DEF Promote!NewRow, RowFields, FirstRow

\* Promotions start from rows with a path of their own, and hold none of them.
LEMMA InitPromote ==
    ASSUME Promote!Init
    PROVE  PromoteInv
  <1>1. /\ sRows = {Promote!NewRow(Promote!StoredId[m], m[2], m[1]) : m \in Stored}
        /\ nextId = Promote!Cardinality(Stored) + 1
        /\ pc = [p \in Promoters |-> "idle"] /\ psess = [p \in Promoters |-> NoSession]
        /\ held = [p \in Promoters |-> {}] /\ todo = [p \in Promoters |-> {}] /\ moved = [p \in Promoters |-> {}]
        /\ cur = [p \in Promoters |-> 0] /\ promoted = [p \in Promoters |-> 0]
    BY DEF Promote!Init
  <1>2. nextId = Cardinality(Stored) + 1
    BY <1>1, SameCardinality
  <1>3. ASSUME NEW r \in sRows PROVE \E m \in Stored : FirstRow(r, m)
    <2>1. PICK m \in Stored : r = Promote!NewRow(Promote!StoredId[m], m[2], m[1])
      BY <1>1
    <2>. QED BY <2>1, FirstRowParts
  <1>4. RowsAreKeyed
    <2>1. nextId \in Nat
      BY SMTT(40), <1>2, StoredIds
    <2>2. ASSUME NEW r \in sRows PROVE DOMAIN r = RowFields /\ r.id \in Nat /\ r.id < nextId
      <3>1. PICK m \in Stored : FirstRow(r, m)
        BY <1>3
      <3>2. DOMAIN r = RowFields /\ r.id \in 1..Cardinality(Stored)
        BY <3>1, StoredIds DEF FirstRow
      <3>3. Cardinality(Stored) \in Nat
        BY StoredIds
      <3>. QED BY SMTT(40), <1>2, <3>2, <3>3
    <2>3. ASSUME NEW r \in sRows, NEW q \in sRows, r.id = q.id PROVE r = q
      <3>1. PICK m \in Stored : r = Promote!NewRow(Promote!StoredId[m], m[2], m[1])
        BY <1>1
      <3>2. PICK n \in Stored : q = Promote!NewRow(Promote!StoredId[n], n[2], n[1])
        BY <1>1
      <3>3. FirstRow(r, m) /\ FirstRow(q, n)
        BY <3>1, <3>2, FirstRowParts
      <3>4. m = n
        BY <2>3, <3>3, StoredIds DEF FirstRow
      <3>. QED BY <3>1, <3>2, <3>4
    <2>. QED BY <2>1, <2>2, <2>3 DEF RowsAreKeyed
  <1>5. \A p \in Promoters : pc[p] = "idle" /\ held[p] = {} /\ todo[p] = {} /\ moved[p] = {} /\ promoted[p] = 0
    BY <1>1
  <1>6. "idle" # "update" /\ "idle" # "done" /\ IsFiniteSet({}) /\ Cardinality({}) = 0
    <2>1. IsFiniteSet({}) /\ Cardinality({}) = 0
      BY FS_EmptySet
    <2>2. "idle" # "update" /\ "idle" # "done"
      BY SMTT(40)
    <2>. QED BY <2>1, <2>2
  <1>7. CallsHold
    <2>1. /\ pc = [p \in Promoters |-> pc[p]] /\ psess = [p \in Promoters |-> psess[p]]
          /\ held = [p \in Promoters |-> held[p]] /\ todo = [p \in Promoters |-> todo[p]]
          /\ cur = [p \in Promoters |-> cur[p]] /\ moved = [p \in Promoters |-> moved[p]]
          /\ promoted = [p \in Promoters |-> promoted[p]]
      BY <1>1
    <2>2. ASSUME NEW p \in Promoters
          PROVE  /\ IsFiniteSet(moved[p])
                 /\ \A i \in moved[p] : i \in held[p] /\ i \notin todo[p]
                 /\ \A i \in todo[p] : i \in held[p]
                 /\ pc[p] = "update" => cur[p] \in held[p] /\ cur[p] \notin moved[p] /\ cur[p] \notin todo[p]
                 /\ pc[p] \notin {"check", "update"} => held[p] = {}
                 /\ pc[p] # "idle" => psess[p] \in SessionIds
      <3>1. pc[p] = "idle" /\ held[p] = {} /\ todo[p] = {} /\ moved[p] = {}
        BY <1>5
      <3>. QED BY <1>6, <3>1
    <2>. QED BY <2>1, <2>2 DEF CallsHold
  <1>8. HeldAreOpen /\ HeldOnce /\ MovesFit
    BY <1>5 DEF HeldAreOpen, HeldOnce, MovesFit
  <1>9. MovesApart
    BY <1>5 DEF MovesApart
  <1>10. OneOpen
    <2>1. ASSUME NEW r \in sRows, NEW q \in sRows, r.path = q.path PROVE r = q
      <3>1. PICK m \in Stored : FirstRow(r, m)
        BY <1>3
      <3>2. PICK n \in Stored : FirstRow(q, n)
        BY <1>3
      <3>3. m[2] = n[2]
        BY <2>1, <3>1, <3>2 DEF FirstRow
      <3>4. m = n
        BY <3>3, PromoteAssumption DEF Promote!SessionsAssumption
      <3>. QED BY <1>4, <3>1, <3>2, <3>4 DEF FirstRow, RowsAreKeyed
    <2>. QED BY <2>1 DEF OneOpen
  <1>11. \A r \in sRows : r.by = NoSession
    BY <1>3 DEF FirstRow
  <1>12. Reports
    <2>1. \A p \in Promoters : p # NoSession
      BY PromoteAssumption DEF Promote!SessionsAssumption
    <2>. QED BY <1>5, <1>6, <1>11, <2>1 DEF Reports
  <1>13. PromotedIsLongTerm
    BY <1>11 DEF PromotedIsLongTerm
  <1>. QED BY <1>4, <1>7, <1>8, <1>9, <1>10, <1>12, <1>13 DEF PromoteInv

\* PromotionIsExact, at every step, of any number of promotions and stores: what a
\* promotion has moved was locked, no path gets two current rows, and the report of a
\* promotion counts the rows it promoted.
THEOREM PromotionsAreExact == Promote!Spec => []PromotionIsExact
  <1>1. Promote!Init => PromoteInv
    BY InitPromote
  <1>2. ASSUME PromoteInv, Promote!Next PROVE PromoteInv'
    <2>1. CASE \E s \in SessionIds : Promote!Create(s) \/ Promote!End(s) \/ Promote!Replicate(s)
      <3>1. UNCHANGED <<sRows, nextId, pc, psess, held, todo, cur, moved, promoted>>
        BY <2>1 DEF Promote!Create, Promote!End, Promote!Replicate, Promote!promoteVars
      <3>. QED BY <1>2, <3>1, OthersKeepPromote
    <2>2. CASE \E path \in Promote!LongTermPaths : Promote!StoreLongTerm(path)
      <3>1. PICK path : Promote!StoreLongTerm(path)
        BY <2>2
      <3>2. Promote!Store(path, NoSession) /\ pc' = pc /\ psess' = psess /\ held' = held /\ todo' = todo
            /\ cur' = cur /\ moved' = moved /\ promoted' = promoted
        BY <3>1 DEF Promote!StoreLongTerm, Promote!promoteVars
      <3>. QED BY <1>2, <3>2, StoreKeepsPromote
    <2>3. CASE \E w \in Storers : Promote!StoreMemory(w)
      <3>1. PICK w \in Storers : Promote!StoreMemory(w)
        BY <2>3
      <3>2. Promote!Store(starget[w][2], starget[w][1]) /\ pc' = pc /\ psess' = psess /\ held' = held
            /\ todo' = todo /\ cur' = cur /\ moved' = moved /\ promoted' = promoted
        BY <3>1 DEF Promote!StoreMemory, Promote!promoteVars
      <3>. QED BY <1>2, <3>2, StoreKeepsPromote
    <2>4. CASE \E w \in Storers, s \in SessionIds : \E path \in Promote!WorkingPaths(s) : Promote!StoreMemoryCheck(w, s, path)
      <3>1. UNCHANGED <<sRows, nextId, pc, psess, held, todo, cur, moved, promoted>>
        BY <2>4 DEF Promote!StoreMemoryCheck, Promote!promoteVars
      <3>. QED BY <1>2, <3>1, OthersKeepPromote
    <2>5. CASE \E p \in Promoters, s \in SessionIds : Promote!PromoteCheck(p, s)
      BY <1>2, <2>5, CheckKeepsPromote
    <2>6. ASSUME NEW p \in Promoters, Promote!PromoteStep(p) PROVE PromoteInv'
      <3>1. CASE Promote!UpdateCollides(p)
        BY <1>2, <3>1, AbortKeepsPromote DEF Promote!UpdateCollides
      <3>2. CASE Promote!Deadlock(p)
        <4>1. pc[p] = "update" /\ Promote!Abort(p, "deadlock")
          BY <3>2 DEF Promote!Deadlock, Promote!WaitsFor
        <4>. QED BY <1>2, <4>1, AbortKeepsPromote
      <3>. QED BY <1>2, <2>6, <3>1, <3>2, SelectKeepsPromote, CollisionKeepsPromote, UpdateKeepsPromote,
                  CommitKeepsPromote DEF Promote!PromoteStep
    <2>7. ASSUME NEW p \in Promoters, Promote!PromoteFails(p) PROVE PromoteInv'
      BY <1>2, <2>7, AbortKeepsPromote DEF Promote!PromoteFails
    <2>. QED BY <1>2, <2>1, <2>2, <2>3, <2>4, <2>5, <2>6, <2>7 DEF Promote!Next
  <1>3. ASSUME PromoteInv, UNCHANGED Promote!vars PROVE PromoteInv'
    <2>1. UNCHANGED <<sRows, nextId, pc, psess, held, todo, cur, moved, promoted>>
      BY <1>3 DEF Promote!vars, Promote!promoteVars
    <2>. QED BY <1>3, <2>1, OthersKeepPromote
  <1>4. PromoteInv /\ [Promote!Next]_(Promote!vars) => PromoteInv'
    BY <1>2, <1>3
  <1>5. PromoteInv => PromotionIsExact
    BY InvImpliesExact
  <1>. QED BY <1>1, <1>4, <1>5, PTL DEF Promote!Spec

(***************************************************************************)
(* Replays.                                                                *)
(***************************************************************************)
USE SMTT(40)

RequestType == [key : Keys \cup {Free.key}, at : {"free", "handler", "put"}, body : Nat]

CacheType == [Keys -> [body : Nat, expires : Nat]]

CacheTypeOK ==
    /\ now \in Nat
    /\ stored \in Seq(Keys)
    /\ request \in [Clients -> RequestType]
    /\ cache \in CacheType

\* The body is the answer of an execution of that key in the log of executions.
BodyOf(log, body, k) == body \in DOMAIN log /\ log[body] = k

\* A request that waits for its cache write carries its own answer, and a row was
\* written for its key TTL before it expires.
CacheInv ==
    /\ CacheTypeOK
    /\ \A c \in Clients :
         /\ request[c].at # "free" => request[c].key \in Keys
         /\ request[c].at = "put" => BodyOf(stored, request[c].body, request[c].key)
    /\ \A k \in Keys : cache[k].body # 0 =>
         /\ BodyOf(stored, cache[k].body, k)
         /\ \E p \in puts : p.key = k /\ p.at \in Nat /\ p.at <= now /\ cache[k].expires = p.at + TTL
    /\ ReplaysAreGenuine

\* An execution appends one key and leaves the answers before it.
LEMMA ExecutionAppends ==
    ASSUME stored \in Seq(Keys), NEW k \in Keys, stored' = Append(stored, k)
    PROVE  /\ stored' \in Seq(Keys)
           /\ \A b, j : BodyOf(stored, b, j) => BodyOf(stored', b, j)
           /\ BodyOf(stored', Len(stored) + 1, k)
           /\ Len(stored) + 1 \in Nat
<1>1. /\ stored' \in Seq(Keys) /\ Len(stored') = Len(stored) + 1 /\ Len(stored) \in Nat
      /\ DOMAIN stored' = 1..(Len(stored) + 1) /\ DOMAIN stored = 1..Len(stored)
      /\ \A i \in 1..Len(stored) : stored'[i] = stored[i]
      /\ stored'[Len(stored) + 1] = k
      OBVIOUS
<1>2. ASSUME NEW b, NEW j, BodyOf(stored, b, j) PROVE BodyOf(stored', b, j)
      BY <1>1, <1>2 DEF BodyOf
<1>3. BodyOf(stored', Len(stored) + 1, k)
      BY <1>1 DEF BodyOf
<1> QED BY <1>1, <1>2, <1>3

\* The lookup answers from a live row, or lets the handler run.
LEMMA LookupGenuine ==
    ASSUME CacheInv, NEW c \in Clients, NEW k \in Keys, Lookup(c, k)
    PROVE  CacheInv'
<1>1. UNCHANGED <<now, cache, stored, puts>>
      BY DEF Lookup
<1>2. CASE Get(k) /\ Reply(c, k, cache[k].body, TRUE)
  <2>1. /\ request' = [request EXCEPT ![c] = Free]
        /\ replies' = replies \cup {[key |-> k, body |-> cache[k].body, replayed |-> TRUE, at |-> now]}
        BY <1>2, ZenonT(40) DEF Reply
  <2>2. Free \in RequestType /\ Free.at = "free"
        BY DEF Free, RequestType
  <2>3. /\ request' \in [Clients -> RequestType]
        /\ \A d \in Clients : request'[d] = request[d] \/ request'[d].at = "free"
        BY <2>1, <2>2 DEF CacheInv, CacheTypeOK
  <2>4. /\ BodyOf(stored, cache[k].body, k)
        /\ \E p \in puts : p.key = k /\ p.at <= now /\ now < p.at + TTL
        BY <1>2 DEF CacheInv, Get
  <2>5. ASSUME NEW r \in replies', r.replayed
        PROVE  /\ BodyOf(stored, r.body, r.key)
               /\ \E p \in puts : p.key = r.key /\ p.at <= r.at /\ r.at < p.at + TTL
    <3>1. CASE r \in replies
          BY <2>5, <3>1 DEF CacheInv, ReplaysAreGenuine, BodyOf
    <3>2. CASE r = [key |-> k, body |-> cache[k].body, replayed |-> TRUE, at |-> now]
      <4>1. r.key = k /\ r.body = cache[k].body /\ r.at = now
            BY <3>2, ZenonT(40)
      <4> QED BY <2>4, <4>1
    <3> QED BY <2>1, <3>1, <3>2
  <2>6. ReplaysAreGenuine'
        BY <1>1, <2>5 DEF ReplaysAreGenuine, BodyOf
  <2> QED BY <1>1, <2>3, <2>6 DEF CacheInv, CacheTypeOK, BodyOf
<1>3. CASE request' = [request EXCEPT ![c] = [key |-> k, at |-> "handler", body |-> 0]] /\ replies' = replies
  <2>1. [key |-> k, at |-> "handler", body |-> 0] \in RequestType
        BY DEF RequestType
  <2>2. /\ request' \in [Clients -> RequestType]
        /\ \A d \in Clients : request'[d] = request[d] \/ (request'[d].at = "handler" /\ request'[d].key \in Keys)
        BY <1>3, <2>1 DEF CacheInv, CacheTypeOK
  <2>3. ReplaysAreGenuine'
        BY <1>1, <1>3 DEF CacheInv, ReplaysAreGenuine
  <2> QED BY <1>1, <2>2, <2>3 DEF CacheInv, CacheTypeOK, BodyOf
<1> QED BY <1>2, <1>3, ZenonT(40) DEF Lookup

\* The handler commits a new execution, which the request then carries.
LEMMA HandlerGenuine ==
    ASSUME CacheInv, NEW c \in Clients, HandlerStores(c)
    PROVE  CacheInv'
<1>1. /\ UNCHANGED <<now, cache, puts, replies>>
      /\ request[c].at = "handler" /\ stored' = Append(stored, request[c].key)
      BY DEF HandlerStores
<1>2. request[c].key \in Keys
      BY <1>1 DEF CacheInv
<1>3. /\ stored' \in Seq(Keys)
      /\ \A b, j : BodyOf(stored, b, j) => BodyOf(stored', b, j)
      /\ BodyOf(stored', Len(stored) + 1, request[c].key)
      /\ Len(stored) + 1 \in Nat
      BY <1>1, <1>2, ExecutionAppends DEF CacheInv, CacheTypeOK
<1>4. PICK q \in RequestType : q = request[c]
      BY DEF CacheInv, CacheTypeOK
<1>5. PICK b \in Nat : b = Len(stored) + 1
      BY <1>3
<1>6. request' = [request EXCEPT ![c] = [q EXCEPT !.at = "put", !.body = b]]
      BY <1>4, <1>5 DEF HandlerStores
<1>7. [q EXCEPT !.at = "put", !.body = b] \in RequestType
      BY ZenonT(40) DEF RequestType
<1>8. /\ request' \in [Clients -> RequestType]
      /\ \A d \in Clients \ {c} : request'[d] = request[d]
      /\ request'[c].at = "put" /\ request'[c].key = request[c].key /\ request'[c].body = b
      BY <1>4, <1>6, <1>7 DEF RequestType, CacheInv, CacheTypeOK
<1>9. \A d \in Clients :
        /\ request'[d].at # "free" => request'[d].key \in Keys
        /\ request'[d].at = "put" => BodyOf(stored', request'[d].body, request'[d].key)
      BY <1>2, <1>3, <1>5, <1>8 DEF CacheInv
<1>10. \A k \in Keys : cache[k].body # 0 => BodyOf(stored', cache[k].body, k)
      BY <1>3 DEF CacheInv
<1>11. ReplaysAreGenuine'
  <2>1. \A r \in replies : r.replayed => BodyOf(stored', r.body, r.key)
        BY <1>3 DEF CacheInv, ReplaysAreGenuine, BodyOf
  <2> QED BY <1>1, <2>1 DEF CacheInv, ReplaysAreGenuine, BodyOf
<1>12. CacheTypeOK'
      BY <1>1, <1>3, <1>8 DEF CacheInv, CacheTypeOK
<1> QED BY <1>1, <1>9, <1>10, <1>11, <1>12 DEF CacheInv

\* A step after which the client is free, with an unreplayed answer or none, and the
\* cache is as it was.
LEMMA LeavingGenuine ==
    ASSUME CacheInv, NEW c \in Clients, request' = [request EXCEPT ![c] = Free],
           UNCHANGED <<now, cache, stored, puts>>,
           \A r \in replies' : r \in replies \/ ~r.replayed
    PROVE  CacheInv'
<1>1. Free \in RequestType /\ Free.at = "free"
      BY DEF Free, RequestType
<1>2. /\ request' \in [Clients -> RequestType]
      /\ \A d \in Clients : request'[d] = request[d] \/ request'[d].at = "free"
      BY <1>1 DEF CacheInv, CacheTypeOK
<1>3. ReplaysAreGenuine'
      BY DEF CacheInv, ReplaysAreGenuine
<1> QED BY <1>2, <1>3 DEF CacheInv, CacheTypeOK, BodyOf

\* The cache write stores the answer of its own key, for TTL from now.
LEMMA PutGenuine ==
    ASSUME IdempotencyAssumption, CacheInv, NEW c \in Clients, Put(c)
    PROVE  CacheInv'
<1>1. PICK k \in Keys, b \in Nat : k = request[c].key /\ b = request[c].body
  <2>1. request[c].at = "put"
        BY ZenonT(40) DEF Put
  <2> QED BY <2>1 DEF CacheInv, CacheTypeOK, RequestType
<1>2. /\ request[c].at = "put" /\ now' = now /\ stored' = stored
      /\ cache' = [cache EXCEPT ![k] = [body |-> b, expires |-> now + TTL]]
      /\ puts' = puts \cup {[key |-> k, at |-> now]}
      /\ request' = [request EXCEPT ![c] = Free]
      BY <1>1 DEF Put, Upsert, Reply
<1>3. replies' = replies \cup {[key |-> k, body |-> b, replayed |-> FALSE, at |-> now]}
      BY <1>1, ZenonT(40) DEF Put, Reply
<1>4. BodyOf(stored, b, k)
      BY <1>1, <1>2 DEF CacheInv
<1>5. now \in Nat /\ TTL \in Nat
      BY DEF CacheInv, CacheTypeOK, IdempotencyAssumption
<1>6. Free \in RequestType /\ Free.at = "free"
      BY DEF Free, RequestType
<1>7. /\ request' \in [Clients -> RequestType]
      /\ \A d \in Clients : request'[d] = request[d] \/ request'[d].at = "free"
      BY <1>2, <1>6 DEF CacheInv, CacheTypeOK
<1>8. cache' \in CacheType
      BY <1>2, <1>5 DEF CacheInv, CacheTypeOK, CacheType
<1>9. ASSUME NEW j \in Keys, cache'[j].body # 0
      PROVE  /\ BodyOf(stored, cache'[j].body, j)
             /\ \E p \in puts' : p.key = j /\ p.at \in Nat /\ p.at <= now /\ cache'[j].expires = p.at + TTL
  <2>1. CASE j = k
    <3>1. cache'[j].body = b /\ cache'[j].expires = now + TTL
          BY <1>2, <2>1 DEF CacheInv, CacheTypeOK, CacheType
    <3>2. [key |-> k, at |-> now] \in puts'
          BY <1>2
    <3> QED BY <1>4, <1>5, <2>1, <3>1, <3>2
  <2>2. CASE j # k
    <3>1. cache'[j] = cache[j]
          BY <1>2, <2>2 DEF CacheInv, CacheTypeOK, CacheType
    <3> QED BY <1>2, <1>9, <3>1 DEF CacheInv
  <2> QED BY <2>1, <2>2
<1>10. ReplaysAreGenuine'
  <2>1. \A r \in replies' : r \in replies \/ ~r.replayed
    <3>1. ~[key |-> k, body |-> b, replayed |-> FALSE, at |-> now].replayed
          BY ZenonT(40)
    <3> QED BY <1>3, <3>1, ZenonT(40)
  <2>2. \A r \in replies' : r.replayed => r \in replies
        BY <2>1
  <2>3. stored' = stored /\ puts \subseteq puts'
        BY <1>2
  <2> QED BY <2>2, <2>3 DEF CacheInv, ReplaysAreGenuine
<1> QED BY <1>2, <1>7, <1>8, <1>9, <1>10 DEF CacheInv, CacheTypeOK, BodyOf

\* The cleanup only removes rows, and time only makes them older.
LEMMA AgeingGenuine ==
    ASSUME CacheInv, DeleteExpired \/ Tick
    PROVE  CacheInv'
<1>1. UNCHANGED <<request, stored, puts, replies>>
      BY DEF DeleteExpired, Tick
<1>2. now \in Nat /\ now' \in Nat /\ now' >= now
      BY DEF DeleteExpired, Tick, CacheInv, CacheTypeOK
<1>3. NoRow \in [body : Nat, expires : Nat] /\ NoRow.body = 0
      BY DEF NoRow
<1>4. cache' \in CacheType /\ \A k \in Keys : cache'[k] = cache[k] \/ cache'[k] = NoRow
      BY <1>3 DEF DeleteExpired, Tick, CacheInv, CacheTypeOK, CacheType
<1>5. \A k \in Keys : cache'[k].body # 0 =>
        /\ BodyOf(stored, cache'[k].body, k)
        /\ \E p \in puts : p.key = k /\ p.at \in Nat /\ p.at <= now' /\ cache'[k].expires = p.at + TTL
      BY <1>2, <1>3, <1>4 DEF CacheInv
<1>6. ReplaysAreGenuine'
      BY <1>1 DEF CacheInv, ReplaysAreGenuine
<1> QED BY <1>1, <1>2, <1>4, <1>5, <1>6 DEF CacheInv, CacheTypeOK

\* However lookups, handlers, cache writes, failures and cleanups of any number of
\* clients interleave, a replayed body is that of an execution with the same key, cached
\* less than TTL before.
THEOREM ReplaysHold == IdempotencyAssumption => (Spec => []ReplaysAreGenuine)
<1> SUFFICES ASSUME IdempotencyAssumption PROVE Spec => []ReplaysAreGenuine
    OBVIOUS
<1>1. Init => CacheInv
  <2> SUFFICES ASSUME Init PROVE CacheInv
      OBVIOUS
  <2>1. /\ Free \in RequestType /\ Free.at = "free"
        /\ NoRow \in [body : Nat, expires : Nat] /\ NoRow.body = 0
        BY DEF Free, RequestType, NoRow
  <2>2. CacheTypeOK
        BY <2>1 DEF Init, CacheTypeOK, CacheType
  <2> QED BY <2>1, <2>2 DEF Init, CacheInv, ReplaysAreGenuine
<1>2. CacheInv /\ [Next]_vars => CacheInv'
  <2> SUFFICES ASSUME CacheInv, [Next]_vars PROVE CacheInv'
      OBVIOUS
  <2>1. ASSUME NEW c \in Clients, HandlerRefuses(c) \/ PutFails(c) \/ Abort(c) PROVE CacheInv'
    <3>1. request' = [request EXCEPT ![c] = Free] /\ UNCHANGED <<now, cache, stored, puts>>
          BY <2>1, ZenonT(40) DEF HandlerRefuses, PutFails, Abort, Reply
    <3>2. \A r \in replies' : r \in replies \/ ~r.replayed
      <4>1. \/ replies' = replies
            \/ \E k, b : replies' = replies \cup {[key |-> k, body |-> b, replayed |-> FALSE, at |-> now]}
            BY <2>1, ZenonT(40) DEF HandlerRefuses, PutFails, Abort, Reply
      <4>2. \A k, b : ~[key |-> k, body |-> b, replayed |-> FALSE, at |-> now].replayed
            BY ZenonT(40)
      <4> QED BY <4>1, <4>2, ZenonT(40)
    <3> QED BY <3>1, <3>2, LeavingGenuine, ZenonT(40)
  <2>2. CASE UNCHANGED vars
    <3>1. ReplaysAreGenuine'
          BY <2>2 DEF vars, CacheInv, ReplaysAreGenuine
    <3> QED BY <2>2, <3>1 DEF vars, CacheInv, CacheTypeOK, BodyOf
  <2> QED BY <2>1, <2>2, LookupGenuine, HandlerGenuine, PutGenuine, AgeingGenuine DEF Next
<1>3. CacheInv => ReplaysAreGenuine
      BY DEF CacheInv
<1> QED BY <1>1, <1>2, <1>3, PTL DEF Spec
=============================================================================

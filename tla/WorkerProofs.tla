---------------------------- MODULE WorkerProofs ----------------------------
(***************************************************************************)
(* Machine-checked proofs about the background work, for any events,       *)
(* endpoints, replicas, paths, limits and bounds: the outcome of a webhook *)
(* is real, a completed consolidation names its result, and what           *)
(* extraction leaves rests on its records.                                 *)
(***************************************************************************)
EXTENDS WorkerParts, TLAPS

USE ZenonT(60)

(***************************************************************************)
(* Webhooks.                                                               *)
(***************************************************************************)

\* Types, as far as the outcome rests on them; a runner that is not idle has a row.
HookTypes ==
    /\ notify \in [HookEvents -> SUBSET Endpoints]
    /\ status \in [Hooks!Deliveries -> {"none", "pending", "delivered", "dead_letter"}]
    /\ attempts \in [Hooks!Deliveries -> Nat]
    /\ failures \in [Hooks!Deliveries -> Nat]
    /\ batch \in [Trio -> Seq(Hooks!Deliveries \X Nat)]
    /\ hStage \in [Trio -> {"idle", "post", "ok", "failed"}]
    /\ \A r \in Trio : hStage[r] # "idle" => batch[r] # <<>>

\* A row that is still to be inserted does not exist, and is inserted once.
InsertedOnce ==
    \A e \in HookEvents, p \in Endpoints :
        /\ e \notin notified => notify[e] = {}
        /\ (e \notin notified \/ p \in notify[e])
             => status[<<e, p>>] = "none" /\ attempts[<<e, p>>] = 0

\* The counter of a pending row never runs ahead of the POSTs that failed.
CounterIsBehind == \A d \in Hooks!Deliveries : status[d] = "pending" => attempts[d] <= failures[d]

\* Neither do the counters the runners have read, of rows that exist.
EntryIsBehind(b) == status[b[1]] # "none" /\ b[2] <= failures[b[1]]
ReadIsBehind == \A r \in Trio : \A i \in DOMAIN batch[r] : EntryIsBehind(batch[r][i])

\* What a runner is about to record has happened.
FailureIsCounted ==
    \A r \in Trio : hStage[r] = "failed" => batch[r][1][2] + 1 <= failures[batch[r][1][1]]
AcceptedIsKnown == \A r \in Trio : hStage[r] = "ok" => batch[r][1][1] \in accepted

HookInv ==
    /\ HookTypes /\ InsertedOnce /\ CounterIsBehind /\ ReadIsBehind
    /\ FailureIsCounted /\ AcceptedIsKnown /\ OutcomeIsReal

\* The runners: what they have read and are about to record.
RunnersInv == ReadIsBehind /\ FailureIsCounted /\ AcceptedIsKnown

\* The head of a sequence that is not empty is its first element.
LEMMA HeadIsFirst ==
    ASSUME NEW S, NEW s \in Seq(S), s # <<>>
    PROVE  /\ 1 \in DOMAIN s /\ Head(s) = s[1] /\ s[1] \in S /\ Len(s) \in Nat \ {0}
           /\ Tail(s) \in Seq(S)
           /\ \A i \in DOMAIN Tail(s) : i + 1 \in DOMAIN s /\ Tail(s)[i] = s[i + 1]
           /\ Len(s) # 1 => Tail(s) # <<>>
  <1>1. Len(s) \in Nat /\ Len(s) # 0 /\ DOMAIN s = 1..Len(s)
    BY SMTT(40)
  <1>2. 1 \in DOMAIN s
    BY SMTT(40), <1>1
  <1>3. Head(s) = s[1] /\ s[1] \in S
    BY SMTT(40), <1>1, <1>2
  <1>4. Tail(s) \in Seq(S) /\ Len(Tail(s)) = Len(s) - 1
    BY SMTT(40), <1>1
  <1>5. DOMAIN Tail(s) = 1..Len(s) - 1
    BY SMTT(40), <1>4
  <1>6. \A i \in DOMAIN Tail(s) : i + 1 \in DOMAIN s /\ Tail(s)[i] = s[i + 1]
    BY SMTT(40), <1>1, <1>4, <1>5
  <1>7. Len(s) # 1 => Tail(s) # <<>>
    <2>1. PICK n \in Nat : n = Len(s)
      BY <1>1
    <2>2. Len(s) # 1 => n - 1 # 0
      BY SMTT(40), <2>1
    <2>3. Len(<<>>) = 0
      BY SMTT(40)
    <2>. QED BY <1>4, <2>1, <2>2, <2>3
  <1>. QED BY <1>1, <1>2, <1>3, <1>4, <1>6, <1>7

\* Initially nothing is recorded and no runner holds a row.
LEMMA InitHooks == Hooks!Init => HookInv
  <1>. SUFFICES ASSUME Hooks!Init PROVE HookInv
    OBVIOUS
  <1>1. HookTypes
    BY SMTT(40) DEF Hooks!Init, HookTypes
  <1>2. InsertedOnce
    BY SMTT(40) DEF Hooks!Init, InsertedOnce, Hooks!Deliveries
  <1>3. CounterIsBehind /\ OutcomeIsReal
    BY SMTT(40) DEF Hooks!Init, CounterIsBehind, OutcomeIsReal, Hooks!OutcomeIsReal
  <1>4. ReadIsBehind /\ FailureIsCounted /\ AcceptedIsKnown
    BY SMTT(40) DEF Hooks!Init, ReadIsBehind, FailureIsCounted, AcceptedIsKnown
  <1>. QED BY <1>1, <1>2, <1>3, <1>4 DEF HookInv

\* The batch entry a runner works on.
LEMMA EntryOf ==
    ASSUME HookTypes, NEW r \in Trio, hStage[r] # "idle"
    PROVE  \E d \in Hooks!Deliveries, n \in Nat :
               /\ Head(batch[r]) = <<d, n>> /\ batch[r][1] = <<d, n>>
               /\ Head(batch[r])[1] = d /\ Head(batch[r])[2] = n
               /\ batch[r][1][1] = d /\ batch[r][1][2] = n
               /\ 1 \in DOMAIN batch[r]
  <1>1. batch[r] \in Seq(Hooks!Deliveries \X Nat) /\ batch[r] # <<>>
    BY DEF HookTypes
  <1>2. 1 \in DOMAIN batch[r] /\ Head(batch[r]) = batch[r][1] /\ batch[r][1] \in Hooks!Deliveries \X Nat
    BY <1>1, HeadIsFirst
  <1>. QED BY SMTT(40), <1>2

\* Moving to the next row of the batch keeps what the runners hold.
LEMMA NextRowKeeps ==
    ASSUME HookTypes, RunnersInv, NEW r \in Trio, hStage[r] # "idle", Hooks!NextRow(r),
           failures' = failures, accepted' = accepted,
           \A d \in Hooks!Deliveries : status[d] # "none" => status'[d] # "none"
    PROVE  /\ batch' \in [Trio -> Seq(Hooks!Deliveries \X Nat)]
           /\ hStage' \in [Trio -> {"idle", "post", "ok", "failed"}]
           /\ \A q \in Trio : hStage'[q] # "idle" => batch'[q] # <<>>
           /\ RunnersInv'
  <1>1. PICK b : b = batch[r]
    OBVIOUS
  <1>2. /\ b \in Seq(Hooks!Deliveries \X Nat) /\ b # <<>>
        /\ batch' = [batch EXCEPT ![r] = Tail(b)]
        /\ hStage' = [hStage EXCEPT ![r] = IF Len(b) = 1 THEN "idle" ELSE "post"]
    BY <1>1 DEF HookTypes, Hooks!NextRow
  <1>3. /\ Tail(b) \in Seq(Hooks!Deliveries \X Nat)
        /\ \A i \in DOMAIN Tail(b) : i + 1 \in DOMAIN b /\ Tail(b)[i] = b[i + 1]
        /\ Len(b) # 1 => Tail(b) # <<>>
    BY <1>2, HeadIsFirst
  <1>4. batch' \in [Trio -> Seq(Hooks!Deliveries \X Nat)]
    BY <1>2, <1>3 DEF HookTypes
  <1>5. hStage' \in [Trio -> {"idle", "post", "ok", "failed"}]
    BY <1>2 DEF HookTypes
  <1>6. /\ batch'[r] = Tail(b) /\ hStage'[r] = IF Len(b) = 1 THEN "idle" ELSE "post"
        /\ \A q \in Trio : q # r => batch'[q] = batch[q] /\ hStage'[q] = hStage[q]
    BY <1>2 DEF HookTypes
  <1>7. \A q \in Trio : hStage'[q] # "idle" => batch'[q] # <<>>
    BY <1>3, <1>6 DEF HookTypes
  <1>8. \A q \in Trio : \A i \in DOMAIN batch'[q] : \E j \in DOMAIN batch[q] : batch'[q][i] = batch[q][j]
    <2>. SUFFICES ASSUME NEW q \in Trio, NEW i \in DOMAIN batch'[q]
                  PROVE  \E j \in DOMAIN batch[q] : batch'[q][i] = batch[q][j]
      OBVIOUS
    <2>1. CASE q = r
      BY <1>1, <1>3, <1>6, <2>1
    <2>2. CASE q # r
      BY <1>6, <2>2
    <2>. QED BY <2>1, <2>2
  <1>9. ReadIsBehind'
    <2>. SUFFICES ASSUME NEW q \in Trio, NEW i \in DOMAIN batch'[q]
                  PROVE  (EntryIsBehind(batch[q][i]))'
      BY DEF ReadIsBehind
    <2>1. PICK j \in DOMAIN batch[q] : batch'[q][i] = batch[q][j]
      BY <1>8
    <2>2. batch[q] \in Seq(Hooks!Deliveries \X Nat)
      BY DEF HookTypes
    <2>3. batch[q][j] \in Hooks!Deliveries \X Nat
      BY SMTT(40), <2>2
    <2>4. batch[q][j][1] \in Hooks!Deliveries
      BY SMTT(40), <2>3
    <2>5. EntryIsBehind(batch[q][j])
      BY DEF RunnersInv, ReadIsBehind
    <2>. QED BY <2>1, <2>4, <2>5 DEF EntryIsBehind
  <1>10. \A q \in Trio : hStage'[q] \in {"ok", "failed"} => q # r
    BY <1>6
  <1>11. FailureIsCounted' /\ AcceptedIsKnown'
    BY <1>6, <1>10 DEF RunnersInv, FailureIsCounted, AcceptedIsKnown
  <1>. QED BY <1>4, <1>5, <1>7, <1>9, <1>11 DEF RunnersInv

\* A step that leaves the runners and the history alone, and no row that exists goes.
LEMMA RunnersKeep ==
    ASSUME HookTypes, RunnersInv, UNCHANGED <<batch, hStage, accepted, failures>>,
           \A d \in Hooks!Deliveries : status[d] # "none" => status'[d] # "none"
    PROVE  RunnersInv'
  <1>1. batch' = batch /\ hStage' = hStage /\ accepted' = accepted /\ failures' = failures
    OBVIOUS
  <1>2. FailureIsCounted' /\ AcceptedIsKnown'
    BY <1>1 DEF RunnersInv, FailureIsCounted, AcceptedIsKnown
  <1>3. ASSUME NEW q \in Trio, NEW i \in DOMAIN batch[q]
        PROVE  (EntryIsBehind(batch[q][i]))'
    <2>1. batch[q] \in Seq(Hooks!Deliveries \X Nat)
      BY DEF HookTypes
    <2>2. batch[q][i] \in Hooks!Deliveries \X Nat
      BY SMTT(40), <2>1
    <2>3. batch[q][i][1] \in Hooks!Deliveries
      BY SMTT(40), <2>2
    <2>4. EntryIsBehind(batch[q][i])
      BY DEF RunnersInv, ReadIsBehind
    <2>. QED BY <1>1, <2>3, <2>4 DEF EntryIsBehind
  <1>4. ReadIsBehind'
    BY <1>1, <1>3 DEF ReadIsBehind
  <1>. QED BY <1>2, <1>4 DEF RunnersInv

\* A notification picks the endpoints of an event that has no rows yet.
LEMMA NotifyKeeps ==
    ASSUME HookInv, NEW e \in HookEvents, Hooks!NotifyMatching(e)
    PROVE  HookInv'
  <1>1. /\ e \notin notified /\ notified' = notified \cup {e}
        /\ notify' = [notify EXCEPT ![e] = Hooks!listEndpoints(e)]
        /\ status' = status /\ attempts' = attempts /\ batch' = batch /\ hStage' = hStage
        /\ accepted' = accepted /\ failures' = failures
    BY DEF Hooks!NotifyMatching, Hooks!table
  <1>2. Hooks!listEndpoints(e) \in SUBSET Endpoints
    BY DEF Hooks!listEndpoints
  <1>3. notify' \in [HookEvents -> SUBSET Endpoints]
    BY <1>1, <1>2 DEF HookInv, HookTypes
  <1>4. HookTypes'
    BY <1>1, <1>3 DEF HookInv, HookTypes
  <1>5. \A f \in HookEvents : f # e => notify'[f] = notify[f]
    BY <1>1 DEF HookInv, HookTypes
  <1>6. InsertedOnce'
    <2>. SUFFICES ASSUME NEW f \in HookEvents, NEW p \in Endpoints
                  PROVE  /\ f \notin notified' => notify'[f] = {}
                         /\ (f \notin notified' \/ p \in notify'[f])
                              => status'[<<f, p>>] = "none" /\ attempts'[<<f, p>>] = 0
      BY DEF InsertedOnce
    <2>1. /\ f \notin notified => notify[f] = {}
          /\ (f \notin notified \/ p \in notify[f])
               => status[<<f, p>>] = "none" /\ attempts[<<f, p>>] = 0
      BY DEF HookInv, InsertedOnce
    <2>2. CASE f = e
      BY <2>1, <2>2, <1>1
    <2>3. CASE f # e
      BY <2>1, <2>3, <1>1, <1>5
    <2>. QED BY <2>2, <2>3
  <1>7. CounterIsBehind' /\ OutcomeIsReal'
    BY <1>1 DEF HookInv, CounterIsBehind, OutcomeIsReal, Hooks!OutcomeIsReal
  <1>8. RunnersInv'
    BY <1>1, RunnersKeep DEF HookInv, RunnersInv
  <1>. QED BY <1>4, <1>6, <1>7, <1>8 DEF HookInv, RunnersInv

\* The pair of an event and an endpoint determines both.
LEMMA PairsDiffer ==
    ASSUME NEW e, NEW p, NEW f, NEW q
    PROVE  <<e, p>> = <<f, q>> <=> (e = f /\ p = q)
  BY SMTT(40)

\* A pair of members is a member of the product.
LEMMA PairIn ==
    ASSUME NEW S, NEW x \in S, NEW n \in Nat
    PROVE  <<x, n>> \in S \X Nat
  BY SMTT(40)

\* Enqueue inserts the row of one event and endpoint, once, or its INSERT fails.
LEMMA EnqueueKeeps ==
    ASSUME HookInv, NEW e \in HookEvents, NEW p \in Endpoints,
           Hooks!Enqueue(e, p) \/ Hooks!EnqueueFails(e, p)
    PROVE  HookInv'
  <1>1. PICK d \in Hooks!Deliveries : d = <<e, p>>
    BY DEF Hooks!Deliveries
  <1>2. /\ p \in notify[e] /\ notify' = [notify EXCEPT ![e] = notify[e] \ {p}]
        /\ status' = status \/ status' = [status EXCEPT ![d] = "pending"]
        /\ notified' = notified
        /\ attempts' = attempts /\ batch' = batch /\ hStage' = hStage
        /\ accepted' = accepted /\ failures' = failures
    BY <1>1 DEF Hooks!Enqueue, Hooks!EnqueueFails, Hooks!table
  <1>3. notify[e] \in SUBSET Endpoints
    BY DEF HookInv, HookTypes
  <1>4. notify[e] \ {p} \in SUBSET Endpoints
    BY <1>3
  <1>5. /\ notify' \in [HookEvents -> SUBSET Endpoints]
        /\ notify'[e] = notify[e] \ {p}
        /\ \A f \in HookEvents : f # e => notify'[f] = notify[f]
    BY <1>2, <1>4 DEF HookInv, HookTypes
  <1>6. status' \in [Hooks!Deliveries -> {"none", "pending", "delivered", "dead_letter"}]
    BY <1>2 DEF HookInv, HookTypes
  <1>7. HookTypes'
    BY <1>2, <1>5, <1>6 DEF HookInv, HookTypes
  <1>8. \A f \in Hooks!Deliveries : status'[f] = status[f] \/ (f = d /\ status'[f] = "pending")
    BY <1>2 DEF HookInv, HookTypes
  <1>9. attempts[d] = 0
    BY <1>1, <1>2 DEF HookInv, InsertedOnce
  <1>10. InsertedOnce'
    <2>. SUFFICES ASSUME NEW f \in HookEvents, NEW q \in Endpoints
                  PROVE  /\ f \notin notified' => notify'[f] = {}
                         /\ (f \notin notified' \/ q \in notify'[f])
                              => status'[<<f, q>>] = "none" /\ attempts'[<<f, q>>] = 0
      BY DEF InsertedOnce
    <2>1. /\ f \notin notified => notify[f] = {}
          /\ (f \notin notified \/ q \in notify[f])
               => status[<<f, q>>] = "none" /\ attempts[<<f, q>>] = 0
      BY DEF HookInv, InsertedOnce
    <2>2. e \in notified
      BY <1>2 DEF HookInv, InsertedOnce
    <2>3. <<f, q>> \in Hooks!Deliveries
      BY DEF Hooks!Deliveries
    <2>4. f \notin notified' => notify'[f] = {}
      BY <2>1, <2>2, <1>2, <1>5
    <2>5. ASSUME f \notin notified' \/ q \in notify'[f]
          PROVE  status'[<<f, q>>] = "none" /\ attempts'[<<f, q>>] = 0
      <3>1. f \notin notified \/ q \in notify[f]
        BY <2>5, <1>2, <1>5
      <3>2. f # e \/ q # p
        BY <2>2, <2>5, <1>2, <1>5
      <3>3. <<f, q>> # d
        BY <3>2, <1>1, PairsDiffer
      <3>. QED BY <3>1, <3>3, <2>1, <2>3, <1>2, <1>8
    <2>. QED BY <2>4, <2>5
  <1>11. 0 <= failures[d]
    <2>1. failures[d] \in Nat
      BY DEF HookInv, HookTypes
    <2>. QED BY SMTT(40), <2>1
  <1>12. CounterIsBehind'
    BY <1>2, <1>8, <1>9, <1>11 DEF HookInv, CounterIsBehind
  <1>13. "pending" # "delivered" /\ "pending" # "dead_letter" /\ "pending" # "none"
    BY SMTT(40)
  <1>14. OutcomeIsReal'
    BY <1>2, <1>8, <1>13 DEF HookInv, OutcomeIsReal, Hooks!OutcomeIsReal
  <1>15. RunnersInv'
    BY <1>2, <1>8, <1>13, RunnersKeep DEF HookInv, RunnersInv
  <1>. QED BY <1>7, <1>10, <1>12, <1>14, <1>15 DEF HookInv, RunnersInv

\* ProcessPending reads a batch of pending rows with the attempts they have.
LEMMA ProcessKeeps ==
    ASSUME HookInv, NEW r \in Trio, Hooks!ProcessPending(r)
    PROVE  HookInv'
  <1>1. /\ notified' = notified /\ notify' = notify
        /\ status' = status /\ attempts' = attempts
        /\ accepted' = accepted /\ failures' = failures
        /\ hStage' = [hStage EXCEPT ![r] = "post"]
    BY DEF Hooks!ProcessPending, Hooks!table
  <1>0. PICK S \in SUBSET {d \in Hooks!Deliveries : Hooks!Selectable(d)} : \E b \in Hooks!FirstRows(S) :
            batch' = [batch EXCEPT ![r] = [i \in DOMAIN b |-> <<b[i], attempts[b[i]]>>]]
    <2>1. PICK locked : \E b \in Hooks!FirstRows({d \in Hooks!Deliveries \ locked : Hooks!Selectable(d)}) :
              batch' = [batch EXCEPT ![r] = [i \in DOMAIN b |-> <<b[i], attempts[b[i]]>>]]
      BY DEF Hooks!ProcessPending
    <2>. QED BY <2>1
  <1>2. PICK b \in Hooks!FirstRows(S) :
            batch' = [batch EXCEPT ![r] = [i \in DOMAIN b |-> <<b[i], attempts[b[i]]>>]]
    BY <1>0
  <1>3. PICK n \in 1..Limit : b \in [1..n -> S]
    BY <1>2 DEF Hooks!FirstRows
  <1>4. n \in Nat \ {0}
    BY SMTT(40), <1>3, HooksAssumption DEF Hooks!WebhookAssumption
  <1>5. PICK f : f = [i \in DOMAIN b |-> <<b[i], attempts[b[i]]>>]
    OBVIOUS
  <1>6. DOMAIN f = 1..n /\ \A i \in 1..n : f[i] = <<b[i], attempts[b[i]]>> /\ b[i] \in S
    BY <1>3, <1>5
  <1>7. \A i \in 1..n : /\ b[i] \in Hooks!Deliveries /\ attempts[b[i]] \in Nat
                        /\ status[b[i]] = "pending"
    BY <1>6, <1>2 DEF HookInv, HookTypes, Hooks!Selectable
  <1>8. f = [i \in 1..n |-> f[i]]
    BY <1>5, <1>3, <1>6
  <1>a. ASSUME NEW i \in 1..n PROVE f[i] \in Hooks!Deliveries \X Nat
    <2>1. f[i] = <<b[i], attempts[b[i]]>> /\ b[i] \in Hooks!Deliveries /\ attempts[b[i]] \in Nat
      BY <1>6, <1>7
    <2>. QED BY <2>1, PairIn
  <1>9. f \in [1..n -> Hooks!Deliveries \X Nat]
    BY <1>8, <1>a
  <1>10. f \in Seq(Hooks!Deliveries \X Nat) /\ f # <<>>
    BY SMTT(40), <1>4, <1>9
  <1>11. \A i \in DOMAIN f : (EntryIsBehind(f[i]))'
    <2>. SUFFICES ASSUME NEW i \in 1..n PROVE EntryIsBehind(f[i])'
      BY <1>6
    <2>1. f[i][1] = b[i] /\ f[i][2] = attempts[b[i]]
      BY SMTT(40), <1>6
    <2>2. attempts[b[i]] <= failures[b[i]]
      BY <1>7 DEF HookInv, CounterIsBehind
    <2>3. "pending" # "none"
      BY SMTT(40)
    <2>. QED BY <2>1, <2>2, <2>3, <1>1, <1>7 DEF EntryIsBehind
  <1>12. /\ batch' \in [Trio -> Seq(Hooks!Deliveries \X Nat)]
         /\ batch'[r] = f
         /\ \A q \in Trio : q # r => batch'[q] = batch[q]
    BY <1>2, <1>5, <1>10 DEF HookInv, HookTypes
  <1>13. /\ hStage' \in [Trio -> {"idle", "post", "ok", "failed"}]
         /\ hStage'[r] = "post"
         /\ \A q \in Trio : q # r => hStage'[q] = hStage[q]
    BY <1>1 DEF HookInv, HookTypes
  <1>14. \A q \in Trio : hStage'[q] # "idle" => batch'[q] # <<>>
    BY <1>10, <1>12, <1>13 DEF HookInv, HookTypes
  <1>15. HookTypes'
    BY <1>1, <1>12, <1>13, <1>14 DEF HookInv, HookTypes
  <1>16. InsertedOnce' /\ CounterIsBehind' /\ OutcomeIsReal'
    BY <1>1 DEF HookInv, InsertedOnce, CounterIsBehind, OutcomeIsReal, Hooks!OutcomeIsReal
  <1>17. ReadIsBehind'
    <2>. SUFFICES ASSUME NEW q \in Trio, NEW i \in DOMAIN batch'[q]
                  PROVE  (EntryIsBehind(batch[q][i]))'
      BY DEF ReadIsBehind
    <2>1. CASE q = r
      BY <2>1, <1>11, <1>12
    <2>2. CASE q # r
      <3>1. i \in DOMAIN batch[q] /\ batch'[q][i] = batch[q][i]
        BY <2>2, <1>12
      <3>2. EntryIsBehind(batch[q][i])
        BY <3>1 DEF HookInv, ReadIsBehind
      <3>. QED BY <3>1, <3>2, <1>1 DEF EntryIsBehind
    <2>. QED BY <2>1, <2>2
  <1>18. "post" # "failed" /\ "post" # "ok"
    BY SMTT(40)
  <1>19. FailureIsCounted' /\ AcceptedIsKnown'
    BY <1>1, <1>12, <1>13, <1>18 DEF HookInv, FailureIsCounted, AcceptedIsKnown
  <1>. QED BY <1>15, <1>16, <1>17, <1>19 DEF HookInv

\* Recording an outcome: the row keeps existing, its counter is what was read plus one.
LEMMA RecordKeeps ==
    ASSUME HookInv, NEW r \in Trio, hStage[r] # "idle",
           NEW d \in Hooks!Deliveries, NEW n \in Nat,
           batch[r][1][1] = d, batch[r][1][2] = n, 1 \in DOMAIN batch[r],
           Hooks!NextRow(r), accepted' = accepted, failures' = failures,
           notified' = notified, notify' = notify,
           NEW s \in {"pending", "delivered", "dead_letter"},
           status[d] # "none" => status' = [status EXCEPT ![d] = s],
           attempts' = [attempts EXCEPT ![d] = n + 1],
           s = "pending" => n + 1 <= failures[d],
           s = "delivered" => d \in accepted,
           s = "dead_letter" => \E q \in Trio : failures[d] >= MaxAttempts[q]
    PROVE  HookInv'
  <1>1. status[d] # "none"
    BY DEF HookInv, ReadIsBehind, EntryIsBehind
  <1>2. s \in {"none", "pending", "delivered", "dead_letter"} /\ s # "none"
    BY SMTT(40)
  <1>3. /\ status' \in [Hooks!Deliveries -> {"none", "pending", "delivered", "dead_letter"}]
        /\ status'[d] = s
        /\ \A f \in Hooks!Deliveries : f # d => status'[f] = status[f]
    BY <1>1, <1>2 DEF HookInv, HookTypes
  <1>4. n + 1 \in Nat
    BY SMTT(40)
  <1>5. /\ attempts' \in [Hooks!Deliveries -> Nat]
        /\ attempts'[d] = n + 1
        /\ \A f \in Hooks!Deliveries : f # d => attempts'[f] = attempts[f]
    BY <1>4 DEF HookInv, HookTypes
  <1>6. \A f \in Hooks!Deliveries : status[f] # "none" => status'[f] # "none"
    BY <1>2, <1>3
  <1>7. /\ batch' \in [Trio -> Seq(Hooks!Deliveries \X Nat)]
        /\ hStage' \in [Trio -> {"idle", "post", "ok", "failed"}]
        /\ \A q \in Trio : hStage'[q] # "idle" => batch'[q] # <<>>
        /\ RunnersInv'
    BY <1>6, NextRowKeeps DEF HookInv, RunnersInv
  <1>8. HookTypes'
    BY <1>3, <1>5, <1>7 DEF HookInv, HookTypes
  <1>9. InsertedOnce'
    <2>. SUFFICES ASSUME NEW e \in HookEvents, NEW p \in Endpoints
                  PROVE  /\ e \notin notified' => notify'[e] = {}
                         /\ (e \notin notified' \/ p \in notify'[e])
                              => status'[<<e, p>>] = "none" /\ attempts'[<<e, p>>] = 0
      BY DEF InsertedOnce
    <2>1. /\ e \notin notified => notify[e] = {}
          /\ (e \notin notified \/ p \in notify[e])
               => status[<<e, p>>] = "none" /\ attempts[<<e, p>>] = 0
      BY DEF HookInv, InsertedOnce
    <2>2. <<e, p>> \in Hooks!Deliveries
      BY DEF Hooks!Deliveries
    <2>. QED BY <2>1, <2>2, <1>1, <1>3, <1>5
  <1>10. CounterIsBehind'
    BY <1>3, <1>5 DEF HookInv, CounterIsBehind
  <1>11. OutcomeIsReal'
    BY <1>3 DEF HookInv, OutcomeIsReal, Hooks!OutcomeIsReal
  <1>. QED BY <1>7, <1>8, <1>9, <1>10, <1>11 DEF HookInv, RunnersInv

\* The answer of an endpoint: accepted, or one more failed POST of the row.
LEMMA PostKeeps ==
    ASSUME HookInv, NEW r \in Trio, Hooks!PostOk(r) \/ Hooks!PostFails(r)
    PROVE  HookInv'
  <1>1. /\ hStage[r] = "post"
        /\ notified' = notified /\ notify' = notify /\ batch' = batch
        /\ status' = status /\ attempts' = attempts
    BY DEF Hooks!PostOk, Hooks!PostFails, Hooks!table
  <1>2. hStage[r] # "idle"
    BY SMTT(40), <1>1
  <1>3. PICK d \in Hooks!Deliveries, n \in Nat :
            Head(batch[r])[1] = d /\ batch[r][1][1] = d /\ batch[r][1][2] = n /\ 1 \in DOMAIN batch[r]
    BY <1>2, EntryOf DEF HookInv
  <1>4. n <= failures[d] /\ failures[d] \in Nat
    BY <1>3 DEF HookInv, HookTypes, ReadIsBehind, EntryIsBehind
  <1>5. failures[d] + 1 \in Nat /\ n + 1 <= failures[d] + 1 /\ failures[d] <= failures[d] + 1
    BY SMTT(40), <1>4
  <1>6. \/ /\ accepted' = accepted \cup {d} /\ failures' = failures
           /\ hStage' = [hStage EXCEPT ![r] = "ok"]
        \/ /\ accepted' = accepted /\ failures' = [failures EXCEPT ![d] = failures[d] + 1]
           /\ hStage' = [hStage EXCEPT ![r] = "failed"]
    BY <1>3 DEF Hooks!PostOk, Hooks!PostFails
  <1>7. /\ failures' \in [Hooks!Deliveries -> Nat]
        /\ \A f \in Hooks!Deliveries : failures'[f] = failures[f] \/ failures'[f] = failures[f] + 1
        /\ hStage' \in [Trio -> {"idle", "post", "ok", "failed"}]
        /\ \A q \in Trio : q # r => hStage'[q] = hStage[q]
        /\ hStage'[r] \in {"ok", "failed"}
        /\ hStage'[r] = "ok" => d \in accepted'
        /\ hStage'[r] = "failed" => failures'[d] = failures[d] + 1
        /\ accepted \subseteq accepted'
    <2>1. CASE /\ accepted' = accepted \cup {d} /\ failures' = failures
               /\ hStage' = [hStage EXCEPT ![r] = "ok"]
      BY <2>1 DEF HookInv, HookTypes
    <2>2. CASE /\ accepted' = accepted /\ failures' = [failures EXCEPT ![d] = failures[d] + 1]
               /\ hStage' = [hStage EXCEPT ![r] = "failed"]
      BY <2>2, <1>5 DEF HookInv, HookTypes
    <2>. QED BY <1>6, <2>1, <2>2
  <1>8. \A f \in Hooks!Deliveries : failures[f] \in Nat /\ failures'[f] \in Nat /\ failures[f] <= failures'[f]
    <2>. SUFFICES ASSUME NEW f \in Hooks!Deliveries
                  PROVE  failures[f] \in Nat /\ failures'[f] \in Nat /\ failures[f] <= failures'[f]
      OBVIOUS
    <2>1. failures[f] \in Nat /\ failures'[f] \in Nat
      BY <1>7 DEF HookInv, HookTypes
    <2>2. failures'[f] = failures[f] \/ failures'[f] = failures[f] + 1
      BY <1>7
    <2>. QED BY SMTT(40), <2>1, <2>2
  <1>9. \A q \in Trio : hStage'[q] # "idle" => batch'[q] # <<>>
    BY <1>1, <1>2, <1>7 DEF HookInv, HookTypes
  <1>10. HookTypes'
    BY <1>1, <1>7, <1>9 DEF HookInv, HookTypes
  <1>11. InsertedOnce'
    BY <1>1 DEF HookInv, InsertedOnce
  <1>12. ASSUME NEW f \in Hooks!Deliveries, NEW k \in Nat, k <= failures[f]
         PROVE  k <= failures'[f]
    BY SMTT(40), <1>8, <1>12
  <1>13. CounterIsBehind'
    <2>. SUFFICES ASSUME NEW f \in Hooks!Deliveries, status'[f] = "pending"
                  PROVE  attempts'[f] <= failures'[f]
      BY DEF CounterIsBehind
    <2>1. attempts[f] \in Nat /\ attempts[f] <= failures[f]
      BY <1>1 DEF HookInv, HookTypes, CounterIsBehind
    <2>. QED BY <2>1, <1>1, <1>12
  <1>14. ASSUME NEW q \in Trio, NEW i \in DOMAIN batch[q]
         PROVE  batch[q][i][1] \in Hooks!Deliveries /\ batch[q][i][2] \in Nat
    <2>1. batch[q] \in Seq(Hooks!Deliveries \X Nat)
      BY DEF HookInv, HookTypes
    <2>2. batch[q][i] \in Hooks!Deliveries \X Nat
      BY SMTT(40), <2>1
    <2>. QED BY SMTT(40), <2>2
  <1>15. ReadIsBehind'
    <2>. SUFFICES ASSUME NEW q \in Trio, NEW i \in DOMAIN batch[q]
                  PROVE  (EntryIsBehind(batch[q][i]))'
      BY <1>1 DEF ReadIsBehind
    <2>1. status[batch[q][i][1]] # "none" /\ batch[q][i][2] <= failures[batch[q][i][1]]
      BY DEF HookInv, ReadIsBehind, EntryIsBehind
    <2>. QED BY <2>1, <1>1, <1>12, <1>14 DEF EntryIsBehind
  <1>16. FailureIsCounted'
    <2>. SUFFICES ASSUME NEW q \in Trio, hStage'[q] = "failed"
                  PROVE  batch[q][1][2] + 1 <= failures'[batch[q][1][1]]
      BY <1>1 DEF FailureIsCounted
    <2>1. CASE q = r
      <3>1. failures'[d] = failures[d] + 1
        BY <2>1, <1>7
      <3>. QED BY <2>1, <3>1, <1>3, <1>5
    <2>2. CASE q # r
      <3>1. hStage[q] = "failed"
        BY <2>2, <1>7
      <3>2. hStage[q] # "idle"
        BY SMTT(40), <3>1
      <3>3. batch[q][1][2] + 1 <= failures[batch[q][1][1]]
        BY <3>1 DEF HookInv, FailureIsCounted
      <3>4. 1 \in DOMAIN batch[q]
        BY <3>2, EntryOf DEF HookInv
      <3>5. batch[q][1][1] \in Hooks!Deliveries /\ batch[q][1][2] \in Nat
        BY <3>4, <1>14
      <3>6. batch[q][1][2] + 1 \in Nat
        BY SMTT(40), <3>5
      <3>. QED BY <3>3, <3>5, <3>6, <1>12
    <2>. QED BY <2>1, <2>2
  <1>17. AcceptedIsKnown'
    BY <1>1, <1>3, <1>7 DEF HookInv, AcceptedIsKnown
  <1>18. OutcomeIsReal'
    <2>. SUFFICES ASSUME NEW f \in Hooks!Deliveries
                  PROVE  /\ status'[f] = "delivered" => f \in accepted'
                         /\ status'[f] = "dead_letter" => \E q \in Trio : failures'[f] >= MaxAttempts[q]
      BY DEF OutcomeIsReal, Hooks!OutcomeIsReal
    <2>1. /\ status[f] = "delivered" => f \in accepted
          /\ status[f] = "dead_letter" => \E q \in Trio : failures[f] >= MaxAttempts[q]
      BY DEF HookInv, OutcomeIsReal, Hooks!OutcomeIsReal
    <2>2. ASSUME NEW q \in Trio, failures[f] >= MaxAttempts[q]
          PROVE  failures'[f] >= MaxAttempts[q]
      <3>1. MaxAttempts[q] \in Nat
        BY HooksAssumption DEF Hooks!WebhookAssumption
      <3>. QED BY SMTT(40), <3>1, <2>2, <1>8
    <2>. QED BY <2>1, <2>2, <1>1, <1>7
  <1>. QED BY <1>10, <1>11, <1>13, <1>15, <1>16, <1>17, <1>18 DEF HookInv

\* The UPDATE after a POST: delivered, dead-lettered or to be tried again.
LEMMA MarkKeeps ==
    ASSUME HookInv, NEW r \in Trio,
           Hooks!MarkDelivered(r) \/ Hooks!MarkDeadLetter(r) \/ Hooks!MarkRetry(r)
    PROVE  HookInv'
  <1>1. /\ hStage[r] \in {"ok", "failed"} /\ Hooks!NextRow(r)
        /\ notified' = notified /\ notify' = notify /\ accepted' = accepted /\ failures' = failures
    BY DEF Hooks!MarkDelivered, Hooks!MarkDeadLetter, Hooks!MarkRetry
  <1>2. hStage[r] # "idle"
    BY SMTT(40), <1>1
  <1>3. PICK d \in Hooks!Deliveries, n \in Nat :
            /\ Head(batch[r])[1] = d /\ Head(batch[r])[2] = n
            /\ batch[r][1][1] = d /\ batch[r][1][2] = n /\ 1 \in DOMAIN batch[r]
    BY <1>2, EntryOf DEF HookInv
  <1>4. attempts' = [attempts EXCEPT ![d] = n + 1]
    BY <1>3 DEF Hooks!MarkDelivered, Hooks!MarkDeadLetter, Hooks!MarkRetry
  <1>5. "delivered" # "pending" /\ "delivered" # "dead_letter" /\ "dead_letter" # "pending"
    BY SMTT(40)
  <1>6. CASE Hooks!MarkDelivered(r)
    <2>1. status' = [status EXCEPT ![d] = "delivered"] /\ hStage[r] = "ok"
      BY <1>3, <1>6 DEF Hooks!MarkDelivered
    <2>2. d \in accepted
      BY <2>1, <1>3 DEF HookInv, AcceptedIsKnown
    <2>. QED BY <1>1, <1>2, <1>3, <1>4, <1>5, <2>1, <2>2, RecordKeeps
  <1>7. ASSUME hStage[r] = "failed" PROVE n + 1 <= failures[d]
    BY <1>3, <1>7 DEF HookInv, FailureIsCounted
  <1>8. CASE Hooks!MarkDeadLetter(r)
    <2>1. status' = [status EXCEPT ![d] = "dead_letter"] /\ hStage[r] = "failed" /\ n + 1 >= MaxAttempts[r]
      BY <1>3, <1>8 DEF Hooks!MarkDeadLetter, Hooks!LastAttempt
    <2>2. failures[d] \in Nat /\ MaxAttempts[r] \in Nat
      BY HooksAssumption DEF HookInv, HookTypes, Hooks!WebhookAssumption
    <2>3. failures[d] >= MaxAttempts[r]
      BY SMTT(40), <1>7, <2>1, <2>2
    <2>. QED BY <1>1, <1>2, <1>3, <1>4, <1>5, <2>1, <2>3, RecordKeeps
  <1>9. CASE Hooks!MarkRetry(r)
    <2>1. status' = status /\ hStage[r] = "failed"
      BY <1>9 DEF Hooks!MarkRetry
    <2>2. status[d] # "none"
      BY <1>3 DEF HookInv, ReadIsBehind, EntryIsBehind
    <2>3. PICK s \in {"pending", "delivered", "dead_letter"} : s = status[d]
      BY <2>2 DEF HookInv, HookTypes
    <2>4. status' = [status EXCEPT ![d] = s]
      BY <2>1, <2>3 DEF HookInv, HookTypes
    <2>5. /\ s = "delivered" => d \in accepted
          /\ s = "dead_letter" => \E q \in Trio : failures[d] >= MaxAttempts[q]
      BY <2>3 DEF HookInv, OutcomeIsReal, Hooks!OutcomeIsReal
    <2>. QED BY <1>1, <1>2, <1>3, <1>4, <1>7, <2>1, <2>4, <2>5, RecordKeeps
  <1>. QED BY <1>6, <1>8, <1>9

\* A lost row, a failed statement or a stopped process records nothing.
LEMMA LossKeeps ==
    ASSUME HookInv, NEW r \in Trio,
           Hooks!SkipRow(r) \/ Hooks!UpdateFails(r) \/ Hooks!Crash(r)
    PROVE  HookInv'
  <1>1. /\ notified' = notified /\ notify' = notify /\ status' = status /\ attempts' = attempts
        /\ accepted' = accepted /\ failures' = failures
        /\ hStage[r] # "idle"
        /\ \/ Hooks!NextRow(r)
           \/ batch' = [batch EXCEPT ![r] = <<>>] /\ hStage' = [hStage EXCEPT ![r] = "idle"]
    BY DEF Hooks!SkipRow, Hooks!UpdateFails, Hooks!Crash, Hooks!table
  <1>2. /\ batch' \in [Trio -> Seq(Hooks!Deliveries \X Nat)]
        /\ hStage' \in [Trio -> {"idle", "post", "ok", "failed"}]
        /\ \A q \in Trio : hStage'[q] # "idle" => batch'[q] # <<>>
        /\ RunnersInv'
    <2>1. CASE Hooks!NextRow(r)
      BY <1>1, <2>1, NextRowKeeps DEF HookInv, RunnersInv
    <2>2. CASE batch' = [batch EXCEPT ![r] = <<>>] /\ hStage' = [hStage EXCEPT ![r] = "idle"]
      <3>1. <<>> \in Seq(Hooks!Deliveries \X Nat) /\ DOMAIN <<>> = {}
        BY SMTT(40)
      <3>2. /\ batch' \in [Trio -> Seq(Hooks!Deliveries \X Nat)]
            /\ hStage' \in [Trio -> {"idle", "post", "ok", "failed"}]
            /\ batch'[r] = <<>> /\ hStage'[r] = "idle"
            /\ \A q \in Trio : q # r => batch'[q] = batch[q] /\ hStage'[q] = hStage[q]
        BY <2>2, <3>1 DEF HookInv, HookTypes
      <3>3. \A q \in Trio : hStage'[q] # "idle" => batch'[q] # <<>>
        BY <3>2 DEF HookInv, HookTypes
      <3>4. ReadIsBehind'
        <4>. SUFFICES ASSUME NEW q \in Trio, NEW i \in DOMAIN batch'[q]
                      PROVE  (EntryIsBehind(batch[q][i]))'
          BY DEF ReadIsBehind
        <4>1. q # r
          BY <3>1, <3>2
        <4>2. i \in DOMAIN batch[q] /\ batch'[q][i] = batch[q][i]
          BY <4>1, <3>2
        <4>3. EntryIsBehind(batch[q][i])
          BY <4>2 DEF HookInv, ReadIsBehind
        <4>. QED BY <4>2, <4>3, <1>1 DEF EntryIsBehind
      <3>5. "idle" # "ok" /\ "idle" # "failed"
        BY SMTT(40)
      <3>6. FailureIsCounted' /\ AcceptedIsKnown'
        BY <3>2, <3>5, <1>1 DEF HookInv, FailureIsCounted, AcceptedIsKnown
      <3>. QED BY <3>2, <3>3, <3>4, <3>6 DEF RunnersInv
    <2>. QED BY <1>1, <2>1, <2>2
  <1>3. HookTypes'
    BY <1>1, <1>2 DEF HookInv, HookTypes
  <1>4. InsertedOnce' /\ CounterIsBehind' /\ OutcomeIsReal'
    BY <1>1 DEF HookInv, InsertedOnce, CounterIsBehind, OutcomeIsReal, Hooks!OutcomeIsReal
  <1>. QED BY <1>2, <1>3, <1>4 DEF HookInv, RunnersInv

\* A step that changes nothing keeps the invariant.
LEMMA HooksStill ==
    ASSUME HookInv, Hooks!Elapse \/ UNCHANGED Hooks!vars
    PROVE  HookInv'
  <1>1. /\ notified' = notified /\ notify' = notify /\ status' = status /\ attempts' = attempts
        /\ accepted' = accepted /\ failures' = failures /\ batch' = batch /\ hStage' = hStage
    BY DEF Hooks!Elapse, Hooks!vars, Hooks!table
  <1>2. HookTypes' /\ InsertedOnce' /\ CounterIsBehind' /\ OutcomeIsReal'
    BY <1>1 DEF HookInv, HookTypes, InsertedOnce, CounterIsBehind, OutcomeIsReal, Hooks!OutcomeIsReal
  <1>3. RunnersInv'
    BY <1>1, RunnersKeep DEF HookInv, RunnersInv
  <1>. QED BY <1>2, <1>3 DEF HookInv, RunnersInv

\* OutcomeIsReal: whatever runners share a row, a delivery is recorded only if its
\* endpoint accepted it and dead-lettered only after that many failed POSTs.
THEOREM OutcomesAreReal == Hooks!Spec => []OutcomeIsReal
  <1>1. Hooks!Init => HookInv
    BY InitHooks
  <1>2. HookInv /\ [Hooks!Next]_(Hooks!vars) => HookInv'
    <2>. SUFFICES ASSUME HookInv, [Hooks!Next]_(Hooks!vars) PROVE HookInv'
      OBVIOUS
    <2>. QED BY NotifyKeeps, EnqueueKeeps, ProcessKeeps, PostKeeps, MarkKeeps, LossKeeps,
                HooksStill DEF Hooks!Next, Hooks!AttemptDelivery
  <1>3. HookInv => OutcomeIsReal
    BY DEF HookInv
  <1>. QED BY <1>1, <1>2, <1>3, PTL DEF Hooks!Spec

(***************************************************************************)
(* Consolidation.                                                          *)
(***************************************************************************)

\* The sequence t is s with x at position i.
Replaces(t, s, i, x) == t = [s EXCEPT ![i] = x]

\* Replacing an element of a sequence.
LEMMA ExceptSeq ==
    ASSUME NEW S, NEW s \in Seq(S), NEW i, NEW x \in S, NEW t, Replaces(t, s, i, x)
    PROVE  /\ t \in Seq(S)
           /\ DOMAIN t = DOMAIN s
  <1>1. PICK n \in Nat : DOMAIN s = 1..n /\ s \in [1..n -> S]
    BY SMTT(40)
  <1>2. t \in [1..n -> S] /\ t = [s EXCEPT ![i] = x]
    BY <1>1 DEF Replaces
  <1>3. t \in Seq(S)
    BY SMTT(40), <1>1, <1>2
  <1>. QED BY <1>2, <1>3

MergeRow == [path : Two \cup Derived, live : BOOLEAN]
MergeRun == [status : {"pending", "completed", "failed"}, sources : SUBSET Nat, entry : Nat]
LoopFields == {"at", "queue", "sources", "entry"}

MergeTypes ==
    /\ rows \in Seq(MergeRow)
    /\ cRuns \in Seq(MergeRun)
    /\ merged \in Seq([id : Nat, sources : SUBSET Nat])
    /\ loop = [w \in Pair |-> loop[w]]
    /\ \A w \in Pair : DOMAIN loop[w] = LoopFields

\* What a run merges are rows of the prefix that are no consolidations.
Merges(S) == \A i \in S : i \in DOMAIN rows /\ rows[i].path \notin Derived

\* The row e is a consolidation of exactly the rows S, which are older.
Consolidates(e, S) ==
    /\ \E i \in DOMAIN merged : merged[i] = [id |-> e, sources |-> S]
    /\ e \in DOMAIN rows /\ rows[e].path = Output
    /\ \A i \in S : i < e
    /\ Merges(S)

\* What a worker holds in memory between the statements of a run is true of the table.
LoopIsTrue(l) ==
    /\ l.at = "store" => Merges(l.sources)
    /\ l.at = "complete" => Consolidates(l.entry, l.sources)

MergeInv ==
    /\ MergeTypes
    /\ \A w \in Pair : LoopIsTrue(loop[w])
    /\ \A r \in DOMAIN cRuns :
           cRuns[r].status = "completed" => Consolidates(cRuns[r].entry, cRuns[r].sources)

\* Rows are added and closed, never removed or moved.
RowsGrow == \A i \in DOMAIN rows : i \in DOMAIN rows' /\ rows'[i].path = rows[i].path

\* The history of stored consolidations grows.
MergedGrows == \A i \in DOMAIN merged : i \in DOMAIN merged' /\ merged'[i] = merged[i]

\* What is true of the rows stays true while they grow.
LEMMA ConsolidatesStays ==
    ASSUME RowsGrow, MergedGrows, NEW e, NEW S
    PROVE  /\ Merges(S) => Merges(S)'
           /\ Consolidates(e, S) => Consolidates(e, S)'
  <1>1. Merges(S) => Merges(S)'
    BY DEF Merges, RowsGrow
  <1>2. ASSUME NEW i \in DOMAIN merged, merged[i] = [id |-> e, sources |-> S]
        PROVE  \E j \in DOMAIN merged' : merged'[j] = [id |-> e, sources |-> S]
    BY <1>2 DEF MergedGrows
  <1>. QED BY <1>1, <1>2 DEF Consolidates, RowsGrow

\* So a step that changes no run and only moves loops to harmless places keeps all.
LEMMA MergeGrows ==
    ASSUME MergeInv, MergeTypes', RowsGrow, MergedGrows,
           \A w \in Pair : loop'[w] = loop[w] \/ LoopIsTrue(loop[w])',
           \A r \in DOMAIN cRuns' : cRuns'[r].status = "completed" =>
               \/ r \in DOMAIN cRuns /\ cRuns'[r] = cRuns[r]
               \/ Consolidates(cRuns[r].entry, cRuns[r].sources)'
    PROVE  MergeInv'
  <1>1. ASSUME NEW w \in Pair PROVE LoopIsTrue(loop[w])'
    BY ConsolidatesStays DEF MergeInv, LoopIsTrue
  <1>2. ASSUME NEW r \in DOMAIN cRuns', cRuns'[r].status = "completed"
        PROVE  Consolidates(cRuns[r].entry, cRuns[r].sources)'
    <2>1. CASE r \in DOMAIN cRuns /\ cRuns'[r] = cRuns[r]
      <3>1. Consolidates(cRuns[r].entry, cRuns[r].sources)
        BY <1>2, <2>1 DEF MergeInv
      <3>2. PICK e, S : e = cRuns[r].entry /\ S = cRuns[r].sources
        OBVIOUS
      <3>3. Consolidates(e, S)'
        BY <3>1, <3>2, ConsolidatesStays
      <3>. QED BY <3>2, <3>3, <2>1
    <2>. QED BY <1>2, <2>1
  <1>. QED BY <1>1, <1>2 DEF MergeInv

\* Closing a row keeps its path.
LEMMA RowClosed ==
    ASSUME NEW x \in MergeRow, NEW b \in BOOLEAN
    PROVE  [x EXCEPT !.live = b] \in MergeRow /\ [x EXCEPT !.live = b].path = x.path
  <1>1. PICK p \in Two \cup Derived, c \in BOOLEAN : x = [path |-> p, live |-> c]
    BY SMTT(40) DEF MergeRow
  <1>2. [x EXCEPT !.live = b] = [path |-> p, live |-> b] /\ x.path = p
    BY SMTT(40), <1>1
  <1>3. [path |-> p, live |-> b] \in MergeRow
    BY DEF MergeRow
  <1>4. [path |-> p, live |-> b].path = p
    BY SMTT(40)
  <1>. QED BY <1>2, <1>3, <1>4

\* StoredAt closes the current row of the path and appends the new one.
LEMMA StoredGrows ==
    ASSUME rows \in Seq(MergeRow), NEW p \in Two \cup Derived, rows' = Merge!StoredAt(p)
    PROVE  /\ rows' \in Seq(MergeRow) /\ RowsGrow
           /\ Len(rows) + 1 \in DOMAIN rows' /\ rows'[Len(rows) + 1].path = p
           /\ \A i \in DOMAIN rows : i < Len(rows) + 1
  <1>1. PICK n \in Nat : n = Len(rows) /\ DOMAIN rows = 1..n
    BY SMTT(40)
  <1>2. PICK f : f = [i \in DOMAIN rows |-> [rows[i] EXCEPT !.live = rows[i].live /\ rows[i].path # p]]
    OBVIOUS
  <1>3. ASSUME NEW i \in 1..n PROVE f[i] \in MergeRow /\ f[i].path = rows[i].path
    <2>1. rows[i] \in MergeRow /\ f[i] = [rows[i] EXCEPT !.live = rows[i].live /\ rows[i].path # p]
      BY SMTT(40), <1>1, <1>2
    <2>2. PICK b \in BOOLEAN : b = (rows[i].live /\ rows[i].path # p)
      OBVIOUS
    <2>3. f[i] = [rows[i] EXCEPT !.live = b]
      BY <2>1, <2>2
    <2>. QED BY <2>1, <2>3, RowClosed
  <1>4. f \in Seq(MergeRow) /\ Len(f) = n /\ DOMAIN f = 1..n
    <2>1. f = [i \in 1..n |-> f[i]]
      BY <1>1, <1>2
    <2>2. f \in [1..n -> MergeRow]
      BY <2>1, <1>3
    <2>. QED BY SMTT(40), <2>2, <1>1
  <1>5. PICK x \in MergeRow : x = [path |-> p, live |-> TRUE] /\ x.path = p
    <2>1. [path |-> p, live |-> TRUE] \in MergeRow
      BY DEF MergeRow
    <2>2. [path |-> p, live |-> TRUE].path = p
      BY SMTT(40)
    <2>. QED BY <2>1, <2>2
  <1>6. rows' = Append(f, x)
    BY <1>2, <1>5 DEF Merge!StoredAt
  <1>7. /\ rows' \in Seq(MergeRow) /\ DOMAIN rows' = 1..(n + 1)
        /\ rows'[n + 1] = x /\ \A i \in 1..n : rows'[i] = f[i]
    BY SMTT(40), <1>4, <1>5, <1>6
  <1>8. /\ n + 1 \in 1..(n + 1) /\ \A i \in 1..n : i \in 1..(n + 1) /\ i < n + 1
    BY SMTT(40)
  <1>9. RowsGrow
    BY <1>1, <1>3, <1>7, <1>8 DEF RowsGrow
  <1>. QED BY <1>1, <1>5, <1>7, <1>8, <1>9

\* Nothing happens to rows and merged.
LEMMA RowsStand == ASSUME rows' = rows, merged' = merged PROVE RowsGrow /\ MergedGrows
  BY DEF RowsGrow, MergedGrows

\* Initially no run is completed and no loop claims anything.
LEMMA InitMerge == Merge!Init => MergeInv
  <1>. SUFFICES ASSUME Merge!Init PROVE MergeInv
    OBVIOUS
  <1>1. rows = <<>> /\ cRuns = <<>> /\ merged = <<>> /\ loop = [w \in Pair |-> Merge!Idle]
    BY DEF Merge!Init
  <1>2. DOMAIN Merge!Idle = LoopFields /\ Merge!Idle.at = "idle"
    BY SMTT(40) DEF Merge!Idle, LoopFields
  <1>3. \A w \in Pair : loop[w] = Merge!Idle
    BY <1>1
  <1>4. loop = [w \in Pair |-> loop[w]]
    BY <1>1
  <1>5. rows \in Seq(MergeRow) /\ cRuns \in Seq(MergeRun) /\ merged \in Seq([id : Nat, sources : SUBSET Nat])
    BY SMTT(40), <1>1
  <1>6. MergeTypes
    BY <1>2, <1>3, <1>4, <1>5 DEF MergeTypes
  <1>7. "idle" # "store" /\ "idle" # "complete" /\ DOMAIN <<>> = {}
    BY SMTT(40)
  <1>. QED BY <1>1, <1>2, <1>3, <1>6, <1>7 DEF MergeInv, LoopIsTrue

\* The clients of the prefix.
LEMMA ClientKeepsMerge ==
    ASSUME MergeInv,
           \/ \E p \in Two \cup Derived : Merge!StoreMemory(p)
           \/ \E i \in DOMAIN rows : Merge!Expire(i)
    PROVE  MergeInv'
  <1>1. cRuns' = cRuns /\ merged' = merged /\ loop' = loop
    BY DEF Merge!StoreMemory, Merge!Expire
  <1>2. rows' \in Seq(MergeRow) /\ RowsGrow
    <2>1. ASSUME NEW p \in Two \cup Derived, Merge!StoreMemory(p) PROVE rows' \in Seq(MergeRow) /\ RowsGrow
      BY <2>1, StoredGrows DEF Merge!StoreMemory, MergeInv, MergeTypes
    <2>2. ASSUME NEW i \in DOMAIN rows, Merge!Expire(i) PROVE rows' \in Seq(MergeRow) /\ RowsGrow
      <3>1. rows \in Seq(MergeRow) /\ rows' = [rows EXCEPT ![i].live = FALSE]
        BY <2>2 DEF Merge!Expire, MergeInv, MergeTypes
      <3>2. PICK x : x = [rows[i] EXCEPT !.live = FALSE]
        OBVIOUS
      <3>3. rows[i] \in MergeRow
        BY SMTT(40), <3>1
      <3>4. x \in MergeRow /\ x.path = rows[i].path
        BY <3>2, <3>3, RowClosed
      <3>5. rows' = [rows EXCEPT ![i] = x]
        BY <3>1, <3>2
      <3>6. rows' \in Seq(MergeRow) /\ DOMAIN rows' = DOMAIN rows
        <4>1. Replaces(rows', rows, i, x)
          BY <3>5 DEF Replaces
        <4>. QED BY <3>1, <3>4, <4>1, ExceptSeq
      <3>7. \A j \in DOMAIN rows : rows'[j].path = rows[j].path
        BY <3>4, <3>5
      <3>. QED BY <3>6, <3>7 DEF RowsGrow
    <2>. QED BY <2>1, <2>2
  <1>3. MergedGrows
    BY <1>1 DEF MergedGrows
  <1>4. MergeTypes'
    BY <1>1, <1>2 DEF MergeInv, MergeTypes
  <1>. QED BY <1>1, <1>2, <1>3, <1>4, MergeGrows

\* tryConsolidate only queues runs that are pending.
LEMMA TriggerKeepsMerge ==
    ASSUME MergeInv, NEW w \in Pair,
           Merge!CountActive(w) \/ Merge!CheckPending(w) \/ Merge!InsertRun(w)
    PROVE  MergeInv'
  <1>1. rows' = rows /\ merged' = merged /\ loop' = loop
    BY DEF Merge!CountActive, Merge!CheckPending, Merge!InsertRun
  <1>2. PICK x \in MergeRun : x = [status |-> "pending", sources |-> {}, entry |-> 0] /\ x.status = "pending"
    <2>1. [status |-> "pending", sources |-> {}, entry |-> 0] \in MergeRun
      BY SMTT(40) DEF MergeRun
    <2>2. [status |-> "pending", sources |-> {}, entry |-> 0].status = "pending"
      BY SMTT(40)
    <2>. QED BY <2>1, <2>2
  <1>3. cRuns' = cRuns \/ cRuns' = Append(cRuns, x)
    BY <1>2 DEF Merge!CountActive, Merge!CheckPending, Merge!InsertRun
  <1>4. cRuns \in Seq(MergeRun)
    BY DEF MergeInv, MergeTypes
  <1>5. /\ cRuns' \in Seq(MergeRun)
        /\ \A r \in DOMAIN cRuns' : (r \in DOMAIN cRuns /\ cRuns'[r] = cRuns[r]) \/ cRuns'[r] = x
    <2>1. CASE cRuns' = cRuns
      BY <1>4, <2>1
    <2>2. CASE cRuns' = Append(cRuns, x)
      BY SMTT(40), <1>2, <1>4, <2>2
    <2>. QED BY <1>3, <2>1, <2>2
  <1>6. "pending" # "completed"
    BY SMTT(40)
  <1>7. MergeTypes'
    BY <1>1, <1>5 DEF MergeInv, MergeTypes
  <1>8. RowsGrow /\ MergedGrows
    BY <1>1, RowsStand
  <1>. QED BY <1>1, <1>2, <1>5, <1>6, <1>7, <1>8, MergeGrows

\* A step that gives the loop of w the record l.
LoopTo(w, l) == loop' = [loop EXCEPT ![w] = l] /\ DOMAIN l = LoopFields

\* A worker loop that leaves "store" and "complete" claims nothing.
LEMMA LoopMoves ==
    ASSUME MergeTypes, NEW w \in Pair, NEW l, LoopTo(w, l)
    PROVE  /\ loop' = [v \in Pair |-> loop'[v]]
           /\ \A v \in Pair : DOMAIN loop'[v] = LoopFields
           /\ loop'[w] = l
           /\ \A v \in Pair : v # w => loop'[v] = loop[v]
  <1>1. loop = [v \in Pair |-> loop[v]]
    BY DEF MergeTypes
  <1>2. /\ loop' = [v \in Pair |-> loop'[v]]
        /\ loop'[w] = l
        /\ \A v \in Pair : v # w => loop'[v] = loop[v]
    BY <1>1 DEF LoopTo
  <1>. QED BY <1>2 DEF MergeTypes, LoopTo

\* NextRun leaves a loop that claims nothing.
LEMMA NextRunIdles ==
    ASSUME NEW w \in Pair, Merge!NextRun(w)
    PROVE  \E l : LoopTo(w, l) /\ l.at \notin {"store", "complete"}
  <1>1. PICK l : /\ loop' = [loop EXCEPT ![w] = l]
                 /\ l = Merge!Idle \/ l = [Merge!Idle EXCEPT !.at = "retrieve", !.queue = Tail(loop[w].queue)]
    BY DEF Merge!NextRun
  <1>2. DOMAIN l = LoopFields /\ l.at \notin {"store", "complete"}
    <2>1. CASE l = Merge!Idle
      BY SMTT(40), <2>1 DEF Merge!Idle, LoopFields
    <2>2. CASE l = [Merge!Idle EXCEPT !.at = "retrieve", !.queue = Tail(loop[w].queue)]
      <3>1. PICK q : l = [Merge!Idle EXCEPT !.at = "retrieve", !.queue = q]
        BY <2>2
      <3>. QED BY SMTT(40), <3>1 DEF Merge!Idle, LoopFields
    <2>. QED BY <1>1, <2>1, <2>2
  <1>. QED BY <1>1, <1>2 DEF LoopTo

\* Goto keeps what the loop holds and changes where it is.
LEMMA GotoIdles ==
    ASSUME MergeTypes, NEW w \in Pair, NEW at, Merge!Goto(w, at)
    PROVE  \E l : LoopTo(w, l) /\ l.at = at
  <1>1. PICK k : k = loop[w] /\ DOMAIN k = LoopFields
    BY DEF MergeTypes
  <1>2. PICK l : l = [k EXCEPT !.at = at]
    OBVIOUS
  <1>3. DOMAIN l = LoopFields /\ l.at = at
    BY SMTT(40), <1>1, <1>2 DEF LoopFields
  <1>4. LoopTo(w, l)
    BY <1>1, <1>2, <1>3 DEF Merge!Goto, LoopTo
  <1>. QED BY <1>3, <1>4

\* A loop goes where it claims nothing, and no run is completed.
LEMMA IdleKeepsMerge ==
    ASSUME MergeInv, NEW w \in Pair, NEW l, LoopTo(w, l),
           LoopIsTrue(l), rows' = rows, merged' = merged,
           cRuns' \in Seq(MergeRun), DOMAIN cRuns' = DOMAIN cRuns,
           \A r \in DOMAIN cRuns' : cRuns'[r].status = "completed" =>
               \/ cRuns'[r] = cRuns[r]
               \/ Consolidates(cRuns'[r].entry, cRuns'[r].sources)
    PROVE  MergeInv'
  <1>1. /\ loop' = [v \in Pair |-> loop'[v]]
        /\ \A v \in Pair : DOMAIN loop'[v] = LoopFields
        /\ loop'[w] = l
        /\ \A v \in Pair : v # w => loop'[v] = loop[v]
    BY LoopMoves DEF MergeInv
  <1>2. MergeTypes'
    BY <1>1 DEF MergeInv, MergeTypes
  <1>3. RowsGrow /\ MergedGrows
    BY RowsStand
  <1>4. LoopIsTrue(loop[w])'
    BY <1>1 DEF LoopIsTrue, Consolidates, Merges
  <1>5. ASSUME NEW r \in DOMAIN cRuns', cRuns'[r].status = "completed"
        PROVE  \/ r \in DOMAIN cRuns /\ cRuns'[r] = cRuns[r]
               \/ Consolidates(cRuns[r].entry, cRuns[r].sources)'
    BY <1>5 DEF Consolidates, Merges
  <1>6. \A v \in Pair : loop'[v] = loop[v] \/ LoopIsTrue(loop[v])'
    BY <1>1, <1>4
  <1>. QED BY <1>2, <1>3, <1>5, <1>6, MergeGrows

\* A loop at another place than "store" and "complete" claims nothing.
LEMMA NoClaim ==
    ASSUME NEW l, l.at \notin {"store", "complete"}
    PROVE  LoopIsTrue(l)
  BY DEF LoopIsTrue

\* A loop lists pending runs: it claims nothing yet.
LEMMA ListKeepsMerge ==
    ASSUME MergeInv, NEW w \in Pair, Merge!ListPending(w)
    PROVE  MergeInv'
  <1>1. PICK q : loop' = [loop EXCEPT ![w] = [Merge!Idle EXCEPT !.at = "retrieve", !.queue = q]]
    BY DEF Merge!ListPending
  <1>2. PICK l : l = [Merge!Idle EXCEPT !.at = "retrieve", !.queue = q]
    OBVIOUS
  <1>3. DOMAIN l = LoopFields /\ l.at \notin {"store", "complete"}
    BY SMTT(40), <1>2 DEF Merge!Idle, LoopFields
  <1>4. rows' = rows /\ merged' = merged /\ cRuns' = cRuns
    BY DEF Merge!ListPending
  <1>5. cRuns' \in Seq(MergeRun)
    BY <1>4 DEF MergeInv, MergeTypes
  <1>6. LoopTo(w, l)
    BY <1>1, <1>2, <1>3 DEF LoopTo
  <1>. QED BY <1>3, <1>4, <1>5, <1>6, NoClaim, IdleKeepsMerge

\* A loop that has retrieved entries goes on to store exactly those.
LEMMA RetrieveKeepsMerge ==
    ASSUME MergeInv, NEW w \in Pair, Merge!Retrieve(w)
    PROVE  MergeInv'
  <1>1. rows' = rows /\ merged' = merged /\ cRuns' = cRuns
    BY DEF Merge!Retrieve
  <1>2. cRuns' \in Seq(MergeRun)
    BY <1>1 DEF MergeInv, MergeTypes
  <1>3. PICK ids : ids = Merge!Mergeable(Merge!Retrieved)
    OBVIOUS
  <1>4. \/ loop' = [loop EXCEPT ![w] = [@ EXCEPT !.at = "store", !.sources = ids]]
        \/ Merge!Goto(w, "short") \/ Merge!Goto(w, "fail")
    BY <1>3 DEF Merge!Retrieve
  <1>5. Merges(ids)
    BY <1>3 DEF Merges, Merge!Mergeable, Merge!Retrieved, Merge!Newest, Merge!Live
  <1>6. \E l : LoopTo(w, l) /\ LoopIsTrue(l)
    <2>1. CASE loop' = [loop EXCEPT ![w] = [@ EXCEPT !.at = "store", !.sources = ids]]
      <3>1. PICK k : k = loop[w] /\ DOMAIN k = LoopFields
        BY DEF MergeInv, MergeTypes
      <3>2. PICK l : l = [[k EXCEPT !.at = "store"] EXCEPT !.sources = ids]
        OBVIOUS
      <3>3. DOMAIN l = LoopFields /\ l.at = "store" /\ l.sources = ids
        BY SMTT(40), <3>1, <3>2 DEF LoopFields
      <3>4. LoopTo(w, l)
        BY <2>1, <3>1, <3>2, <3>3 DEF LoopTo
      <3>5. "store" # "complete"
        BY SMTT(40)
      <3>6. LoopIsTrue(l)
        BY <3>3, <3>5, <1>5 DEF LoopIsTrue
      <3>. QED BY <3>4, <3>6
    <2>2. ASSUME NEW at \in {"short", "fail"}, Merge!Goto(w, at)
          PROVE  \E l : LoopTo(w, l) /\ LoopIsTrue(l)
      <3>1. at \notin {"store", "complete"}
        BY SMTT(40)
      <3>2. MergeTypes
        BY DEF MergeInv
      <3>3. PICK l : LoopTo(w, l) /\ l.at = at
        BY <2>2, <3>2, GotoIdles
      <3>. QED BY <3>1, <3>3, NoClaim
    <2>. QED BY <1>4, <2>1, <2>2
  <1>. QED BY <1>1, <1>2, <1>6, IdleKeepsMerge

\* The store of a consolidated memory: its row consolidates what was retrieved.
LEMMA StoreKeepsMerge ==
    ASSUME MergeInv, NEW w \in Pair, Merge!Store(w)
    PROVE  MergeInv'
  <1>1. cRuns' = cRuns /\ loop[w].at = "store" /\ MergeTypes
    BY DEF Merge!Store, MergeInv
  <1>2. CASE /\ rows' = rows /\ merged' = merged /\ Merge!Goto(w, "fail")
    <2>1. PICK l : LoopTo(w, l) /\ l.at = "fail"
      BY <1>1, <1>2, GotoIdles
    <2>2. l.at \notin {"store", "complete"}
      BY SMTT(40), <2>1
    <2>3. cRuns' \in Seq(MergeRun)
      BY <1>1 DEF MergeTypes
    <2>. QED BY <1>1, <1>2, <2>1, <2>2, <2>3, NoClaim, IdleKeepsMerge
  <1>3. CASE /\ rows' = Merge!StoredAt(Output)
             /\ merged' = Append(merged, [id |-> Len(rows) + 1, sources |-> loop[w].sources])
             /\ loop' = [loop EXCEPT ![w] = [loop[w] EXCEPT !.at = "complete", !.entry = Len(rows) + 1]]
    <2>1. PICK e : e = Len(rows) + 1
      OBVIOUS
    <2>2. PICK S : S = loop[w].sources /\ Merges(S)
      BY <1>1 DEF MergeInv, LoopIsTrue
    <2>3. rows \in Seq(MergeRow) /\ merged \in Seq([id : Nat, sources : SUBSET Nat]) /\ Output \in Two \cup Derived
      BY <1>1, MergeAssumption DEF MergeTypes, Merge!ConsolidationAssumption
    <2>4. /\ rows' \in Seq(MergeRow) /\ RowsGrow
          /\ e \in DOMAIN rows' /\ rows'[e].path = Output
          /\ \A i \in DOMAIN rows : i < e
      BY <1>3, <2>1, <2>3, StoredGrows
    <2>5. e \in Nat /\ DOMAIN rows \subseteq Nat
      BY SMTT(40), <2>1, <2>3
    <2>6. PICK x : x = [id |-> e, sources |-> S]
      OBVIOUS
    <2>7. S \in SUBSET Nat
      BY <2>2, <2>5 DEF Merges
    <2>8. x \in [id : Nat, sources : SUBSET Nat]
      BY SMTT(40), <2>5, <2>6, <2>7
    <2>9. merged' = Append(merged, x)
      BY <1>3, <2>1, <2>2, <2>6
    <2>10. /\ merged' \in Seq([id : Nat, sources : SUBSET Nat])
           /\ \A i \in DOMAIN merged : i \in DOMAIN merged' /\ merged'[i] = merged[i]
           /\ Len(merged) + 1 \in DOMAIN merged' /\ merged'[Len(merged) + 1] = x
      BY SMTT(40), <2>3, <2>8, <2>9
    <2>11. MergedGrows
      BY <2>10 DEF MergedGrows
    <2>12. PICK k : k = loop[w] /\ DOMAIN k = LoopFields
      BY <1>1 DEF MergeTypes
    <2>13. PICK l : l = [k EXCEPT !.at = "complete", !.entry = e]
      OBVIOUS
    <2>14. DOMAIN l = LoopFields /\ l.at = "complete" /\ l.sources = k.sources /\ l.entry = e
      BY SMTT(40), <2>12, <2>13 DEF LoopFields
    <2>15. LoopTo(w, l)
      BY <1>3, <2>1, <2>12, <2>13, <2>14 DEF LoopTo
    <2>16. /\ loop' = [v \in Pair |-> loop'[v]]
           /\ \A v \in Pair : DOMAIN loop'[v] = LoopFields
           /\ loop'[w] = l
           /\ \A v \in Pair : v # w => loop'[v] = loop[v]
      BY <1>1, <2>15, LoopMoves
    <2>17. MergeTypes'
      BY <1>1, <2>4, <2>10, <2>16 DEF MergeTypes
    <2>18. Merges(S)'
      BY <2>2, <2>4, <2>11, ConsolidatesStays
    <2>19. Consolidates(e, S)'
      BY <2>2, <2>4, <2>6, <2>10, <2>18 DEF Consolidates, Merges
    <2>20. "complete" # "store"
      BY SMTT(40)
    <2>21. LoopIsTrue(loop[w])'
      BY <2>2, <2>12, <2>14, <2>16, <2>19, <2>20 DEF LoopIsTrue
    <2>22. \A v \in Pair : loop'[v] = loop[v] \/ LoopIsTrue(loop[v])'
      BY <2>16, <2>21
    <2>. QED BY <1>1, <2>4, <2>11, <2>17, <2>22, MergeGrows
  <1>. QED BY <1>2, <1>3 DEF Merge!Store

\* An UPDATE of one run changes that run only.
LEMMA RunReplaced ==
    ASSUME cRuns \in Seq(MergeRun), NEW k, NEW x \in MergeRun, Replaces(cRuns', cRuns, k, x)
    PROVE  /\ cRuns' \in Seq(MergeRun) /\ DOMAIN cRuns' = DOMAIN cRuns
           /\ \A r \in DOMAIN cRuns : cRuns'[r] = IF r = k THEN x ELSE cRuns[r]
  <1>1. PICK n \in Nat : cRuns \in [1 .. n -> MergeRun]
    BY SMTT(40)
  <1>2. DOMAIN cRuns' = DOMAIN cRuns /\ cRuns' \in [1 .. n -> MergeRun]
    BY <1>1 DEF Replaces
  <1>3. cRuns' \in Seq(MergeRun)
    BY SMTT(40), <1>2
  <1>. QED BY <1>2, <1>3 DEF Replaces

\* A run ends: completed with the row that was stored, or failed.
LEMMA EndKeepsMerge ==
    ASSUME MergeInv, NEW w \in Pair, Merge!CompleteRun(w) \/ Merge!FailRun(w)
    PROVE  MergeInv'
  <1>1. rows' = rows /\ merged' = merged /\ MergeTypes /\ cRuns \in Seq(MergeRun)
    BY DEF Merge!CompleteRun, Merge!FailRun, MergeInv, MergeTypes
  <1>2. \E l : LoopTo(w, l) /\ LoopIsTrue(l)
    <2>1. CASE Merge!NextRun(w)
      BY <2>1, NextRunIdles, NoClaim
    <2>2. CASE Merge!Goto(w, "fail")
      <3>1. PICK l : LoopTo(w, l) /\ l.at = "fail"
        BY <1>1, <2>2, GotoIdles
      <3>2. l.at \notin {"store", "complete"}
        BY SMTT(40), <3>1
      <3>. QED BY <3>1, <3>2, NoClaim
    <2>. QED BY <2>1, <2>2 DEF Merge!CompleteRun, Merge!FailRun
  <1>3. PICK k : k = Head(loop[w].queue)
    OBVIOUS
  <1>4. PICK S, e : S = loop[w].sources /\ e = loop[w].entry
    OBVIOUS
  <1>5. \/ cRuns' = cRuns
        \/ /\ loop[w].at = "complete"
           /\ cRuns' = [cRuns EXCEPT ![k] = [status |-> "completed", sources |-> S, entry |-> e]]
        \/ cRuns' = [cRuns EXCEPT ![k] = [cRuns[k] EXCEPT !.status = "failed"]]
    BY <1>3, <1>4 DEF Merge!CompleteRun, Merge!FailRun
  <1>6. /\ cRuns' \in Seq(MergeRun) /\ DOMAIN cRuns' = DOMAIN cRuns
        /\ \A r \in DOMAIN cRuns' : cRuns'[r].status = "completed" =>
               \/ cRuns'[r] = cRuns[r]
               \/ Consolidates(cRuns'[r].entry, cRuns'[r].sources)
    <2>1. CASE cRuns' = cRuns
      BY <1>1, <2>1
    <2>2. CASE /\ loop[w].at = "complete"
               /\ cRuns' = [cRuns EXCEPT ![k] = [status |-> "completed", sources |-> S, entry |-> e]]
      <3>1. Consolidates(e, S)
        BY <1>4, <2>2 DEF MergeInv, LoopIsTrue
      <3>2. rows \in Seq(MergeRow)
        BY <1>1 DEF MergeTypes
      <3>3. DOMAIN rows \subseteq Nat
        BY SMTT(40), <3>2
      <3>4. e \in Nat /\ S \in SUBSET Nat
        BY <3>1, <3>3 DEF Consolidates, Merges
      <3>5. PICK x : x = [status |-> "completed", sources |-> S, entry |-> e]
        OBVIOUS
      <3>6. x \in MergeRun /\ x.sources = S /\ x.entry = e
        BY SMTT(40), <3>4, <3>5 DEF MergeRun
      <3>7. /\ cRuns' \in Seq(MergeRun) /\ DOMAIN cRuns' = DOMAIN cRuns
            /\ \A r \in DOMAIN cRuns : cRuns'[r] = IF r = k THEN x ELSE cRuns[r]
        <4>1. Replaces(cRuns', cRuns, k, x)
          BY <2>2, <3>5 DEF Replaces
        <4>. QED BY <1>1, <3>6, <4>1, RunReplaced
      <3>. QED BY <3>1, <3>6, <3>7
    <2>3. CASE cRuns' = [cRuns EXCEPT ![k] = [cRuns[k] EXCEPT !.status = "failed"]]
      <3>1. CASE k \in DOMAIN cRuns
        <4>1. PICK y \in MergeRun : y = cRuns[k]
          <5>1. cRuns[k] \in MergeRun
            BY SMTT(40), <1>1, <3>1
          <5>. QED BY <5>1
        <4>2. PICK x : x = [y EXCEPT !.status = "failed"]
          OBVIOUS
        <4>3. x \in MergeRun /\ x.status = "failed"
          BY SMTT(40), <4>2 DEF MergeRun
        <4>4. /\ cRuns' \in Seq(MergeRun) /\ DOMAIN cRuns' = DOMAIN cRuns
              /\ \A r \in DOMAIN cRuns : cRuns'[r] = IF r = k THEN x ELSE cRuns[r]
          <5>1. Replaces(cRuns', cRuns, k, x)
            BY <2>3, <4>1, <4>2 DEF Replaces
          <5>. QED BY <1>1, <4>3, <5>1, RunReplaced
        <4>5. "failed" # "completed"
          BY SMTT(40)
        <4>. QED BY <4>3, <4>4, <4>5
      <3>2. CASE k \notin DOMAIN cRuns
        <4>1. PICK n \in Nat : cRuns \in [1..n -> MergeRun] /\ DOMAIN cRuns = 1..n
          BY SMTT(40), <1>1
        <4>2. cRuns' = cRuns
          BY <2>3, <3>2, <4>1
        <4>. QED BY <1>1, <4>2
      <3>. QED BY <3>1, <3>2
    <2>. QED BY <1>5, <2>1, <2>2, <2>3
  <1>. QED BY <1>1, <1>2, <1>6, IdleKeepsMerge

\* A process that stops forgets its loops and leaves the rows as they are.
LEMMA CrashKeepsMerge ==
    ASSUME MergeInv, NEW w \in Pair, Merge!Crash(w)
    PROVE  MergeInv'
  <1>1. rows' = rows /\ merged' = merged /\ cRuns' = cRuns /\ loop' = [loop EXCEPT ![w] = Merge!Idle]
    BY DEF Merge!Crash
  <1>2. DOMAIN Merge!Idle = LoopFields /\ Merge!Idle.at \notin {"store", "complete"}
    BY SMTT(40) DEF Merge!Idle, LoopFields
  <1>3. cRuns' \in Seq(MergeRun)
    BY <1>1 DEF MergeInv, MergeTypes
  <1>4. LoopTo(w, Merge!Idle)
    BY <1>1, <1>2 DEF LoopTo
  <1>. QED BY <1>1, <1>2, <1>3, <1>4, NoClaim, IdleKeepsMerge

\* CompletedNamesItsResult: whatever workers execute a run, and whatever fails or is
\* stored meanwhile, a completed run names a row that consolidates exactly its sources.
THEOREM CompletedRunsNameTheirResult == Merge!Spec => []CompletedNamesItsResult
  <1>1. Merge!Init => MergeInv
    BY InitMerge
  <1>2. MergeInv /\ [Merge!Next]_(Merge!vars) => MergeInv'
    <2>. SUFFICES ASSUME MergeInv, [Merge!Next]_(Merge!vars) PROVE MergeInv'
      OBVIOUS
    <2>1. CASE UNCHANGED Merge!vars
      <3>1. rows' = rows /\ merged' = merged /\ cRuns' = cRuns /\ loop' = loop
        BY <2>1 DEF Merge!vars
      <3>2. MergeTypes'
        BY <3>1 DEF MergeInv, MergeTypes
      <3>. QED BY <3>1, <3>2, RowsStand, MergeGrows
    <2>. QED BY <2>1, ClientKeepsMerge, TriggerKeepsMerge, ListKeepsMerge, RetrieveKeepsMerge,
                StoreKeepsMerge, EndKeepsMerge, CrashKeepsMerge DEF Merge!Next, Merge!Tick
  <1>3. MergeInv => CompletedNamesItsResult
    BY DEF MergeInv, CompletedNamesItsResult, Merge!CompletedNamesItsResult, Consolidates, Merges
  <1>. QED BY <1>1, <1>2, <1>3, PTL DEF Merge!Spec

(***************************************************************************)
(* Extraction.                                                             *)
(***************************************************************************)
\* A row of the path: its extraction record and whether it is current.
VersionRow(r, rec, open) == r = [rec |-> rec, open |-> open]
OkOrNot == [status : Extract!Statuses, id : Nat]
VersionRows == [rec : OkOrNot, open : BOOLEAN]

CallFields == {"at", "force", "id", "seen", "status", "run"}

ExtractTypes ==
    /\ xRows \in Seq(VersionRows)
    /\ xReplica \in Seq(VersionRows)
    /\ xCall = [c \in Pair |-> xCall[c]]
    /\ \A c \in Pair : DOMAIN xCall[c] = CallFields /\ xCall[c].id \in Nat /\ xCall[c].status \in Extract!Statuses
    /\ mentions = [i \in 1..ExtractRows |-> mentions[i]]

\* An ok record names a memory whose ok record was merged.
RecordIsTrue(rec) == rec.status = "ok" => \E m \in xMerged : m.id = rec.id

\* What a call is about to write: no ok record where it failed, and only entities
\* of an extraction whose record was merged.
CallIsTrue(c) ==
    /\ c.at = "failure" => c.status # "ok"
    /\ c.at = "sync" => [run |-> c.run, id |-> c.id] \in xMerged

ExtractInv ==
    /\ ExtractTypes
    /\ \A i \in DOMAIN xRows : RecordIsTrue(xRows[i].rec)
    /\ \A c \in Pair : CallIsTrue(xCall[c])
    /\ Extract!ClaimsRestOnRecords

\* The parts of a row.
LEMMA RowParts ==
    ASSUME NEW r, NEW rec, NEW open, VersionRow(r, rec, open)
    PROVE  r.rec = rec /\ r.open = open
  BY SMTT(40) DEF VersionRow

\* A row has a record and a flag.
LEMMA RowPicked ==
    ASSUME NEW s \in Seq(VersionRows), NEW i \in DOMAIN s
    PROVE  /\ s[i] \in VersionRows
           /\ \E rec \in OkOrNot, open \in BOOLEAN : VersionRow(s[i], rec, open) /\ s[i].rec = rec /\ s[i].open = open
  <1>1. s[i] \in VersionRows
    BY SMTT(40)
  <1>2. PICK rec \in OkOrNot, open \in BOOLEAN : VersionRow(s[i], rec, open)
    BY SMTT(40), <1>1 DEF VersionRows, VersionRow
  <1>3. s[i].rec = rec /\ s[i].open = open
    BY <1>2, RowParts
  <1>. QED BY <1>1, <1>2, <1>3

\* Setting the flag keeps the record.
LEMMA RowFlagged ==
    ASSUME NEW r, NEW rec, NEW open, NEW b, VersionRow(r, rec, open)
    PROVE  VersionRow([r EXCEPT !.open = b], rec, b)
  BY SMTT(40) DEF VersionRow

\* Setting the record keeps the flag.
LEMMA RowRecorded ==
    ASSUME NEW r, NEW rec, NEW open, NEW x, VersionRow(r, rec, open)
    PROVE  VersionRow([r EXCEPT !.rec = x], x, open)
  BY SMTT(40) DEF VersionRow

\* A function on 1..n is a sequence.
LEMMA RowsAreSeq ==
    ASSUME NEW n \in Nat, NEW f \in [1..n -> VersionRows]
    PROVE  f \in Seq(VersionRows) /\ DOMAIN f = 1..n
  BY SMTT(40)

\* The sequence t is s with e at its end.
Appends(t, s, e) == t = Append(s, e)

\* Appending a row keeps the others.
LEMMA RowAppended ==
    ASSUME NEW s \in Seq(VersionRows), NEW e \in VersionRows, NEW t, Appends(t, s, e)
    PROVE  /\ t \in Seq(VersionRows)
           /\ \A i \in DOMAIN t : i \in DOMAIN s \/ t[i] = e
           /\ \A i \in DOMAIN s : i \in DOMAIN t /\ t[i] = s[i]
  <1>1. t \in Seq(VersionRows) /\ DOMAIN t = 1..(Len(s) + 1) /\ DOMAIN s = 1..Len(s) /\ Len(s) \in Nat
    BY SMTT(40) DEF Appends
  <1>2. \A i \in DOMAIN t : i \in DOMAIN s \/ t[i] = e
    BY SMTT(40) DEF Appends
  <1>3. \A i \in DOMAIN s : i \in DOMAIN t /\ t[i] = s[i]
    BY SMTT(40) DEF Appends
  <1>. QED BY <1>1, <1>2, <1>3

\* Closing rows keeps their records, and leaves a closed row as it is.
LEMMA ClosedRows ==
    ASSUME NEW s \in Seq(VersionRows), NEW t, t = Extract!Closed(s)
    PROVE  /\ t \in Seq(VersionRows) /\ DOMAIN t = DOMAIN s /\ Len(t) = Len(s)
           /\ \A i \in DOMAIN s : t[i].rec = s[i].rec /\ (~s[i].open => t[i] = s[i])
  <1>1. PICK n \in Nat : n = Len(s) /\ DOMAIN s = 1..n
    BY SMTT(40)
  <1>2. t = [i \in 1..n |-> t[i]] /\ \A i \in 1..n : t[i] = [s[i] EXCEPT !.open = FALSE]
    BY <1>1 DEF Extract!Closed
  <1>3. ASSUME NEW i \in 1..n PROVE t[i] \in VersionRows /\ t[i].rec = s[i].rec /\ (~s[i].open => t[i] = s[i])
    <2>1. PICK rec \in OkOrNot, open \in BOOLEAN : VersionRow(s[i], rec, open) /\ s[i].rec = rec /\ s[i].open = open
      BY <1>1, RowPicked
    <2>2. VersionRow(t[i], rec, FALSE)
      <3>1. t[i] = [s[i] EXCEPT !.open = FALSE]
        BY <1>2
      <3>2. VersionRow([s[i] EXCEPT !.open = FALSE], rec, FALSE)
        BY <2>1, RowFlagged
      <3>. QED BY <3>1, <3>2
    <2>3. t[i].rec = rec /\ t[i] \in VersionRows
      <3>1. [rec |-> rec, open |-> FALSE] \in VersionRows
        BY DEF VersionRows
      <3>2. t[i].rec = rec
        BY <2>2, RowParts
      <3>. QED BY <2>2, <3>1, <3>2 DEF VersionRow
    <2>4. ~open => open = FALSE
      OBVIOUS
    <2>5. open = FALSE => t[i] = s[i]
      BY <2>1, <2>2 DEF VersionRow
    <2>. QED BY <2>1, <2>3, <2>4, <2>5
  <1>4. t \in [1..n -> VersionRows]
    BY <1>2, <1>3
  <1>5. t \in Seq(VersionRows) /\ Len(t) = n /\ DOMAIN t = 1..n
    BY SMTT(40), <1>4
  <1>. QED BY <1>1, <1>3, <1>5

\* A step that adds no claim of a call, keeps what was merged and changes no mention.
LEMMA RowsOnly ==
    ASSUME ExtractInv, xRows' \in Seq(VersionRows), xReplica' \in Seq(VersionRows),
           UNCHANGED <<xCall, mentions, xMerged, xSkipped>>,
           \A i \in DOMAIN xRows' : RecordIsTrue(xRows[i].rec)'
    PROVE  ExtractInv'
  <1>1. ExtractTypes'
    BY DEF ExtractInv, ExtractTypes
  <1>2. \A c \in Pair : CallIsTrue(xCall[c])'
    BY DEF ExtractInv, CallIsTrue
  <1>3. Extract!ClaimsRestOnRecords'
    BY DEF ExtractInv, Extract!ClaimsRestOnRecords, Extract!MentionsWereStored, Extract!SkippedWasExtracted
  <1>. QED BY <1>1, <1>2, <1>3 DEF ExtractInv

\* With the same history a record stays true.
LEMMA RecordStays ==
    ASSUME NEW r1, NEW r2, r1 = r2, RecordIsTrue(r1), \A m \in xMerged : m \in xMerged'
    PROVE  RecordIsTrue(r2)'
  BY DEF RecordIsTrue

\* Store closes the current row and inserts one, with no record or the one a rollback copies.
LEMMA StoreKeepsExtract ==
    ASSUME ExtractInv, NEW rec \in {Extract!NoRecord} \cup {xRows[i].rec : i \in Extract!Ids}, Extract!Store(rec)
    PROVE  ExtractInv' /\ Extract!SupersededStays
  <1>1. xRows \in Seq(VersionRows) /\ Extract!Ids = DOMAIN xRows
    <2>1. xRows \in Seq(VersionRows)
      BY DEF ExtractInv, ExtractTypes
    <2>2. 1..Len(xRows) = DOMAIN xRows
      BY SMTT(40), <2>1
    <2>. QED BY <2>1, <2>2 DEF Extract!Ids
  <1>2. rec \in OkOrNot /\ RecordIsTrue(rec)
    <2>1. CASE rec = Extract!NoRecord
      <3>1. rec \in OkOrNot /\ rec.status # "ok"
        BY SMTT(40), <2>1 DEF Extract!NoRecord, OkOrNot, Extract!Statuses
      <3>. QED BY <3>1 DEF RecordIsTrue
    <2>2. CASE rec # Extract!NoRecord
      <3>1. PICK i \in DOMAIN xRows : rec = xRows[i].rec
        BY <1>1, <2>2
      <3>. QED BY <1>1, <3>1, RowPicked DEF ExtractInv
    <2>. QED BY <2>1, <2>2
  <1>3. PICK t, e : t = Extract!Closed(xRows) /\ e = [rec |-> rec, open |-> TRUE] /\ xRows' = Append(t, e)
    BY DEF Extract!Store
  <1>4. /\ t \in Seq(VersionRows) /\ DOMAIN t = DOMAIN xRows
        /\ \A i \in DOMAIN xRows : t[i].rec = xRows[i].rec /\ (~xRows[i].open => t[i] = xRows[i])
    BY <1>1, <1>3, ClosedRows
  <1>5. e \in VersionRows /\ e.rec = rec
    <2>1. e \in VersionRows /\ VersionRow(e, rec, TRUE)
      BY <1>2, <1>3 DEF VersionRow, VersionRows
    <2>. QED BY <2>1, RowParts
  <1>6. /\ xRows' \in Seq(VersionRows)
        /\ \A i \in DOMAIN xRows' : i \in DOMAIN t \/ xRows'[i] = e
        /\ \A i \in DOMAIN t : i \in DOMAIN xRows' /\ xRows'[i] = t[i]
    <2>1. Appends(xRows', t, e)
      BY <1>3 DEF Appends
    <2>. QED BY <1>4, <1>5, <2>1, RowAppended
  <1>7. UNCHANGED <<xReplica, xCall, mentions, xMerged, xSkipped>>
    BY DEF Extract!Store
  <1>8. ASSUME NEW i \in DOMAIN xRows' PROVE RecordIsTrue(xRows[i].rec)'
    <2>1. PICK q : q = xRows'[i].rec
      OBVIOUS
    <2>2. RecordIsTrue(q)
      BY <1>2, <1>4, <1>5, <1>6, <2>1 DEF ExtractInv
    <2>. QED BY <1>7, <2>1, <2>2, RecordStays
  <1>9. xReplica' \in Seq(VersionRows)
    BY <1>7 DEF ExtractInv, ExtractTypes
  <1>10. Extract!SupersededStays
    BY <1>1, <1>4, <1>6 DEF Extract!SupersededStays
  <1>. QED BY <1>6, <1>7, <1>8, <1>9, <1>10, RowsOnly

\* Ids are the positions of the rows.
LEMMA IdsAreRows ==
    ASSUME ExtractInv
    PROVE  xRows \in Seq(VersionRows) /\ xReplica \in Seq(VersionRows) /\ Extract!Ids = DOMAIN xRows
  <1>1. xRows \in Seq(VersionRows) /\ xReplica \in Seq(VersionRows)
    BY DEF ExtractInv, ExtractTypes
  <1>2. 1..Len(xRows) = DOMAIN xRows
    BY SMTT(40), <1>1
  <1>. QED BY <1>1, <1>2 DEF Extract!Ids

\* An expired row is closed and keeps its record; the read pool catches up.
LEMMA ExpireKeepsExtract ==
    ASSUME ExtractInv, Extract!Expire \/ Extract!Replicate
    PROVE  ExtractInv' /\ Extract!SupersededStays
  <1>1. xRows \in Seq(VersionRows) /\ xReplica \in Seq(VersionRows) /\ Extract!Ids = DOMAIN xRows
    BY IdsAreRows
  <1>2. UNCHANGED <<xCall, mentions, xMerged, xSkipped>>
    BY DEF Extract!Expire, Extract!Replicate
  <1>3. /\ xRows' \in Seq(VersionRows) /\ DOMAIN xRows' = DOMAIN xRows
        /\ \A i \in DOMAIN xRows : xRows'[i].rec = xRows[i].rec /\ (~xRows[i].open => xRows'[i] = xRows[i])
    <2>1. CASE Extract!Expire
      <3>1. PICK t : t = Extract!Closed(xRows)
        OBVIOUS
      <3>2. /\ t \in Seq(VersionRows) /\ DOMAIN t = DOMAIN xRows
            /\ \A i \in DOMAIN xRows : t[i].rec = xRows[i].rec /\ (~xRows[i].open => t[i] = xRows[i])
        BY <1>1, <3>1, ClosedRows
      <3>3. xRows' = t
        BY <2>1, <3>1 DEF Extract!Expire
      <3>. QED BY <3>2, <3>3
    <2>2. CASE Extract!Replicate
      BY <1>1, <2>2 DEF Extract!Replicate
    <2>. QED BY <2>1, <2>2
  <1>4. xReplica' \in Seq(VersionRows)
    BY <1>1 DEF Extract!Expire, Extract!Replicate
  <1>5. ASSUME NEW i \in DOMAIN xRows' PROVE RecordIsTrue(xRows[i].rec)'
    <2>1. PICK q : q = xRows'[i].rec
      OBVIOUS
    <2>2. RecordIsTrue(q)
      BY <1>3, <2>1 DEF ExtractInv
    <2>. QED BY <1>2, <2>1, <2>2, RecordStays
  <1>6. Extract!SupersededStays
    BY <1>1, <1>3 DEF Extract!SupersededStays
  <1>. QED BY <1>2, <1>3, <1>4, <1>5, <1>6, RowsOnly

\* The call c moves to k.
CallTo(c, k) ==
    /\ xCall' = [xCall EXCEPT ![c] = k]
    /\ DOMAIN k = CallFields /\ k.id \in Nat /\ k.status \in Extract!Statuses

\* A step of one call keeps the invariant if what the call then claims is true.
LEMMA CallMoves ==
    ASSUME ExtractInv, NEW c \in Pair, NEW k, CallTo(c, k), CallIsTrue(k)',
           xRows' \in Seq(VersionRows), xReplica' = xReplica, \A m \in xMerged : m \in xMerged',
           mentions' = [i \in 1..ExtractRows |-> mentions'[i]],
           \A i \in DOMAIN xRows' : RecordIsTrue(xRows[i].rec)',
           Extract!ClaimsRestOnRecords'
    PROVE  ExtractInv'
  <1>1. /\ xCall' = [d \in Pair |-> xCall'[d]] /\ xCall'[c] = k
        /\ \A d \in Pair : d # c => xCall'[d] = xCall[d]
    BY DEF ExtractInv, ExtractTypes, CallTo
  <1>2. ASSUME NEW d \in Pair PROVE CallIsTrue(xCall[d])'
    <2>1. CASE d = c
      BY <1>1, <2>1 DEF CallIsTrue
    <2>2. CASE d # c
      <3>1. CallIsTrue(xCall[d]) /\ xCall'[d] = xCall[d]
        BY <1>1, <2>2 DEF ExtractInv
      <3>. QED BY <3>1 DEF CallIsTrue
    <2>. QED BY <2>1, <2>2
  <1>3. ExtractTypes'
    BY <1>1 DEF ExtractInv, ExtractTypes, CallTo
  <1>. QED BY <1>2, <1>3 DEF ExtractInv

\* A call that writes nothing.
LEMMA CallWaits ==
    ASSUME ExtractInv, NEW c \in Pair, NEW k, CallTo(c, k),
           k.at = "failure" => k.status # "ok", k.at # "sync",
           UNCHANGED <<xRows, xReplica, mentions, xMerged>>,
           \A i \in xSkipped' : i \in xSkipped \/ \E m \in xMerged : m.id = i
    PROVE  ExtractInv'
  <1>1. CallIsTrue(k)'
    BY DEF CallIsTrue
  <1>2. xRows' \in Seq(VersionRows) /\ mentions' = [i \in 1..ExtractRows |-> mentions'[i]]
    BY DEF ExtractInv, ExtractTypes
  <1>3. ASSUME NEW i \in DOMAIN xRows' PROVE RecordIsTrue(xRows[i].rec)'
    BY DEF ExtractInv, RecordIsTrue
  <1>4. Extract!ClaimsRestOnRecords'
    BY DEF ExtractInv, Extract!ClaimsRestOnRecords, Extract!MentionsWereStored, Extract!SkippedWasExtracted
  <1>. QED BY <1>1, <1>2, <1>3, <1>4, CallMoves

\* Begin leaves the call waiting for the LLM.
LEMMA BeginWaits ==
    ASSUME ExtractInv, NEW c \in Pair, NEW force, NEW id \in Nat, NEW rec, Extract!Begin(c, force, id, rec)
    PROVE  \E k : CallTo(c, k) /\ k.at = "llm"
  <1>1. PICK k : k = [at |-> "llm", force |-> force, id |-> id, seen |-> rec, status |-> "none", run |-> xRuns + 1]
    OBVIOUS
  <1>2. DOMAIN k = CallFields /\ k.id = id /\ k.status = "none" /\ k.at = "llm"
    BY SMTT(40), <1>1 DEF CallFields
  <1>3. "none" \in Extract!Statuses
    BY DEF Extract!Statuses
  <1>. QED BY <1>1, <1>2, <1>3 DEF CallTo, Extract!Begin

\* The endpoint and the worker begin an extraction, or the worker drops the event
\* of a version that has an ok record of its own.
LEMMA BeginKeepsExtract ==
    ASSUME ExtractInv, NEW c \in Pair, NEW id \in Extract!Ids,
           Extract!ExtractMemory(c, id) \/ Extract!ExtractPath(c, id)
    PROVE  ExtractInv' /\ Extract!SupersededStays
  <1>1. xRows \in Seq(VersionRows) /\ Extract!Ids = DOMAIN xRows
    BY IdsAreRows
  <1>2. id \in Nat
    BY SMTT(40), <1>1
  <1>3. UNCHANGED <<xRows, xReplica, mentions, xMerged>>
    BY DEF Extract!ExtractMemory, Extract!ExtractPath
  <1>4. Extract!SupersededStays
    BY <1>3 DEF Extract!SupersededStays
  <1>5. ASSUME NEW force, NEW rec, Extract!Begin(c, force, id, rec), xSkipped' = xSkipped
        PROVE  ExtractInv'
    <2>1. PICK k : CallTo(c, k) /\ k.at = "llm"
      BY <1>2, <1>5, BeginWaits
    <2>2. k.at # "failure" /\ k.at # "sync"
      BY SMTT(40), <2>1
    <2>. QED BY <1>3, <1>5, <2>1, <2>2, CallWaits
  <1>6. ASSUME Extract!existingOkExtraction(xRows[id].rec, id), xSkipped' = xSkipped \cup {id}, xCall' = xCall
        PROVE  ExtractInv'
    <2>1. \E m \in xMerged : m.id = id
      BY <1>1, <1>6 DEF ExtractInv, RecordIsTrue, Extract!existingOkExtraction
    <2>2. ExtractTypes'
      BY <1>3, <1>6 DEF ExtractInv, ExtractTypes
    <2>3. \A d \in Pair : CallIsTrue(xCall[d])'
      BY <1>3, <1>6 DEF ExtractInv, CallIsTrue
    <2>4. \A i \in DOMAIN xRows' : RecordIsTrue(xRows[i].rec)'
      BY <1>3 DEF ExtractInv, RecordIsTrue
    <2>5. Extract!ClaimsRestOnRecords'
      BY <1>3, <1>6, <2>1
      DEF ExtractInv, Extract!ClaimsRestOnRecords, Extract!MentionsWereStored, Extract!SkippedWasExtracted
    <2>. QED BY <2>2, <2>3, <2>4, <2>5 DEF ExtractInv
  <1>7. ExtractInv'
    BY <1>5, <1>6 DEF Extract!ExtractMemory, Extract!ExtractPath
  <1>. QED BY <1>4, <1>7

\* The answer of the LLM, and a call that gives up.
LEMMA AnswerKeepsExtract ==
    ASSUME ExtractInv, NEW c \in Pair, Extract!Complete(c) \/ Extract!CallFails(c)
    PROVE  ExtractInv' /\ Extract!SupersededStays
  <1>1. UNCHANGED <<xRows, xReplica, mentions, xMerged, xSkipped>>
    BY DEF Extract!Complete, Extract!CallFails
  <1>2. Extract!SupersededStays
    BY <1>1 DEF Extract!SupersededStays
  <1>3. PICK k0 : k0 = xCall[c] /\ DOMAIN k0 = CallFields /\ k0.id \in Nat
    BY DEF ExtractInv, ExtractTypes
  <1>4. \E k : CallTo(c, k) /\ (k.at = "failure" => k.status # "ok") /\ k.at # "sync"
    <2>1. CASE Extract!CallFails(c)
      <3>1. xCall' = [xCall EXCEPT ![c] = Extract!Idle]
        BY <2>1 DEF Extract!CallFails
      <3>2. /\ DOMAIN Extract!Idle = CallFields /\ Extract!Idle.id \in Nat
            /\ Extract!Idle.status \in Extract!Statuses /\ Extract!Idle.at = "idle"
        BY SMTT(40) DEF Extract!Idle, CallFields, Extract!Statuses
      <3>3. "idle" # "failure" /\ "idle" # "sync"
        BY SMTT(40)
      <3>4. CallTo(c, Extract!Idle)
        BY <3>1, <3>2 DEF CallTo
      <3>. QED BY <3>2, <3>3, <3>4
    <2>2. CASE Extract!Complete(c)
      <3>1. PICK s \in {"ok", "llm_failed", "validation_failed"} :
                xCall' = [xCall EXCEPT ![c] = [xCall[c] EXCEPT !.status = s, !.at = IF s = "ok" THEN "persist" ELSE "failure"]]
        BY <2>2 DEF Extract!Complete
      <3>2. PICK a : a = IF s = "ok" THEN "persist" ELSE "failure"
        OBVIOUS
      <3>3. PICK k : k = [k0 EXCEPT !.status = s, !.at = a]
        OBVIOUS
      <3>4. DOMAIN k = CallFields /\ k.id = k0.id /\ k.status = s /\ k.at = a
        BY SMTT(40), <1>3, <3>3 DEF CallFields
      <3>5. a # "sync" /\ (a = "failure" => s # "ok") /\ s \in Extract!Statuses
        BY SMTT(40), <3>1, <3>2 DEF Extract!Statuses
      <3>6. CallTo(c, k)
        BY <1>3, <3>1, <3>2, <3>3, <3>4, <3>5 DEF CallTo
      <3>. QED BY <3>4, <3>5, <3>6
    <2>. QED BY <2>1, <2>2
  <1>. QED BY <1>1, <1>2, <1>4, CallWaits

\* The record x goes into the current row: every other row stays as it is.
LEMMA RecordMerged ==
    ASSUME ExtractInv, NEW x \in OkOrNot,
           xRows' = [i \in Extract!Ids |-> IF xRows[i].open THEN [xRows[i] EXCEPT !.rec = x] ELSE xRows[i]]
    PROVE  /\ xRows' \in Seq(VersionRows) /\ DOMAIN xRows' = DOMAIN xRows
           /\ \A i \in DOMAIN xRows : xRows'[i] = xRows[i] \/ (xRows[i].open /\ xRows'[i].rec = x)
  <1>1. xRows \in Seq(VersionRows) /\ Extract!Ids = DOMAIN xRows
    BY IdsAreRows
  <1>2. PICK n \in Nat : DOMAIN xRows = 1..n
    BY SMTT(40), <1>1
  <1>3. /\ xRows' = [i \in 1..n |-> xRows'[i]]
        /\ \A i \in 1..n : xRows'[i] = IF xRows[i].open THEN [xRows[i] EXCEPT !.rec = x] ELSE xRows[i]
    BY <1>1, <1>2
  <1>4. ASSUME NEW i \in 1..n
        PROVE  xRows'[i] \in VersionRows /\ (xRows'[i] = xRows[i] \/ (xRows[i].open /\ xRows'[i].rec = x))
    <2>1. PICK rec \in OkOrNot, open \in BOOLEAN : VersionRow(xRows[i], rec, open)
      BY <1>1, <1>2, RowPicked
    <2>2. CASE ~xRows[i].open
      BY <1>1, <1>2, <1>3, <2>2, RowPicked
    <2>3. CASE xRows[i].open
      <3>1. xRows'[i] = [xRows[i] EXCEPT !.rec = x]
        BY <1>3, <2>3
      <3>2. VersionRow([xRows[i] EXCEPT !.rec = x], x, open)
        BY <2>1, RowRecorded
      <3>3. VersionRow(xRows'[i], x, open) /\ xRows'[i].rec = x
        BY <3>1, <3>2, RowParts
      <3>4. [rec |-> x, open |-> open] \in VersionRows
        BY DEF VersionRows
      <3>. QED BY <2>3, <3>3, <3>4 DEF VersionRow
    <2>. QED BY <2>2, <2>3
  <1>5. xRows' \in [1..n -> VersionRows]
    BY <1>3, <1>4
  <1>6. xRows' \in Seq(VersionRows) /\ DOMAIN xRows' = 1..n
    BY <1>5, RowsAreSeq
  <1>. QED BY <1>2, <1>4, <1>6

\* What an idle call claims.
LEMMA IdleCall ==
    ASSUME NEW c, xCall' = [xCall EXCEPT ![c] = Extract!Idle]
    PROVE  CallTo(c, Extract!Idle) /\ CallIsTrue(Extract!Idle)'
  <1>1. /\ DOMAIN Extract!Idle = CallFields /\ Extract!Idle.id \in Nat
        /\ Extract!Idle.status \in Extract!Statuses /\ Extract!Idle.at = "idle"
    BY SMTT(40) DEF Extract!Idle, CallFields, Extract!Statuses
  <1>2. "idle" # "failure" /\ "idle" # "sync"
    BY SMTT(40)
  <1>. QED BY <1>1, <1>2 DEF CallTo, CallIsTrue, Extract!Idle

\* What a call writes is a record.
LEMMA CallRecord ==
    ASSUME ExtractInv, NEW c \in Pair
    PROVE  \E x \in OkOrNot : /\ x = [status |-> xCall[c].status, id |-> xCall[c].id]
                              /\ x.status = xCall[c].status /\ x.id = xCall[c].id
  <1>1. PICK s \in Extract!Statuses, i \in Nat : s = xCall[c].status /\ i = xCall[c].id
    BY DEF ExtractInv, ExtractTypes
  <1>2. PICK x : x = [status |-> s, id |-> i]
    OBVIOUS
  <1>3. x \in OkOrNot /\ x.status = s /\ x.id = i
    BY SMTT(40), <1>2 DEF OkOrNot
  <1>. QED BY <1>1, <1>2, <1>3

\* A failed extraction writes its record into the current row, or nothing.
LEMMA FailureKeepsExtract ==
    ASSUME ExtractInv, NEW c \in Pair, Extract!PersistFailure(c)
    PROVE  ExtractInv' /\ Extract!SupersededStays
  <1>1. xRows \in Seq(VersionRows) /\ Extract!Ids = DOMAIN xRows
    BY IdsAreRows
  <1>2. UNCHANGED <<xReplica, mentions, xMerged, xSkipped>> /\ xCall' = [xCall EXCEPT ![c] = Extract!Idle]
    BY DEF Extract!PersistFailure
  <1>3. PICK x \in OkOrNot : /\ x = [status |-> xCall[c].status, id |-> xCall[c].id]
                             /\ x.status = xCall[c].status /\ x.id = xCall[c].id
    BY CallRecord
  <1>4. RecordIsTrue(x)
    BY <1>3 DEF ExtractInv, CallIsTrue, RecordIsTrue, Extract!PersistFailure
  <1>5. /\ xRows' \in Seq(VersionRows) /\ DOMAIN xRows' = DOMAIN xRows
        /\ \A i \in DOMAIN xRows : xRows'[i] = xRows[i] \/ (xRows[i].open /\ xRows'[i].rec = x)
    <2>1. CASE xRows' = xRows
      BY <1>1, <2>1
    <2>2. CASE Extract!MergeCurrentMetadata(c)
      <3>1. xRows' = [i \in Extract!Ids |-> IF xRows[i].open THEN [xRows[i] EXCEPT !.rec = x] ELSE xRows[i]]
        BY <1>3, <2>2 DEF Extract!MergeCurrentMetadata
      <3>. QED BY <3>1, RecordMerged
    <2>. QED BY <2>1, <2>2 DEF Extract!PersistFailure
  <1>6. ASSUME NEW i \in DOMAIN xRows' PROVE RecordIsTrue(xRows[i].rec)'
    <2>1. PICK q : q = xRows'[i].rec
      OBVIOUS
    <2>2. RecordIsTrue(q)
      BY <1>4, <1>5, <2>1 DEF ExtractInv
    <2>. QED BY <1>2, <2>1, <2>2, RecordStays
  <1>7. Extract!SupersededStays
    BY <1>1, <1>5 DEF Extract!SupersededStays
  <1>8. Extract!ClaimsRestOnRecords'
    BY <1>2 DEF ExtractInv, Extract!ClaimsRestOnRecords, Extract!MentionsWereStored, Extract!SkippedWasExtracted
  <1>9. mentions' = [i \in 1..ExtractRows |-> mentions'[i]]
    BY <1>2 DEF ExtractInv, ExtractTypes
  <1>10. CallTo(c, Extract!Idle) /\ CallIsTrue(Extract!Idle)'
    BY <1>2, IdleCall
  <1>11. ExtractInv'
    BY <1>2, <1>5, <1>6, <1>8, <1>9, <1>10, CallMoves
  <1>. QED BY <1>7, <1>11

\* A successful extraction writes an ok record, which names the memory it read.
LEMMA OkKeepsExtract ==
    ASSUME ExtractInv, NEW c \in Pair, Extract!PersistOk(c)
    PROVE  ExtractInv' /\ Extract!SupersededStays
  <1>1. xRows \in Seq(VersionRows) /\ Extract!Ids = DOMAIN xRows
    BY IdsAreRows
  <1>2. PICK k0 : k0 = xCall[c] /\ DOMAIN k0 = CallFields /\ k0.id \in Nat /\ k0.status \in Extract!Statuses
    BY DEF ExtractInv, ExtractTypes
  <1>3. PICK e : e = [run |-> k0.run, id |-> k0.id]
    OBVIOUS
  <1>4. /\ UNCHANGED <<xReplica, mentions, xSkipped>>
        /\ xCall' = [xCall EXCEPT ![c] = [k0 EXCEPT !.at = "sync"]]
        /\ xMerged' = xMerged \cup {e}
    BY <1>2, <1>3 DEF Extract!PersistOk
  <1>5. e.id = k0.id
    BY SMTT(40), <1>3
  <1>6. PICK x \in OkOrNot : /\ x = [status |-> xCall[c].status, id |-> xCall[c].id]
                             /\ x.status = xCall[c].status /\ x.id = xCall[c].id
    BY CallRecord
  <1>7. RecordIsTrue(x)'
    BY <1>2, <1>4, <1>5, <1>6 DEF RecordIsTrue
  <1>8. /\ xRows' \in Seq(VersionRows) /\ DOMAIN xRows' = DOMAIN xRows
        /\ \A i \in DOMAIN xRows : xRows'[i] = xRows[i] \/ (xRows[i].open /\ xRows'[i].rec = x)
    <2>1. xRows' = [i \in Extract!Ids |-> IF xRows[i].open THEN [xRows[i] EXCEPT !.rec = x] ELSE xRows[i]]
      BY <1>6 DEF Extract!PersistOk, Extract!MergeCurrentMetadata
    <2>. QED BY <2>1, RecordMerged
  <1>9. ASSUME NEW i \in DOMAIN xRows' PROVE RecordIsTrue(xRows[i].rec)'
    <2>1. CASE xRows'[i].rec = x
      BY <1>7, <2>1 DEF RecordIsTrue
    <2>2. CASE xRows'[i] = xRows[i]
      BY <1>4, <1>8, <2>2, RecordStays DEF ExtractInv
    <2>. QED BY <1>8, <2>1, <2>2
  <1>10. Extract!SupersededStays
    BY <1>1, <1>8 DEF Extract!SupersededStays
  <1>11. Extract!ClaimsRestOnRecords'
    BY <1>4 DEF ExtractInv, Extract!ClaimsRestOnRecords, Extract!MentionsWereStored, Extract!SkippedWasExtracted
  <1>12. mentions' = [i \in 1..ExtractRows |-> mentions'[i]]
    BY <1>4 DEF ExtractInv, ExtractTypes
  <1>13. PICK k : k = [k0 EXCEPT !.at = "sync"]
    OBVIOUS
  <1>14. DOMAIN k = CallFields /\ k.id = k0.id /\ k.status = k0.status /\ k.run = k0.run /\ k.at = "sync"
    BY SMTT(40), <1>2, <1>13 DEF CallFields
  <1>15. CallTo(c, k)
    BY <1>2, <1>4, <1>13, <1>14 DEF CallTo
  <1>16. CallIsTrue(k)'
    <2>1. "sync" # "failure"
      BY SMTT(40)
    <2>. QED BY <1>3, <1>4, <1>14, <2>1 DEF CallIsTrue
  <1>17. ExtractInv'
    BY <1>4, <1>8, <1>9, <1>11, <1>12, <1>15, <1>16, CallMoves
  <1>. QED BY <1>10, <1>17

\* The graph shows the entities of an extraction whose record was merged.
LEMMA SyncKeepsExtract ==
    ASSUME ExtractInv, NEW c \in Pair, Extract!SyncEntityGraph(c)
    PROVE  ExtractInv' /\ Extract!SupersededStays
  <1>1. /\ UNCHANGED <<xRows, xReplica, xMerged, xSkipped>> /\ xCall' = [xCall EXCEPT ![c] = Extract!Idle]
        /\ mentions' = [mentions EXCEPT ![xCall[c].id] = xCall[c].run]
        /\ [run |-> xCall[c].run, id |-> xCall[c].id] \in xMerged
    BY DEF ExtractInv, CallIsTrue, Extract!SyncEntityGraph
  <1>2. Extract!SupersededStays
    BY <1>1 DEF Extract!SupersededStays
  <1>3. /\ mentions' = [i \in 1..ExtractRows |-> mentions'[i]]
        /\ \A i \in 1..ExtractRows : mentions'[i] = IF i = xCall[c].id THEN xCall[c].run ELSE mentions[i]
    BY <1>1 DEF ExtractInv, ExtractTypes
  <1>4. ASSUME NEW i \in 1..ExtractRows, mentions'[i] # 0 PROVE [run |-> mentions'[i], id |-> i] \in xMerged'
    BY <1>1, <1>3, <1>4 DEF ExtractInv, Extract!ClaimsRestOnRecords, Extract!MentionsWereStored
  <1>5. Extract!ClaimsRestOnRecords'
    BY <1>1, <1>4 DEF ExtractInv, Extract!ClaimsRestOnRecords, Extract!MentionsWereStored, Extract!SkippedWasExtracted
  <1>6. CallTo(c, Extract!Idle) /\ CallIsTrue(Extract!Idle)'
    BY <1>1, IdleCall
  <1>7. \A i \in DOMAIN xRows' : RecordIsTrue(xRows[i].rec)'
    BY <1>1 DEF ExtractInv, RecordIsTrue
  <1>8. xRows' \in Seq(VersionRows)
    BY <1>1 DEF ExtractInv, ExtractTypes
  <1>9. ExtractInv'
    BY <1>1, <1>3, <1>5, <1>6, <1>7, <1>8, CallMoves
  <1>. QED BY <1>2, <1>9

\* Initially nothing is stored and nothing is claimed.
LEMMA InitExtract == Extract!Init => ExtractInv
  <1>. SUFFICES ASSUME Extract!Init PROVE ExtractInv
    OBVIOUS
  <1>1. DOMAIN xRows = {} /\ xRows \in Seq(VersionRows) /\ xReplica \in Seq(VersionRows)
    BY SMTT(40) DEF Extract!Init
  <1>2. /\ xCall = [c \in Pair |-> xCall[c]] /\ \A c \in Pair : xCall[c] = Extract!Idle
        /\ mentions = [i \in 1..ExtractRows |-> mentions[i]] /\ \A i \in 1..ExtractRows : mentions[i] = 0
        /\ xSkipped = {}
    BY DEF Extract!Init
  <1>3. /\ DOMAIN Extract!Idle = CallFields /\ Extract!Idle.id \in Nat
        /\ Extract!Idle.status \in Extract!Statuses /\ Extract!Idle.at # "failure" /\ Extract!Idle.at # "sync"
    BY SMTT(40) DEF Extract!Idle, CallFields, Extract!Statuses
  <1>4. ExtractTypes
    BY <1>1, <1>2, <1>3 DEF ExtractTypes
  <1>5. Extract!ClaimsRestOnRecords
    BY <1>2 DEF Extract!ClaimsRestOnRecords, Extract!MentionsWereStored, Extract!SkippedWasExtracted
  <1>6. \A c \in Pair : CallIsTrue(xCall[c])
    BY <1>2, <1>3 DEF CallIsTrue
  <1>. QED BY <1>1, <1>4, <1>5, <1>6 DEF ExtractInv

\* ExtractionIsSound: mentions and skipped events rest on merged records at every
\* step, and no step changes a superseded row, whatever extractions run at once.
THEOREM ExtractionsAreSound == Extract!Spec => ExtractionIsSound
  <1>1. Extract!Init => ExtractInv
    BY InitExtract
  <1>2. ASSUME ExtractInv, Extract!Next PROVE ExtractInv' /\ Extract!SupersededStays
    BY <1>2, StoreKeepsExtract, ExpireKeepsExtract, BeginKeepsExtract, AnswerKeepsExtract,
       FailureKeepsExtract, OkKeepsExtract, SyncKeepsExtract DEF Extract!Next
  <1>3. ASSUME ExtractInv, UNCHANGED Extract!vars PROVE ExtractInv'
    <2>1. UNCHANGED <<xRows, xReplica, xCall, mentions, xMerged, xSkipped>>
      BY <1>3 DEF Extract!vars
    <2>2. ExtractTypes'
      BY <1>3, <2>1 DEF ExtractInv, ExtractTypes
    <2>3. Extract!ClaimsRestOnRecords'
      BY <1>3, <2>1 DEF ExtractInv, Extract!ClaimsRestOnRecords, Extract!MentionsWereStored, Extract!SkippedWasExtracted
    <2>4. \A c \in Pair : CallIsTrue(xCall[c])'
      BY <1>3, <2>1 DEF ExtractInv, CallIsTrue
    <2>5. \A i \in DOMAIN xRows' : RecordIsTrue(xRows[i].rec)'
      BY <1>3, <2>1 DEF ExtractInv, RecordIsTrue
    <2>. QED BY <2>2, <2>3, <2>4, <2>5 DEF ExtractInv
  <1>4. ExtractInv /\ [Extract!Next]_(Extract!vars) => ExtractInv'
    BY <1>2, <1>3
  <1>5. ExtractInv /\ ExtractInv' /\ [Extract!Next]_(Extract!vars)
            => [Extract!ClaimsRestOnRecords' /\ Extract!SupersededStays]_(Extract!vars)
    BY <1>2 DEF ExtractInv
  <1>6. Extract!Spec => [][Extract!ClaimsRestOnRecords' /\ Extract!SupersededStays]_(Extract!vars)
    BY <1>1, <1>4, <1>5, PTL DEF Extract!Spec
  <1>. QED BY <1>6 DEF ExtractionIsSound, Extract!ExtractionIsSound
=============================================================================

------------------------- MODULE RequestPartsProofs -------------------------
(***************************************************************************)
(* Proofs about what surrounds a request, for any numbers of bucket keys,  *)
(* replicas, callers, edges and reviewers and any limits: recorded usage   *)
(* is conserved, only probes decide a half-open circuit, the review queue  *)
(* is sound, the rate limit admits no more than it should, and a rotation  *)
(* of API keys is seamless.                                                *)
(***************************************************************************)
EXTENDS UsageAggregator, RequestParts, TLAPS

(***************************************************************************)
(* Usage counts.                                                           *)
(***************************************************************************)
USE SMTT(40)

\* A step adds as much to what was recorded and applied unseen as it adds to where
\* the events are.
Balanced(j) ==
    (recorded'[j] - recorded[j]) + (unseen'[j] - unseen[j])
      = (pending'[j] - pending[j]) + (snapshot'[j] - snapshot[j]) + (requeue'[j] - requeue[j])
          + (usage'[j] - usage[j]) + (rejected'[j] - rejected[j])

USE DEF Counts, None, Add, Balanced

\* A bucket the flush still has to write is not also waiting to be merged back:
\* the row loop of Flush settles every bucket once.
SettledOnce == \A k \in Keys : snapshot[k] > 0 => requeue[k] = 0

UsageInv == TypeOK /\ SettledOnce /\ Conservation

\* Initially nothing was recorded and no bucket waits.
LEMMA UsageInit == Init => UsageInv
<1> SUFFICES ASSUME Init PROVE UsageInv
  OBVIOUS
<1>1. {pending, snapshot, requeue, usage, rejected, recorded, unseen} \subseteq Counts
  BY DEF Init
<1>a. faults \in 0..MaxFaults BY UsageAssumption DEF Init
<1>b. /\ stage \in {"idle", "batch", "rows"}
      /\ stopping \in BOOLEAN /\ final \in BOOLEAN /\ stopped \in BOOLEAN
  BY ZenonT(40) DEF Init
<1>c. snapshot = None /\ requeue = None BY DEF Init
<1>2. TypeOK BY <1>1, <1>a, <1>b, <1>c, Zenon DEF TypeOK
<1>3. SettledOnce BY DEF Init, SettledOnce
<1>4. Conservation BY DEF Init, Conservation
<1> QED BY <1>2, <1>3, <1>4, Zenon DEF UsageInv

\* What is added on both sides of a sum keeps it balanced.
LEMMA SumsBalance ==
    ASSUME NEW r \in Int, NEW u \in Int, NEW p \in Int, NEW s \in Int, NEW q \in Int,
           NEW t \in Int, NEW d \in Int,
           NEW r1 \in Int, NEW u1 \in Int, NEW p1 \in Int, NEW s1 \in Int, NEW q1 \in Int,
           NEW t1 \in Int, NEW d1 \in Int,
           r + u = p + s + q + t + d,
           (r1 - r) + (u1 - u) = (p1 - p) + (s1 - s) + (q1 - q) + (t1 - t) + (d1 - d)
    PROVE  r1 + u1 = p1 + s1 + q1 + t1 + d1
OBVIOUS

\* A balanced step keeps Conservation of a key.
LEMMA Balance ==
    ASSUME NEW j \in Keys, TypeOK, TypeOK', Conservation,
           Balanced(j)
    PROVE  recorded'[j] + unseen'[j]
             = pending'[j] + snapshot'[j] + requeue'[j] + usage'[j] + rejected'[j]
<1>1. /\ recorded[j] \in Int /\ unseen[j] \in Int /\ pending[j] \in Int /\ snapshot[j] \in Int
      /\ requeue[j] \in Int /\ usage[j] \in Int /\ rejected[j] \in Int
  BY DEF TypeOK
<1>2. /\ recorded'[j] \in Int /\ unseen'[j] \in Int /\ pending'[j] \in Int /\ snapshot'[j] \in Int
      /\ requeue'[j] \in Int /\ usage'[j] \in Int /\ rejected'[j] \in Int
  BY DEF TypeOK
<1>3. recorded[j] + unseen[j] = pending[j] + snapshot[j] + requeue[j] + usage[j] + rejected[j]
  BY DEF Conservation
<1>4. PICK r \in Int, u \in Int, p \in Int, s \in Int, q \in Int, t \in Int, d \in Int :
          /\ r = recorded[j] /\ u = unseen[j] /\ p = pending[j] /\ s = snapshot[j]
          /\ q = requeue[j] /\ t = usage[j] /\ d = rejected[j]
  BY <1>1, Zenon
<1>5. PICK r1 \in Int, u1 \in Int, p1 \in Int, s1 \in Int, q1 \in Int, t1 \in Int, d1 \in Int :
          /\ r1 = recorded'[j] /\ u1 = unseen'[j] /\ p1 = pending'[j] /\ s1 = snapshot'[j]
          /\ q1 = requeue'[j] /\ t1 = usage'[j] /\ d1 = rejected'[j]
  BY <1>2, Zenon
<1>6. r + u = p + s + q + t + d
  BY <1>3, <1>4
<1>7. (r1 - r) + (u1 - u) = (p1 - p) + (s1 - s) + (q1 - q) + (t1 - t) + (d1 - d)
  BY <1>4, <1>5
<1>8. r1 + u1 = p1 + s1 + q1 + t1 + d1
  BY <1>6, <1>7, SumsBalance
<1> QED BY <1>5, <1>8

\* So a step that is balanced at every key keeps Conservation.
LEMMA ConservationKept ==
    ASSUME TypeOK, TypeOK', Conservation, \A j \in Keys : Balanced(j)
    PROVE  Conservation'
<1>1. \A j \in Keys : recorded'[j] + unseen'[j]
         = pending'[j] + snapshot'[j] + requeue'[j] + usage'[j] + rejected'[j]
  BY Balance, Zenon
<1> QED BY <1>1, Zenon DEF Conservation

\* Record adds one event to a bucket of the pending map.
LEMMA RecordStep ==
    ASSUME UsageInv, NEW k \in Keys, Record(k)
    PROVE  UsageInv'
<1>1. /\ recorded' = [recorded EXCEPT ![k] = @ + 1]
      /\ UNCHANGED <<unseen, snapshot, requeue, stage, usage, stopping, final, stopped, faults>>
  BY DEF Record
<1>2. /\ pending' \in Counts /\ rejected' \in Counts
      /\ \A j \in Keys : pending'[j] + rejected'[j] = pending[j] + rejected[j] + (IF j = k THEN 1 ELSE 0)
  <2>1. CASE pending' = [pending EXCEPT ![k] = @ + 1] /\ rejected' = rejected
    BY <2>1 DEF UsageInv, TypeOK
  <2>2. CASE rejected' = [rejected EXCEPT ![k] = @ + 1] /\ pending' = pending
    BY <2>2 DEF UsageInv, TypeOK
  <2> QED BY <2>1, <2>2 DEF Record
<1>3. recorded' \in Counts /\ \A j \in Keys : recorded'[j] = recorded[j] + (IF j = k THEN 1 ELSE 0)
  BY <1>1 DEF UsageInv, TypeOK
<1>4. TypeOK' BY <1>1, <1>2, <1>3 DEF UsageInv, TypeOK
<1>5. SettledOnce' BY <1>1 DEF UsageInv, SettledOnce
<1>6. ASSUME NEW j \in Keys PROVE Balanced(j)
  <2>1. /\ pending[j] \in Int /\ rejected[j] \in Int /\ pending'[j] \in Int /\ rejected'[j] \in Int
        /\ recorded[j] \in Int /\ recorded'[j] \in Int
    BY <1>2, <1>3 DEF UsageInv, TypeOK
  <2>2. recorded'[j] - recorded[j] = (pending'[j] - pending[j]) + (rejected'[j] - rejected[j])
    <3>1. CASE j = k BY <1>2, <1>3, <2>1, <3>1
    <3>2. CASE j # k BY <1>2, <1>3, <2>1, <3>2
    <3> QED BY <3>1, <3>2
  <2>3. /\ unseen'[j] - unseen[j] = 0 /\ snapshot'[j] - snapshot[j] = 0
        /\ requeue'[j] - requeue[j] = 0 /\ usage'[j] - usage[j] = 0
    BY <1>1 DEF UsageInv, TypeOK
  <2> QED BY <2>1, <2>2, <2>3
<1>7. Conservation' BY <1>4, <1>6, ConservationKept, Zenon DEF UsageInv
<1> QED BY <1>4, <1>5, <1>7, Zenon DEF UsageInv

\* Flush takes the pending map as its snapshot, or finds it empty; Stop asks for the last one.
LEMMA TakeStep ==
    ASSUME UsageInv, Stop \/ TakeBuffer \/ TakeNothing
    PROVE  UsageInv'
<1>1. CASE Stop
  BY <1>1 DEF UsageInv, TypeOK, SettledOnce, Conservation, Stop
<1>2. CASE TakeBuffer
  <2>0. final' \in BOOLEAN BY <1>2, ZenonT(40) DEF UsageInv, TypeOK, TakeBuffer, Select
  <2>1. TypeOK' BY <1>2, <2>0 DEF UsageInv, TypeOK, TakeBuffer
  <2>2. snapshot = None /\ requeue = None BY <1>2 DEF UsageInv, TypeOK, TakeBuffer
  <2>3. SettledOnce' BY <1>2, <2>2 DEF SettledOnce, TakeBuffer
  <2>4. Conservation' BY <1>2, <2>2 DEF UsageInv, TypeOK, Conservation, TakeBuffer
  <2> QED BY <2>1, <2>3, <2>4, Zenon DEF UsageInv
<1>3. CASE TakeNothing
  BY <1>3 DEF UsageInv, TypeOK, SettledOnce, Conservation, TakeNothing
<1> QED BY <1>1, <1>2, <1>3

\* The batch is written as a whole, or the flush goes on row by row.
LEMMA BatchStep ==
    ASSUME UsageInv, BatchOk \/ BatchFails
    PROVE  UsageInv'
<1>1. CASE BatchOk
  <2>1. TypeOK' BY <1>1 DEF UsageInv, TypeOK, BatchOk, EndFlush
  <2>2. SettledOnce' BY <1>1 DEF SettledOnce, BatchOk
  <2>3. ASSUME NEW j \in Keys PROVE Balanced(j)
    BY <1>1 DEF UsageInv, TypeOK, BatchOk
  <2>4. Conservation' BY <2>1, <2>3, ConservationKept, ZenonT(60) DEF UsageInv
  <2> QED BY <2>1, <2>2, <2>4, Zenon DEF UsageInv
<1>2. CASE BatchFails
  <2>1. faults' \in 0..MaxFaults
    BY <1>2, UsageAssumption DEF UsageInv, TypeOK, BatchFails, Fault
  <2>2. /\ usage' \in [Keys -> Nat]
        /\ unseen' \in [Keys -> Nat]
        /\ \A k \in Keys : usage'[k] - usage[k] = unseen'[k] - unseen[k]
    BY <1>2 DEF UsageInv, TypeOK, BatchFails
  <2>3. TypeOK' BY <1>2, <2>1, <2>2 DEF UsageInv, TypeOK, BatchFails
  <2>4. SettledOnce' BY <1>2 DEF UsageInv, SettledOnce, BatchFails
  <2>5. ASSUME NEW j \in Keys PROVE Balanced(j)
    BY <1>2, <2>2 DEF UsageInv, TypeOK, BatchFails
  <2>6. Conservation' BY <2>3, <2>5, ConservationKept, Zenon DEF UsageInv
  <2> QED BY <2>3, <2>4, <2>6, Zenon DEF UsageInv
<1> QED BY <1>1, <1>2

\* The row loop settles one bucket: written, rejected, or kept to be merged back.
LEMMA RowStep ==
    ASSUME UsageInv, NEW k \in Keys, RowOk(k) \/ RowRejected(k) \/ RowFails(k)
    PROVE  UsageInv'
<1>1. CASE RowOk(k)
  <2>1. TypeOK' BY <1>1 DEF UsageInv, TypeOK, RowOk
  <2>2. SettledOnce' BY <1>1 DEF UsageInv, TypeOK, SettledOnce, RowOk
  <2>3. ASSUME NEW j \in Keys PROVE Balanced(j)
    BY <1>1 DEF UsageInv, TypeOK, RowOk
  <2>4. Conservation' BY <2>1, <2>3, ConservationKept, ZenonT(60) DEF UsageInv
  <2> QED BY <2>1, <2>2, <2>4, ZenonT(60) DEF UsageInv
<1>2. CASE RowRejected(k)
  <2>1. faults' \in 0..MaxFaults
    BY <1>2, UsageAssumption DEF UsageInv, TypeOK, RowRejected, Fault
  <2>2. TypeOK' BY <1>2, <2>1 DEF UsageInv, TypeOK, RowRejected
  <2>3. SettledOnce' BY <1>2 DEF UsageInv, TypeOK, SettledOnce, RowRejected
  <2>4. ASSUME NEW j \in Keys PROVE Balanced(j)
    BY <1>2 DEF UsageInv, TypeOK, RowRejected
  <2>5. Conservation' BY <2>2, <2>4, ConservationKept, Zenon DEF UsageInv
  <2> QED BY <2>2, <2>3, <2>5, Zenon DEF UsageInv
<1>3. CASE RowFails(k)
  <2>1. faults' \in 0..MaxFaults
    BY <1>3, UsageAssumption DEF UsageInv, TypeOK, RowFails, Fault
  <2>2. /\ usage' \in [Keys -> Nat]
        /\ unseen' \in [Keys -> Nat]
        /\ \A j \in Keys : usage'[j] - usage[j] = unseen'[j] - unseen[j]
    BY <1>3 DEF UsageInv, TypeOK, RowFails
  <2>3. requeue[k] = 0 BY <1>3 DEF UsageInv, SettledOnce, RowFails
  <2>4. /\ requeue' = [requeue EXCEPT ![k] = snapshot[k]]
        /\ snapshot' = [snapshot EXCEPT ![k] = 0]
        /\ UNCHANGED <<pending, stage, rejected, recorded, stopping, final, stopped>>
        /\ stage = "rows"
    BY <1>3 DEF RowFails
  <2>5. requeue' \in Counts /\ snapshot' \in Counts
    BY <2>4 DEF UsageInv, TypeOK
  <2>6. TypeOK' BY <2>1, <2>2, <2>4, <2>5 DEF UsageInv, TypeOK
  <2>7. SettledOnce' BY <2>4 DEF UsageInv, TypeOK, SettledOnce
  <2>8. ASSUME NEW j \in Keys PROVE Balanced(j)
    <3>1. (snapshot'[j] - snapshot[j]) + (requeue'[j] - requeue[j]) = 0
      BY <2>3, <2>4 DEF UsageInv, TypeOK
    <3>2. recorded'[j] - recorded[j] = 0 /\ pending'[j] - pending[j] = 0 /\ rejected'[j] - rejected[j] = 0
      BY <2>4 DEF UsageInv, TypeOK
    <3>3. usage'[j] - usage[j] = unseen'[j] - unseen[j]
      BY <2>2
    <3>4. /\ recorded'[j] - recorded[j] \in Int /\ unseen'[j] - unseen[j] \in Int
          /\ pending'[j] - pending[j] \in Int /\ snapshot'[j] - snapshot[j] \in Int
          /\ requeue'[j] - requeue[j] \in Int /\ usage'[j] - usage[j] \in Int
          /\ rejected'[j] - rejected[j] \in Int
      BY <2>2, <2>4, <2>5 DEF UsageInv, TypeOK
    <3>5. PICK r \in Int : r = recorded'[j] - recorded[j] BY <3>4, Zenon
    <3>6. PICK u \in Int : u = unseen'[j] - unseen[j] BY <3>4, Zenon
    <3>7. PICK p \in Int : p = pending'[j] - pending[j] BY <3>4, Zenon
    <3>8. PICK s \in Int : s = snapshot'[j] - snapshot[j] BY <3>4, Zenon
    <3>9. PICK q \in Int : q = requeue'[j] - requeue[j] BY <3>4, Zenon
    <3>10. PICK t \in Int : t = usage'[j] - usage[j] BY <3>4, Zenon
    <3>11. PICK d \in Int : d = rejected'[j] - rejected[j] BY <3>4, Zenon
    <3>12. r = 0 /\ p = 0 /\ d = 0 /\ u = t /\ s + q = 0
      BY <3>1, <3>2, <3>3, <3>5, <3>6, <3>7, <3>8, <3>9, <3>10, <3>11, Zenon
    <3>13. r + u = p + s + q + t + d BY <3>12
    <3> QED BY <3>5, <3>6, <3>7, <3>8, <3>9, <3>10, <3>11, <3>13, Zenon
  <2>9. Conservation' BY <2>6, <2>8, ConservationKept, Zenon DEF UsageInv
  <2> QED BY <2>6, <2>7, <2>9, Zenon DEF UsageInv
<1> QED BY <1>1, <1>2, <1>3

\* The buckets that were kept are merged into the pending map.
LEMMA MergeBackStep ==
    ASSUME UsageInv, MergeBack
    PROVE  UsageInv'
<1>1. snapshot = None BY DEF UsageInv, TypeOK, MergeBack, Buckets
<1>2. TypeOK' BY <1>1 DEF UsageInv, TypeOK, MergeBack, EndFlush
<1>3. SettledOnce' BY DEF SettledOnce, MergeBack
<1>4. ASSUME NEW j \in Keys PROVE Balanced(j)
  BY DEF UsageInv, TypeOK, MergeBack
<1>5. Conservation' BY <1>2, <1>4, ConservationKept, Zenon DEF UsageInv
<1> QED BY <1>2, <1>3, <1>5, Zenon DEF UsageInv

\* Every step of the aggregator keeps its invariant.
LEMMA UsageNext == UsageInv /\ [Next]_vars => UsageInv'
<1> SUFFICES ASSUME UsageInv, [Next]_vars PROVE UsageInv'
  OBVIOUS
<1>1. CASE \E k \in Keys : Record(k) BY <1>1, RecordStep
<1>2. CASE Stop \/ TakeBuffer \/ TakeNothing BY <1>2, TakeStep
<1>3. CASE BatchOk \/ BatchFails BY <1>3, BatchStep
<1>4. CASE \E k \in Keys : RowOk(k) \/ RowRejected(k) \/ RowFails(k)
  BY <1>4, RowStep
<1>5. CASE MergeBack BY <1>5, MergeBackStep
<1>6. CASE UNCHANGED vars
  BY <1>6 DEF vars, UsageInv, TypeOK, SettledOnce, Conservation
<1> QED BY <1>1, <1>2, <1>3, <1>4, <1>5, <1>6 DEF Next, Flush

\* UsageInv holds in every reachable state of the aggregator.
THEOREM UsageInvariant == Spec => []UsageInv
BY UsageInit, UsageNext, PTL DEF Spec

\* Record and Flush keep the types; only a running flush has unsettled buckets.
THEOREM UsageIsTyped == Spec => []TypeOK
<1>1. UsageInv => TypeOK BY DEF UsageInv
<1> QED BY <1>1, UsageInvariant, PTL

\* Flush accounts for every event that Record took; only a statement that was
\* applied although its answer was lost is counted on top.
THEOREM UsageConserved == Spec => []Conservation
<1>1. UsageInv => Conservation BY DEF UsageInv
<1> QED BY <1>1, UsageInvariant, PTL

HIDE DEF Counts, None, Add, Balanced
USE ZenonT(60)

(***************************************************************************)
(* The circuit breaker.                                                    *)
(***************************************************************************)

\* Every caller has a record.
CallersInv == bCall = [c \in Trio |-> bCall[c]]

\* A step of a caller, seen from the property: a half-open circuit is left only by
\* the result of a call of its own generation.
LEMMA CallDecides ==
    ASSUME CallersInv, NEW c \in Trio, Breaker!Generate(c)
    PROVE  /\ CallersInv'
           /\ (state = "half-open" /\ state' # "half-open") =>
                \E d \in Trio : bCall[d].at = "inner" /\ bCall[d].fresh /\ bCall'[d].at = "idle"
  <1>1. CASE Breaker!AskState(c)
    <2>1. CASE Breaker!Due /\ state = "open" /\ bCall' = [Breaker!Stale EXCEPT ![c].at = "execute"]
      BY <2>1 DEF CallersInv, Breaker!Stale
    <2>2. CASE Breaker!Goto(c, IF state = "open" THEN "hold" ELSE "execute") /\ UNCHANGED state
      BY <2>2 DEF CallersInv, Breaker!Goto
    <2>. QED BY <1>1, <2>1, <2>2 DEF Breaker!AskState, Breaker!circuit, Breaker!Due
  <1>2. CASE Breaker!AskHold(c)
    BY <1>2 DEF CallersInv, Breaker!AskHold, Breaker!Goto, Breaker!Return, Breaker!circuit
  <1>3. CASE Breaker!beforeRequest(c)
    <2>1. CASE state = "open" /\ bCall' = [Breaker!Stale EXCEPT ![c] = [at |-> "inner", fresh |-> TRUE]]
      BY <2>1 DEF CallersInv, Breaker!Stale
    <2>2. CASE UNCHANGED state /\ bCall' = [bCall EXCEPT ![c] = [at |-> "inner", fresh |-> TRUE]]
      BY <2>2 DEF CallersInv
    <2>3. CASE UNCHANGED state /\ Breaker!Return(c)
      BY <2>3 DEF CallersInv, Breaker!Return
    <2>. QED BY <1>3, <2>1, <2>2, <2>3 DEF Breaker!beforeRequest, Breaker!Due, Breaker!circuit
  <1>4. CASE Breaker!afterRequest(c)
    <2>1. CASE state = "open" /\ bCall' = [Breaker!Stale EXCEPT ![c] = Breaker!NoCall]
      BY <2>1 DEF CallersInv, Breaker!Stale
    <2>2. CASE UNCHANGED state /\ Breaker!Return(c)
      BY <2>2 DEF CallersInv, Breaker!Return
    <2>3. CASE /\ bCall[c].at = "inner" /\ bCall[c].fresh
               /\ bCall' = [(IF state' = state THEN bCall ELSE Breaker!Stale) EXCEPT ![c] = Breaker!NoCall]
      <3>1. CallersInv' /\ bCall'[c] = Breaker!NoCall
        BY <2>3 DEF CallersInv, Breaker!Stale
      <3>2. bCall'[c].at = "idle"
        BY SMTT(40), <3>1 DEF Breaker!NoCall
      <3>. QED BY <2>3, <3>1, <3>2
    <2>. QED BY <1>4, <2>1, <2>2, <2>3 DEF Breaker!afterRequest, Breaker!Due, Breaker!circuit, Breaker!CountsFor
  <1>. QED BY <1>1, <1>2, <1>3, <1>4 DEF Breaker!Generate

\* ProbeDecides: a half-open circuit closes or opens again only by the result of a
\* probe of its own generation, for any number of callers, failures and probes.
THEOREM ProbesDecide == Breaker!Spec => ProbeDecides
  <1>1. Breaker!Init => CallersInv
    BY DEF Breaker!Init, CallersInv
  <1>2. CallersInv /\ [Breaker!Next]_(Breaker!vars) =>
          /\ CallersInv'
          /\ [(state = "half-open" /\ state' # "half-open") =>
                \E c \in Trio : bCall[c].at = "inner" /\ bCall[c].fresh /\ bCall'[c].at = "idle"]_(Breaker!vars)
    <2>1. SUFFICES ASSUME CallersInv, [Breaker!Next]_(Breaker!vars)
                   PROVE  /\ CallersInv'
                          /\ [(state = "half-open" /\ state' # "half-open") =>
                                \E c \in Trio : bCall[c].at = "inner" /\ bCall[c].fresh /\ bCall'[c].at = "idle"]_(Breaker!vars)
      OBVIOUS
    <2>2. CASE UNCHANGED Breaker!vars
      BY <2>1, <2>2 DEF Breaker!vars, CallersInv
    <2>3. CASE Breaker!Tick \/ Breaker!HealthChanges
      BY <2>1, <2>3 DEF Breaker!Tick, Breaker!HealthChanges, Breaker!circuit, CallersInv
    <2>4. ASSUME NEW c \in Trio, Breaker!Generate(c)
          PROVE  /\ CallersInv'
                 /\ (state = "half-open" /\ state' # "half-open") =>
                      \E d \in Trio : bCall[d].at = "inner" /\ bCall[d].fresh /\ bCall'[d].at = "idle"
      BY <2>1, <2>4, CallDecides
    <2>. QED BY <2>1, <2>2, <2>3, <2>4 DEF Breaker!Next
  <1>. QED BY <1>1, <1>2, PTL DEF Breaker!Spec, ProbeDecides, Breaker!ProbeDecides

(***************************************************************************)
(* The review queue.                                                       *)
(***************************************************************************)

\* The elements of a sequence.
LEMMA SeqElement ==
    ASSUME NEW S, NEW s \in Seq(S)
    PROVE  Len(s) \in Nat /\ \A i \in 1..Len(s) : s[i] \in S
  BY SMTT(40)

\* A sequence with an element more.
LEMMA AppendFacts ==
    ASSUME NEW S, NEW s \in Seq(S), NEW x \in S
    PROVE  /\ Append(s, x) \in Seq(S) /\ Len(Append(s, x)) = Len(s) + 1
           /\ Append(s, x)[Len(s) + 1] = x /\ \A i \in 1..Len(s) : Append(s, x)[i] = s[i]
  BY SMTT(40)

\* A sequence with an element replaced.
LEMMA ExceptFacts ==
    ASSUME NEW S, NEW s \in Seq(S), NEW i \in 1..Len(s), NEW x \in S
    PROVE  /\ [s EXCEPT ![i] = x] \in Seq(S) /\ Len([s EXCEPT ![i] = x]) = Len(s)
           /\ \A j \in 1..Len(s) : [s EXCEPT ![i] = x][j] = IF j = i THEN x ELSE s[j]
  BY SMTT(40)

Verdicts == {"accepted", "rejected"}
ProposalRows == [edge : Two, status : {"pending"} \cup Verdicts]

\* A review that goes on names a proposal; one that is about to record an acceptance
\* has its link in place.
Reviewing(c, rows, stored) ==
    c # Propose!NoCall =>
        /\ c = [verdict |-> c.verdict, id |-> c.id, at |-> c.at]
        /\ c.id \in 1..Len(rows)
        /\ c.verdict \in Verdicts
        /\ c.at = "status" /\ c.verdict = "accepted" => stored[rows[c.id].edge] # Propose!Absent

\* One pending proposal per edge, stated of the rows.
PendingOnce(rows) ==
    \A i, j \in 1..Len(rows) :
        rows[i].edge = rows[j].edge /\ rows[i].status = "pending" /\ rows[j].status = "pending" => i = j

AcceptedLinked(rows, stored) ==
    \A i \in 1..Len(rows) : rows[i].status = "accepted" => stored[rows[i].edge] # Propose!Absent

QueueInv ==
    /\ proposals \in Seq(ProposalRows)
    /\ links = [e \in Two |-> links[e]]
    /\ pCall = [r \in Pair |-> pCall[r]]
    /\ \A r \in Pair : Reviewing(pCall[r], proposals, links)
    /\ PendingOnce(proposals)
    /\ AcceptedLinked(proposals, links)

\* What a row of the queue is.
LEMMA RowFacts ==
    ASSUME NEW rows \in Seq(ProposalRows), NEW i \in 1..Len(rows)
    PROVE  /\ rows[i] = [edge |-> rows[i].edge, status |-> rows[i].status]
           /\ rows[i].edge \in Two /\ rows[i].status \in {"pending"} \cup Verdicts
  <1>1. rows[i] \in ProposalRows
    BY SeqElement
  <1>. QED BY SMTT(40), <1>1 DEF ProposalRows

\* The invariant says what the property asks of a state.
LEMMA QueueSound == QueueInv => Propose!OnePendingPerEdge /\ Propose!AcceptedHasLink
  <1>1. SUFFICES ASSUME QueueInv PROVE Propose!OnePendingPerEdge /\ Propose!AcceptedHasLink
    OBVIOUS
  <1>2. \A e \in Two : Propose!PendingFor(e) \subseteq
            {i \in 1..Len(proposals) : proposals[i].edge = e /\ proposals[i].status = "pending"}
    BY SMTT(40) DEF Propose!PendingFor, Propose!Ids
  <1>3. Propose!OnePendingPerEdge
    BY ZenonT(40), <1>1, <1>2 DEF Propose!OnePendingPerEdge, QueueInv, PendingOnce
  <1>4. Propose!AcceptedHasLink
    BY <1>1 DEF Propose!AcceptedHasLink, Propose!Ids, QueueInv, AcceptedLinked
  <1>. QED BY <1>3, <1>4

\* Storing a proposal for an edge with no link and no pending one.
LEMMA InsertPendingKeeps ==
    ASSUME QueueInv, NEW e \in Two, Propose!InsertPending(e)
    PROVE  QueueInv' /\ Propose!VerdictStands
  <1>1. PICK new \in ProposalRows : new = [edge |-> e, status |-> "pending"]
    BY DEF ProposalRows
  <1>2. /\ proposals' = Append(proposals, new) /\ links' = links /\ pCall' = pCall
        /\ Propose!PendingFor(e) = {}
    BY <1>1 DEF Propose!InsertPending
  <1>3. proposals \in Seq(ProposalRows) /\ Len(proposals) \in Nat
    BY SeqElement DEF QueueInv
  <1>4. /\ proposals' \in Seq(ProposalRows) /\ Len(proposals') = Len(proposals) + 1
        /\ proposals'[Len(proposals) + 1] = new
        /\ \A i \in 1..Len(proposals) : proposals'[i] = proposals[i]
    BY SMTT(40), <1>2, <1>3, AppendFacts
  <1>5. new.edge = e /\ new.status = "pending"
    BY <1>1
  <1>6. \A i \in 1..Len(proposals) : ~(proposals[i].edge = e /\ proposals[i].status = "pending")
    <2>1. ASSUME NEW i \in 1..Len(proposals), proposals[i].edge = e, proposals[i].status = "pending" PROVE FALSE
      <3>1. proposals[i] = [edge |-> e, status |-> "pending"]
        BY <1>3, <2>1, RowFacts
      <3>. QED BY <1>2, <3>1 DEF Propose!PendingFor, Propose!Ids
    <2>. QED BY <2>1
  <1>7. \A i \in 1..Len(proposals') : i \in 1..Len(proposals) \/ i = Len(proposals) + 1
    BY SMTT(40), <1>3, <1>4
  <1>8. PendingOnce(proposals')
    BY ZenonT(40), <1>4, <1>5, <1>6, <1>7 DEF QueueInv, PendingOnce
  <1>9. AcceptedLinked(proposals', links')
    BY <1>2, <1>4, <1>5, <1>7 DEF QueueInv, AcceptedLinked
  <1>10. \A i \in 1..Len(proposals) : i \in 1..Len(proposals')
    BY SMTT(40), <1>3, <1>4
  <1>11. \A r \in Pair : Reviewing(pCall'[r], proposals', links')
    BY <1>2, <1>4, <1>10 DEF QueueInv, Reviewing
  <1>12. QueueInv'
    BY <1>2, <1>4, <1>8, <1>9, <1>11 DEF QueueInv
  <1>. QED BY <1>4, <1>12 DEF Propose!VerdictStands, Propose!Ids

\* A step that leaves the rows alone, never removes a link and changes at most one
\* review keeps the invariant.
LEMMA LinkStep ==
    ASSUME QueueInv, UNCHANGED proposals,
           links' = [e \in Two |-> links'[e]],
           \A e \in Two : links[e] # Propose!Absent => links'[e] # Propose!Absent,
           pCall' = [r \in Pair |-> pCall'[r]],
           \A r \in Pair : pCall'[r] = pCall[r] \/ Reviewing(pCall'[r], proposals, links')
    PROVE  QueueInv' /\ Propose!VerdictStands
  <1>1. \A i \in 1..Len(proposals) : proposals[i].edge \in Two
    BY RowFacts DEF QueueInv
  <1>2. AcceptedLinked(proposals', links')
    BY <1>1 DEF QueueInv, AcceptedLinked
  <1>3. \A r \in Pair : Reviewing(pCall'[r], proposals', links')
    BY ZenonT(60), <1>1 DEF QueueInv, Reviewing
  <1>4. QueueInv'
    BY <1>2, <1>3 DEF QueueInv
  <1>. QED BY <1>4 DEF Propose!VerdictStands

\* The clients' upsert of a link, the read pool, and a review that begins or fails.
LEMMA OtherReviewKeeps ==
    ASSUME QueueInv,
           \/ \E e \in Two : Propose!CreateLink(e)
           \/ Propose!Replicate
           \/ \E r \in Pair : Propose!ReviewFails(r)
           \/ \E r \in Pair, v \in Verdicts, id \in Propose!Ids : Propose!GetByID(r, v, id)
    PROVE  QueueInv' /\ Propose!VerdictStands
  <1>1. links = [e \in Two |-> links[e]] /\ pCall = [r \in Pair |-> pCall[r]]
    BY DEF QueueInv
  <1>2. ASSUME NEW e \in Two, Propose!CreateLink(e) PROVE QueueInv' /\ Propose!VerdictStands
    <2>1. links' = [links EXCEPT ![e] = 0] /\ UNCHANGED <<proposals, pCall>>
      BY <1>2 DEF Propose!CreateLink
    <2>2. 0 # Propose!Absent
      BY SMTT(40) DEF Propose!Absent
    <2>3. /\ links' = [f \in Two |-> links'[f]]
          /\ \A f \in Two : links[f] # Propose!Absent => links'[f] # Propose!Absent
      BY <1>1, <2>1, <2>2
    <2>. QED BY <1>1, <2>1, <2>3, LinkStep
  <1>3. CASE Propose!Replicate
    <2>1. UNCHANGED <<proposals, links, pCall>>
      BY <1>3 DEF Propose!Replicate
    <2>. QED BY <1>1, <2>1, LinkStep
  <1>4. ASSUME NEW r \in Pair, Propose!ReviewFails(r) PROVE QueueInv' /\ Propose!VerdictStands
    <2>1. pCall' = [pCall EXCEPT ![r] = Propose!NoCall] /\ UNCHANGED <<proposals, links>>
      BY <1>4 DEF Propose!ReviewFails, Propose!Return
    <2>2. /\ pCall' = [q \in Pair |-> pCall'[q]]
          /\ \A q \in Pair : pCall'[q] = pCall[q] \/ Reviewing(pCall'[q], proposals, links')
      BY <1>1, <2>1 DEF Reviewing
    <2>. QED BY <1>1, <2>1, <2>2, LinkStep
  <1>5. ASSUME NEW r \in Pair, NEW v \in Verdicts, NEW id \in Propose!Ids, Propose!GetByID(r, v, id)
        PROVE  QueueInv' /\ Propose!VerdictStands
    <2>1. UNCHANGED <<proposals, links>>
      BY <1>5 DEF Propose!GetByID
    <2>2. CASE UNCHANGED pCall
      BY <1>1, <2>1, <2>2, LinkStep
    <2>3. ASSUME NEW c, c = [verdict |-> v, id |-> id, at |-> IF v = "accepted" THEN "link" ELSE "status"],
                 pCall' = [pCall EXCEPT ![r] = c]
          PROVE  QueueInv' /\ Propose!VerdictStands
      <3>1. c.verdict = v /\ c.id = id /\ c.at = IF v = "accepted" THEN "link" ELSE "status"
        BY <2>3
      <3>2. Reviewing(c, proposals, links')
        BY <1>5, <2>3, <3>1 DEF Reviewing, Propose!Ids
      <3>3. /\ pCall' = [q \in Pair |-> pCall'[q]]
            /\ \A q \in Pair : pCall'[q] = pCall[q] \/ Reviewing(pCall'[q], proposals, links')
        BY <1>1, <2>3, <3>2
      <3>. QED BY <1>1, <2>1, <3>3, LinkStep
    <2>. QED BY <1>5, <2>2, <2>3 DEF Propose!GetByID
  <1>. QED BY <1>2, <1>3, <1>4, <1>5

\* links.Create of an acceptance: its edge has a link from then on.
LEMMA AcceptLinkKeeps ==
    ASSUME QueueInv, NEW r \in Pair, Propose!AcceptLink(r)
    PROVE  QueueInv' /\ Propose!VerdictStands
  <1>1. /\ links = [e \in Two |-> links[e]] /\ pCall = [q \in Pair |-> pCall[q]]
        /\ proposals \in Seq(ProposalRows)
    BY DEF QueueInv
  <1>2. PICK c, e : c = pCall[r] /\ e = proposals[c.id].edge
    OBVIOUS
  <1>3. c.at = "link" /\ c # Propose!NoCall
    <2>1. Propose!NoCall.at # "link"
      BY DEF Propose!NoCall
    <2>. QED BY <1>2, <2>1 DEF Propose!AcceptLink
  <1>4. /\ c = [verdict |-> c.verdict, id |-> c.id, at |-> c.at]
        /\ c.id \in 1..Len(proposals) /\ c.verdict \in Verdicts
    BY <1>2, <1>3 DEF QueueInv, Reviewing
  <1>5. e \in Two
    BY <1>1, <1>2, <1>4, RowFacts
  <1>6. c.id # Propose!Absent
    <2>1. Len(proposals) \in Nat
      BY <1>1, SeqElement
    <2>. QED BY SMTT(40), <1>4, <2>1 DEF Propose!Absent
  <1>7. /\ links' = [links EXCEPT ![e] = c.id] /\ pCall' = [pCall EXCEPT ![r] = [c EXCEPT !.at = "status"]]
        /\ UNCHANGED proposals
    BY <1>1, <1>2 DEF Propose!AcceptLink, Propose!Goto
  <1>8. /\ links' = [f \in Two |-> links'[f]] /\ links'[e] # Propose!Absent
        /\ \A f \in Two : links[f] # Propose!Absent => links'[f] # Propose!Absent
    BY <1>1, <1>5, <1>6, <1>7
  <1>9. Reviewing([c EXCEPT !.at = "status"], proposals, links')
    <2>1. PICK d : d = [c EXCEPT !.at = "status"]
      OBVIOUS
    <2>0. d = [verdict |-> c.verdict, id |-> c.id, at |-> "status"]
      BY SMTT(40), <1>4, <2>1
    <2>2. d.id = c.id /\ d.verdict = c.verdict /\ d = [verdict |-> d.verdict, id |-> d.id, at |-> d.at]
      BY SMTT(40), <2>0
    <2>. QED BY <1>2, <1>4, <1>8, <2>1, <2>2 DEF Reviewing
  <1>10. /\ pCall' = [q \in Pair |-> pCall'[q]]
         /\ \A q \in Pair : pCall'[q] = pCall[q] \/ Reviewing(pCall'[q], proposals, links')
    BY <1>1, <1>7, <1>9
  <1>. QED BY <1>7, <1>8, <1>10, LinkStep

\* UpdateStatus: a verdict replaces "pending" only, and an acceptance has its link.
LEMMA UpdateStatusKeeps ==
    ASSUME QueueInv, NEW r \in Pair, Propose!UpdateStatus(r)
    PROVE  QueueInv' /\ Propose!VerdictStands
  <1>1. /\ links = [e \in Two |-> links[e]] /\ pCall = [q \in Pair |-> pCall[q]]
        /\ proposals \in Seq(ProposalRows)
    BY DEF QueueInv
  <1>2. PICK c, id : c = pCall[r] /\ id = c.id
    OBVIOUS
  <1>3. c.at = "status" /\ c # Propose!NoCall
    <2>1. Propose!NoCall.at # "status"
      BY DEF Propose!NoCall
    <2>. QED BY <1>2, <2>1 DEF Propose!UpdateStatus
  <1>4. /\ id \in 1..Len(proposals) /\ c.verdict \in Verdicts
        /\ c.verdict = "accepted" => links[proposals[id].edge] # Propose!Absent
    BY <1>2, <1>3 DEF QueueInv, Reviewing
  <1>5. /\ pCall' = [pCall EXCEPT ![r] = Propose!NoCall] /\ UNCHANGED links
    BY DEF Propose!UpdateStatus, Propose!Return
  <1>6. pCall' = [q \in Pair |-> pCall'[q]] /\ \A q \in Pair : pCall'[q] = pCall[q] \/ pCall'[q] = Propose!NoCall
    BY <1>1, <1>5
  <1>7. CASE UNCHANGED proposals
    <2>1. \A q \in Pair : pCall'[q] = pCall[q] \/ Reviewing(pCall'[q], proposals, links')
      BY <1>6 DEF Reviewing
    <2>. QED BY <1>1, <1>5, <1>6, <1>7, <2>1, LinkStep
  <1>8. CASE Propose!IsPending(id) /\ proposals' = [proposals EXCEPT ![id].status = c.verdict]
    <2>1. PICK new : new = [proposals[id] EXCEPT !.status = c.verdict]
      OBVIOUS
    <2>2. proposals' = [proposals EXCEPT ![id] = new]
      BY <1>8, <2>1
    <2>3. /\ proposals[id] = [edge |-> proposals[id].edge, status |-> proposals[id].status]
          /\ proposals[id].edge \in Two
      BY <1>1, <1>4, RowFacts
    <2>4. new = [edge |-> proposals[id].edge, status |-> c.verdict]
      BY SMTT(40), <2>1, <2>3
    <2>5. new \in ProposalRows /\ new.edge = proposals[id].edge /\ new.status = c.verdict
      BY SMTT(40), <1>4, <2>3, <2>4 DEF ProposalRows
    <2>6. /\ proposals' \in Seq(ProposalRows) /\ Len(proposals') = Len(proposals)
          /\ \A j \in 1..Len(proposals) : proposals'[j] = IF j = id THEN new ELSE proposals[j]
      BY SMTT(40), <1>1, <1>4, <2>2, <2>5, ExceptFacts
    <2>7. c.verdict # "pending"
      BY <1>4 DEF Verdicts
    <2>8. \A j \in 1..Len(proposals) : proposals'[j].edge = proposals[j].edge
      BY <2>5, <2>6
    <2>9. \A j \in 1..Len(proposals) : proposals'[j].status = "pending" => proposals[j].status = "pending"
      BY <2>5, <2>6, <2>7
    <2>10. PendingOnce(proposals')
      BY <2>6, <2>8, <2>9 DEF QueueInv, PendingOnce
    <2>11. AcceptedLinked(proposals', links')
      BY <1>4, <1>5, <2>5, <2>6, <2>8 DEF QueueInv, AcceptedLinked
    <2>12. \A q \in Pair : Reviewing(pCall'[q], proposals', links')
      <3>1. SUFFICES ASSUME NEW q \in Pair, pCall'[q] # Propose!NoCall PROVE Reviewing(pCall'[q], proposals', links')
        BY DEF Reviewing
      <3>2. PICK d : d = pCall[q] /\ d = pCall'[q] /\ d # Propose!NoCall
        BY <1>6, <3>1
      <3>3. Reviewing(d, proposals, links)
        BY <3>2 DEF QueueInv
      <3>4. Reviewing(d, proposals', links')
        BY <1>5, <2>6, <2>8, <3>2, <3>3 DEF Reviewing
      <3>. QED BY <3>2, <3>4
    <2>13. QueueInv'
      BY <1>1, <1>5, <1>6, <2>6, <2>10, <2>11, <2>12 DEF QueueInv
    <2>. QED BY <1>8, <2>6, <2>13 DEF Propose!VerdictStands, Propose!Ids, Propose!IsPending
  <1>. QED BY <1>2, <1>7, <1>8 DEF Propose!UpdateStatus

\* ProposalsAreSound: for any numbers of edges, reviewers, proposals and reviews, an
\* edge has at most one pending proposal, an accepted proposal has its link, and a
\* recorded verdict stays, whichever statement of a review fails or is overtaken.
THEOREM ProposalsHold == Propose!Spec => ProposalsAreSound
  <1>1. Propose!Init => QueueInv
    <2>1. SUFFICES ASSUME Propose!Init PROVE QueueInv
      OBVIOUS
    <2>2. proposals = <<>> /\ proposals \in Seq(ProposalRows) /\ Len(proposals) = 0
      BY SMTT(40), <2>1 DEF Propose!Init
    <2>3. 1..Len(proposals) = {}
      BY SMTT(40), <2>2
    <2>4. PendingOnce(proposals) /\ AcceptedLinked(proposals, links)
      BY <2>3 DEF PendingOnce, AcceptedLinked
    <2>. QED BY <2>1, <2>2, <2>4 DEF Propose!Init, QueueInv, Reviewing
  <1>2. QueueInv /\ [Propose!Next]_(Propose!vars) =>
          /\ QueueInv'
          /\ [Propose!OnePendingPerEdge' /\ Propose!AcceptedHasLink' /\ Propose!VerdictStands]_(Propose!vars)
    <2>1. SUFFICES ASSUME QueueInv, [Propose!Next]_(Propose!vars)
                   PROVE  /\ QueueInv'
                          /\ [Propose!OnePendingPerEdge' /\ Propose!AcceptedHasLink' /\ Propose!VerdictStands]_(Propose!vars)
      OBVIOUS
    <2>2. CASE UNCHANGED Propose!vars
      BY <2>1, <2>2 DEF Propose!vars, QueueInv
    <2>3. CASE Propose!Next
      <3>1. QueueInv' /\ Propose!VerdictStands
        BY <2>1, <2>3, InsertPendingKeeps, OtherReviewKeeps, AcceptLinkKeeps, UpdateStatusKeeps DEF Propose!Next, Verdicts
      <3>2. Propose!OnePendingPerEdge' /\ Propose!AcceptedHasLink'
        BY <3>1, QueueSound, PTL
      <3>. QED BY <3>1, <3>2
    <2>. QED BY <2>1, <2>2, <2>3
  <1>. QED BY <1>1, <1>2, PTL DEF Propose!Spec, ProposalsAreSound, Propose!ProposalsAreSound

(***************************************************************************)
(* The rate limit.                                                         *)
(***************************************************************************)
INSTANCE FiniteSetTheorems

\* The component counts with its own copy of Cardinality.
LEMMA LimiterCounts == \A S : Limiter!Cardinality(S) = Cardinality(S)
  BY DEF Limiter!Cardinality, Cardinality

\* The role's limit is a positive number whatever the configuration says.
LEMMA LimitIsPositive == Limiter!roleLimit \in Nat \ {0}
  <1>1. \A x \in Int : Limiter!Maximum(1, x) \in Nat \ {0}
    BY SMTT(40) DEF Limiter!Maximum
  <1>2. \A x \in Int : x \div 60 \in Int
    BY SMTT(40)
  <1>3. \A x, y \in Int : x * y \in Int
    BY SMTT(40)
  <1>4. RPM \in Int /\ WindowSecs \in Int /\ MaxPerWindow \in Nat
    BY SMTT(40), LimiterAssumption DEF Limiter!RateLimiterAssumption
  <1>5. PICK w \in Int : w = IF WindowSecs < 1 THEN 60 ELSE WindowSecs
    BY SMTT(40), <1>4
  <1>6. Limiter!Maximum(1, RPM) \in Int
    BY SMTT(40), <1>1, <1>4
  <1>7. Limiter!LimitFromRPM(RPM, WindowSecs) = Limiter!Maximum(1, (Limiter!Maximum(1, RPM) * w) \div 60)
    BY <1>5 DEF Limiter!LimitFromRPM
  <1>8. Limiter!LimitFromRPM(RPM, WindowSecs) \in Nat \ {0}
    BY <1>1, <1>2, <1>3, <1>5, <1>6, <1>7
  <1>9. \A x \in Nat \ {0}, y \in Nat : (IF y > 0 THEN Limiter!Minimum(x, y) ELSE x) \in Nat \ {0}
    BY SMTT(40) DEF Limiter!Minimum
  <1>. QED BY <1>4, <1>8, <1>9 DEF Limiter!roleLimit

\* The span in which at most the limit is allowed.
Span == Window - MaxDelay

\* The entry that an answered request left in the window.
EntryOf(k) == [member |-> k.member, score |-> k.clock]

\* The allowed requests of the span that ends at T.
Admitted(requests, T) == {k \in requests : k.allowed /\ T - Span < k.at /\ k.at <= T}

\* An answered request was judged at most MaxDelay after its clock reading, and the
\* key lives for a window after it.
Judged(k, time, count, deadline) ==
    /\ k.member \in 1..count
    /\ k.clock \in Nat /\ k.at \in Nat
    /\ k.clock <= k.at /\ k.at <= k.clock + MaxDelay /\ k.at <= time
    /\ k.at + Window <= deadline

\* A reading in flight is at most MaxDelay old.
Recent(rd, time) ==
    rd.at = "script" => rd.clock \in Nat /\ rd.clock <= time /\ time <= rd.clock + MaxDelay

\* The inductive invariant: every request of the last span still is in the ZSET.
LimiterInv ==
    /\ now \in Nat /\ members \in Nat /\ expires \in Nat
    /\ IsFiniteSet(window) /\ IsFiniteSet(zset)
    /\ read = [r \in Pair |-> read[r]] /\ \A r \in Pair : Recent(read[r], now)
    /\ \A k \in window : Judged(k, now, members, expires)
    /\ \A k, l \in window : k.member = l.member => k = l
    /\ \A k \in window : now - Span < k.at => EntryOf(k) \in zset
    /\ \A T \in Int : Cardinality(Admitted(window, T)) <= Limiter!roleLimit

\* Nothing has been asked yet.
LEMMA LimiterInit == Limiter!Init => LimiterInv
  <1>1. SUFFICES ASSUME Limiter!Init PROVE LimiterInv
    OBVIOUS
  <1>2. now \in Nat /\ members \in Nat /\ expires \in Nat
    BY SMTT(40), <1>1 DEF Limiter!Init
  <1>3. IsFiniteSet(window) /\ IsFiniteSet(zset)
    BY <1>1, FS_EmptySet DEF Limiter!Init
  <1>4. read = [r \in Pair |-> read[r]] /\ \A r \in Pair : Recent(read[r], now)
    <2>1. Limiter!Idle.at # "script"
      BY DEF Limiter!Idle
    <2>. QED BY <1>1, <2>1 DEF Limiter!Init, Recent
  <1>5. \A T \in Int : Admitted(window, T) = {}
    BY <1>1 DEF Limiter!Init, Admitted
  <1>6. Cardinality({}) <= Limiter!roleLimit
    BY SMTT(40), LimitIsPositive, FS_EmptySet
  <1>7. window = {}
    BY <1>1 DEF Limiter!Init
  <1>. QED BY <1>2, <1>3, <1>4, <1>5, <1>6, <1>7 DEF LimiterInv

\* What the constants of the limiter are.
LEMMA LimiterNumbers ==
    MaxDelay \in Nat /\ Window \in Nat \ {0} /\ Span \in Int
  <1>1. MaxDelay \in Nat /\ Window \in Nat /\ Window > 0
    BY SMTT(40), LimiterAssumption DEF Limiter!RateLimiterAssumption
  <1>. QED BY SMTT(40), <1>1 DEF Span

\* Reading the clock.
LEMMA ReadClockKeeps ==
    ASSUME LimiterInv, NEW r \in Pair, Limiter!ReadClock(r)
    PROVE  LimiterInv'
  <1>1. /\ read' = [read EXCEPT ![r] = [at |-> "script", clock |-> now]]
        /\ UNCHANGED <<now, zset, expires, members, window>>
    BY DEF Limiter!ReadClock
  <1>2. Recent([at |-> "script", clock |-> now], now)
    BY SMTT(40), LimiterNumbers DEF LimiterInv, Recent
  <1>3. read' = [q \in Pair |-> read'[q]] /\ \A q \in Pair : Recent(read'[q], now')
    BY <1>1, <1>2 DEF LimiterInv
  <1>. QED BY <1>1, <1>3 DEF LimiterInv

\* A failing Redis call.
LEMMA FailOpenKeeps ==
    ASSUME LimiterInv, NEW r \in Pair, Limiter!FailOpen(r)
    PROVE  LimiterInv'
  <1>1. /\ read' = [read EXCEPT ![r] = Limiter!Idle]
        /\ UNCHANGED <<now, zset, expires, members, window>>
    BY DEF Limiter!FailOpen
  <1>2. Recent(Limiter!Idle, now)
    BY DEF Recent, Limiter!Idle
  <1>3. read' = [q \in Pair |-> read'[q]] /\ \A q \in Pair : Recent(read'[q], now')
    BY <1>1, <1>2 DEF LimiterInv
  <1>. QED BY <1>1, <1>3 DEF LimiterInv

\* Time does not pass a reading by more than MaxDelay, and what is in the last span
\* at the later time was in it before.
LEMMA TickKeeps ==
    ASSUME LimiterInv, Limiter!Tick
    PROVE  LimiterInv'
  <1>1. /\ now' = now + 1 /\ UNCHANGED <<zset, expires, read, members, window>>
        /\ \A q \in Pair : read[q].at = "script" => now < read[q].clock + MaxDelay
    BY DEF Limiter!Tick
  <1>2. now \in Nat /\ now' \in Nat
    BY SMTT(40), <1>1 DEF LimiterInv
  <1>3. ASSUME NEW q \in Pair PROVE Recent(read'[q], now')
    BY SMTT(40), <1>1, <1>2, LimiterNumbers DEF LimiterInv, Recent
  <1>4. ASSUME NEW k \in window PROVE Judged(k, now', members, expires)
    BY SMTT(40), <1>1, <1>2 DEF LimiterInv, Judged
  <1>5. ASSUME NEW k \in window, now' - Span < k.at PROVE now - Span < k.at
    BY SMTT(40), <1>1, <1>2, <1>5, LimiterNumbers DEF LimiterInv, Judged
  <1>. QED BY <1>1, <1>2, <1>3, <1>4, <1>5 DEF LimiterInv

\* The requests of a span that all are in the ZSET are no more than its entries.
LEMMA SpanFits ==
    ASSUME NEW requests, NEW z, IsFiniteSet(z),
           \A k \in requests : EntryOf(k) \in z,
           \A k, l \in requests : k.member = l.member => k = l
    PROVE  IsFiniteSet(requests) /\ Cardinality(requests) <= Cardinality(z)
  <1> DEFINE f == [k \in requests |-> EntryOf(k)]
  <1>1. f \in Injection(requests, z)
    <2>1. f \in [requests -> z]
      OBVIOUS
    <2>2. ASSUME NEW k \in requests, NEW l \in requests, f[k] = f[l] PROVE k = l
      <3>1. EntryOf(k) = EntryOf(l)
        BY <2>2
      <3>2. EntryOf(k).member = EntryOf(l).member
        BY <3>1
      <3>. QED BY <3>2 DEF EntryOf
    <2>. QED BY <2>1, <2>2 DEF Injection, IsInjective
  <1>. QED BY <1>1, FS_Injection

\* The script: its request and every other one of the last span are in the ZSET it
\* counts, so that an allowed request finds at most the limit in its span.
LEMMA ScriptKeeps ==
    ASSUME LimiterInv, NEW r \in Pair, Limiter!Script(r)
    PROVE  LimiterInv'
  <1>1. PICK t, e, z, k :
            /\ t = read[r].clock
            /\ e = [member |-> members + 1, score |-> t]
            /\ z = Limiter!Trimmed(IF now < expires THEN zset ELSE {}, t) \cup {e}
            /\ k = [member |-> members + 1, clock |-> t, at |-> now, allowed |-> Limiter!Allowed(Limiter!Cardinality(z))]
    OBVIOUS
  <1>2. /\ zset' = z /\ window' = window \cup {k} /\ members' = members + 1
        /\ expires' = Limiter!Deadline(now) /\ read' = [read EXCEPT ![r] = Limiter!Idle] /\ now' = now
    BY <1>1 DEF Limiter!Script
  <1>3. t \in Nat /\ t <= now /\ now <= t + MaxDelay
    BY <1>1 DEF LimiterInv, Recent, Limiter!Script
  <1>4. now \in Nat /\ members \in Nat /\ expires \in Nat
    BY DEF LimiterInv
  <1>5. k.member = members + 1 /\ k.clock = t /\ k.at = now /\ k.allowed = Limiter!Allowed(Cardinality(z)) /\ EntryOf(k) = e
    BY <1>1, LimiterCounts DEF EntryOf
  <1>6. e \in z /\ EntryOf(k) \in z
    BY <1>1, <1>5
  <1>7. IsFiniteSet(z) /\ IsFiniteSet(window')
    <2>1. IsFiniteSet(Limiter!Trimmed(IF now < expires THEN zset ELSE {}, t))
      <3>1. Limiter!Trimmed(IF now < expires THEN zset ELSE {}, t) \subseteq zset
        BY DEF Limiter!Trimmed
      <3>. QED BY <3>1, FS_Subset DEF LimiterInv
    <2>. QED BY <1>1, <1>2, <2>1, FS_AddElement DEF LimiterInv
  <1>8. ASSUME NEW l \in window, now - Span < l.at PROVE EntryOf(l) \in z
    <2>1. Judged(l, now, members, expires) /\ EntryOf(l) \in zset
      BY <1>8 DEF LimiterInv
    <2>2. EntryOf(l).score = l.clock
      BY DEF EntryOf
    <2>3. now < expires /\ l.clock > t - Window
      BY SMTT(40), <1>3, <1>4, <1>8, <2>1, LimiterNumbers DEF Judged, Span
    <2>. QED BY <1>1, <2>1, <2>2, <2>3 DEF Limiter!Trimmed
  <1>9. expires' \in Nat /\ members' \in Nat /\ now' \in Nat /\ expires' = now + Window
    BY SMTT(40), <1>2, <1>4, LimiterNumbers DEF Limiter!Deadline
  <1>10. ASSUME NEW l \in window' PROVE Judged(l, now', members', expires')
    <2>1. CASE l \in window
      <3>1. Judged(l, now, members, expires)
        BY <2>1 DEF LimiterInv
      <3>. QED BY SMTT(40), <1>2, <1>4, <1>9, <3>1, LimiterNumbers DEF Judged
    <2>2. CASE l = k
      BY SMTT(40), <1>2, <1>3, <1>4, <1>5, <1>9, <2>2, LimiterNumbers DEF Judged
    <2>. QED BY <1>2, <2>1, <2>2
  <1>11. ASSUME NEW l \in window PROVE l.member # k.member
    <2>1. Judged(l, now, members, expires)
      BY DEF LimiterInv
    <2>. QED BY SMTT(40), <1>4, <1>5, <2>1 DEF Judged
  <1>12. \A l, m \in window' : l.member = m.member => l = m
    BY <1>2, <1>11 DEF LimiterInv
  <1>13. \A l \in window' : now' - Span < l.at => EntryOf(l) \in zset'
    BY <1>2, <1>6, <1>8
  <1>14. ASSUME NEW T \in Int PROVE Cardinality(Admitted(window', T)) <= Limiter!roleLimit
    <2>1. CASE k.allowed /\ now <= T
      <3>1. ASSUME NEW l \in Admitted(window', T) PROVE l \in window' /\ now' - Span < l.at
        <4>1. l \in window' /\ T - Span < l.at
          BY DEF Admitted
        <4>2. l.at \in Nat
          BY <1>10, <4>1 DEF Judged
        <4>. QED BY SMTT(40), <1>2, <1>4, <2>1, <4>1, <4>2, LimiterNumbers
      <3>2. Cardinality(Admitted(window', T)) <= Cardinality(z) /\ IsFiniteSet(Admitted(window', T))
        BY <1>2, <1>7, <1>12, <1>13, <3>1, SpanFits
      <3>3. Cardinality(z) <= Limiter!roleLimit
        BY <1>5, <2>1 DEF Limiter!Allowed
      <3>4. Cardinality(Admitted(window', T)) \in Nat /\ Cardinality(z) \in Nat
        BY <1>7, <3>2, FS_CardinalityType
      <3>. QED BY SMTT(40), <3>2, <3>3, <3>4, LimitIsPositive
    <2>2. CASE ~(k.allowed /\ now <= T)
      <3>1. Admitted(window', T) = Admitted(window, T)
        BY <1>2, <1>5, <2>2 DEF Admitted
      <3>. QED BY <3>1 DEF LimiterInv
    <2>. QED BY <2>1, <2>2
  <1>15. read' = [q \in Pair |-> read'[q]] /\ \A q \in Pair : Recent(read'[q], now')
    <2>1. Recent(Limiter!Idle, now)
      BY DEF Recent, Limiter!Idle
    <2>. QED BY <1>2, <2>1 DEF LimiterInv
  <1>. QED BY <1>2, <1>7, <1>9, <1>10, <1>12, <1>13, <1>14, <1>15 DEF LimiterInv

\* The invariant holds for any number of replicas, any limit and window, and any
\* delay between a clock reading and its script.
LEMMA LimiterInvariant == Limiter!Spec => []LimiterInv
  <1>1. LimiterInv /\ [Limiter!Next]_(Limiter!vars) => LimiterInv'
    <2>1. SUFFICES ASSUME LimiterInv, [Limiter!Next]_(Limiter!vars) PROVE LimiterInv'
      OBVIOUS
    <2>2. CASE UNCHANGED Limiter!vars
      BY <2>1, <2>2 DEF Limiter!vars, LimiterInv
    <2>3. CASE Limiter!Tick
      BY <2>1, <2>3, TickKeeps
    <2>4. ASSUME NEW r \in Pair, Limiter!ReadClock(r) \/ Limiter!Script(r) \/ Limiter!FailOpen(r) PROVE LimiterInv'
      BY <2>1, <2>4, ReadClockKeeps, ScriptKeeps, FailOpenKeeps
    <2>. QED BY <2>1, <2>2, <2>3, <2>4 DEF Limiter!Next
  <1>. QED BY LimiterInit, <1>1, PTL DEF Limiter!Spec

\* AtMostLimit: at most the role's limit of requests is allowed in any span of
\* Window - MaxDelay, however the scripts of the replicas interleave and however
\* late their clock readings arrive.
THEOREM LimitHolds == Limiter!Spec => []AtMostLimit
  <1>1. LimiterInv => AtMostLimit
    <2>1. SUFFICES ASSUME LimiterInv, NEW l \in window
                   PROVE  Cardinality({k \in window :
                            k.allowed /\ l.at - (Window - MaxDelay) < k.at /\ k.at <= l.at}) <= Limiter!roleLimit
      BY LimiterCounts DEF AtMostLimit, Limiter!AtMostLimit
    <2>2. l.at \in Nat
      BY <2>1 DEF LimiterInv, Judged
    <2>3. l.at \in Int
      BY SMTT(40), <2>2
    <2>. QED BY <2>1, <2>3 DEF LimiterInv, Admitted, Span
  <1>. QED BY LimiterInvariant, <1>1, PTL

(***************************************************************************)
(* The life of API keys.                                                   *)
(***************************************************************************)

KeyRows == [active : BOOLEAN, to : Int, grace : Int, expires : Int]

\* One of n rows: a key is rotated to a later row; a key that was never revoked is
\* active, and what is left of its grace period is what its rotation left of it.
KeyInv(k, r, t, out, n) ==
    /\ r.to = Rotate!Null \/ r.to \in (k + 1)..n
    /\ r.grace >= Rotate!Null
    /\ k \notin out => /\ r.active
                       /\ r.to # Rotate!Null => r.grace = Grace - t

\* The n rows there are.
Keyed(n) ==
    /\ keys \in [1..n -> KeyRows]
    /\ since \in [1..n -> 0..Grace]
    /\ \A k \in 1..n : KeyInv(k, keys[k], since[k], revoked, n)

KeysInv == \E n \in Nat : Keyed(n)

\* g is the sequence f of n elements of T with x appended.
Longer(g, f, x, n, T) == g \in [1..(n + 1) -> T] /\ g[n + 1] = x /\ \A k \in 1..n : g[k] = f[k]

\* Appending to a sequence that is given as a function.
LEMMA AppendRow ==
    ASSUME NEW T, NEW n \in Nat, NEW f \in [1..n -> T], NEW x \in T
    PROVE  Longer(Append(f, x), f, x, n, T)
  <1>1. f \in Seq(T) /\ Len(f) = n
    BY SMTT(40)
  <1>2. /\ Append(f, x) \in Seq(T) /\ Len(Append(f, x)) = n + 1
        /\ Append(f, x)[n + 1] = x /\ \A k \in 1..n : Append(f, x)[k] = f[k]
    BY SMTT(40), <1>1
  <1>3. ASSUME NEW s \in Seq(T) PROVE s \in [1..Len(s) -> T]
    BY SMTT(40)
  <1>. QED BY <1>2, <1>3 DEF Longer

\* The grace period is at least one unit long.
LEMMA GraceFacts == Grace \in Nat \ {0} /\ Lifetime \in Nat /\ Rotate!Null = -1
  BY RotateAssumption DEF Rotate!ApiKeysAssumption, Rotate!Null

\* A row that is inserted, and the old rows in a table with one more.
LEMMA NewKey ==
    ASSUME NEW n \in Nat, NEW f \in [1..n -> KeyRows], NEW t \in [1..n -> 0..Grace],
           \A k \in 1..n : KeyInv(k, f[k], t[k], revoked, n + 1),
           NEW e \in Int, keys' = Append(f, Rotate!Row(e)), since' = Append(t, Grace),
           UNCHANGED revoked
    PROVE  KeysInv'
  <1>1. Rotate!Row(e) \in KeyRows
    BY SMTT(40), GraceFacts DEF Rotate!Row, KeyRows
  <1>2. KeyInv(n + 1, Rotate!Row(e), Grace, revoked, n + 1)
    BY SMTT(40), GraceFacts DEF Rotate!Row, KeyInv
  <1>3. Grace \in 0..Grace
    BY SMTT(40), GraceFacts
  <1>4. Longer(keys', f, Rotate!Row(e), n, KeyRows)
    BY <1>1, AppendRow
  <1>5. Longer(since', t, Grace, n, 0..Grace)
    BY <1>3, AppendRow
  <1>6. n + 1 \in Nat /\ \A k \in 1..(n + 1) : k \in 1..n \/ k = n + 1
    BY SMTT(40)
  <1>7. \A k \in 1..(n + 1) : KeyInv(k, keys'[k], since'[k], revoked', n + 1)
    BY <1>2, <1>4, <1>5, <1>6 DEF Longer
  <1>. QED BY <1>4, <1>5, <1>6, <1>7 DEF KeysInv, Keyed, Longer

\* A table with one more row has room for every rotation there was.
LEMMA KeyRoom ==
    ASSUME NEW n \in Nat, NEW k \in 1..n, NEW r \in KeyRows, NEW t, KeyInv(k, r, t, revoked, n)
    PROVE  KeyInv(k, r, t, revoked, n + 1)
  BY SMTT(40), GraceFacts DEF KeyInv, KeyRows

\* CreateAPIKey appends an active key that was rotated to no other.
LEMMA CreateKeeps ==
    ASSUME KeysInv, NEW e, Rotate!CreateAPIKey(e)
    PROVE  KeysInv'
  <1>1. PICK n \in Nat : Keyed(n)
    BY DEF KeysInv
  <1>2. keys \in [1..n -> KeyRows] /\ since \in [1..n -> 0..Grace]
    BY <1>1 DEF Keyed
  <1>3. \A k \in 1..n : KeyInv(k, keys[k], since[k], revoked, n + 1)
    BY <1>1, <1>2, KeyRoom DEF Keyed
  <1>4. Rotate!Null \in Int
    BY SMTT(40), GraceFacts
  <1>. QED BY <1>2, <1>3, <1>4, NewKey DEF Rotate!CreateAPIKey

\* The rotated row points to the new one and starts its grace period.
LEMMA RotateKeeps ==
    ASSUME KeysInv, NEW k \in DOMAIN keys, Rotate!RotateAPIKey(k)
    PROVE  KeysInv'
  <1>1. PICK n \in Nat : Keyed(n)
    BY DEF KeysInv
  <1>2. keys \in [1..n -> KeyRows] /\ since \in [1..n -> 0..Grace] /\ k \in 1..n
    BY <1>1 DEF Keyed
  <1>3. Rotate!NextId = n + 1
    BY SMTT(40), <1>2 DEF Rotate!NextId
  <1>4. DEFINE row == Rotate!Rotated(k, n + 1)
               f == [keys EXCEPT ![k] = row]
               t == [since EXCEPT ![k] = 0]
  <1>5. keys[k].expires \in Int
    BY SMTT(40), <1>2 DEF KeyRows
  <1>6. row \in KeyRows /\ KeyInv(k, row, 0, revoked, n + 1)
    BY SMTT(40), <1>2, <1>5, GraceFacts DEF Rotate!Rotated, KeyRows, KeyInv
  <1>7. 0 \in 0..Grace
    BY SMTT(40), GraceFacts
  <1>8. keys' = Append(f, Rotate!Row(keys[k].expires)) /\ since' = Append(t, Grace) /\ UNCHANGED revoked
    BY <1>3 DEF Rotate!RotateAPIKey, Rotate!Successor
  <1>. HIDE DEF row
  <1>9. f \in [1..n -> KeyRows] /\ t \in [1..n -> 0..Grace]
    BY <1>2, <1>6, <1>7
  <1>10. \A j \in 1..n : KeyInv(j, f[j], t[j], revoked, n + 1)
    <2>1. \A j \in 1..n : KeyInv(j, keys[j], since[j], revoked, n + 1)
      BY <1>1, <1>2, KeyRoom DEF Keyed
    <2>2. f[k] = row /\ t[k] = 0 /\ \A j \in 1..n : j # k => f[j] = keys[j] /\ t[j] = since[j]
      BY <1>2
    <2>. QED BY <1>6, <2>1, <2>2
  <1>. HIDE DEF f, t
  <1>. QED BY <1>5, <1>8, <1>9, <1>10, NewKey

\* A step that changes fields of rows, one by one, and inserts none.
LEMMA SameKeys ==
    ASSUME NEW n \in Nat, keys' \in [1..n -> KeyRows], since' \in [1..n -> 0..Grace],
           \A k \in 1..n : KeyInv(k, keys'[k], since'[k], revoked', n)
    PROVE  KeysInv'
  BY DEF KeysInv, Keyed

\* RevokeAPIKey makes a key inactive and notes that it was revoked.
LEMMA RevokeKeeps ==
    ASSUME KeysInv, NEW k \in DOMAIN keys, Rotate!RevokeAPIKey(k)
    PROVE  KeysInv'
  <1>1. PICK n \in Nat : Keyed(n)
    BY DEF KeysInv
  <1>2. keys \in [1..n -> KeyRows] /\ since \in [1..n -> 0..Grace] /\ k \in 1..n
    BY <1>1 DEF Keyed
  <1>3. revoked' = revoked \cup {k} /\ since' = since
    BY DEF Rotate!RevokeAPIKey
  <1>4. keys' = [keys EXCEPT ![k] = Rotate!Revoked(k)]
    BY DEF Rotate!RevokeAPIKey
  <1>5. keys[k].to \in Int /\ keys[k].expires \in Int
    BY SMTT(40), <1>2 DEF KeyRows
  <1>6. /\ Rotate!Revoked(k) \in KeyRows
        /\ Rotate!Revoked(k).to = keys[k].to /\ Rotate!Revoked(k).grace = Rotate!Null
    BY SMTT(40), <1>5, GraceFacts DEF Rotate!Revoked, KeyRows
  <1>7. /\ keys' \in [1..n -> KeyRows] /\ keys'[k].to = keys[k].to /\ keys'[k].grace = Rotate!Null
        /\ \A j \in 1..n : j # k => keys'[j] = keys[j]
    BY <1>2, <1>4, <1>6
  <1>8. KeyInv(k, keys'[k], since'[k], revoked', n)
    <2>1. KeyInv(k, keys[k], since[k], revoked, n)
      BY <1>1, <1>2 DEF Keyed
    <2>2. Rotate!Null >= Rotate!Null
      BY SMTT(40), GraceFacts
    <2>. QED BY <1>3, <1>7, <2>1, <2>2 DEF KeyInv
  <1>9. ASSUME NEW j \in 1..n, j # k PROVE KeyInv(j, keys'[j], since'[j], revoked', n)
    <2>1. KeyInv(j, keys[j], since[j], revoked, n)
      BY <1>1, <1>2 DEF Keyed
    <2>. QED BY <1>3, <1>7, <1>9, <2>1 DEF KeyInv
  <1>. QED BY <1>2, <1>3, <1>7, <1>8, <1>9, SameKeys

\* A new key may be given an expiry: its grace period is not touched.
LEMMA SetExpiryKeeps ==
    ASSUME KeysInv, NEW k \in DOMAIN keys, Rotate!SetExpiry(k)
    PROVE  KeysInv'
  <1>1. PICK n \in Nat : Keyed(n)
    BY DEF KeysInv
  <1>2. keys \in [1..n -> KeyRows] /\ since \in [1..n -> 0..Grace] /\ k \in 1..n
    BY <1>1 DEF Keyed
  <1>3. keys' = [keys EXCEPT ![k].expires = Lifetime] /\ UNCHANGED <<revoked, since>>
    BY DEF Rotate!SetExpiry
  <1>4. /\ keys' \in [1..n -> KeyRows]
        /\ keys'[k].to = keys[k].to /\ keys'[k].grace = keys[k].grace /\ keys'[k].active = keys[k].active
        /\ \A j \in 1..n : j # k => keys'[j] = keys[j]
    BY SMTT(40), <1>2, <1>3, GraceFacts DEF KeyRows
  <1>5. ASSUME NEW j \in 1..n PROVE KeyInv(j, keys'[j], since'[j], revoked', n)
    <2>1. KeyInv(j, keys[j], since[j], revoked, n)
      BY <1>1, <1>2 DEF Keyed
    <2>. QED BY <1>3, <1>4, <2>1 DEF KeyInv
  <1>. QED BY <1>2, <1>3, <1>4, <1>5, SameKeys

\* Time passes for the grace period and for its history alike.
LEMMA KeyTickKeeps ==
    ASSUME KeysInv, Rotate!Tick
    PROVE  KeysInv'
  <1>1. PICK n \in Nat : Keyed(n)
    BY DEF KeysInv
  <1>2. keys \in [1..n -> KeyRows] /\ since \in [1..n -> 0..Grace] /\ DOMAIN keys = 1..n
    BY <1>1 DEF Keyed
  <1>3. /\ keys' = [k \in 1..n |-> [keys[k] EXCEPT !.grace = Rotate!Left(@), !.expires = Rotate!Left(@)]]
        /\ since' = [k \in 1..n |-> IF since[k] < Grace THEN since[k] + 1 ELSE Grace]
        /\ UNCHANGED revoked
    BY <1>2 DEF Rotate!Tick, Rotate!Ids
  <1>4. ASSUME NEW k \in 1..n
        PROVE  /\ keys'[k] \in KeyRows /\ keys'[k].to = keys[k].to /\ keys'[k].active = keys[k].active
               /\ keys'[k].grace = Rotate!Left(keys[k].grace)
    <2>1. PICK r : r = [keys[k] EXCEPT !.grace = Rotate!Left(keys[k].grace)]
      OBVIOUS
    <2>2. keys'[k] = [r EXCEPT !.expires = Rotate!Left(@)]
      BY <1>3, <2>1
    <2>3. keys[k] \in KeyRows
      BY <1>2
    <2>4. \A i \in Int : Rotate!Left(i) \in Int
      BY SMTT(40) DEF Rotate!Left
    <2>5. /\ r \in KeyRows /\ r.to = keys[k].to /\ r.active = keys[k].active
          /\ r.grace = Rotate!Left(keys[k].grace)
      BY SMTT(40), <2>1, <2>3, <2>4 DEF KeyRows
    <2>. QED BY SMTT(40), <2>2, <2>4, <2>5 DEF KeyRows
  <1>5. ASSUME NEW k \in 1..n
        PROVE  since'[k] \in 0..Grace /\ KeyInv(k, keys'[k], since'[k], revoked', n)
    <2>1. KeyInv(k, keys[k], since[k], revoked, n)
      BY <1>1 DEF Keyed
    <2>2. since'[k] = IF since[k] < Grace THEN since[k] + 1 ELSE Grace
      BY <1>3
    <2>3. since[k] \in 0..Grace
      BY <1>2
    <2>4. keys[k].grace \in Int
      BY SMTT(40), <1>2 DEF KeyRows
    <2>5. since'[k] \in 0..Grace /\ Rotate!Left(keys[k].grace) >= Rotate!Null
      BY SMTT(40), <2>1, <2>2, <2>3, <2>4, GraceFacts DEF Rotate!Left, KeyInv
    <2>6. keys[k].grace = Grace - since[k] => Rotate!Left(keys[k].grace) = Grace - since'[k]
      BY SMTT(40), <2>2, <2>3, <2>4, GraceFacts DEF Rotate!Left
    <2>. QED BY <1>3, <1>4, <2>1, <2>5, <2>6 DEF KeyInv
  <1>6. keys' \in [1..n -> KeyRows] /\ since' \in [1..n -> 0..Grace]
    BY <1>3, <1>4, <1>5
  <1>. QED BY <1>5, <1>6, SameKeys

\* The periods of a row that is not revoked, and the lines of keys.
LEMMA KeysNext ==
    ASSUME KeysInv, [Rotate!Next]_(Rotate!vars)
    PROVE  KeysInv'
  <1>1. CASE UNCHANGED Rotate!vars
    BY <1>1 DEF Rotate!vars, KeysInv, Keyed
  <1>2. CASE \E e \in Asked : Rotate!CreateAPIKey(e)
    BY <1>2, CreateKeeps
  <1>3. ASSUME NEW k \in DOMAIN keys, Rotate!RotateAPIKey(k) \/ Rotate!RevokeAPIKey(k) \/ Rotate!SetExpiry(k)
        PROVE  KeysInv'
    BY <1>3, RotateKeeps, RevokeKeeps, SetExpiryKeeps
  <1>4. CASE Rotate!Tick
    BY <1>4, KeyTickKeeps
  <1>. QED BY <1>1, <1>2, <1>3, <1>4 DEF Rotate!Next, Rotate!Ids

INSTANCE WellFoundedInduction

\* Every set of natural numbers that is not empty has a least element.
LEMMA LeastNat ==
    ASSUME NEW T \in SUBSET Nat, T # {}
    PROVE  \E x \in T : \A y \in T : x <= y
  <1>1. PICK x \in T : \A y \in T : ~(<<y, x>> \in OpToRel(<, Nat))
    BY WFMin, NatLessThanWellFounded
  <1>2. ASSUME NEW y \in Nat PROVE <<y, x>> \in OpToRel(<, Nat) <=> y < x
    BY SMTT(40) DEF OpToRel
  <1>3. \A y \in T : ~(y < x)
    BY <1>1, <1>2
  <1>4. \A y \in T : x <= y
    BY SMTT(40), <1>3
  <1>. QED BY <1>4

\* Every set of ids that is not empty has a greatest element.
LEMMA GreatestId ==
    ASSUME NEW n \in Nat, NEW S \in SUBSET (1..n), S # {}
    PROVE  \E x \in S : \A y \in S : y <= x
  <1>1. DEFINE T == {i \in 0..n : \E y \in S : i = n - y}
  <1>2. \A y \in S : n - y \in T
    BY SMTT(40)
  <1>3. T \in SUBSET Nat /\ T # {}
    <2>1. 0..n \subseteq Nat
      BY SMTT(40)
    <2>. QED BY <1>2, <2>1
  <1>4. PICK i \in T : \A j \in T : i <= j
    BY <1>3, LeastNat
  <1>5. PICK x \in S : i = n - x
    BY <1>4
  <1>6. \A y \in S : n - x <= n - y
    BY <1>2, <1>4, <1>5
  <1>7. \A y \in S : y <= x
    BY SMTT(40), <1>6
  <1>. QED BY <1>7

\* The line of a key has the key, and with a key the one it was rotated to.
LEMMA LineFacts ==
    ASSUME KeysInv, NEW k \in DOMAIN keys
    PROVE  /\ k \in Rotate!Line(k) /\ Rotate!Line(k) \subseteq DOMAIN keys
           /\ \A j \in Rotate!Line(k) : keys[j].to # Rotate!Null => keys[j].to \in Rotate!Line(k)
  <1>1. PICK n \in Nat : Keyed(n)
    BY DEF KeysInv
  <1>2. DOMAIN keys = 1..n
    BY <1>1 DEF Keyed
  <1>3. ASSUME NEW j \in 1..n, keys[j].to # Rotate!Null PROVE keys[j].to \in 1..n
    <2>1. keys[j].to \in (j + 1)..n
      BY <1>1, <1>3 DEF Keyed, KeyInv
    <2>. QED BY SMTT(40), <2>1
  <1>. QED BY <1>2, <1>3 DEF Rotate!Line, Rotate!Ids

\* The last key of a line was rotated to no other.
LEMMA LineEnds ==
    ASSUME KeysInv, NEW k \in DOMAIN keys
    PROVE  \E j \in Rotate!Line(k) : keys[j].to = Rotate!Null
  <1>1. PICK n \in Nat : Keyed(n)
    BY DEF KeysInv
  <1>2. DOMAIN keys = 1..n
    BY <1>1 DEF Keyed
  <1>3. PICK j \in Rotate!Line(k) : \A i \in Rotate!Line(k) : i <= j
    BY <1>2, LineFacts, GreatestId
  <1>4. j \in 1..n
    BY <1>2, LineFacts
  <1>5. ASSUME keys[j].to # Rotate!Null PROVE FALSE
    <2>1. keys[j].to \in (j + 1)..n
      BY <1>1, <1>4, <1>5 DEF Keyed, KeyInv
    <2>2. keys[j].to <= j
      BY <1>3, <1>5, LineFacts
    <2>. QED BY SMTT(40), <1>4, <2>1, <2>2
  <1>. QED BY <1>5

\* What the invariant says of a state.
LEMMA KeysSeamless == ASSUME KeysInv PROVE RotationIsSeamless
  <1>1. PICK n \in Nat : Keyed(n)
    BY DEF KeysInv
  <1>2. DOMAIN keys = 1..n
    BY <1>1 DEF Keyed
  <1>3. Rotate!SomeKeyIsValid
    <2>1. SUFFICES ASSUME NEW k \in DOMAIN keys,
                          \A j \in Rotate!Line(k) : j \notin revoked /\ keys[j].expires # 0
                   PROVE  \E j \in Rotate!Line(k) : Rotate!Valid(keys[j])
      BY DEF Rotate!SomeKeyIsValid, Rotate!Ids
    <2>2. PICK j \in Rotate!Line(k) : keys[j].to = Rotate!Null
      BY LineEnds
    <2>3. j \in 1..n
      BY <1>2, LineFacts
    <2>4. keys[j].active
      BY <1>1, <2>1, <2>3 DEF Keyed, KeyInv
    <2>. QED BY <2>1, <2>2, <2>4 DEF Rotate!Valid
  <1>4. Rotate!GraceIsExact
    <2>1. SUFFICES ASSUME NEW k \in DOMAIN keys, keys[k].to # Rotate!Null, k \notin revoked,
                          keys[k].expires = Rotate!Null
                   PROVE  Rotate!Valid(keys[k]) <=> since[k] < Grace
      BY DEF Rotate!GraceIsExact, Rotate!Ids
    <2>2. keys[k].active /\ keys[k].grace = Grace - since[k] /\ since[k] \in 0..Grace
      BY <1>1, <1>2, <2>1 DEF Keyed, KeyInv
    <2>3. keys[k].expires # 0
      BY SMTT(40), <2>1, GraceFacts
    <2>4. keys[k].grace > 0 <=> since[k] < Grace
      BY SMTT(40), <2>2, GraceFacts
    <2>. QED BY <2>1, <2>2, <2>3, <2>4 DEF Rotate!Valid
  <1>. QED BY <1>3, <1>4 DEF RotationIsSeamless, Rotate!RotationIsSeamless

\* RotationIsSeamless: however keys are rotated, revoked and expired, and rotated again
\* within a grace period, a key or one of those it was rotated to authenticates unless
\* one of them was revoked or has expired, and a rotated key ends with its grace period.
THEOREM RotationsAreSeamless == Rotate!Spec => []RotationIsSeamless
  <1>1. Rotate!Init => KeysInv
    <2>1. SUFFICES ASSUME Rotate!Init PROVE KeysInv
      OBVIOUS
    <2>2. keys \in [1..0 -> KeyRows] /\ since \in [1..0 -> 0..Grace] /\ 0 \in Nat /\ 1..0 = {}
      BY SMTT(40), <2>1 DEF Rotate!Init
    <2>. QED BY <2>2 DEF KeysInv, Keyed
  <1>2. KeysInv /\ [Rotate!Next]_(Rotate!vars) => KeysInv'
    BY KeysNext
  <1>3. KeysInv => RotationIsSeamless
    BY KeysSeamless
  <1>. QED BY <1>1, <1>2, <1>3, PTL DEF Rotate!Spec
=============================================================================

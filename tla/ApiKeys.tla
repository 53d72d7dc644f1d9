------------------------------ MODULE ApiKeys ------------------------------
(***************************************************************************)
(* The life of the api_keys rows: created, rotated with a grace period,    *)
(* revoked, expired.  Time is kept as what is left of a period, so it can  *)
(* pass without a bound.                                                   *)
(***************************************************************************)
EXTENDS Integers, Sequences

CONSTANTS
    MaxKeys,  \* bound on the rows ever inserted
    Grace,    \* the interval of admin_rotate_api_key
    Lifetime, \* what is left of a key that shall expire
    Asked     \* the expiries creators ask for: Lifetime, or Null for none

\* What the constants must satisfy.
ApiKeysAssumption == MaxKeys \in Nat /\ Grace \in Nat \ {0} /\ Lifetime \in Nat

VARIABLES
    keys,     \* the rows, by id
    revoked,  \* history: ids that were revoked at some time
    since,    \* history: id -> time since it was last rotated, up to Grace
    asked     \* history: id -> what is left of the life its creator asked for

vars == <<keys, revoked, since, asked>>

Null == -1
Ids == DOMAIN keys
NextId == Len(keys) + 1

\* to: rotated_to; grace, expires: what is left of the period, 0 when it is over.
Row(expires) == [active |-> TRUE, to |-> Null, grace |-> Null, expires |-> expires]

Init == keys = <<>> /\ revoked = {} /\ since = <<>> /\ asked = <<>>

\* Whatever expiry is asked for, the service passes none.
CreateAPIKey(expires) ==
    /\ NextId <= MaxKeys
    /\ keys' = Append(keys, Row(Null))
    /\ since' = Append(since, Grace)
    /\ asked' = Append(asked, expires)
    /\ UNCHANGED revoked

\* Mutant: the old key is refused at once.
RotatedAtOnce(k, new) ==
    [active |-> TRUE, to |-> new, grace |-> 0, expires |-> keys[k].expires]

\* The update of the old row.
Rotated(k, new) ==
    [active |-> TRUE, to |-> new, grace |-> Grace, expires |-> keys[k].expires]

\* The new row: tenant, name, role and expiry of the old one.
Successor(k) == Row(keys[k].expires)

\* The row is locked, so rotations and revocations of a key are in some order.
RotateAPIKey(k) ==
    /\ NextId <= MaxKeys
    /\ ~(keys[k].to # Null /\ keys[k].grace = 0)
    /\ keys' = Append([keys EXCEPT ![k] = Rotated(k, NextId)], Successor(k))
    /\ since' = Append([since EXCEPT ![k] = 0], Grace)
    /\ asked' = Append(asked, asked[k])
    /\ UNCHANGED revoked

Revoked(k) == [active |-> FALSE, to |-> keys[k].to, grace |-> Null, expires |-> keys[k].expires]

RevokeAPIKey(k) ==
    /\ keys[k].active
    /\ keys' = [keys EXCEPT ![k] = Revoked(k)]
    /\ revoked' = revoked \cup {k}
    /\ UNCHANGED <<since, asked>>

\* An operator sets expires_at in SQL.
SetExpiry(k) ==
    /\ keys[k].expires = Null
    /\ keys' = [keys EXCEPT ![k].expires = Lifetime]
    /\ UNCHANGED <<revoked, since, asked>>

Left(t) == IF t > 0 THEN t - 1 ELSE t

Tick ==
    /\ keys' = [k \in Ids |-> [keys[k] EXCEPT !.grace = Left(@), !.expires = Left(@)]]
    /\ since' = [k \in Ids |-> IF since[k] < Grace THEN since[k] + 1 ELSE Grace]
    /\ asked' = [k \in Ids |-> Left(asked[k])]
    /\ UNCHANGED revoked

\* The query of authMiddleware.
Valid(row) ==
    /\ row.active
    /\ row.expires # 0
    /\ row.to = Null \/ row.grace > 0

Next ==
    \/ \E expires \in Asked : CreateAPIKey(expires)
    \/ \E k \in Ids : RotateAPIKey(k) \/ RevokeAPIKey(k) \/ SetExpiry(k)
    \/ Tick

Spec == Init /\ [][Next]_vars

(***************************************************************************)
(* Properties.                                                             *)
(***************************************************************************)
TypeOK ==
    /\ Len(keys) <= MaxKeys
    /\ DOMAIN since = Ids /\ DOMAIN asked = Ids /\ revoked \subseteq Ids
    /\ \A k \in Ids :
        /\ keys[k].active \in BOOLEAN
        /\ keys[k].to \in {Null} \cup (Ids \ {k})
        /\ keys[k].grace \in Null..Grace
        /\ keys[k].expires \in Null..Lifetime
        /\ since[k] \in 0..Grace

\* The keys k was rotated to, directly or through others, and k: the least set with k
\* that rotated_to does not leave.
Line(k) ==
    LET Closed(S) == \A i \in S : keys[i].to # Null => keys[i].to \in S
    IN  {j \in Ids : \A S \in SUBSET Ids : k \in S /\ Closed(S) => j \in S}

\* Rotation locks nobody out: whatever the order of rotations, and of rotations inside
\* a grace period, a key authenticates or one it was rotated to does, unless one of them
\* was revoked or has expired.
SomeKeyIsValid ==
    \A k \in Ids :
        (\A j \in Line(k) : j \notin revoked /\ keys[j].expires # 0) =>
            \E j \in Line(k) : Valid(keys[j])

\* CHANGELOG.md:213: the previous hash remains valid for the grace period, and authMiddleware
\* refuses it afterwards.
GraceIsExact ==
    \A k \in Ids : keys[k].to # Null /\ k \notin revoked /\ keys[k].expires = Null =>
        (Valid(keys[k]) <=> since[k] < Grace)

\* A rotation hands over without a gap and ends the old key on time.
RotationIsSeamless == SomeKeyIsValid /\ GraceIsExact

\* proto/pcmi/v1/admin.proto:83: the expiry of a new key is optional, "Empty = never
\* expires".  A key does not outlive the expiry its creator asked for.
ExpiryIsKept == \A k \in Ids : asked[k] = 0 => ~Valid(keys[k])

=============================================================================

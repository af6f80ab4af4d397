------------------------------ MODULE Bucket ------------------------------
(***************************************************************************)
(* ratelimit.Bucket, the token bucket each process keeps per key, in whole *)
(* units: a token is PerToken of them, and a tick adds Rate.  ideal is the *)
(* bucket every key would have if the process had room for all of them.    *)
(***************************************************************************)
EXTENDS Naturals, FiniteSets, Functions

CONSTANTS BKeys, Burst, PerToken, Rate,
          MaxKeys               \* maxKeys of the bucket, 1 or more

\* NewBucket replaces a maxKeys that is not positive by 10000.
ASSUME BucketAssumption == Burst \in Nat /\ PerToken \in Nat /\ Rate \in Nat /\ MaxKeys \in Nat \ {0}

VARIABLES entries,              \* key -> what it held, and how long ago
          ideal                 \* history: key -> what it holds now

bvars == <<entries, ideal>>

Least(a, b) == IF a < b THEN a ELSE b

Full == Burst * PerToken

Holding(tokens, age) == [tokens |-> tokens, age |-> age]

\* What a bucket holds now.
Refilled(e) == Least(Full, e.tokens + e.age * Rate)

Takes(tokens) == IF tokens >= PerToken THEN tokens - PerToken ELSE tokens

\* Variant with a fault: any key that could take a token is dropped.
BusyToo(e) == Refilled(e) >= PerToken

\* dropIdle: only a bucket that is full again carries no information.
Droppable(e) == Refilled(e) >= Full

\* Allow: the entries a new key finds.
Roomy(k) ==
    IF k \notin DOMAIN entries /\ Cardinality(DOMAIN entries) >= MaxKeys
    THEN Restrict(entries, {q \in DOMAIN entries : ~Droppable(entries[q])}) ELSE entries

HasRoom(k) == k \in DOMAIN entries \/ Cardinality(DOMAIN Roomy(k)) < MaxKeys

Held(k) == IF k \in DOMAIN entries THEN Refilled(entries[k]) ELSE Full

\* Allow: a key that does not fit is let through and not counted.
Allow(k) ==
    IF HasRoom(k)
    THEN /\ entries' = [q \in DOMAIN Roomy(k) \cup {k} |->
                          IF q = k THEN Holding(Takes(Held(k)), 0) ELSE entries[q]]
         /\ ideal' = [ideal EXCEPT ![k] = Takes(@)]
    ELSE entries' = Roomy(k) /\ UNCHANGED ideal

\* A tick; a bucket that is full does not grow older.
BucketTick ==
    /\ entries' = [k \in DOMAIN entries |->
                     IF Droppable(entries[k]) THEN entries[k]
                     ELSE Holding(entries[k].tokens, entries[k].age + 1)]
    /\ ideal' = [k \in BKeys |-> Least(Full, ideal[k] + Rate)]

BucketInit ==
    /\ entries = [k \in {} |-> Holding(0, 0)]
    /\ ideal = [k \in BKeys |-> Full]

BucketNext == BucketTick \/ \E k \in BKeys : Allow(k)

BucketSpec == BucketInit /\ [][BucketNext]_bvars

-----------------------------------------------------------------------------
(* Properties.                                                             *)

\* Making room forgets nothing: there are at most MaxKeys buckets, and still
\* every key holds what a bucket of its own that was never dropped would hold,
\* so no key gets more than its rate and burst out of the requests that are
\* counted.
NothingGained ==
    /\ Cardinality(DOMAIN entries) <= MaxKeys
    /\ \A k \in BKeys : Held(k) = ideal[k]

=============================================================================

------------------------------ MODULE TTLCache ------------------------------
(***************************************************************************)
(* Package ttlcache as operators on its map: a key has a value and the     *)
(* ticks it has left; an entry at zero is expired and still stored, until a *)
(* Get or a Set at capacity drops it.                                      *)
(***************************************************************************)
EXTENDS Naturals, FiniteSets

CONSTANT CacheMax       \* ttlcache.New's max

ASSUME CacheAssumption == CacheMax \in Nat \ {0}

Entry(v, n) == [v |-> v, left |-> n]

EmptyCache == [k \in {} |-> Entry(k, 0)]

Hit(m, k) == k \in DOMAIN m /\ m[k].left > 0

Only(m, S) == [k \in DOMAIN m \cap S |-> m[k]]

Deleted(m, k) == Only(m, DOMAIN m \ {k})

\* Get: the map afterwards.
AfterGet(m, k) == IF Hit(m, k) THEN m ELSE Deleted(m, k)

\* Set at capacity: the expired entries go, and if that is not enough all do.
Swept(m) ==
    LET live == Only(m, {k \in DOMAIN m : m[k].left > 0})
    IN  IF Cardinality(DOMAIN live) >= CacheMax THEN EmptyCache ELSE live

MadeRoom(m, k) ==
    IF k \notin DOMAIN m /\ Cardinality(DOMAIN m) >= CacheMax THEN Swept(m) ELSE m

AfterSet(m, k, v, ttl) ==
    [j \in DOMAIN MadeRoom(m, k) \cup {k} |->
        IF j = k THEN Entry(v, ttl) ELSE MadeRoom(m, k)[j]]

\* Time passes.
Elapse(m) == [k \in DOMAIN m |-> Entry(m[k].v, IF m[k].left = 0 THEN 0 ELSE m[k].left - 1)]

=============================================================================

------------------------------- MODULE KeySet -------------------------------
(***************************************************************************)
(* jwtverify.Verifier.keyForKID in one process: concurrent requests that   *)
(* resolve a kid against the keys in memory, the shared cache and the      *)
(* identity provider.  A key set is the number of the provider's rotation  *)
(* that made it, and holds the kid of that number.  A tick is about the    *)
(* length of an HTTP timeout, so no request lives through two of them.     *)
(* since is history: the ticks since a kid was published or withdrawn, not *)
(* counting any up to the last outage.                                     *)
(***************************************************************************)
EXTENDS Integers, FiniteSets

CONSTANTS Verifies,             \* the concurrent requests
          KeyTTL, SharedTTL,    \* ticks a set is served from memory, from the cache
          Throttle,             \* ticks between two forced refreshes
          MaxRotations          \* bound: rotations at the provider

ASSUME KeyAssumption == KeyTTL \in Nat /\ SharedTTL \in Nat /\ MaxRotations \in Nat

VARIABLES pub, up,              \* the provider: its key set, reachable
          shared, mem,          \* the set in the shared cache and in memory
          throttle,             \* ticks until the next forced refresh
          mu,                   \* who holds refreshMu
          ver, since

kvars == <<pub, up, shared, mem, throttle, mu, ver, since>>

NoSet == -1

Bogus == -2

Nobody == "nobody"

Set(v, n) == [v |-> v, left |-> n]

Frame(pc, kid, hand, forced, old) ==
    [pc |-> pc, kid |-> kid, hand |-> hand, forced |-> forced, old |-> old]

Ready == Frame("idle", Bogus, NoSet, FALSE, FALSE)

To(r, pc, hand, forced) ==
    ver' = [ver EXCEPT ![r] = Frame(pc, ver[r].kid, hand, forced, ver[r].old)]

\* Return, and the deferred unlock.
Result(r, pc) ==
    /\ To(r, pc, NoSet, FALSE)
    /\ mu' = IF mu = r THEN Nobody ELSE mu

Has(s, r) == s.v = ver[r].kid

\* keyForKID's look at the keys in memory.
Lookup(r, kid) ==
    /\ ver[r].pc = "idle"
    /\ ver' = [ver EXCEPT ![r] =
                 Frame(IF mem.left = 0 THEN "lock" ELSE IF mem.v = kid THEN "accepted" ELSE "force",
                       kid, NoSet, FALSE, FALSE)]
    /\ UNCHANGED <<pub, up, shared, mem, throttle, mu, since>>

\* Under refreshMu: another request may have reloaded the set.
Relook(r) ==
    /\ ver[r].pc = "lock"
    /\ mu = Nobody
    /\ IF mem.left > 0 /\ Has(mem, r) THEN To(r, "accepted", NoSet, FALSE) /\ UNCHANGED mu
       ELSE To(r, "shared", NoSet, FALSE) /\ mu' = r
    /\ UNCHANGED <<pub, up, shared, mem, throttle, since>>

\* Variant with a fault: the set in the shared cache does not expire.
ReadSharedStale(r) ==
    /\ ver[r].pc = "shared"
    /\ To(r, IF shared.v # NoSet THEN "store" ELSE "fetch", shared.v, FALSE)
    /\ UNCHANGED <<pub, up, shared, mem, throttle, mu, since>>

\* fetchJWKS unforced: the shared cache, else the provider.
ReadShared(r) ==
    /\ ver[r].pc = "shared"
    /\ \/ /\ shared.left > 0
          /\ To(r, "store", shared.v, FALSE)
       \/ To(r, "fetch", NoSet, FALSE)      \* a miss, or the cache failed
    /\ UNCHANGED <<pub, up, shared, mem, throttle, mu, since>>

\* refreshForUnknownKID: the slot is taken before the call.
ForceRefresh(r) ==
    /\ ver[r].pc = "force"
    /\ \/ /\ throttle > 0
          /\ Result(r, "rejected")
          /\ UNCHANGED throttle
       \/ /\ throttle = 0
          /\ throttle' = Throttle
          /\ To(r, "fetch", NoSet, TRUE)
          /\ UNCHANGED mu
    /\ UNCHANGED <<pub, up, shared, mem, since>>

\* fetchJWKSFromURL, and stale-if-error for an unforced load.
Fetch(r) ==
    /\ ver[r].pc = "fetch"
    /\ IF up THEN To(r, "cache", pub, ver[r].forced) /\ UNCHANGED mu
       ELSE Result(r, IF ~ver[r].forced /\ Has(mem, r) THEN "accepted" ELSE "rejected")
    /\ UNCHANGED <<pub, up, shared, mem, throttle, since>>

\* The fetched set goes to the shared cache, if that works.
WriteShared(r) ==
    /\ ver[r].pc = "cache"
    /\ shared' \in {shared, Set(ver[r].hand, SharedTTL)}
    /\ To(r, "store", ver[r].hand, ver[r].forced)
    /\ UNCHANGED <<pub, up, mem, throttle, mu, since>>

\* store replaces the keys in memory, whatever is there by now.
Store(r) ==
    /\ ver[r].pc = "store"
    /\ mem' = Set(ver[r].hand, KeyTTL)
    /\ IF ver[r].hand = ver[r].kid THEN Result(r, "accepted")
       ELSE IF ver[r].forced THEN Result(r, "rejected")
       ELSE To(r, "force", NoSet, FALSE) /\ UNCHANGED mu
    /\ UNCHANGED <<pub, up, shared, throttle, since>>

Settled(r) ==
    /\ ver[r].pc \in {"accepted", "rejected"}
    /\ ver' = [ver EXCEPT ![r] = Ready]
    /\ UNCHANGED <<pub, up, shared, mem, throttle, mu, since>>

\* The provider replaces its keys, goes down or comes back.
Rotate ==
    /\ pub < MaxRotations
    /\ pub' = pub + 1
    /\ since' = [since EXCEPT ![pub] = 0]
    /\ UNCHANGED <<up, shared, mem, throttle, mu, ver>>

Outage ==
    /\ up' = ~up
    /\ since' = IF up THEN [k \in DOMAIN since |-> 0] ELSE since
    /\ UNCHANGED <<pub, shared, mem, throttle, mu, ver>>

\* How long a set may be seen after the provider replaced it: one that was a tick on its way is loaded
\* from the shared cache in its last tick, and from memory in its last one.
WithdrawWindow == SharedTTL + KeyTTL + 1

Dec(n) == IF n = 0 THEN 0 ELSE n - 1

KeyTick ==
    /\ \A r \in Verifies : ~ver[r].old
    /\ shared' = Set(shared.v, Dec(shared.left))
    /\ mem' = Set(mem.v, Dec(mem.left))
    /\ throttle' = Dec(throttle)
    /\ ver' = [r \in Verifies |->
                 IF ver[r].pc = "idle" THEN ver[r]
                 ELSE Frame(ver[r].pc, ver[r].kid, ver[r].hand, ver[r].forced, TRUE)]
    /\ since' = [k \in DOMAIN since |->
                  IF k <= pub /\ up /\ since[k] <= WithdrawWindow THEN since[k] + 1 ELSE since[k]]
    /\ UNCHANGED <<pub, up, mu>>

KeyInit ==
    /\ pub = 0 /\ up = TRUE
    /\ shared = Set(NoSet, 0) /\ mem = Set(NoSet, 0)
    /\ throttle = 0
    /\ mu = Nobody
    /\ ver = [r \in Verifies |-> Ready]
    /\ since = [k \in 0..MaxRotations |-> 0]

Works(r) ==
    \/ Relook(r) \/ ReadShared(r) \/ ForceRefresh(r) \/ Fetch(r)
    \/ WriteShared(r) \/ Store(r) \/ Settled(r)

KeyNext ==
    \/ \E r \in Verifies : Works(r) \/ \E kid \in (0..pub) \cup {Bogus} : Lookup(r, kid)
    \/ Rotate \/ Outage \/ KeyTick

KeySpec == KeyInit /\ [][KeyNext]_kvars

-----------------------------------------------------------------------------
(* Properties.                                                             *)

\* A rotation takes effect: a withdrawn key is accepted, and the present one is
\* turned away, only for a bounded time after the rotation and after the last
\* outage, however the reloads of several requests, slow ones among them,
\* interleave, and though failed refreshes and made-up kids use up the forced
\* ones.
RotationSeen ==
    \A r \in Verifies :
        \/ ver[r].pc = "accepted" /\ ver[r].kid < pub
        \/ ver[r].pc = "rejected" /\ ver[r].kid = pub /\ up
        => since[ver[r].kid] <= WithdrawWindow

=============================================================================

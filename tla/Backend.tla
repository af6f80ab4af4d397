------------------------------ MODULE Backend ------------------------------
(***************************************************************************)
(* The cache backends.  kept is a MemoryBackend: key -> time left, 0 for an *)
(* entry that has expired and was not removed yet.  The rest is the        *)
(* DeletePrefix of RedisBackend, a SCAN whose pages interleave with writes *)
(* of other replicas.  SCAN (external) goes through the slots of the key   *)
(* space in any order, so it returns every key that stays.                 *)
(***************************************************************************)
EXTENDS Naturals, FiniteSets, Functions

CONSTANTS CKeys, Prefixed,      \* the keys, and those with the prefix
          Slots, SlotOf,        \* where SCAN finds each key
          MaxSize, MaxLeft

\* NewMemoryBackend replaces a maxSize that is not positive by 1000.
ASSUME BackendAssumption == MaxSize \in Nat \ {0} /\ SlotOf \in [CKeys -> Slots]

VARIABLES kept,
          store,                \* the keys Valkey holds
          old,                  \* history: prefixed keys not written since the call
          scan                  \* DeletePrefix: pc, slots not scanned, elements

cvars == <<kept, store, old, scan>>

\* MemoryBackend.Get and Delete remove the entry, DeletePrefix all it matches.
MemDrop(ks) ==
    /\ kept' = Restrict(kept, DOMAIN kept \ ks)
    /\ UNCHANGED <<store, old, scan>>

MemGet(k) == k \in DOMAIN kept /\ kept[k] = 0 /\ MemDrop({k})

MemDelete(k) == k \in DOMAIN kept /\ MemDrop({k})

MemDeletePrefix == MemDrop(Prefixed)

Expired == {k \in DOMAIN kept : kept[k] = 0}

\* Variant with a fault: only an expired entry makes room.
EvictExpired(k) == Expired

\* evictOne: an expired entry if there is one, or else any.
Evicted(k) == IF Expired # {} THEN Expired ELSE DOMAIN kept

MemSet(k, left) ==
    \E gone \in IF k \notin DOMAIN kept /\ Cardinality(DOMAIN kept) >= MaxSize /\ Evicted(k) # {}
                THEN {{e} : e \in Evicted(k)} ELSE {{}} :
      /\ kept' = [q \in (DOMAIN kept \ gone) \cup {k} |-> IF q = k THEN left ELSE kept[q]]
      /\ UNCHANGED <<store, old, scan>>

MemTick ==
    /\ \E k \in DOMAIN kept : kept[k] > 0
    /\ kept' = [k \in DOMAIN kept |-> IF kept[k] = 0 THEN 0 ELSE kept[k] - 1]
    /\ UNCHANGED <<store, old, scan>>

-----------------------------------------------------------------------------

Scanning(pc, left, found) == [pc |-> pc, left |-> left, found |-> found]

\* Another replica's Set.
RedisSet(k) ==
    /\ store' = store \cup {k}
    /\ old' = old \ {k}
    /\ UNCHANGED <<kept, scan>>

DeletePrefix ==
    /\ scan.pc = "idle"
    /\ scan' = Scanning("scan", Slots, {})
    /\ old' = store \cap Prefixed
    /\ UNCHANGED <<kept, store>>

\* Variant with a fault: a page without elements is taken for the last one.
AfterEmpty(found, left) == IF found = {} THEN Scanning("done", {}, {}) ELSE Scanning("del", left, found)

\* A page with no elements is not the end: only the cursor says so.
AfterPage(found, left) ==
    IF found # {} THEN Scanning("del", left, found)
    ELSE IF left = {} THEN Scanning("done", {}, {}) ELSE Scanning("scan", left, {})

\* The escaped prefix and a star.
Matches(s) == {k \in store \cap Prefixed : SlotOf[k] = s}

ScanPage(s) ==
    /\ scan.pc = "scan" /\ s \in scan.left
    /\ scan' = AfterPage(Matches(s), scan.left \ {s})
    /\ UNCHANGED <<kept, store, old>>

DelPage ==
    /\ scan.pc = "del"
    /\ store' = store \ scan.found
    /\ old' = old \ scan.found
    /\ scan' = IF scan.left = {} THEN Scanning("done", {}, {}) ELSE Scanning("scan", scan.left, {})
    /\ UNCHANGED kept

\* The call returns; a failed SCAN or DEL ends it early, with its error.
ScanReturns(failed) ==
    /\ scan.pc = "done" \/ (failed /\ scan.pc \in {"scan", "del"})
    /\ scan' = Scanning("idle", {}, {})
    /\ old' = {}
    /\ UNCHANGED <<kept, store>>

BackendInit ==
    /\ kept = [k \in {} |-> 0]
    /\ store = {}
    /\ old = {}
    /\ scan = Scanning("idle", {}, {})

BackendNext ==
    \/ \E k \in CKeys : MemGet(k) \/ MemDelete(k) \/ RedisSet(k) \/ \E left \in 0..MaxLeft : MemSet(k, left)
    \/ MemDeletePrefix \/ MemTick
    \/ DeletePrefix \/ DelPage \/ \E s \in Slots : ScanPage(s)
    \/ \E failed \in BOOLEAN : ScanReturns(failed)

BackendSpec == BackendInit /\ [][BackendNext]_cvars

-----------------------------------------------------------------------------
(* Properties.                                                             *)

\* maxSize is a hard cap, also when no entry has expired.
CapHolds == Cardinality(DOMAIN kept) <= MaxSize

\* When DeletePrefix has gone through, no prefixed key that was there when it
\* began is left, unless somebody wrote it again meanwhile.
PrefixGone == scan.pc = "done" => old = {}

=============================================================================

--------------------------- MODULE SessionProofs ----------------------------
(***************************************************************************)
(* What a process holds for its callers, for every value of the constants: *)
(* the authorizations it asked for, the tokens it sends along, and the     *)
(* registry of the sockets it drains.                                      *)
(***************************************************************************)
EXTENDS AuthCache, Tokens, Registry, FiniteSetTheorems, TLAPS

-----------------------------------------------------------------------------
(* The cache of authorizations: NothingForgotten, WaitsForLive and         *)
(* CacheBounded for any keys, requests and loads. NothingForgotten speaks  *)
(* of answers only. The inductive invariant follows the version on its way *)
(* there: what is cached, what a load that may be kept or joined has read, *)
(* and what a request may still be given are all at least as new as the    *)
(* Forget they must respect.                                               *)

LoadStates == {"free", "started", "read"}

ReqStates == {"idle", "missed", "waiting", "answered"}

LoadRecs == [state : LoadStates, key : AKeys \cup {None}, v : Versions, current : BOOLEAN]

ReqRecs == [state : ReqStates, key : AKeys \cup {None}, floor : Versions, load : Loads \cup {None}, v : Versions]

Entries == [v : Versions, left : 0..CacheTTL]

CacheOK(m) == DOMAIN m \subseteq AKeys /\ \A k \in DOMAIN m : m[k] \in Entries

Typed ==
    /\ truth \in [AKeys -> Versions] /\ forgot \in [AKeys -> Versions]
    /\ calls \in [AKeys -> Loads \cup {None}]
    /\ load \in [Loads -> LoadRecs]
    /\ req \in [Requests -> ReqRecs]

\* Nothing cached is older than the last Forget of its key.
Cached ==
    /\ \A k \in AKeys : forgot[k] <= truth[k]
    /\ \A k \in DOMAIN tc : tc[k].v >= forgot[k]

\* Nor is what a load has read that will be kept, or that a Get may join.
LoadOK(l) ==
    load[l].state # "free" =>
        /\ load[l].key \in AKeys
        /\ load[l].state = "read" /\ load[l].current => load[l].v >= forgot[load[l].key]

CallOK(k) ==
    calls[k] # None =>
        LET c == load[calls[k]]
        IN  c.state # "free" /\ c.key = k /\ (c.state = "read" => c.v >= forgot[k])

\* A request has seen no Forget that its answer will not respect.
ReqOK(r) ==
    LET q == req[r]
    IN  /\ q.state = "missed" => q.key \in AKeys /\ q.floor <= forgot[q.key]
        /\ q.state = "waiting" =>
             /\ q.key \in AKeys /\ q.load \in Loads /\ q.floor <= truth[q.key]
             /\ load[q.load].state # "free" /\ load[q.load].key = q.key
             /\ load[q.load].state = "read" => load[q.load].v >= q.floor
        /\ q.state = "answered" => q.v >= q.floor

Flows ==
    /\ \A l \in Loads : LoadOK(l)
    /\ \A k \in AKeys : CallOK(k)
    /\ \A r \in Requests : ReqOK(r)

BoundedMap(m) == IsFiniteSet(DOMAIN m) /\ Cardinality(DOMAIN m) <= CacheMax

CacheInv == Typed /\ CacheOK(tc) /\ BoundedMap(tc) /\ Cached /\ Flows

-----------------------------------------------------------------------------
(* The ttlcache: what its operations keep, drop and add.                   *)

\* A map of fewer keys is as well typed and as bounded.
LEMMA FewerKeys ==
  ASSUME NEW m, NEW n, CacheOK(m), BoundedMap(m), DOMAIN n \subseteq DOMAIN m,
         \A j \in DOMAIN n : n[j] = m[j]
  PROVE  CacheOK(n) /\ BoundedMap(n)
<1>1. CacheOK(n)
  BY DEF CacheOK
<1>2. IsFiniteSet(DOMAIN n) /\ Cardinality(DOMAIN n) <= Cardinality(DOMAIN m)
  BY FS_Subset DEF BoundedMap
<1>3. Cardinality(DOMAIN n) \in Nat /\ Cardinality(DOMAIN m) \in Nat
  BY <1>2, FS_CardinalityType DEF BoundedMap
<1>4. Cardinality(DOMAIN n) <= CacheMax
  BY <1>2, <1>3, CacheAssumption DEF BoundedMap
<1> QED BY <1>1, <1>2, <1>4 DEF BoundedMap

LEMMA OnlyKeys ==
  ASSUME NEW m, NEW S
  PROVE  DOMAIN Only(m, S) = DOMAIN m \cap S /\ \A j \in DOMAIN Only(m, S) : Only(m, S)[j] = m[j]
BY DEF Only

LEMMA DeletedOK ==
  ASSUME NEW m, NEW k, CacheOK(m), BoundedMap(m)
  PROVE  /\ CacheOK(Deleted(m, k)) /\ BoundedMap(Deleted(m, k))
         /\ DOMAIN Deleted(m, k) = DOMAIN m \ {k}
         /\ \A j \in DOMAIN Deleted(m, k) : Deleted(m, k)[j] = m[j]
<1> DEFINE S == DOMAIN m \ {k}
<1>1. DOMAIN Only(m, S) = DOMAIN m \cap S /\ \A j \in DOMAIN Only(m, S) : Only(m, S)[j] = m[j]
  BY OnlyKeys
<1>2. DOMAIN m \cap S = S /\ Deleted(m, k) = Only(m, S)
  BY DEF Deleted
<1> QED BY <1>1, <1>2, FewerKeys

LEMMA EmptyKeys == DOMAIN EmptyCache = {}
BY DEF EmptyCache

LEMMA RoomOK ==
  ASSUME NEW m, NEW k, CacheOK(m), BoundedMap(m)
  PROVE  LET n == MadeRoom(m, k)
         IN  /\ DOMAIN n \subseteq DOMAIN m /\ \A j \in DOMAIN n : n[j] = m[j]
             /\ k \notin DOMAIN n => Cardinality(DOMAIN n) < CacheMax
<1> DEFINE S == {j \in DOMAIN m : m[j].left > 0}
           live == Only(m, S)
<1> HIDE DEF S
<1>1. DOMAIN live \subseteq DOMAIN m /\ \A j \in DOMAIN live : live[j] = m[j]
  BY OnlyKeys, Zenon
<1>2. BoundedMap(live)
  BY <1>1, FewerKeys
<1>3. Cardinality(DOMAIN live) \in Nat /\ Cardinality(DOMAIN m) \in Nat /\ CacheMax \in Nat /\ CacheMax > 0
  BY <1>2, FS_CardinalityType, CacheAssumption DEF BoundedMap
<1>4. Cardinality({}) = 0
  BY FS_EmptySet
<1> HIDE DEF live
<1>5. Swept(m) = IF Cardinality(DOMAIN live) >= CacheMax THEN EmptyCache ELSE live
  BY DEF Swept, live, S
<1>6. CASE k \notin DOMAIN m /\ Cardinality(DOMAIN m) >= CacheMax
  <2>1. MadeRoom(m, k) = Swept(m)
    BY <1>6 DEF MadeRoom
  <2>2. CASE Cardinality(DOMAIN live) >= CacheMax
    BY <1>3, <1>4, <1>5, <2>1, <2>2, EmptyKeys
  <2>3. CASE ~(Cardinality(DOMAIN live) >= CacheMax)
    BY <1>1, <1>3, <1>5, <2>1, <2>3
  <2> QED BY <2>2, <2>3
<1>7. CASE ~(k \notin DOMAIN m /\ Cardinality(DOMAIN m) >= CacheMax)
  <2>1. MadeRoom(m, k) = m
    BY <1>7 DEF MadeRoom
  <2> QED BY <1>3, <1>7, <2>1
<1> QED BY <1>6, <1>7

LEMMA SetOK ==
  ASSUME NEW m, NEW k \in AKeys, NEW v \in Versions, CacheOK(m), BoundedMap(m)
  PROVE  LET n == AfterSet(m, k, v, CacheTTL)
         IN  /\ CacheOK(n) /\ BoundedMap(n)
             /\ DOMAIN n \subseteq DOMAIN m \cup {k}
             /\ \A j \in DOMAIN n : IF j = k THEN n[j].v = v ELSE n[j] = m[j]
<1> DEFINE r == MadeRoom(m, k)
           n == AfterSet(m, k, v, CacheTTL)
<1>1. /\ DOMAIN r \subseteq DOMAIN m /\ \A j \in DOMAIN r : r[j] = m[j]
      /\ k \notin DOMAIN r => Cardinality(DOMAIN r) < CacheMax
  BY RoomOK
<1>2. CacheOK(r) /\ BoundedMap(r)
  BY <1>1, FewerKeys
<1>3. DOMAIN n = DOMAIN r \cup {k} /\ \A j \in DOMAIN n : n[j] = IF j = k THEN Entry(v, CacheTTL) ELSE r[j]
  BY DEF AfterSet
<1> HIDE DEF n, r
<1>4. CacheTTL \in 0..CacheTTL
  BY AuthAssumption
<1>5. Entry(v, CacheTTL) \in Entries /\ Entry(v, CacheTTL).v = v
  BY <1>4 DEF Entry, Entries
<1>6. CacheOK(n)
  BY <1>2, <1>3, <1>5 DEF CacheOK
<1>7. BoundedMap(n)
  <2>1. IsFiniteSet(DOMAIN r) /\ Cardinality(DOMAIN r) \in Nat /\ Cardinality(DOMAIN r) <= CacheMax /\ CacheMax \in Nat
    BY <1>2, FS_CardinalityType, CacheAssumption DEF BoundedMap
  <2>2. IsFiniteSet(DOMAIN n)
        /\ Cardinality(DOMAIN n) = IF k \in DOMAIN r THEN Cardinality(DOMAIN r) ELSE Cardinality(DOMAIN r) + 1
    BY <1>3, <2>1, FS_AddElement
  <2> QED BY <1>1, <2>1, <2>2 DEF BoundedMap
<1> QED BY <1>1, <1>3, <1>5, <1>6, <1>7 DEF n

LEMMA ElapseOK ==
  ASSUME NEW m, CacheOK(m), BoundedMap(m)
  PROVE  /\ CacheOK(Elapse(m)) /\ BoundedMap(Elapse(m)) /\ DOMAIN Elapse(m) = DOMAIN m
         /\ \A j \in DOMAIN m : Elapse(m)[j].v = m[j].v
<1>1. DOMAIN Elapse(m) = DOMAIN m
  BY DEF Elapse
<1>2. ASSUME NEW j \in DOMAIN m PROVE Elapse(m)[j] \in Entries /\ Elapse(m)[j].v = m[j].v
  <2> DEFINE d == IF m[j].left = 0 THEN 0 ELSE m[j].left - 1
  <2>1. m[j].v \in Versions /\ m[j].left \in 0..CacheTTL
    BY DEF CacheOK, Entries
  <2>2. d \in 0..CacheTTL
    BY <2>1, AuthAssumption
  <2>3. Elapse(m)[j] = Entry(m[j].v, d)
    BY DEF Elapse
  <2> HIDE DEF d
  <2> QED BY <2>1, <2>2, <2>3 DEF Entry, Entries
<1> QED BY <1>1, <1>2 DEF CacheOK, BoundedMap

-----------------------------------------------------------------------------
LEMMA LoadTyped ==
  ASSUME NEW s \in LoadStates, NEW k \in AKeys \cup {None}, NEW v \in Versions, NEW c \in BOOLEAN
  PROVE  LET l == Load(s, k, v, c)
         IN  l \in LoadRecs /\ l.state = s /\ l.key = k /\ l.v = v /\ l.current = c
BY DEF Load, LoadRecs

LEMMA ReqTyped ==
  ASSUME NEW s \in ReqStates, NEW k \in AKeys \cup {None}, NEW f \in Versions, NEW l \in Loads \cup {None},
         NEW v \in Versions
  PROVE  LET q == Req(s, k, f, l, v)
         IN  q \in ReqRecs /\ q.state = s /\ q.key = k /\ q.floor = f /\ q.load = l /\ q.v = v
BY DEF Req, ReqRecs

LEMMA Zero == 0 \in Versions /\ MaxVersion \in Nat /\ Versions \subseteq Nat
BY AuthAssumption DEF Versions

LEMMA NoneTyped == NoCall \in LoadRecs /\ NoCall.state = "free" /\ NoReq \in ReqRecs /\ NoReq.state = "idle"
<1>1. NoCall \in LoadRecs /\ NoCall.state = "free"
  BY Zero DEF NoCall, Load, LoadRecs, LoadStates
<1>2. NoReq \in ReqRecs /\ NoReq.state = "idle"
  BY ReqTyped, Zero DEF NoReq, ReqStates
<1> QED BY <1>1, <1>2

LEMMA LoadFields ==
  ASSUME Typed, NEW l \in Loads
  PROVE  /\ load[l].state \in LoadStates /\ load[l].key \in AKeys \cup {None}
         /\ load[l].v \in Versions /\ load[l].v \in Nat /\ load[l].current \in BOOLEAN
BY Zero, Zenon DEF Typed, LoadRecs

LEMMA ReqFields ==
  ASSUME Typed, NEW r \in Requests
  PROVE  /\ req[r].state \in ReqStates /\ req[r].key \in AKeys \cup {None}
         /\ req[r].floor \in Versions /\ req[r].floor \in Nat
         /\ req[r].load \in Loads \cup {None} /\ req[r].v \in Versions /\ req[r].v \in Nat
BY Zero, Zenon DEF Typed, ReqRecs

LEMMA KeyFields ==
  ASSUME Typed, NEW k \in AKeys
  PROVE  /\ truth[k] \in Versions /\ truth[k] \in Nat /\ forgot[k] \in Versions /\ forgot[k] \in Nat
         /\ calls[k] \in Loads \cup {None}
BY Zero, Zenon DEF Typed

LEMMA CacheInit == Init => CacheInv
<1> SUFFICES ASSUME Init PROVE CacheInv
  OBVIOUS
<1>1. Typed
  BY NoneTyped, Zero DEF Init, Typed
<1>2. DOMAIN tc = {}
  BY EmptyKeys DEF Init
<1>3. BoundedMap(tc)
  BY <1>2, FS_EmptySet, CacheAssumption DEF BoundedMap
<1>4. CacheOK(tc) /\ Cached
  BY <1>2 DEF CacheOK, Cached, Init
<1>5. Flows
  BY NoneTyped DEF Init, Flows, LoadOK, CallOK, ReqOK
<1> QED BY <1>1, <1>3, <1>4, <1>5 DEF CacheInv

LEMMA ChangeKeeps ==
  ASSUME CacheInv, NEW k \in AKeys, Change(k)
  PROVE  CacheInv'
<1> USE DEF CacheInv
<1>1. truth' = [truth EXCEPT ![k] = truth[k] + 1] /\ truth[k] < MaxVersion /\ UNCHANGED <<forgot, tc, calls, load, req>>
  BY DEF Change
<1>2. truth[k] + 1 \in Versions
  BY <1>1, Zero, KeyFields DEF Versions
<1>3. truth' \in [AKeys -> Versions] /\ \A j \in AKeys : truth'[j] >= truth[j]
  BY <1>1, <1>2, KeyFields DEF Typed
<1>4. Typed' /\ CacheOK(tc)' /\ BoundedMap(tc)'
  BY <1>1, <1>3 DEF Typed, CacheOK, BoundedMap
<1>5. \A j \in AKeys : truth'[j] \in Nat
  BY <1>3, Zero, Zenon
<1>6. Cached'
  BY <1>1, <1>3, <1>5, KeyFields DEF Cached, CacheOK
<1>7. ASSUME NEW r \in Requests PROVE ReqOK(r)'
  <2>1. ReqOK(r)
    BY DEF Flows
  <2>2. req[r].key \in AKeys /\ req[r].floor <= truth[req[r].key] => req[r].floor <= truth'[req[r].key]
    BY <1>3, <1>5, KeyFields, ReqFields
  <2> QED BY <1>1, <2>1, <2>2 DEF ReqOK
<1>8. Flows'
  BY <1>1, <1>7 DEF Flows, LoadOK, CallOK
<1> QED BY <1>4, <1>6, <1>8

(* One request changes, and the cache perhaps loses or ages entries.       *)
LEMMA ReqMoves ==
  ASSUME CacheInv, NEW r \in Requests, NEW q \in ReqRecs, req' = [req EXCEPT ![r] = q],
         CacheOK(tc'), BoundedMap(tc'), DOMAIN tc' \subseteq DOMAIN tc, \A k \in DOMAIN tc' : tc'[k].v = tc[k].v,
         UNCHANGED <<truth, forgot, calls, load>>, ReqOK(r)'
  PROVE  CacheInv'
<1> USE DEF CacheInv
<1>1. req' \in [Requests -> ReqRecs] /\ \A s \in Requests : s # r => req'[s] = req[s]
  BY DEF Typed
<1>2. Typed' /\ CacheOK(tc)' /\ BoundedMap(tc)'
  BY <1>1 DEF Typed, CacheOK, BoundedMap
<1>3. Cached'
  BY DEF Cached
<1>4. ASSUME NEW s \in Requests PROVE ReqOK(s)'
  BY <1>1, <1>4 DEF Flows, ReqOK
<1>5. Flows'
  BY <1>4 DEF Flows, LoadOK, CallOK
<1> QED BY <1>2, <1>3, <1>5

LEMMA GetKeeps ==
  ASSUME CacheInv, NEW r \in Requests, NEW k \in AKeys, Get(r, k)
  PROVE  CacheInv'
<1> USE DEF CacheInv
<1>1. UNCHANGED <<truth, forgot, calls, load>> /\ tc' = AfterGet(tc, k)
  BY DEF Get
<1>2. CacheOK(tc') /\ BoundedMap(tc') /\ DOMAIN tc' \subseteq DOMAIN tc /\ \A j \in DOMAIN tc' : tc'[j].v = tc[j].v
  <2>1. CASE Hit(tc, k)
    BY <1>1, <2>1 DEF AfterGet
  <2>2. CASE ~Hit(tc, k)
    <3>1. tc' = Deleted(tc, k)
      BY <1>1, <2>2 DEF AfterGet
    <3>2. /\ CacheOK(Deleted(tc, k)) /\ BoundedMap(Deleted(tc, k))
          /\ DOMAIN Deleted(tc, k) = DOMAIN tc \ {k}
          /\ \A j \in DOMAIN Deleted(tc, k) : Deleted(tc, k)[j] = tc[j]
      BY DeletedOK, Zenon
    <3> QED BY <3>1, <3>2
  <2> QED BY <2>1, <2>2
<1>3. CASE Hit(tc, k)
  <2> DEFINE q == Req("answered", k, forgot[k], None, tc[k].v)
  <2>1. req' = [req EXCEPT ![r] = q]
    BY <1>3 DEF Get
  <2>2. tc[k].v \in Versions /\ tc[k].v >= forgot[k]
    BY <1>3 DEF Hit, CacheOK, Entries, Cached
  <2>3. q \in ReqRecs /\ q.state = "answered" /\ q.floor = forgot[k] /\ q.v = tc[k].v
    <3>1. forgot[k] \in Versions /\ "answered" \in ReqStates /\ k \in AKeys \cup {None} /\ None \in Loads \cup {None}
      BY KeyFields DEF ReqStates
    <3> QED BY <2>2, <3>1, ReqTyped
  <2> HIDE DEF q
  <2>4. ReqOK(r)'
    BY <2>1, <2>2, <2>3 DEF ReqOK, Typed
  <2> QED BY <1>1, <1>2, <2>1, <2>3, <2>4, ReqMoves, Zenon
<1>4. CASE ~Hit(tc, k)
  <2> DEFINE q == Req("missed", k, forgot[k], None, 0)
  <2>1. req' = [req EXCEPT ![r] = q]
    BY <1>4 DEF Get
  <2>2. q \in ReqRecs /\ q.state = "missed" /\ q.floor = forgot[k] /\ q.key = k
    <3>1. forgot[k] \in Versions /\ "missed" \in ReqStates /\ k \in AKeys \cup {None} /\ None \in Loads \cup {None}
      BY KeyFields DEF ReqStates
    <3>2. 0 \in Versions
      BY Zero
    <3> QED BY <3>1, <3>2, ReqTyped
  <2> HIDE DEF q
  <2>3. req'[r] = q
    BY <2>1 DEF Typed
  <2>4. ReqOK(r)'
    BY <1>1, <2>2, <2>3, KeyFields DEF ReqOK
  <2> QED BY <1>1, <1>2, <2>1, <2>2, <2>4, ReqMoves, Zenon
<1> QED BY <1>3, <1>4

LEMMA ReturnKeeps ==
  ASSUME CacheInv, NEW r \in Requests, Return(r)
  PROVE  CacheInv'
<1>1. UNCHANGED <<truth, forgot, tc, calls, load>> /\ req' = [req EXCEPT ![r] = NoReq]
  BY DEF Return
<1>2. req'[r] = NoReq
  BY <1>1 DEF CacheInv, Typed
<1>3. ReqOK(r)'
  BY <1>2, NoneTyped DEF ReqOK
<1> QED BY <1>1, <1>3, NoneTyped, ReqMoves, Zenon DEF CacheInv

LEMMA JoinKeeps ==
  ASSUME CacheInv, NEW r \in Requests, Join(r)
  PROVE  CacheInv'
<1> USE DEF CacheInv
<1> DEFINE k == req[r].key
           w(l) == Req("waiting", k, req[r].floor, l, 0)
<1>1. req[r].state = "missed" /\ UNCHANGED <<truth, forgot, tc>>
  BY DEF Join
<1>2. k \in AKeys /\ req[r].floor <= forgot[k] /\ forgot[k] <= truth[k]
  BY <1>1 DEF Flows, ReqOK, Cached
<1>3. req[r].floor \in Versions /\ req[r].floor \in Nat /\ forgot[k] \in Nat /\ truth[k] \in Nat
  BY <1>2, ReqFields, KeyFields
<1>4. ASSUME NEW l \in Loads
      PROVE  w(l) \in ReqRecs /\ w(l).state = "waiting" /\ w(l).key = k /\ w(l).floor = req[r].floor /\ w(l).load = l
  BY <1>2, <1>3, ReqTyped, Zero DEF ReqStates
<1> HIDE DEF w
<1>5. CASE calls[k] # None /\ req' = [req EXCEPT ![r] = w(calls[k])] /\ UNCHANGED <<calls, load>>
  <2>1. calls[k] \in Loads
    BY <1>2, <1>5, KeyFields
  <2>2. load[calls[k]].state # "free" /\ load[calls[k]].key = k
        /\ (load[calls[k]].state = "read" => load[calls[k]].v >= forgot[k])
    BY <1>2, <1>5 DEF Flows, CallOK
  <2>3. req'[r] = w(calls[k])
    BY <1>5 DEF Typed
  <2>4. load[calls[k]].v \in Nat
    BY <2>1, LoadFields
  <2>5. ReqOK(r)'
    <3>1. /\ req'[r].state = "waiting" /\ req'[r].key = k
          /\ req'[r].floor = req[r].floor /\ req'[r].load = calls[k]
      BY <1>4, <2>1, <2>3
    <3>2. PICK m \in Loads : m = calls[k]
      BY <2>1
    <3>3. /\ load[m].state # "free" /\ load[m].key = k
          /\ load[m].v \in Nat /\ (load[m].state = "read" => load[m].v >= forgot[k])
      BY <2>2, <2>4, <3>2
    <3>4. load[m].state = "read" => load[m].v >= req[r].floor
      BY <1>2, <1>3, <3>3
    <3>5. req[r].floor <= truth[k]
      BY <1>2, <1>3
    <3>6. load' = load /\ truth' = truth
      BY <1>1, <1>5
    <3> QED BY <1>2, <3>1, <3>2, <3>3, <3>4, <3>5, <3>6 DEF ReqOK
  <2> QED BY <1>1, <1>4, <1>5, <2>1, <2>5, ReqMoves, Zenon
<1>6. ASSUME NEW l \in Loads, calls[k] = None, load[l].state = "free",
             load' = [load EXCEPT ![l] = Load("started", k, 0, TRUE)],
             calls' = [calls EXCEPT ![k] = l], req' = [req EXCEPT ![r] = w(l)]
      PROVE  CacheInv'
  <2> DEFINE c == Load("started", k, 0, TRUE)
  <2>1. c \in LoadRecs /\ c.state = "started" /\ c.key = k
    BY <1>2, Zero DEF Load, LoadRecs, LoadStates
  <2> HIDE DEF c
  <2>2. /\ load' \in [Loads -> LoadRecs] /\ load'[l] = c /\ \A m \in Loads : m # l => load'[m] = load[m]
        /\ calls' \in [AKeys -> Loads \cup {None}] /\ calls'[k] = l /\ \A j \in AKeys : j # k => calls'[j] = calls[j]
        /\ req' \in [Requests -> ReqRecs] /\ req'[r] = w(l) /\ \A s \in Requests : s # r => req'[s] = req[s]
    BY <1>2, <1>4, <1>6, <2>1, Zenon DEF Typed, c
  <2>3. Typed' /\ CacheOK(tc)' /\ BoundedMap(tc)' /\ Cached'
    BY <1>1, <2>2 DEF Typed, CacheOK, BoundedMap, Cached
  <2>4. ASSUME NEW m \in Loads PROVE LoadOK(m)'
    BY <1>1, <1>2, <2>1, <2>2 DEF Flows, LoadOK
  <2>5. ASSUME NEW j \in AKeys PROVE CallOK(j)'
    <3>1. CASE j = k
      BY <2>1, <2>2, <3>1 DEF CallOK
    <3>2. CASE j # k
      <4>1. calls'[j] = calls[j] /\ (calls[j] # None => calls[j] \in Loads /\ calls[j] # l)
        BY <1>6, <2>2, <3>2, KeyFields DEF Flows, CallOK
      <4> QED BY <1>1, <2>2, <4>1, SMTT(20) DEF Flows, CallOK
    <3> QED BY <3>1, <3>2
  <2>6. ASSUME NEW s \in Requests PROVE ReqOK(s)'
    <3>1. CASE s = r
      <4>1. req'[r].state = "waiting" /\ req'[r].key = k /\ req'[r].floor = req[r].floor /\ req'[r].load = l
        BY <1>4, <1>6, <2>2
      <4>2. load'[l].state = "started" /\ load'[l].key = k
        BY <2>1, <2>2, Zenon
      <4>3. req[r].floor <= truth'[k]
        BY <1>1, <1>2, <1>3
      <4> QED BY <1>2, <3>1, <4>1, <4>2, <4>3 DEF ReqOK
    <3>2. CASE s # r
      <4>1. req'[s] = req[s] /\ (req[s].state = "waiting" => req[s].load \in Loads /\ req[s].load # l)
        BY <1>6, <2>2, <3>2, SMTT(20) DEF Flows, ReqOK
      <4>2. req[s].state = "waiting" => load'[req[s].load] = load[req[s].load]
        BY <2>2, <4>1
      <4>3. ReqOK(s)
        BY DEF Flows
      <4> QED BY <1>1, <4>1, <4>2, <4>3 DEF ReqOK
    <3> QED BY <3>1, <3>2
  <2> QED BY <2>3, <2>4, <2>5, <2>6 DEF Flows
<1> QED BY <1>5, <1>6, Zenon DEF Join, w

LEMMA ReadKeeps ==
  ASSUME CacheInv, NEW l \in Loads, Read(l)
  PROVE  CacheInv'
<1> USE DEF CacheInv
<1> DEFINE k == load[l].key
           c == Load("read", k, truth[k], load[l].current)
<1>1. load[l].state = "started" /\ load' = [load EXCEPT ![l] = c] /\ UNCHANGED <<truth, forgot, tc, calls, req>>
  BY DEF Read
<1>2. k \in AKeys
  BY <1>1 DEF Flows, LoadOK
<1>3. truth[k] \in Versions /\ truth[k] \in Nat /\ forgot[k] <= truth[k] /\ load[l].current \in BOOLEAN
  BY <1>2, KeyFields, LoadFields DEF Cached
<1>4. c \in LoadRecs /\ c.state = "read" /\ c.key = k /\ c.v = truth[k]
  <2>1. "read" \in LoadStates /\ k \in AKeys \cup {None}
    BY <1>2 DEF LoadStates
  <2> QED BY <1>3, <2>1, LoadTyped, SMTT(20)
<1> HIDE DEF c
<1>5. load' \in [Loads -> LoadRecs] /\ load'[l] = c /\ \A m \in Loads : m # l => load'[m] = load[m]
  BY <1>1, <1>4 DEF Typed
<1>6. Typed' /\ CacheOK(tc)' /\ BoundedMap(tc)' /\ Cached'
  BY <1>1, <1>5 DEF Typed, CacheOK, BoundedMap, Cached
<1>7. ASSUME NEW m \in Loads PROVE LoadOK(m)'
  BY <1>1, <1>2, <1>3, <1>4, <1>5 DEF Flows, LoadOK
<1>8. ASSUME NEW j \in AKeys PROVE CallOK(j)'
  <2>1. CASE calls[j] = l
    <3>1. j = k
      BY <2>1, AuthAssumption DEF Flows, CallOK
    <3> QED BY <1>1, <1>3, <1>4, <1>5, <2>1, <3>1 DEF CallOK
  <2>2. CASE calls[j] # l
    <3>1. calls[j] # None => load'[calls[j]] = load[calls[j]]
      BY <1>5, <2>2, KeyFields
    <3> QED BY <1>1, <3>1 DEF Flows, CallOK
  <2> QED BY <2>1, <2>2
<1>9. ASSUME NEW r \in Requests PROVE ReqOK(r)'
  <2>1. CASE req[r].state = "waiting" /\ req[r].load = l
    <3>1. req[r].key = k /\ req[r].floor <= truth[k]
      BY <2>1 DEF Flows, ReqOK
    <3> QED BY <1>1, <1>2, <1>4, <1>5, <2>1, <3>1 DEF ReqOK
  <2>2. CASE ~(req[r].state = "waiting" /\ req[r].load = l)
    <3>1. req[r].state = "waiting" => load'[req[r].load] = load[req[r].load]
      BY <1>5, <2>2 DEF Flows, ReqOK
    <3> QED BY <1>1, <3>1 DEF Flows, ReqOK
  <2> QED BY <2>1, <2>2
<1> QED BY <1>6, <1>7, <1>8, <1>9 DEF Flows

LEMMA AnswerKeeps ==
  ASSUME CacheInv, NEW l \in Loads, NEW ok \in BOOLEAN, Answer(l, ok)
  PROVE  CacheInv'
<1> USE DEF CacheInv
<1> DEFINE k == load[l].key
           mine(r) == req[r].state = "waiting" /\ req[r].load = l
           a(r) == Req("answered", k, req[r].floor, None, load[l].v)
<1>1. /\ load[l].state # "free" /\ (ok => load[l].state = "read")
      /\ tc' = (IF ok /\ Keeps(l) THEN AfterSet(tc, k, load[l].v, CacheTTL) ELSE tc)
      /\ calls' = (IF Releases(l) THEN [calls EXCEPT ![k] = None] ELSE calls)
      /\ load' = [load EXCEPT ![l] = NoCall]
      /\ UNCHANGED <<truth, forgot>>
  BY DEF Answer
<1>2. req' = [r \in Requests |-> IF mine(r) THEN IF ok THEN a(r) ELSE NoReq ELSE req[r]]
  BY DEF Answer, Joined
<1>3. k \in AKeys /\ load[l].v \in Versions /\ load[l].v \in Nat
  BY <1>1, LoadFields DEF Flows, LoadOK
<1>4. ASSUME NEW r \in Requests
      PROVE  a(r) \in ReqRecs /\ a(r).state = "answered" /\ a(r).floor = req[r].floor /\ a(r).v = load[l].v
  <2>1. req[r].floor \in Versions /\ "answered" \in ReqStates /\ k \in AKeys \cup {None} /\ None \in Loads \cup {None}
    BY <1>3, ReqFields DEF ReqStates
  <2> QED BY <1>3, <2>1 DEF Req, ReqRecs
<1> HIDE DEF a
<1>5. req' \in [Requests -> ReqRecs]
  BY <1>2, <1>4, NoneTyped DEF Typed
<1>6. load' \in [Loads -> LoadRecs] /\ load'[l] = NoCall /\ \A m \in Loads : m # l => load'[m] = load[m]
  BY <1>1, NoneTyped DEF Typed
<1>7. calls' \in [AKeys -> Loads \cup {None}] /\ \A j \in AKeys : calls'[j] # None => calls'[j] = calls[j] /\ calls[j] # l
  <2>1. \A j \in AKeys : calls[j] = l => j = k
    BY AuthAssumption DEF Flows, CallOK
  <2> QED BY <1>1, <1>3, <2>1 DEF Typed, Releases
<1>8. Typed'
  BY <1>1, <1>5, <1>6, <1>7 DEF Typed
<1>9. CacheOK(tc)' /\ BoundedMap(tc)' /\ Cached'
  <2>1. CASE ok /\ Keeps(l)
    <3> DEFINE n == AfterSet(tc, k, load[l].v, CacheTTL)
    <3>1. tc' = n
      BY <1>1, <2>1
    <3>2. CacheOK(n) /\ BoundedMap(n) /\ DOMAIN n \subseteq DOMAIN tc \cup {k}
          /\ \A j \in DOMAIN n : IF j = k THEN n[j].v = load[l].v ELSE n[j] = tc[j]
      BY <1>3, SetOK, SMTT(20)
    <3> HIDE DEF n
    <3>3. load[l].v >= forgot[k]
      BY <1>1, <2>1 DEF Keeps, Flows, LoadOK
    <3> QED BY <1>1, <3>1, <3>2, <3>3 DEF Cached, CacheOK, BoundedMap
  <2>2. CASE ~(ok /\ Keeps(l))
    BY <1>1, <2>2 DEF Cached, CacheOK, BoundedMap
  <2> QED BY <2>1, <2>2
<1>10. ASSUME NEW m \in Loads PROVE LoadOK(m)'
  BY <1>1, <1>6, NoneTyped DEF Flows, LoadOK
<1>11. ASSUME NEW j \in AKeys PROVE CallOK(j)'
  <2>1. calls'[j] # None => calls'[j] = calls[j] /\ load'[calls[j]] = load[calls[j]]
    BY <1>6, <1>7, KeyFields
  <2> QED BY <1>1, <2>1 DEF Flows, CallOK
<1>12. ASSUME NEW r \in Requests PROVE ReqOK(r)'
  <2>1. CASE mine(r) /\ ok
    <3>1. req'[r] = a(r) /\ load[l].v >= req[r].floor
      BY <1>1, <1>2, <2>1 DEF Flows, ReqOK
    <3> QED BY <1>4, <3>1 DEF ReqOK
  <2>2. CASE mine(r) /\ ~ok
    BY <1>2, <2>2, NoneTyped DEF ReqOK
  <2>3. CASE ~mine(r)
    <3>1. req'[r] = req[r] /\ (req[r].state = "waiting" => load'[req[r].load] = load[req[r].load])
      BY <1>2, <1>6, <2>3 DEF Flows, ReqOK
    <3> QED BY <1>1, <3>1, Zenon DEF Flows, ReqOK
  <2> QED BY <2>1, <2>2, <2>3
<1> QED BY <1>8, <1>9, <1>10, <1>11, <1>12 DEF Flows

LEMMA ForgetKeeps ==
  ASSUME CacheInv, NEW k \in AKeys, Forget(k)
  PROVE  CacheInv'
<1> USE DEF CacheInv
<1> DEFINE old(l) == Load(load[l].state, load[l].key, load[l].v, FALSE)
<1>1. /\ forgot' = [forgot EXCEPT ![k] = truth[k]] /\ calls' = [calls EXCEPT ![k] = None]
      /\ load' = [l \in Loads |-> old(l)] /\ tc' = Deleted(tc, k) /\ UNCHANGED <<truth, req>>
  BY DEF Forget
<1>2. ASSUME NEW l \in Loads
      PROVE  /\ old(l) \in LoadRecs /\ old(l).current = FALSE
             /\ old(l).state = load[l].state /\ old(l).key = load[l].key /\ old(l).v = load[l].v
  BY LoadFields DEF Load, LoadRecs
<1> HIDE DEF old
<1>3. /\ forgot' \in [AKeys -> Versions] /\ forgot'[k] = truth[k] /\ \A j \in AKeys : j # k => forgot'[j] = forgot[j]
      /\ calls' \in [AKeys -> Loads \cup {None}] /\ calls'[k] = None /\ \A j \in AKeys : j # k => calls'[j] = calls[j]
  BY <1>1, KeyFields DEF Typed
<1>4. load' \in [Loads -> LoadRecs] /\ \A l \in Loads : load'[l] = old(l)
  BY <1>1, <1>2, Zenon
<1>5. Typed'
  BY <1>1, <1>3, <1>4 DEF Typed
<1>6. CacheOK(Deleted(tc, k)) /\ BoundedMap(Deleted(tc, k)) /\ DOMAIN Deleted(tc, k) = DOMAIN tc \ {k}
      /\ \A j \in DOMAIN Deleted(tc, k) : Deleted(tc, k)[j] = tc[j]
  BY DeletedOK, Zenon
<1>7. CacheOK(tc)' /\ BoundedMap(tc)'
  BY <1>1, <1>6 DEF CacheOK, BoundedMap
<1>8. ASSUME NEW j \in AKeys PROVE forgot[j] <= forgot'[j] /\ forgot'[j] <= truth'[j]
  <2>1. forgot[j] \in Nat /\ truth[j] \in Nat /\ forgot[j] <= truth[j]
    BY KeyFields DEF Cached
  <2>2. truth'[j] = truth[j] /\ forgot'[j] \in {truth[j], forgot[j]}
    BY <1>1, <1>3, Zenon
  <2> QED BY <2>1, <2>2
<1>9. Cached'
  BY <1>1, <1>3, <1>6, <1>8 DEF Cached, CacheOK
<1>10. ASSUME NEW l \in Loads PROVE LoadOK(l)'
  BY <1>2, <1>4, Zenon DEF Flows, LoadOK
<1>11. ASSUME NEW j \in AKeys PROVE CallOK(j)'
  <2>1. CASE j = k
    BY <1>3, <2>1 DEF CallOK
  <2>2. CASE j # k
    <3>1. calls'[j] = calls[j] /\ forgot'[j] = forgot[j] /\ (calls[j] # None => calls[j] \in Loads)
      BY <1>3, <2>2, KeyFields
    <3>2. calls[j] # None => /\ load'[calls[j]].state = load[calls[j]].state
                             /\ load'[calls[j]].key = load[calls[j]].key /\ load'[calls[j]].v = load[calls[j]].v
      BY <1>2, <1>4, <3>1, Zenon
    <3>3. CallOK(j)
      BY DEF Flows
    <3> QED BY <3>1, <3>2, <3>3 DEF CallOK
  <2> QED BY <2>1, <2>2
<1>12. ASSUME NEW r \in Requests PROVE ReqOK(r)'
  <2>1. ReqOK(r) /\ req'[r] = req[r] /\ truth' = truth
    BY <1>1 DEF Flows
  <2>2. req[r].state = "missed" => req[r].floor <= forgot'[req[r].key]
    <3>1. SUFFICES ASSUME req[r].state = "missed" PROVE req[r].floor <= forgot'[req[r].key]
      OBVIOUS
    <3>2. req[r].key \in AKeys /\ req[r].floor <= forgot[req[r].key]
      BY <2>1, <3>1 DEF ReqOK
    <3>3. forgot[req[r].key] \in Nat /\ forgot'[req[r].key] \in Nat /\ req[r].floor \in Nat
      BY <1>3, <3>2, KeyFields, ReqFields, Zero
    <3> QED BY <1>8, <3>2, <3>3
  <2> QED BY <1>2, <1>4, <2>1, <2>2, Zenon DEF ReqOK
<1> QED BY <1>5, <1>7, <1>9, <1>10, <1>11, <1>12 DEF Flows

LEMMA TickKeeps == CacheInv /\ CacheTick => CacheInv'
<1> SUFFICES ASSUME CacheInv, CacheTick PROVE CacheInv'
  OBVIOUS
<1> USE DEF CacheInv
<1>1. tc' = Elapse(tc) /\ UNCHANGED <<truth, forgot, calls, load, req>>
  BY DEF CacheTick
<1>2. /\ CacheOK(Elapse(tc)) /\ BoundedMap(Elapse(tc)) /\ DOMAIN Elapse(tc) = DOMAIN tc
      /\ \A j \in DOMAIN tc : Elapse(tc)[j].v = tc[j].v
  BY ElapseOK
<1>3. CacheOK(tc)' /\ BoundedMap(tc)' /\ Cached'
  BY <1>1, <1>2 DEF CacheOK, BoundedMap, Cached
<1>4. Typed' /\ Flows'
  BY <1>1, Zenon DEF Typed, Flows, LoadOK, CallOK, ReqOK
<1> QED BY <1>3, <1>4

LEMMA NextKeeps == CacheInv /\ [Next]_avars => CacheInv'
<1> SUFFICES ASSUME CacheInv, [Next]_avars PROVE CacheInv'
  OBVIOUS
<1>1. ASSUME NEW k \in Volatile, Change(k) \/ Forget(k) PROVE CacheInv'
  BY <1>1, AuthAssumption, ChangeKeeps, ForgetKeeps
<1>2. ASSUME NEW r \in Requests, Join(r) \/ Return(r) \/ \E k \in AKeys : Get(r, k) PROVE CacheInv'
  BY <1>2, JoinKeeps, ReturnKeeps, GetKeeps
<1>3. ASSUME NEW l \in Loads, Finishes(l) PROVE CacheInv'
  BY <1>3, ReadKeeps, AnswerKeeps DEF Finishes
<1>4. CASE UNCHANGED avars
  BY <1>4, Zenon DEF avars, CacheInv, Typed, CacheOK, BoundedMap, Cached, Flows, LoadOK, CallOK, ReqOK
<1> QED BY <1>1, <1>2, <1>3, <1>4, TickKeeps DEF Next

-----------------------------------------------------------------------------
\* The inductive invariant of authguard.Cache.
THEOREM CacheInvariant == Spec => []CacheInv
BY CacheInit, NextKeeps, PTL DEF Spec

\* Cache.Get never answers with data older than a Forget that came before it.
THEOREM ForgetIsRespected == Spec => []NothingForgotten
<1>1. CacheInv => NothingForgotten
  BY DEF CacheInv, Flows, ReqOK, NothingForgotten
<1> QED BY <1>1, CacheInvariant, PTL

\* Every entry of Cache.calls is a load that is under way, and whoever waits
\* waits for one.
THEOREM LoadsAreLive == Spec => []WaitsForLive
<1>1. CacheInv => WaitsForLive
  BY DEF CacheInv, Flows, CallOK, ReqOK, WaitsForLive
<1> QED BY <1>1, CacheInvariant, PTL

\* The ttlcache stays within its limit.
THEOREM CacheStaysBounded == Spec => []CacheBounded
<1>1. CacheInv => CacheBounded
  BY DEF CacheInv, BoundedMap, CacheBounded
<1> QED BY <1>1, CacheInvariant, PTL

\* Every value Cache, its loads and its callers hold is of its type.
THEOREM CacheTyped == Spec => []TypeOK
<1>1. CacheInv => TypeOK
  BY DEF CacheInv, Typed, CacheOK, Entries, LoadRecs, LoadStates, ReqRecs, ReqStates, TypeOK
<1> QED BY <1>1, CacheInvariant, PTL

-----------------------------------------------------------------------------
(* TokenManager: TokenStillValid for any lifetimes and number of callers.  *)
(* A copy in use outlives its use by the margin less the time its reply    *)
(* took, and a token on its way is accounted for by how late it is, to the *)
(* end of the Set that follows its reply.                                  *)

Toks == [left : Nat, use : Nat]

GetPcs == {"idle", "cache", "post", "reply", "set", "returned", "failed"}

Gets == [pc : GetPcs, attempt : Nat, tok : Toks, late : Nat]

Outlives(t) == t.use > 0 => t.left + Delay >= t.use + Margin

Under == {"reply", "set"}

OnItsWay(c) ==
    /\ c.late <= Delay
    /\ c.tok.left + c.late > Delay
    /\ c.tok.use > 0 => c.tok.left + c.late >= c.tok.use + Margin

GetOK(r) ==
    /\ get[r].pc \in Under => OnItsWay(get[r])
    /\ get[r].pc = "returned" => get[r].tok.left > 0

TokensInv ==
    /\ own \in [Replicas -> Toks] /\ cached \in Toks /\ get \in [Replicas -> Gets]
    /\ Outlives(cached)
    /\ \A r \in Replicas : Outlives(own[r]) /\ GetOK(r)

LEMMA TokIs ==
  ASSUME NEW left \in Nat, NEW use \in Nat
  PROVE  Tok(left, use) \in Toks /\ Tok(left, use).left = left /\ Tok(left, use).use = use
BY DEF Tok, Toks

LEMMA ToksIs ==
  ASSUME NEW t \in Toks
  PROVE  t.left \in Nat /\ t.use \in Nat
BY DEF Toks

LEMMA NoTokIs == NoTok \in Toks /\ NoTok.left = 0 /\ NoTok.use = 0 /\ Outlives(NoTok)
BY TokIs DEF NoTok, Outlives

LEMMA CallIs ==
  ASSUME NEW pc \in GetPcs, NEW attempt \in Nat, NEW tok \in Toks, NEW late \in Nat
  PROVE  LET c == Call(pc, attempt, tok, late)
         IN  c \in Gets /\ c.pc = pc /\ c.attempt = attempt /\ c.tok = tok /\ c.late = late
BY DEF Call, Gets

\* One Get goes on, and the copies stay good.
LEMMA StepKeeps ==
  ASSUME TokensInv, NEW r \in Replicas, NEW c \in Gets, Step(r, c),
         own' \in [Replicas -> Toks], cached' \in Toks, Outlives(cached'),
         \A q \in Replicas \ {r} : own'[q] = own[q], Outlives(own'[r]),
         c.pc = "reply" => OnItsWay(c), c.pc = "set" => OnItsWay(c),
         c.pc = "returned" => c.tok.left > 0
  PROVE  TokensInv'
<1>1. /\ get' \in [Replicas -> Gets] /\ get'[r] = c
      /\ \A q \in Replicas \ {r} : get'[q] = get[q]
  BY DEF TokensInv, Step
<1>2. ASSUME NEW q \in Replicas PROVE Outlives(own'[q]) /\ GetOK(q)'
  <2>1. CASE q = r
    BY <1>1, <2>1 DEF GetOK, Under
  <2>2. CASE q # r
    BY <1>1, <2>2 DEF TokensInv, GetOK
  <2> QED BY <2>1, <2>2
<1> QED BY <1>1, <1>2 DEF TokensInv, Outlives

LEMMA WayValid ==
  ASSUME NEW c \in Gets, OnItsWay(c)
  PROVE  c.tok.left > 0 /\ Outlives(c.tok)
<1>1. c.tok \in Toks /\ c.late \in Nat
  BY DEF Gets
<1> QED BY <1>1, ToksIs, TokensAssumption DEF OnItsWay, Outlives

LEMMA CopyValid ==
  ASSUME NEW t \in Toks, Outlives(t), t.use > 0
  PROVE  t.left > 0
BY ToksIs, TokensAssumption DEF Outlives

LEMMA GetTokenKeeps ==
  ASSUME TokensInv, NEW r \in Replicas, GetToken(r)
  PROVE  TokensInv'
<1>1. own[r] \in Toks /\ Outlives(own[r]) /\ UNCHANGED <<own, cached>>
  BY DEF TokensInv, GetToken, Stays
<1>2. CASE own[r].use > 0
  <2>1. Step(r, Call("returned", 0, own[r], 0))
    BY <1>2 DEF GetToken
  <2>2. LET c == Call("returned", 0, own[r], 0) IN c \in Gets /\ c.pc = "returned" /\ c.tok = own[r]
    BY <1>1, CallIs DEF GetPcs
  <2>3. own[r].left > 0
    BY <1>1, <1>2, CopyValid
  <2> QED BY <1>1, <2>1, <2>2, <2>3, StepKeeps, Zenon DEF TokensInv
<1>3. CASE ~(own[r].use > 0)
  <2>1. Step(r, Call("cache", 0, NoTok, 0))
    BY <1>3 DEF GetToken
  <2>2. LET c == Call("cache", 0, NoTok, 0) IN c \in Gets /\ c.pc = "cache"
    BY NoTokIs, CallIs DEF GetPcs
  <2> QED BY <1>1, <2>1, <2>2, StepKeeps, Zenon DEF TokensInv
<1> QED BY <1>2, <1>3

LEMMA ReadCacheKeeps ==
  ASSUME TokensInv, NEW r \in Replicas, ReadCache(r)
  PROVE  TokensInv'
<1>1. CASE /\ cached.use > 0 /\ own' = [own EXCEPT ![r] = cached] /\ cached' = cached
           /\ Step(r, Call("returned", 0, cached, 0))
  <2>1. /\ cached \in Toks /\ Outlives(cached) /\ own' \in [Replicas -> Toks] /\ own'[r] = cached
        /\ \A q \in Replicas \ {r} : own'[q] = own[q]
    BY <1>1 DEF TokensInv
  <2>2. LET c == Call("returned", 0, cached, 0) IN c \in Gets /\ c.pc = "returned" /\ c.tok = cached
    <3>1. cached \in Toks /\ "returned" \in GetPcs
      BY <2>1 DEF GetPcs
    <3> QED BY <3>1, CallIs
  <2>3. cached.left > 0
    BY <1>1, <2>1, CopyValid
  <2> QED BY <1>1, <2>1, <2>2, <2>3, StepKeeps
<1>2. CASE Step(r, Call("post", 1, NoTok, 0)) /\ Stays
  <2>1. LET c == Call("post", 1, NoTok, 0) IN c \in Gets /\ c.pc = "post"
    BY NoTokIs, CallIs DEF GetPcs
  <2> QED BY <1>2, <2>1, StepKeeps, Zenon DEF TokensInv, Stays
<1> QED BY <1>1, <1>2 DEF ReadCache

LEMMA IssueKeeps ==
  ASSUME TokensInv, NEW r \in Replicas, Issue(r)
  PROVE  TokensInv'
<1>1. PICK life \in Lifetimes : Step(r, Call("reply", get[r].attempt, Tok(life, UsedFor(life)), 0))
  BY Zenon DEF Issue
<1>2. life \in Nat /\ life > Delay /\ UsedFor(life) \in Nat /\ (UsedFor(life) > 0 => life >= UsedFor(life) + Margin)
  BY TokensAssumption DEF UsedFor
<1> DEFINE c == Call("reply", get[r].attempt, Tok(life, UsedFor(life)), 0)
<1>3. get[r].attempt \in Nat
  BY DEF TokensInv, Gets
<1>4. c \in Gets /\ c.pc = "reply" /\ c.tok.left = life /\ c.tok.use = UsedFor(life) /\ c.late = 0
  <2>1. LET t == Tok(life, UsedFor(life)) IN t \in Toks /\ t.left = life /\ t.use = UsedFor(life)
    BY <1>2, TokIs
  <2>2. "reply" \in GetPcs
    BY DEF GetPcs
  <2>3. c \in Gets /\ c.pc = "reply" /\ c.tok = Tok(life, UsedFor(life)) /\ c.late = 0
    BY <1>3, <2>1, <2>2, CallIs, SMTT(20)
  <2> QED BY <2>1, <2>3
<1> HIDE DEF c
<1>5. OnItsWay(c)
  BY <1>2, <1>4, TokensAssumption, SMTT(20) DEF OnItsWay
<1> QED BY <1>1, <1>4, <1>5, StepKeeps, Zenon DEF TokensInv, Stays, Issue, c

LEMMA TransientKeeps ==
  ASSUME TokensInv, NEW r \in Replicas, Transient(r) \/ Refused(r) \/ Returned(r)
  PROVE  TokensInv'
<1>1. UNCHANGED <<own, cached>> /\ get[r].attempt \in Nat
  BY DEF Transient, Refused, Returned, Stays, TokensInv, Gets
<1>2. PICK pc \in {"post", "failed", "idle"}, a \in Nat : Step(r, Call(pc, a, NoTok, 0))
  BY <1>1 DEF Transient, Refused, Returned, NoGet
<1>3. LET c == Call(pc, a, NoTok, 0) IN c \in Gets /\ c.pc = pc
  BY NoTokIs, CallIs DEF GetPcs
<1> QED BY <1>1, <1>2, <1>3, StepKeeps, Zenon DEF TokensInv

LEMMA KeepKeeps ==
  ASSUME TokensInv, NEW r \in Replicas, Keep(r)
  PROVE  TokensInv'
<1>1. /\ get[r].pc = "reply" /\ own' = [own EXCEPT ![r] = get[r].tok] /\ cached' = cached
      /\ Step(r, Call("set", 0, get[r].tok, get[r].late))
  BY DEF Keep
<1>2. get[r].tok \in Toks /\ get[r].late \in Nat /\ OnItsWay(get[r]) /\ get[r] \in Gets
  BY <1>1 DEF TokensInv, Gets, GetOK, Under
<1>3. Outlives(get[r].tok)
  BY <1>2, WayValid
<1> DEFINE c == Call("set", 0, get[r].tok, get[r].late)
<1>4. c \in Gets /\ c.pc = "set" /\ c.tok = get[r].tok /\ c.late = get[r].late
  BY <1>2, CallIs DEF GetPcs
<1>6. OnItsWay(c)
  <2> HIDE DEF c
  <2> QED BY <1>2, <1>4 DEF OnItsWay
<1>5. /\ own' \in [Replicas -> Toks] /\ own'[r] = get[r].tok
      /\ \A q \in Replicas \ {r} : own'[q] = own[q]
  BY <1>1, <1>2 DEF TokensInv
<1> QED BY <1>1, <1>3, <1>4, <1>5, <1>6, StepKeeps, Zenon DEF TokensInv

LEMMA SetCacheKeeps ==
  ASSUME TokensInv, NEW r \in Replicas, SetCache(r)
  PROVE  TokensInv'
<1>1. /\ own' = own /\ Step(r, Call("returned", 0, get[r].tok, 0))
      /\ cached' = cached \/ cached' = own[r]
  BY DEF SetCache
<1>2. /\ own[r] \in Toks /\ Outlives(own[r])
      /\ get[r] \in Gets /\ get[r].tok \in Toks /\ get[r].tok.left > 0
  BY WayValid DEF TokensInv, GetOK, SetCache, Under, Gets
<1>3. LET c == Call("returned", 0, get[r].tok, 0) IN c \in Gets /\ c.pc = "returned" /\ c.tok = get[r].tok
  BY <1>2, CallIs DEF GetPcs
<1>4. cached' \in Toks /\ Outlives(cached')
  BY <1>1, <1>2 DEF TokensInv
<1> QED BY <1>1, <1>2, <1>3, <1>4, StepKeeps, Zenon DEF TokensInv

\* A tick wears a copy that outlives its use to another one that does.
LEMMA WornOutlives ==
  ASSUME NEW t \in Toks, Outlives(t)
  PROVE  Worn(t) \in Toks /\ Outlives(Worn(t))
<1>1. t.left \in Nat /\ t.use \in Nat /\ Less(t.left) \in Nat /\ Less(t.use) \in Nat
  BY ToksIs DEF Less
<1>2. CASE Less(t.use) = 0 /\ t.use > 0
  BY <1>2, NoTokIs DEF Worn
<1>3. CASE ~(Less(t.use) = 0 /\ t.use > 0)
  <2>1. Worn(t) = Tok(Less(t.left), Less(t.use))
    BY <1>3 DEF Worn
  <2>2. Worn(t) \in Toks /\ Worn(t).left = Less(t.left) /\ Worn(t).use = Less(t.use)
    BY <1>1, <2>1, TokIs
  <2>3. Less(t.use) > 0 => Less(t.left) + Delay >= Less(t.use) + Margin
    BY <1>1, TokensAssumption DEF Less, Outlives
  <2> QED BY <2>2, <2>3 DEF Outlives
<1> QED BY <1>2, <1>3

LEMMA TokensTickKeeps ==
  ASSUME TokensInv, TokensTick
  PROVE  TokensInv'
<1>1. /\ own' = [r \in Replicas |-> Worn(own[r])] /\ cached' = Worn(cached)
      /\ own' \in [Replicas -> Toks] /\ cached' \in Toks /\ Outlives(cached')
      /\ \A r \in Replicas : Outlives(own'[r])
  BY WornOutlives DEF TokensInv, TokensTick
<1>2. ASSUME NEW r \in Replicas
      PROVE  get'[r] \in Gets /\ get'[r].pc = get[r].pc /\ (get'[r].pc \in Under => OnItsWay(get'[r]))
  <2>1. get[r] \in Gets
    BY DEF TokensInv
  <2>2. CASE get[r].pc \notin Under
    BY <2>1, <2>2 DEF TokensTick, Under
  <2>3. CASE get[r].pc \in Under
    <3> DEFINE t == get[r].tok
               c == Call(get[r].pc, get[r].attempt, Tok(Less(t.left), t.use), get[r].late + 1)
    <3>1. get'[r] = c
      BY <2>3 DEF TokensTick, Under
    <3>2. get[r].attempt \in Nat /\ t \in Toks /\ t.left \in Nat /\ t.use \in Nat /\ get[r].late \in Nat /\ get[r].pc \in GetPcs
      BY <2>1, ToksIs DEF Gets
    <3>3. get[r].late < Delay /\ OnItsWay(get[r])
      BY <2>3, Zenon DEF TokensTick, TokensInv, GetOK, Under
    <3>4. Less(t.left) \in Nat /\ Less(t.left) + 1 >= t.left
      BY <3>2 DEF Less
    <3>5. /\ c \in Gets /\ c.pc = get[r].pc /\ c.tok.left = Less(t.left) /\ c.tok.use = t.use
          /\ c.late = get[r].late + 1
      <4>1. LET w == Tok(Less(t.left), t.use) IN w \in Toks /\ w.left = Less(t.left) /\ w.use = t.use
        BY <3>2, <3>4, TokIs
      <4>2. PICK n \in Nat, w \in Toks : n = get[r].late + 1 /\ w = Tok(Less(t.left), t.use)
        BY <3>2, <4>1
      <4>3. c = Call(get[r].pc, get[r].attempt, w, n)
        BY <4>2
      <4>4. c \in Gets /\ c.pc = get[r].pc /\ c.tok = w /\ c.late = n
        <5> HIDE DEF c, t
        <5> QED BY <3>2, <4>3, CallIs
      <4> QED BY <4>1, <4>2, <4>4, Zenon
    <3> HIDE DEF c
    <3>6. OnItsWay(c)
      BY <3>2, <3>3, <3>4, <3>5, TokensAssumption DEF OnItsWay
    <3> QED BY <2>3, <3>1, <3>5, <3>6
  <2> QED BY <2>2, <2>3
<1>3. get' \in [Replicas -> Gets]
  <2> DEFINE g(r) == IF get[r].pc \in {"reply", "set"}
                     THEN Call(get[r].pc, get[r].attempt, Tok(Less(get[r].tok.left), get[r].tok.use), get[r].late + 1)
                     ELSE get[r]
  <2>1. get' = [r \in Replicas |-> g(r)]
    BY Zenon DEF TokensTick
  <2> HIDE DEF g
  <2> QED BY <1>2, <2>1, Zenon
<1>4. \A r \in Replicas : get'[r].pc # "returned"
  BY <1>2, Zenon DEF TokensTick
<1> QED BY <1>1, <1>2, <1>3, <1>4 DEF TokensInv, GetOK

\* A token that Get returns is valid on every replica, for every margin that is
\* longer than a reply takes and every lifetime longer than that.
THEOREM TokensInvariant == TokensSpec => []TokenStillValid
<1>1. TokensInit => TokensInv
  <2> SUFFICES ASSUME TokensInit PROVE TokensInv
    OBVIOUS
  <2>1. NoGet \in Gets /\ NoGet.pc = "idle"
    BY NoTokIs, CallIs DEF NoGet, GetPcs
  <2> QED BY <2>1, NoTokIs DEF TokensInit, TokensInv, GetOK, Under
<1>2. TokensInv /\ [TokensNext]_tvars => TokensInv'
  <2> SUFFICES ASSUME TokensInv, [TokensNext]_tvars PROVE TokensInv'
    OBVIOUS
  <2>1. CASE UNCHANGED tvars
    BY <2>1, Zenon DEF tvars, TokensInv, GetOK, Outlives, OnItsWay
  <2> QED BY <2>1, GetTokenKeeps, ReadCacheKeeps, IssueKeeps, TransientKeeps, KeepKeeps,
             SetCacheKeeps, TokensTickKeeps DEF TokensNext
<1>3. TokensInv => TokenStillValid
  BY DEF TokensInv, GetOK, TokenStillValid
<1> QED BY <1>1, <1>2, <1>3, PTL DEF TokensSpec

-----------------------------------------------------------------------------
(* The registry of sockets: EveryoneTold for any number of connections.    *)
(* Whoever was inside when the door closed is on the list of Stop until it *)
(* has been told, unless the deadline ended the round.                     *)

SockStates == {"new", "late", "open", "broken", "closed"}

StopStates == {"idle", "tell", "returned", "expired"}

RegistryTypeOK ==
    /\ sock \in [Conns -> SockStates] /\ conns \in SUBSET Conns /\ told \in SUBSET Conns
    /\ draining \in BOOLEAN
    /\ stop \in [pc : StopStates, left : SUBSET Conns]

\* Who was registered does not register again.
Came(c) == sock[c] \in {"open", "broken", "closed"}

\* The door closes once, with everyone inside either still registered, or on the
\* list of Stop, or told.
Reached(c) ==
    IF draining THEN stop.pc \in {"tell", "returned"} => c \in told \cup stop.left ELSE c \in conns

RegistryInv ==
    /\ RegistryTypeOK
    /\ draining <=> stop.pc # "idle"
    /\ draining => conns = {}
    /\ stop.pc # "tell" => stop.left = {}
    /\ \A c \in Conns :
         /\ sock[c] = "late" => draining
         /\ sock[c] = "open" => Reached(c)
         /\ c \in conns \cup stop.left => Came(c)

LEMMA WorkTyped ==
  ASSUME NEW pc \in StopStates, NEW left \in SUBSET Conns
  PROVE  /\ Work(pc, left) \in [pc : StopStates, left : SUBSET Conns]
         /\ Work(pc, left).pc = pc /\ Work(pc, left).left = left
BY DEF Work

LEMMA RegistryStart == RegistryInit => RegistryInv
<1> SUFFICES ASSUME RegistryInit PROVE RegistryInv
  OBVIOUS
<1>1. stop \in [pc : StopStates, left : SUBSET Conns] /\ stop.pc = "idle" /\ stop.left = {}
  BY WorkTyped DEF RegistryInit, NoWork, StopStates
<1> QED BY <1>1, Zenon DEF RegistryInit, RegistryInv, RegistryTypeOK, SockStates

\* What a broadcast has left to write, and the subscription, do not matter.
LEMMA RegistryStays ==
  ASSUME RegistryInv, UNCHANGED <<sock, conns, draining, told, stop>>
  PROVE  RegistryInv'
BY DEF RegistryInv, RegistryTypeOK, Came, Reached

\* Steps of one connection.
LEMMA SocketKeeps ==
  ASSUME RegistryInv, NEW c \in Conns,
         Register(c) \/ RegisterTells(c) \/ Breaks(c) \/ Unregister(c)
  PROVE  RegistryInv'
<1>1. CASE Register(c)
  BY <1>1 DEF RegistryInv, RegistryTypeOK, SockStates, Came, Reached, Register
<1>2. CASE RegisterTells(c)
  BY <1>2 DEF RegistryInv, RegistryTypeOK, SockStates, Came, Reached, RegisterTells
<1>3. CASE Breaks(c)
  BY <1>3 DEF RegistryInv, RegistryTypeOK, SockStates, Came, Reached, Breaks
<1>4. CASE Unregister(c)
  BY <1>4 DEF RegistryInv, RegistryTypeOK, SockStates, Came, Reached, Unregister
<1> QED BY <1>1, <1>2, <1>3, <1>4

\* Steps of Stop.
LEMMA StopKeeps ==
  ASSUME RegistryInv, Stop \/ (\E c \in Conns : StopTells(c)) \/ \E x \in BOOLEAN : StopReturns(x)
  PROVE  RegistryInv'
<1>1. CASE Stop
  <2>1. stop' \in [pc : StopStates, left : SUBSET Conns] /\ stop'.pc = "tell" /\ stop'.left = conns
    BY <1>1, WorkTyped DEF RegistryInv, RegistryTypeOK, StopStates, Stop
  <2> QED BY <1>1, <2>1 DEF RegistryInv, RegistryTypeOK, Came, Reached, Stop
<1>2. ASSUME NEW c \in Conns, StopTells(c) PROVE RegistryInv'
  <2>1. stop' \in [pc : StopStates, left : SUBSET Conns] /\ stop'.pc = "tell" /\ stop'.left = stop.left \ {c}
    BY <1>2, WorkTyped DEF RegistryInv, RegistryTypeOK, StopStates, StopTells
  <2> QED BY <1>2, <2>1 DEF RegistryInv, RegistryTypeOK, Came, Reached, StopTells
<1>3. ASSUME NEW x \in BOOLEAN, StopReturns(x) PROVE RegistryInv'
  <2> DEFINE pc == IF stop.left = {} THEN "returned" ELSE "expired"
  <2>1. stop' \in [pc : StopStates, left : SUBSET Conns] /\ stop'.pc = pc /\ stop'.left = {}
    <3>1. pc \in StopStates /\ {} \in SUBSET Conns
      BY DEF StopStates
    <3> HIDE DEF pc
    <3> QED BY <1>3, <3>1, WorkTyped DEF StopReturns, pc
  <2> QED BY <1>3, <2>1 DEF RegistryInv, RegistryTypeOK, Came, Reached, StopReturns
<1> QED BY <1>1, <1>2, <1>3

\* A broadcast removes only connections whose write failed.
LEMMA CastKeeps ==
  ASSUME RegistryInv, NEW b \in Broadcasts,
         Broadcast(b) \/ CastReturns(b) \/ \E c \in Conns : CastSends(b, c)
  PROVE  RegistryInv'
<1>1. CASE Broadcast(b) \/ CastReturns(b)
  BY <1>1, RegistryStays DEF Broadcast, CastReturns
<1>2. ASSUME NEW c \in Conns, CastSends(b, c) PROVE RegistryInv'
  BY <1>2, Zenon DEF RegistryInv, RegistryTypeOK, Came, Reached, CastSends
<1> QED BY <1>1, <1>2

LEMMA RegistryStep == RegistryInv /\ [RegistryNext]_gvars => RegistryInv'
<1> SUFFICES ASSUME RegistryInv, [RegistryNext]_gvars PROVE RegistryInv'
  OBVIOUS
<1>1. CASE UNCHANGED gvars
  BY <1>1, RegistryStays DEF gvars
<1>2. CASE Start \/ CloseClient \/ Subscribe \/ Loses \/ StopAgain
  BY <1>2, RegistryStays DEF Start, CloseClient, Subscribe, Loses, StopAgain, others
<1> QED BY <1>1, <1>2, SocketKeeps, StopKeeps, CastKeeps DEF RegistryNext

\* The inductive invariant, on which EveryoneTold rests (MemoryRegistry).
THEOREM RegistryInvariant == RegistrySpec => []RegistryInv
BY RegistryStart, RegistryStep, PTL DEF RegistrySpec

\* No open connection is lost: not to the failed write of a broadcast, and not
\* to a drain that returned in time (Broadcast, Register, Stop).
THEOREM NobodyForgotten == RegistrySpec => []EveryoneTold
<1>1. RegistryInv => EveryoneTold
  BY DEF RegistryInv, RegistryTypeOK, Reached, EveryoneTold
<1> QED BY <1>1, RegistryInvariant, PTL

=============================================================================

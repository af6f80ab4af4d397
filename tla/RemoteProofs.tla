---------------------------- MODULE RemoteProofs ----------------------------
(***************************************************************************)
(* What a process believes and asks of what is elsewhere, for every value  *)
(* of the constants: the keys of the issuer, the list of revocations, and  *)
(* the calls that go through a circuit breaker.                            *)
(***************************************************************************)
EXTENDS KeySet, Revocation, Resilient, TLAPS

-----------------------------------------------------------------------------
(* Verifier.keyForKID: RotationSeen for any number of verifications and    *)
(* rotations. Every set on its way, in the shared cache and in memory was  *)
(* withdrawn a bounded time ago, if it was.                                *)

KeyPcs == {"idle", "lock", "shared", "force", "fetch", "cache", "store", "accepted", "rejected"}

Frames == [pc : KeyPcs, kid : Int, hand : Int, forced : BOOLEAN, old : BOOLEAN]

KeySets == [v : Int, left : Nat]

Late(c) == IF c.old THEN 1 ELSE 0

\* The set v was withdrawn at most n ticks ago, or not at all.
Seen(v, n) == v \in 0..pub /\ (v < pub => since[v] <= n)

\* The kid k is not the present one, or was published at most n ticks ago.
NewKid(k, n) == k = pub => since[k] <= n

SinceOK ==
    /\ pub \in 0..MaxRotations /\ since \in [0..MaxRotations -> Nat]
    /\ \A k, j \in 0..MaxRotations : k < j => since[j] <= since[k]
    /\ \A k \in 0..MaxRotations : ~up \/ k > pub => since[k] = 0

KeySetOK(s, ttl, n) ==
    /\ s \in KeySets /\ s.v \in {NoSet} \cup (0..pub) /\ s.left <= ttl
    /\ s.left > 0 => s.v \in 0..pub /\ (s.v < pub => since[s.v] + s.left <= n)

FrameOK(c) ==
    /\ c.kid \in (0..pub) \cup {Bogus}
    /\ c.pc = "cache" => Seen(c.hand, Late(c))
    /\ c.pc = "store" => Seen(c.hand, SharedTTL + Late(c))
    /\ c.pc = "accepted" => Seen(c.kid, SharedTTL + KeyTTL + Late(c))
    /\ c.pc \in {"force", "rejected"} => NewKid(c.kid, SharedTTL + KeyTTL + Late(c))

KeyInv ==
    /\ SinceOK
    /\ KeySetOK(shared, SharedTTL, SharedTTL + 1)
    /\ KeySetOK(mem, KeyTTL, SharedTTL + KeyTTL + 1)
    /\ ver \in [Verifies -> Frames]
    /\ \A r \in Verifies : FrameOK(ver[r])

LEMMA FrameIs ==
  ASSUME NEW pc \in KeyPcs, NEW kid \in Int, NEW hand \in Int, NEW forced \in BOOLEAN, NEW old \in BOOLEAN
  PROVE  LET c == Frame(pc, kid, hand, forced, old)
         IN  /\ c \in Frames /\ c.pc = pc /\ c.kid = kid /\ c.hand = hand /\ c.forced = forced
             /\ c.old = old
BY DEF Frame, Frames

LEMMA FramesIs ==
  ASSUME NEW c \in Frames
  PROVE  /\ c.pc \in KeyPcs /\ c.kid \in Int /\ c.hand \in Int /\ c.forced \in BOOLEAN /\ c.old \in BOOLEAN
         /\ Late(c) \in 0..1
BY DEF Frames, Late

LEMMA SetIs ==
  ASSUME NEW v \in Int, NEW n \in Nat
  PROVE  Set(v, n) \in KeySets /\ Set(v, n).v = v /\ Set(v, n).left = n
BY DEF Set, KeySets

\* A kid that is not in a set that was not withdrawn long ago is a new one.
LEMMA NotInSet ==
  ASSUME SinceOK, NEW n \in Int, NEW m \in Int, n <= m, NEW v, Seen(v, n), NEW k, k # v
  PROVE  NewKid(k, m)
<1>1. SUFFICES ASSUME k = pub PROVE since[k] <= m
  BY DEF NewKid
<1>2. v \in 0..MaxRotations /\ k \in 0..MaxRotations /\ v < k
  BY <1>1, KeyAssumption DEF Seen, SinceOK
<1>3. since[k] <= since[v] /\ since[v] <= n /\ since[k] \in Nat /\ since[v] \in Nat
  BY <1>1, <1>2 DEF Seen, SinceOK
<1> QED BY <1>3

LEMMA SeenLonger ==
  ASSUME SinceOK, NEW v, NEW n \in Int, NEW m \in Int, n <= m, Seen(v, n)
  PROVE  Seen(v, m)
<1>1. v \in 0..MaxRotations /\ since[v] \in Nat
  BY KeyAssumption DEF Seen, SinceOK
<1> QED BY <1>1 DEF Seen

LEMMA WithdrawnNow ==
  ASSUME SinceOK, ~up, NEW k \in 0..pub, NEW n \in Nat
  PROVE  Seen(k, n) /\ NewKid(k, n)
<1>1. k \in 0..MaxRotations
  BY KeyAssumption DEF SinceOK
<1>2. since[k] = 0
  BY <1>1 DEF SinceOK
<1> QED BY <1>2 DEF Seen, NewKid

\* What a set that has not expired shows.
LEMMA SetSeen ==
  ASSUME SinceOK, NEW s, NEW ttl \in Nat, NEW n \in Int, KeySetOK(s, ttl, n), s.left > 0,
         NEW m \in Int, n <= m + 1
  PROVE  Seen(s.v, m)
<1>1. s.left \in Nat /\ s.v \in 0..pub /\ (s.v < pub => since[s.v] + s.left <= n)
  BY DEF KeySetOK, KeySets
<1>2. s.v \in 0..MaxRotations /\ since[s.v] \in Nat
  BY <1>1, KeyAssumption DEF SinceOK
<1> QED BY <1>1, <1>2 DEF Seen

\* Both TTLs, and the windows, are numbers.
LEMMA Windows ==
  ASSUME NEW l \in 0..1
  PROVE  /\ SharedTTL \in Nat /\ KeyTTL \in Nat /\ SharedTTL + 1 \in Int /\ SharedTTL + KeyTTL + 1 \in Int
         /\ SharedTTL + l \in Int /\ SharedTTL + KeyTTL + l \in Int
         /\ SharedTTL + 1 <= SharedTTL + l + 1
         /\ SharedTTL + KeyTTL + 1 <= SharedTTL + KeyTTL + l + 1
         /\ l <= SharedTTL + l /\ SharedTTL + l <= SharedTTL + KeyTTL + l
BY KeyAssumption

\* One request goes on, and the sets stay good.
LEMMA VerKeeps ==
  ASSUME KeyInv, NEW r \in Verifies, NEW c \in Frames, ver' = [ver EXCEPT ![r] = c],
         UNCHANGED <<pub, up, since>>, FrameOK(c),
         KeySetOK(shared', SharedTTL, SharedTTL + 1), KeySetOK(mem', KeyTTL, SharedTTL + KeyTTL + 1)
  PROVE  KeyInv'
<1>1. SinceOK'
  BY DEF KeyInv, SinceOK
<1>2. KeySetOK(shared, SharedTTL, SharedTTL + 1)' /\ KeySetOK(mem, KeyTTL, SharedTTL + KeyTTL + 1)'
  BY DEF KeySetOK, Seen
<1>3. /\ ver' \in [Verifies -> Frames] /\ ver'[r] = c
      /\ \A q \in Verifies \ {r} : ver'[q] = ver[q]
  BY DEF KeyInv
<1>4. ASSUME NEW q \in Verifies PROVE FrameOK(ver[q])'
  <2>1. FrameOK(ver'[q])
    BY <1>3 DEF KeyInv
  <2> QED BY <2>1 DEF FrameOK, Seen, NewKid, Late
<1> QED BY <1>1, <1>2, <1>3, <1>4 DEF KeyInv

\* What To makes of a request.
LEMMA ToIs ==
  ASSUME KeyInv, NEW r \in Verifies, NEW pc \in KeyPcs, NEW hand \in Int, NEW forced,
         forced \in BOOLEAN, To(r, pc, hand, forced)
  PROVE  \E c \in Frames :
            /\ ver' = [ver EXCEPT ![r] = c]
            /\ c.pc = pc /\ c.kid = ver[r].kid /\ c.hand = hand /\ c.forced = forced /\ c.old = ver[r].old
            /\ c.kid \in (0..pub) \cup {Bogus} /\ Late(c) = Late(ver[r]) /\ Late(c) \in 0..1
<1>1. ver[r] \in Frames /\ FrameOK(ver[r])
  BY DEF KeyInv
<1>2. ver[r].kid \in Int /\ ver[r].old \in BOOLEAN
  BY <1>1, FramesIs
<1> DEFINE c == Frame(pc, ver[r].kid, hand, forced, ver[r].old)
<1>3. /\ c \in Frames /\ c.pc = pc /\ c.kid = ver[r].kid /\ c.hand = hand /\ c.forced = forced
      /\ c.old = ver[r].old
  BY <1>2, FrameIs
<1>4. ver' = [ver EXCEPT ![r] = c]
  BY DEF To
<1> HIDE DEF c
<1>5. Late(c) = Late(ver[r]) /\ Late(c) \in 0..1
  BY <1>3, FramesIs DEF Late
<1> QED BY <1>1, <1>3, <1>4, <1>5, Zenon DEF FrameOK

LEMMA ToPlain ==
  ASSUME KeyInv, NEW r \in Verifies, NEW pc \in {"shared", "fetch", "lock"}, NEW hand \in Int,
         NEW forced \in BOOLEAN, To(r, pc, hand, forced), UNCHANGED <<pub, up, since, shared, mem>>
  PROVE  KeyInv'
<1>1. pc \in KeyPcs
  BY DEF KeyPcs
<1>2. PICK c \in Frames :
        /\ ver' = [ver EXCEPT ![r] = c] /\ c.pc = pc /\ c.kid \in (0..pub) \cup {Bogus}
  BY <1>1, ToIs
<1>3. FrameOK(c)
  BY <1>2 DEF FrameOK
<1> QED BY <1>2, <1>3, VerKeeps, Zenon DEF KeyInv

LEMMA KidLookupKeeps ==
  ASSUME KeyInv, NEW r \in Verifies, NEW kid \in (0..pub) \cup {Bogus}, Lookup(r, kid)
  PROVE  KeyInv'
<1> DEFINE pc == IF mem.left = 0 THEN "lock" ELSE IF mem.v = kid THEN "accepted" ELSE "force"
           c == Frame(pc, kid, NoSet, FALSE, FALSE)
<1>1. ver' = [ver EXCEPT ![r] = c] /\ UNCHANGED <<pub, up, since, shared, mem>>
  BY DEF Lookup
<1>2. kid \in Int /\ NoSet \in Int /\ pc \in KeyPcs
  BY KeyAssumption DEF KeyInv, SinceOK, Bogus, NoSet, KeyPcs
<1>3. c \in Frames /\ c.pc = pc /\ c.kid = kid /\ ~c.old
  BY <1>2 DEF Frame, Frames
<1>4. Late(c) = 0
  BY <1>3 DEF Late
<1>5. mem.left \in Nat
  BY DEF KeyInv, KeySetOK, KeySets
<1>6. mem.left > 0 => Seen(mem.v, SharedTTL + KeyTTL + Late(c))
  <2>1. KeySetOK(mem, KeyTTL, SharedTTL + KeyTTL + 1) /\ SinceOK /\ 0 \in 0..1
    BY DEF KeyInv
  <2> QED BY <1>4, <2>1, Windows, SetSeen, Zenon
<1> HIDE DEF c
<1>7. pc = "accepted" => mem.left > 0 /\ kid = mem.v
  BY <1>5
<1>8. pc = "force" => mem.left > 0 /\ kid # mem.v
  BY <1>5
<1>9. pc \in {"lock", "accepted", "force"}
  OBVIOUS
<1> HIDE DEF pc
<1>10. pc = "accepted" => Seen(c.kid, SharedTTL + KeyTTL + Late(c))
  BY <1>3, <1>6, <1>7
<1>11. pc = "force" => NewKid(c.kid, SharedTTL + KeyTTL + Late(c))
  <2>1. SharedTTL + KeyTTL + Late(c) \in Int /\ SinceOK
    BY <1>4, KeyAssumption DEF KeyInv
  <2> QED BY <1>3, <1>6, <1>8, <2>1, NotInSet
<1>12. FrameOK(c)
  BY <1>3, <1>9, <1>10, <1>11 DEF FrameOK
<1> QED BY <1>1, <1>3, <1>12, VerKeeps, Zenon DEF KeyInv

\* A request is answered, or goes on to the forced refresh.
LEMMA KidAnswerKeeps ==
  ASSUME KeyInv, NEW r \in Verifies, NEW pc \in {"accepted", "force", "rejected"}, NEW f \in BOOLEAN,
         To(r, pc, NoSet, f), UNCHANGED <<pub, up, since, shared>>,
         KeySetOK(mem', KeyTTL, SharedTTL + KeyTTL + 1),
         pc = "accepted" => Seen(ver[r].kid, SharedTTL + KeyTTL + Late(ver[r])),
         pc # "accepted" => NewKid(ver[r].kid, SharedTTL + KeyTTL + Late(ver[r]))
  PROVE  KeyInv'
<1>1. pc \in KeyPcs /\ NoSet \in Int
  BY DEF KeyPcs, NoSet
<1>2. PICK c \in Frames :
        /\ ver' = [ver EXCEPT ![r] = c] /\ c.pc = pc /\ c.kid = ver[r].kid
        /\ c.kid \in (0..pub) \cup {Bogus} /\ Late(c) = Late(ver[r])
  BY <1>1, ToIs
<1>3. FrameOK(c)
  BY <1>2 DEF FrameOK
<1> QED BY <1>2, <1>3, VerKeeps, Zenon DEF KeyInv

LEMMA RelookKeeps ==
  ASSUME KeyInv, NEW r \in Verifies, Relook(r)
  PROVE  KeyInv'
<1>1. UNCHANGED <<pub, up, since, shared, mem>> /\ NoSet \in Int
  BY DEF Relook, NoSet
<1>2. CASE mem.left > 0 /\ Has(mem, r) /\ To(r, "accepted", NoSet, FALSE)
  <2>1. PICK f \in BOOLEAN : To(r, "accepted", NoSet, f)
    BY <1>2, Zenon
  <2>2. /\ KeySetOK(mem, KeyTTL, SharedTTL + KeyTTL + 1) /\ SinceOK /\ mem.left > 0 /\ mem.v = ver[r].kid
        /\ Late(ver[r]) \in 0..1
    BY <1>2, FramesIs DEF KeyInv, Has
  <2>3. Seen(ver[r].kid, SharedTTL + KeyTTL + Late(ver[r]))
    BY <2>2, Windows, SetSeen
  <2> QED BY <1>1, <2>1, <2>2, <2>3, KidAnswerKeeps
<1>3. CASE To(r, "shared", NoSet, FALSE)
  BY <1>1, <1>3, ToPlain, Zenon
<1> QED BY <1>2, <1>3, Zenon DEF Relook

LEMMA ReadSharedKeeps ==
  ASSUME KeyInv, NEW r \in Verifies, ReadShared(r)
  PROVE  KeyInv'
<1>1. UNCHANGED <<pub, up, since, shared, mem>> /\ NoSet \in Int
  BY DEF ReadShared, NoSet
<1>2. CASE shared.left > 0 /\ To(r, "store", shared.v, FALSE)
  <2>1. /\ "store" \in KeyPcs /\ shared.v \in Int /\ shared.left > 0
        /\ KeySetOK(shared, SharedTTL, SharedTTL + 1) /\ SinceOK
    BY <1>2 DEF KeyPcs, KeyInv, KeySetOK, KeySets
  <2>2. PICK f \in BOOLEAN : To(r, "store", shared.v, f)
    BY <1>2, Zenon
  <2>3. PICK c \in Frames :
          /\ ver' = [ver EXCEPT ![r] = c] /\ c.pc = "store" /\ c.hand = shared.v
          /\ c.kid \in (0..pub) \cup {Bogus} /\ Late(c) \in 0..1
    BY <2>1, <2>2, ToIs
  <2>4. Seen(c.hand, SharedTTL + Late(c))
    BY <2>1, <2>3, Windows, SetSeen
  <2>5. FrameOK(c)
    BY <2>3, <2>4 DEF FrameOK
  <2> QED BY <1>1, <2>3, <2>5, VerKeeps, Zenon DEF KeyInv
<1>3. CASE To(r, "fetch", NoSet, FALSE)
  BY <1>1, <1>3, ToPlain, Zenon
<1> QED BY <1>2, <1>3, Zenon DEF ReadShared

LEMMA ForceKeeps ==
  ASSUME KeyInv, NEW r \in Verifies, ForceRefresh(r)
  PROVE  KeyInv'
<1>1. UNCHANGED <<pub, up, since, shared, mem>> /\ NoSet \in Int
  BY DEF ForceRefresh, NoSet
<1>2. CASE To(r, "rejected", NoSet, FALSE)
  <2>1. PICK f \in BOOLEAN : To(r, "rejected", NoSet, f)
    BY <1>2, Zenon
  <2>2. NewKid(ver[r].kid, SharedTTL + KeyTTL + Late(ver[r]))
    BY DEF KeyInv, FrameOK, ForceRefresh
  <2>3. KeySetOK(mem, KeyTTL, SharedTTL + KeyTTL + 1)
    BY DEF KeyInv
  <2> QED BY <1>1, <2>1, <2>2, <2>3, KidAnswerKeeps
<1>3. CASE To(r, "fetch", NoSet, TRUE)
  BY <1>1, <1>3, ToPlain, Zenon
<1> QED BY <1>2, <1>3, Zenon DEF ForceRefresh, Result

LEMMA FetchKeeps ==
  ASSUME KeyInv, NEW r \in Verifies, Fetch(r)
  PROVE  KeyInv'
<1>1. /\ UNCHANGED <<pub, up, since, shared, mem>>
      /\ ver[r] \in Frames /\ ver[r].forced \in BOOLEAN /\ Late(ver[r]) \in 0..1
      /\ ver[r].kid \in (0..pub) \cup {Bogus}
  BY FramesIs DEF Fetch, KeyInv, FrameOK
<1>2. /\ SinceOK /\ pub \in Nat /\ KeySetOK(mem, KeyTTL, SharedTTL + KeyTTL + 1)
      /\ SharedTTL + KeyTTL + Late(ver[r]) \in Nat
  BY <1>1, KeyAssumption DEF KeyInv, SinceOK
<1>3. CASE up
  <2>1. To(r, "cache", pub, ver[r].forced) /\ "cache" \in KeyPcs /\ pub \in Int
    BY <1>2, <1>3 DEF Fetch, KeyPcs
  <2>2. PICK c \in Frames :
          /\ ver' = [ver EXCEPT ![r] = c] /\ c.pc = "cache" /\ c.hand = pub
          /\ c.kid \in (0..pub) \cup {Bogus}
    BY <1>1, <2>1, ToIs
  <2>3. FrameOK(c)
    BY <1>2, <2>2 DEF FrameOK, Seen
  <2> QED BY <1>1, <2>2, <2>3, VerKeeps, Zenon DEF KeyInv
<1>4. CASE ~up
  <2>1. PICK pc \in {"accepted", "rejected"} :
          To(r, pc, NoSet, FALSE) /\ (pc = "accepted" => mem.v = ver[r].kid)
    BY <1>4, Zenon DEF Fetch, Result, Has
  <2>2. PICK f \in BOOLEAN : To(r, pc, NoSet, f)
    BY <2>1, Zenon
  <2>3. pc = "accepted" => ver[r].kid \in 0..pub
    BY <1>1, <1>2, <2>1 DEF KeySetOK, NoSet, Bogus
  <2>4. pc = "accepted" => Seen(ver[r].kid, SharedTTL + KeyTTL + Late(ver[r]))
    BY <1>2, <1>4, <2>3, WithdrawnNow
  <2>5. NewKid(ver[r].kid, SharedTTL + KeyTTL + Late(ver[r]))
    <3>1. CASE ver[r].kid \in 0..pub
      BY <1>2, <1>4, <3>1, WithdrawnNow
    <3>2. CASE ver[r].kid = Bogus
      BY <1>2, <3>2 DEF NewKid, Bogus
    <3> QED BY <1>1, <3>1, <3>2
  <2> QED BY <1>1, <1>2, <2>2, <2>4, <2>5, KidAnswerKeeps
<1> QED BY <1>3, <1>4

\* A set that is put into a cache is good there.
LEMMA SetPut ==
  ASSUME SinceOK, NEW v \in Int, NEW ttl \in Nat, NEW n \in Int, NEW m \in Int, Seen(v, n), n + ttl <= m
  PROVE  KeySetOK(Set(v, ttl), ttl, m)
<1>1. Set(v, ttl) \in KeySets /\ Set(v, ttl).v = v /\ Set(v, ttl).left = ttl
  BY SetIs
<1>2. v \in 0..pub /\ v \in 0..MaxRotations /\ since[v] \in Nat
  BY KeyAssumption DEF Seen, SinceOK
<1>3. v < pub => since[v] + ttl <= m
  BY <1>2 DEF Seen
<1> QED BY <1>1, <1>2, <1>3 DEF KeySetOK

LEMMA WriteSharedKeeps ==
  ASSUME KeyInv, NEW r \in Verifies, WriteShared(r)
  PROVE  KeyInv'
<1>1. /\ UNCHANGED <<pub, up, since, mem>> /\ SinceOK /\ ver[r] \in Frames
      /\ ver[r].pc = "cache" /\ Seen(ver[r].hand, Late(ver[r]))
      /\ To(r, "store", ver[r].hand, ver[r].forced)
      /\ shared' = shared \/ shared' = Set(ver[r].hand, SharedTTL)
  BY DEF WriteShared, KeyInv, FrameOK
<1>2. ver[r].hand \in Int /\ ver[r].forced \in BOOLEAN /\ Late(ver[r]) \in 0..1 /\ "store" \in KeyPcs
  BY <1>1, FramesIs DEF KeyPcs
<1>3. KeySetOK(shared', SharedTTL, SharedTTL + 1)
  <2>1. /\ Late(ver[r]) \in Int /\ SharedTTL \in Nat /\ SharedTTL + 1 \in Int
        /\ Late(ver[r]) + SharedTTL <= SharedTTL + 1
    BY <1>2, KeyAssumption
  <2>2. KeySetOK(Set(ver[r].hand, SharedTTL), SharedTTL, SharedTTL + 1)
    BY <1>1, <1>2, <2>1, SetPut
  <2> QED BY <1>1, <2>2 DEF KeyInv
<1>4. PICK c \in Frames :
        /\ ver' = [ver EXCEPT ![r] = c] /\ c.pc = "store" /\ c.hand = ver[r].hand
        /\ c.kid \in (0..pub) \cup {Bogus} /\ Late(c) = Late(ver[r])
  BY <1>1, <1>2, ToIs
<1>5. Seen(c.hand, SharedTTL + Late(c))
  <2>1. Late(c) \in Int /\ SharedTTL + Late(c) \in Int /\ Late(c) <= SharedTTL + Late(c)
    BY <1>2, <1>4, KeyAssumption
  <2> QED BY <1>1, <1>4, <2>1, SeenLonger
<1>6. FrameOK(c)
  BY <1>4, <1>5 DEF FrameOK
<1> QED BY <1>1, <1>3, <1>4, <1>6, VerKeeps, Zenon DEF KeyInv

LEMMA StoreKeeps ==
  ASSUME KeyInv, NEW r \in Verifies, Store(r)
  PROVE  KeyInv'
<1> DEFINE n == SharedTTL + Late(ver[r])
           m == SharedTTL + KeyTTL + Late(ver[r])
<1>1. /\ UNCHANGED <<pub, up, since, shared>> /\ SinceOK /\ ver[r] \in Frames
      /\ Seen(ver[r].hand, n) /\ mem' = Set(ver[r].hand, KeyTTL)
  BY DEF Store, KeyInv, FrameOK
<1>2. ver[r].hand \in Int /\ ver[r].forced \in BOOLEAN /\ Late(ver[r]) \in 0..1
  BY <1>1, FramesIs
<1>3. /\ n \in Int /\ m \in Int /\ n <= m /\ KeyTTL \in Nat /\ SharedTTL + KeyTTL + 1 \in Int
      /\ n + KeyTTL <= SharedTTL + KeyTTL + 1
  BY <1>2, KeyAssumption
<1> HIDE DEF n, m
<1>4. KeySetOK(mem', KeyTTL, SharedTTL + KeyTTL + 1)
  BY <1>1, <1>2, <1>3, SetPut
<1>5. PICK pc \in {"accepted", "force", "rejected"} :
        To(r, pc, NoSet, FALSE) /\ (pc = "accepted" <=> ver[r].hand = ver[r].kid)
  BY Zenon DEF Store, Result
<1>6. PICK f \in BOOLEAN : To(r, pc, NoSet, f)
  BY <1>5, Zenon
<1>7. pc = "accepted" => Seen(ver[r].kid, m)
  BY <1>1, <1>3, <1>5, SeenLonger
<1>8. pc # "accepted" => NewKid(ver[r].kid, m)
  BY <1>1, <1>3, <1>5, NotInSet
<1> QED BY <1>1, <1>4, <1>6, <1>7, <1>8, KidAnswerKeeps DEF m

LEMMA ReadyIs == Ready \in Frames /\ Ready.pc = "idle" /\ Ready.kid = Bogus
BY DEF Ready, Frame, Frames, KeyPcs, Bogus, NoSet

LEMMA SettledKeeps ==
  ASSUME KeyInv, NEW r \in Verifies, Settled(r)
  PROVE  KeyInv'
<1>1. FrameOK(Ready)
  BY ReadyIs DEF FrameOK
<1>2. ver' = [ver EXCEPT ![r] = Ready] /\ UNCHANGED <<pub, up, since, shared, mem>>
  BY DEF Settled
<1> QED BY <1>1, <1>2, ReadyIs, VerKeeps, Zenon DEF KeyInv

\* The provider moves, or a tick passes (g = 1): no set is seen longer than that.
LEMMA KeysAge ==
  ASSUME KeyInv, SinceOK', NEW g \in 0..1, pub' >= pub,
         \A v \in 0..pub, n \in Nat : Seen(v, n) => Seen(v, n + g)',
         \A k \in (0..pub) \cup {Bogus}, n \in Nat : NewKid(k, n) => NewKid(k, n + g)',
         ver' \in [Verifies -> Frames],
         \A r \in Verifies :
            /\ ver'[r].pc = ver[r].pc /\ ver'[r].kid = ver[r].kid /\ ver'[r].hand = ver[r].hand
            /\ ver[r].pc # "idle" => Late(ver'[r]) = Late(ver[r]) + g
  PROVE  \A r \in Verifies : FrameOK(ver[r])'
<1> SUFFICES ASSUME NEW r \in Verifies PROVE FrameOK(ver[r])'
  OBVIOUS
<1>1. pub \in Nat /\ pub' \in Nat
  BY KeyAssumption DEF KeyInv, SinceOK
<1>2. ver[r] \in Frames /\ FrameOK(ver[r]) /\ Late(ver[r]) \in 0..1
  BY FramesIs DEF KeyInv
<1>3. ver'[r].kid \in (0..pub') \cup {Bogus}
  BY <1>1, <1>2 DEF FrameOK
<1>4. /\ SharedTTL + Late(ver[r]) \in Nat /\ SharedTTL + KeyTTL + Late(ver[r]) \in Nat /\ Late(ver[r]) \in Nat
      /\ SharedTTL + Late(ver[r]) + g = SharedTTL + (Late(ver[r]) + g)
      /\ SharedTTL + KeyTTL + Late(ver[r]) + g = SharedTTL + KeyTTL + (Late(ver[r]) + g)
  BY <1>2, KeyAssumption
<1>5. ASSUME ver[r].pc = "cache" PROVE Seen(ver[r].hand, Late(ver[r]))'
  <2>1. Seen(ver[r].hand, Late(ver[r])) /\ ver[r].hand \in 0..pub
    BY <1>2, <1>5 DEF FrameOK, Seen
  <2>2. /\ \A v \in 0..pub : Seen(v, Late(ver[r])) => v \in 0..pub' /\ (v < pub' => since'[v] <= Late(ver[r]) + g)
    BY <1>4 DEF Seen
  <2> QED BY <1>5, <2>1, <2>2 DEF Seen
<1>6. ASSUME ver[r].pc = "store" PROVE Seen(ver[r].hand, SharedTTL + Late(ver[r]))'
  <2>1. Seen(ver[r].hand, SharedTTL + Late(ver[r])) /\ ver[r].hand \in 0..pub
    BY <1>2, <1>6 DEF FrameOK, Seen
  <2>2. \A v \in 0..pub : Seen(v, SharedTTL + Late(ver[r])) =>
            v \in 0..pub' /\ (v < pub' => since'[v] <= SharedTTL + Late(ver[r]) + g)
    BY <1>4 DEF Seen
  <2> QED BY <1>4, <1>6, <2>1, <2>2 DEF Seen
<1>7. ASSUME ver[r].pc = "accepted" PROVE Seen(ver[r].kid, SharedTTL + KeyTTL + Late(ver[r]))'
  <2>1. Seen(ver[r].kid, SharedTTL + KeyTTL + Late(ver[r])) /\ ver[r].kid \in 0..pub
    BY <1>2, <1>7 DEF FrameOK, Seen
  <2>2. \A v \in 0..pub : Seen(v, SharedTTL + KeyTTL + Late(ver[r])) =>
            v \in 0..pub' /\ (v < pub' => since'[v] <= SharedTTL + KeyTTL + Late(ver[r]) + g)
    BY <1>4 DEF Seen
  <2> QED BY <1>4, <1>7, <2>1, <2>2 DEF Seen
<1>8. ASSUME ver[r].pc \in {"force", "rejected"}
      PROVE  NewKid(ver[r].kid, SharedTTL + KeyTTL + Late(ver[r]))'
  <2>1. NewKid(ver[r].kid, SharedTTL + KeyTTL + Late(ver[r])) /\ ver[r].kid \in (0..pub) \cup {Bogus}
    BY <1>2, <1>8 DEF FrameOK
  <2>2. \A k \in (0..pub) \cup {Bogus} : NewKid(k, SharedTTL + KeyTTL + Late(ver[r])) =>
            (k = pub' => since'[k] <= SharedTTL + KeyTTL + Late(ver[r]) + g)
    BY <1>4 DEF NewKid
  <2> QED BY <1>4, <1>8, <2>1, <2>2, Zenon DEF NewKid
<1> QED BY <1>3, <1>5, <1>6, <1>7, <1>8 DEF FrameOK

LEMMA RotateKeeps ==
  ASSUME KeyInv, Rotate
  PROVE  KeyInv'
<1>1. /\ pub \in Nat /\ pub' = pub + 1 /\ pub' \in 0..MaxRotations /\ pub \in 0..MaxRotations
      /\ since \in [0..MaxRotations -> Nat] /\ since' = [since EXCEPT ![pub] = 0]
      /\ UNCHANGED <<up, shared, mem, ver>>
  BY KeyAssumption DEF KeyInv, SinceOK, Rotate
<1>2. /\ since' \in [0..MaxRotations -> Nat] /\ since'[pub] = 0
      /\ \A k \in 0..MaxRotations : k # pub => since'[k] = since[k]
  BY <1>1
<1>3. SinceOK'
  <2>1. ASSUME NEW k \in 0..MaxRotations, NEW j \in 0..MaxRotations, k < j PROVE since'[j] <= since'[k]
    <3>1. since[j] <= since[k] /\ since'[j] \in Nat /\ since'[k] \in Nat /\ (j > pub => since[j] = 0)
      BY <1>2, <2>1 DEF KeyInv, SinceOK
    <3> QED BY <1>1, <1>2, <2>1, <3>1
  <2>2. \A k \in 0..MaxRotations : ~up' \/ k > pub' => since'[k] = 0
    <3> SUFFICES ASSUME NEW k \in 0..MaxRotations, ~up \/ k > pub + 1 PROVE since'[k] = 0
      BY <1>1
    <3>1. ~up \/ k > pub
      BY <1>1
    <3>2. since[k] = 0
      BY <3>1 DEF KeyInv, SinceOK
    <3> QED BY <1>2, <3>2
  <2> QED BY <1>1, <1>2, <2>1, <2>2 DEF SinceOK
<1>4. ASSUME NEW v \in 0..pub, NEW n \in Nat, Seen(v, n) PROVE Seen(v, n + 0)'
  <2>1. v \in 0..MaxRotations /\ since[v] \in Nat
    BY KeyAssumption, <1>1
  <2> QED BY <1>1, <1>2, <1>4, <2>1 DEF Seen
<1>5. ASSUME NEW k \in (0..pub) \cup {Bogus}, NEW n \in Nat PROVE NewKid(k, n + 0)'
  BY <1>1 DEF NewKid, Bogus
<1>6. ASSUME NEW s, NEW ttl \in Nat, NEW n \in Nat, ttl <= n, KeySetOK(s, ttl, n)
      PROVE  s.v \in {NoSet} \cup (0..pub') /\ (s.left > 0 => s.v \in 0..pub' /\ (s.v < pub' => since'[s.v] + s.left <= n))
  <2>1. s.left \in Nat /\ s.v \in {NoSet} \cup (0..pub) /\ s.left <= ttl
    BY <1>6 DEF KeySetOK, KeySets
  <2>2. s.left > 0 => s.v \in 0..pub /\ (s.v < pub => since[s.v] + s.left <= n)
    BY <1>6 DEF KeySetOK
  <2>3. s.v \in {NoSet} \cup (0..pub')
    BY <1>1, <2>1
  <2>4. ASSUME s.left > 0 PROVE s.v \in 0..pub' /\ since'[s.v] + s.left <= n
    <3>1. s.v \in 0..pub /\ s.v \in 0..MaxRotations
      BY KeyAssumption, <1>1, <2>2, <2>4
    <3>2. CASE s.v = pub
      BY <1>1, <1>2, <1>6, <2>1, <3>2
    <3>3. CASE s.v # pub
      BY <1>1, <1>2, <2>2, <2>4, <3>1, <3>3
    <3> QED BY <3>2, <3>3
  <2> QED BY <2>3, <2>4
<1>7. /\ SharedTTL \in Nat /\ KeyTTL \in Nat /\ SharedTTL + 1 \in Nat /\ SharedTTL + KeyTTL + 1 \in Nat
      /\ SharedTTL <= SharedTTL + 1 /\ KeyTTL <= SharedTTL + KeyTTL + 1
  BY KeyAssumption
<1>8. KeySetOK(shared, SharedTTL, SharedTTL + 1)' /\ KeySetOK(mem, KeyTTL, SharedTTL + KeyTTL + 1)'
  <2>1. KeySetOK(shared, SharedTTL, SharedTTL + 1) /\ KeySetOK(mem, KeyTTL, SharedTTL + KeyTTL + 1)
    BY DEF KeyInv
  <2>2. /\ shared.v \in {NoSet} \cup (0..pub')
        /\ shared.left > 0 => shared.v \in 0..pub' /\ (shared.v < pub' => since'[shared.v] + shared.left <= SharedTTL + 1)
    BY <1>6, <1>7, <2>1
  <2>3. /\ mem.v \in {NoSet} \cup (0..pub')
        /\ mem.left > 0 => mem.v \in 0..pub' /\ (mem.v < pub' => since'[mem.v] + mem.left <= SharedTTL + KeyTTL + 1)
    BY <1>6, <1>7, <2>1
  <2> QED BY <1>1, <2>1, <2>2, <2>3 DEF KeySetOK
<1>9. ASSUME NEW r \in Verifies PROVE Late(ver'[r]) = Late(ver[r]) + 0
  <2>1. Late(ver[r]) \in 0..1
    BY FramesIs DEF KeyInv
  <2> QED BY <1>1, <2>1
<1>10. \A r \in Verifies : FrameOK(ver[r])'
  <2>1. ver' \in [Verifies -> Frames] /\ ver' = ver /\ pub' >= pub /\ 0 \in 0..1
    BY <1>1 DEF KeyInv
  <2> QED BY <1>3, <1>4, <1>5, <1>9, <2>1, KeysAge
<1> QED BY <1>1, <1>3, <1>8, <1>10 DEF KeyInv

LEMMA OutageKeeps ==
  ASSUME KeyInv, Outage
  PROVE  KeyInv'
<1>1. /\ pub \in Nat /\ pub' = pub /\ pub \in 0..MaxRotations /\ since \in [0..MaxRotations -> Nat]
      /\ up' = ~up /\ since' = (IF up THEN [k \in DOMAIN since |-> 0] ELSE since)
      /\ UNCHANGED <<shared, mem, ver>>
  BY KeyAssumption DEF KeyInv, SinceOK, Outage
<1>2. /\ since' \in [0..MaxRotations -> Nat]
      /\ \A k \in 0..MaxRotations : since'[k] = 0
  <2>1. CASE up
    BY <1>1, <2>1
  <2>2. CASE ~up
    BY <1>1, <2>2 DEF KeyInv, SinceOK
  <2> QED BY <2>1, <2>2
<1>3. SinceOK'
  BY <1>1, <1>2 DEF SinceOK
<1>4. ASSUME NEW v \in 0..pub, NEW n \in Nat PROVE Seen(v, n + 0)'
  BY KeyAssumption, <1>1, <1>2 DEF Seen
<1>5. ASSUME NEW k \in (0..pub) \cup {Bogus}, NEW n \in Nat PROVE NewKid(k, n + 0)'
  BY <1>1, <1>2 DEF NewKid, Bogus
<1>6. ASSUME NEW s, NEW ttl \in Nat, NEW n \in Nat, ttl <= n, KeySetOK(s, ttl, n)
      PROVE  s.left > 0 => s.v \in 0..pub' /\ (s.v < pub' => since'[s.v] + s.left <= n)
  <2>1. s.left \in Nat /\ s.left <= ttl /\ (s.left > 0 => s.v \in 0..pub)
    BY <1>6 DEF KeySetOK, KeySets
  <2>2. ASSUME s.left > 0 PROVE s.v \in 0..pub' /\ since'[s.v] = 0
    BY KeyAssumption, <1>1, <1>2, <2>1, <2>2
  <2> QED BY <1>6, <2>1, <2>2
<1>7. /\ SharedTTL \in Nat /\ KeyTTL \in Nat /\ SharedTTL + 1 \in Nat /\ SharedTTL + KeyTTL + 1 \in Nat
      /\ SharedTTL <= SharedTTL + 1 /\ KeyTTL <= SharedTTL + KeyTTL + 1
  BY KeyAssumption
<1>8. KeySetOK(shared, SharedTTL, SharedTTL + 1)' /\ KeySetOK(mem, KeyTTL, SharedTTL + KeyTTL + 1)'
  <2>1. KeySetOK(shared, SharedTTL, SharedTTL + 1) /\ KeySetOK(mem, KeyTTL, SharedTTL + KeyTTL + 1)
    BY DEF KeyInv
  <2>2. shared.left > 0 => shared.v \in 0..pub' /\ (shared.v < pub' => since'[shared.v] + shared.left <= SharedTTL + 1)
    BY <1>6, <1>7, <2>1
  <2>3. mem.left > 0 => mem.v \in 0..pub' /\ (mem.v < pub' => since'[mem.v] + mem.left <= SharedTTL + KeyTTL + 1)
    BY <1>6, <1>7, <2>1
  <2> QED BY <1>1, <2>1, <2>2, <2>3 DEF KeySetOK
<1>9. ASSUME NEW r \in Verifies PROVE Late(ver'[r]) = Late(ver[r]) + 0
  <2>1. Late(ver[r]) \in 0..1
    BY FramesIs DEF KeyInv
  <2> QED BY <1>1, <2>1
<1>10. \A r \in Verifies : FrameOK(ver[r])'
  <2>1. ver' \in [Verifies -> Frames] /\ ver' = ver /\ pub' >= pub /\ 0 \in 0..1
    BY <1>1 DEF KeyInv
  <2> QED BY <1>3, <1>4, <1>5, <1>9, <2>1, KeysAge
<1> QED BY <1>1, <1>3, <1>8, <1>10 DEF KeyInv

LEMMA KeyTickKeeps ==
  ASSUME KeyInv, KeyTick
  PROVE  KeyInv'
<1> DEFINE Grows(k) == k <= pub /\ up /\ since[k] <= WithdrawWindow
<1>1. /\ pub \in Nat /\ pub' = pub /\ pub \in 0..MaxRotations /\ since \in [0..MaxRotations -> Nat]
      /\ up' = up /\ since' = [k \in 0..MaxRotations |-> IF Grows(k) THEN since[k] + 1 ELSE since[k]]
      /\ shared' = Set(shared.v, Dec(shared.left)) /\ mem' = Set(mem.v, Dec(mem.left))
  BY KeyAssumption DEF KeyInv, SinceOK, KeyTick
<1>2. /\ since' \in [0..MaxRotations -> Nat]
      /\ \A k \in 0..MaxRotations : since'[k] = (IF Grows(k) THEN since[k] + 1 ELSE since[k]) /\ since[k] \in Nat
  BY <1>1
<1>3. SinceOK'
  <2>1. ASSUME NEW k \in 0..MaxRotations, NEW j \in 0..MaxRotations, k < j PROVE since'[j] <= since'[k]
    <3>1. /\ since[j] <= since[k] /\ since[j] \in Nat /\ since[k] \in Nat
          /\ j > pub => since[j] = 0
      BY <1>2, <2>1 DEF KeyInv, SinceOK
    <3>2. WithdrawWindow \in Nat
      BY KeyAssumption DEF WithdrawWindow
    <3> QED BY <1>1, <1>2, <2>1, <3>1, <3>2
  <2>2. \A k \in 0..MaxRotations : ~up' \/ k > pub' => since'[k] = 0
    BY <1>1, <1>2 DEF KeyInv, SinceOK
  <2> QED BY <1>1, <1>2, <2>1, <2>2 DEF SinceOK
<1>4. \A k \in 0..MaxRotations : since'[k] <= since[k] + 1 /\ since[k] \in Nat /\ since'[k] \in Nat
  BY <1>2
<1>5. ASSUME NEW v \in 0..pub, NEW n \in Nat, Seen(v, n) PROVE Seen(v, n + 1)'
  <2>1. v \in 0..MaxRotations
    BY <1>1, KeyAssumption
  <2> QED BY <1>1, <1>4, <1>5, <2>1 DEF Seen
<1>6. ASSUME NEW k \in (0..pub) \cup {Bogus}, NEW n \in Nat, NewKid(k, n) PROVE NewKid(k, n + 1)'
  BY <1>1, <1>4, <1>6 DEF NewKid
<1>7. ASSUME NEW s, NEW ttl \in Nat, NEW n \in Nat, KeySetOK(s, ttl, n)
      PROVE  LET t == Set(s.v, Dec(s.left))
             IN  /\ t \in KeySets /\ t.v \in {NoSet} \cup (0..pub') /\ t.left <= ttl
                 /\ t.left > 0 => t.v \in 0..pub' /\ (t.v < pub' => since'[t.v] + t.left <= n)
  <2> DEFINE t == Set(s.v, Dec(s.left))
  <2>1. s.left \in Nat /\ s.v \in Int /\ s.v \in {NoSet} \cup (0..pub) /\ s.left <= ttl
    BY <1>7 DEF KeySetOK, KeySets
  <2>2. s.left > 0 => s.v \in 0..pub /\ (s.v < pub => since[s.v] + s.left <= n)
    BY <1>7 DEF KeySetOK
  <2>3. Dec(s.left) \in Nat /\ (Dec(s.left) > 0 => s.left > 0 /\ Dec(s.left) = s.left - 1) /\ Dec(s.left) <= ttl
    BY <2>1 DEF Dec
  <2>4. t \in KeySets /\ t.v = s.v /\ t.left = Dec(s.left)
    BY <2>1, <2>3, SetIs
  <2> HIDE DEF t
  <2>5. ASSUME t.left > 0, s.v < pub PROVE since'[s.v] + t.left <= n
    <3>1. s.v \in 0..MaxRotations /\ since[s.v] + s.left <= n /\ t.left = s.left - 1
      BY <1>1, <2>2, <2>3, <2>4, <2>5, KeyAssumption
    <3> QED BY <1>4, <2>1, <3>1
  <2>6. t.left > 0 => t.v \in 0..pub'
    BY <1>1, <2>2, <2>3, <2>4
  <2> QED BY <1>1, <2>1, <2>3, <2>4, <2>5, <2>6 DEF t
<1>8. /\ SharedTTL \in Nat /\ KeyTTL \in Nat /\ SharedTTL + 1 \in Nat /\ SharedTTL + KeyTTL + 1 \in Nat
  BY KeyAssumption
<1>9. KeySetOK(shared, SharedTTL, SharedTTL + 1)' /\ KeySetOK(mem, KeyTTL, SharedTTL + KeyTTL + 1)'
  <2>1. KeySetOK(shared, SharedTTL, SharedTTL + 1) /\ KeySetOK(mem, KeyTTL, SharedTTL + KeyTTL + 1)
    BY DEF KeyInv
  <2>2. /\ shared' \in KeySets /\ shared'.v \in {NoSet} \cup (0..pub') /\ shared'.left <= SharedTTL
        /\ shared'.left > 0 =>
              shared'.v \in 0..pub' /\ (shared'.v < pub' => since'[shared'.v] + shared'.left <= SharedTTL + 1)
    BY <1>1, <1>7, <1>8, <2>1
  <2>3. /\ mem' \in KeySets /\ mem'.v \in {NoSet} \cup (0..pub') /\ mem'.left <= KeyTTL
        /\ mem'.left > 0 =>
              mem'.v \in 0..pub' /\ (mem'.v < pub' => since'[mem'.v] + mem'.left <= SharedTTL + KeyTTL + 1)
    BY <1>1, <1>7, <1>8, <2>1
  <2> QED BY <2>2, <2>3 DEF KeySetOK
<1>10. ASSUME NEW r \in Verifies
       PROVE  /\ ver'[r] \in Frames
              /\ ver'[r].pc = ver[r].pc /\ ver'[r].kid = ver[r].kid /\ ver'[r].hand = ver[r].hand
              /\ ver[r].pc # "idle" => Late(ver'[r]) = Late(ver[r]) + 1
  <2>1. ver[r] \in Frames /\ ~ver[r].old /\ Late(ver[r]) = 0
    BY DEF KeyInv, KeyTick, Late
  <2>2. CASE ver[r].pc = "idle"
    <3>1. ver'[r] = ver[r]
      BY <2>2, Zenon DEF KeyTick
    <3> QED BY <2>1, <2>2, <3>1
  <2>3. CASE ver[r].pc # "idle"
    <3>1. ver'[r] = Frame(ver[r].pc, ver[r].kid, ver[r].hand, ver[r].forced, TRUE)
      BY <2>3 DEF KeyTick
    <3>2. /\ ver'[r] \in Frames /\ ver'[r].old
          /\ ver'[r].pc = ver[r].pc /\ ver'[r].kid = ver[r].kid /\ ver'[r].hand = ver[r].hand
      BY <2>1, <3>1 DEF Frame, Frames
    <3> QED BY <2>1, <3>2 DEF Late
  <2> QED BY <2>2, <2>3
<1>11. ver' \in [Verifies -> Frames]
  <2>1. DOMAIN ver' = Verifies /\ ver' = [r \in Verifies |-> ver'[r]]
    BY DEF KeyTick
  <2> QED BY <1>10, <2>1
<1>12. \A r \in Verifies : FrameOK(ver[r])'
  <2>1. pub' >= pub /\ 1 \in 0..1
    BY <1>1
  <2> QED BY <1>3, <1>5, <1>6, <1>10, <1>11, <2>1, KeysAge
<1> QED BY <1>3, <1>9, <1>11, <1>12 DEF KeyInv

LEMMA KeyStart ==
  ASSUME KeyInit
  PROVE  KeyInv
<1>1. SinceOK
  BY KeyAssumption DEF KeyInit, SinceOK
<1>2. Set(NoSet, 0) \in KeySets /\ Set(NoSet, 0).v = NoSet /\ Set(NoSet, 0).left = 0
  BY SetIs DEF NoSet
<1>3. KeySetOK(shared, SharedTTL, SharedTTL + 1) /\ KeySetOK(mem, KeyTTL, SharedTTL + KeyTTL + 1)
  BY <1>2, KeyAssumption DEF KeyInit, KeySetOK
<1>4. FrameOK(Ready)
  BY ReadyIs DEF FrameOK
<1> QED BY <1>1, <1>3, <1>4, ReadyIs DEF KeyInit, KeyInv

\* The inductive invariant of the key sets in memory, in the shared cache and on
\* their way.
THEOREM KeyInvariant == KeySpec => []KeyInv
<1>1. KeyInit => KeyInv
  BY KeyStart
<1>2. KeyInv /\ [KeyNext]_kvars => KeyInv'
  <2> SUFFICES ASSUME KeyInv, [KeyNext]_kvars PROVE KeyInv'
    OBVIOUS
  <2>1. CASE UNCHANGED kvars
    BY <2>1 DEF kvars, KeyInv, SinceOK, KeySetOK, FrameOK, Seen, NewKid, Late
  <2>2. ASSUME NEW r \in Verifies, Works(r) PROVE KeyInv'
    BY <2>2, RelookKeeps, ReadSharedKeeps, ForceKeeps, FetchKeeps, WriteSharedKeeps, StoreKeeps,
       SettledKeeps DEF Works
  <2> QED BY <2>1, <2>2, KidLookupKeeps, RotateKeeps, OutageKeeps, KeyTickKeeps DEF KeyNext
<1> QED BY <1>1, <1>2, PTL DEF KeySpec

\* A rotation at the provider is seen within SharedTTL + KeyTTL + 1 ticks, for
\* every TTL, throttle, number of rotations and set of concurrent requests.
THEOREM RotationAlwaysSeen == KeySpec => []RotationSeen
<1>1. KeyInv => RotationSeen
  <2> SUFFICES ASSUME KeyInv, NEW r \in Verifies,
                      \/ ver[r].pc = "accepted" /\ ver[r].kid < pub
                      \/ ver[r].pc = "rejected" /\ ver[r].kid = pub /\ up
               PROVE  since[ver[r].kid] <= WithdrawWindow
    BY DEF RotationSeen
  <2>1. Late(ver[r]) \in 0..1 /\ FrameOK(ver[r]) /\ pub \in Nat
    BY FramesIs, KeyAssumption DEF KeyInv, SinceOK
  <2>2. since[ver[r].kid] <= SharedTTL + KeyTTL + Late(ver[r]) /\ ver[r].kid \in 0..pub
    BY <2>1 DEF FrameOK, Seen, NewKid
  <2>3. since[ver[r].kid] \in Nat
    BY <2>2, KeyAssumption DEF KeyInv, SinceOK
  <2> QED BY <2>1, <2>2, <2>3, KeyAssumption, SMTT(20) DEF WithdrawWindow
<1> QED BY <1>1, KeyInvariant, PTL

-----------------------------------------------------------------------------
(* RevokedIsRefused for any number of checks and any times with Life <     *)
(* RevocationTTL. The invariant says where the last cutoff c is known: in  *)
(* the list until c + RevocationTTL, and in the memory of the process      *)
(* unless that memory is from before c and ends soon after. A token that   *)
(* may still be presented was issued less than Life ago, so a cutoff that  *)
(* concerns it has not left the list.                                      *)

CheckPCs == {"idle", "read", "remember", "passed", "revoked", "unavailable"}

Kinds == {"none", "memory", "strict", "open", "closed"}

CheckRecs == [pc : CheckPCs, kind : Kinds, iat : Nat, at : Nat, must : BOOLEAN, cut : SUBSET Nat, skipped : BOOLEAN]

Items == [cut : SUBSET Nat, exp : Nat]

RevocationTypeOK ==
    /\ now \in Nat
    /\ list \in SUBSET Items /\ memory \in SUBSET Items /\ cutoff \in SUBSET Nat
    /\ chk \in [Checks -> CheckRecs]

\* The list is the last cutoff, until its entry expires.
ListOK ==
    \/ cutoff = {} /\ list = {}
    \/ \E c \in Nat : /\ cutoff = {c} /\ c <= now
                      /\ IF now < c + RevocationTTL THEN list = {Item({c}, c + RevocationTTL)} ELSE list = {}

\* The memory knows the cutoff, or the cutoff's entry is gone, or the memory is
\* from before the cutoff and soon ends.
Remembers(e, c) == c \in e.cut \/ now >= c + RevocationTTL \/ e.exp <= c + 1 + MemoryTTL

MemoryOK ==
    \A e \in memory : /\ now < e.exp /\ e.exp <= now + MemoryTTL
                       /\ \A c \in cutoff : Remembers(e, c)

\* An answer read by a check knows it, unless the cutoff came after the check
\* began.
Answers(k, c) == c \in k.cut \/ now >= c + RevocationTTL \/ k.at <= c

CheckOK(k) ==
    /\ k.pc \in {"read", "remember"} => k.at <= now /\ now <= k.at + 1 /\ k.at < k.iat + Life
    /\ (k.pc = "read" /\ k.must) => Revokes(cutoff, k.iat)
    /\ (k.pc = "remember" /\ k.must) => Revokes(k.cut, k.iat)
    /\ k.pc = "remember" => \A c \in cutoff : Answers(k, c)
    /\ k.pc = "passed" => IF k.skipped THEN k.kind \in {"memory", "open"} ELSE ~k.must

ChecksOK == \A r \in Checks : CheckOK(chk[r])

RevocationInv == RevocationTypeOK /\ ListOK /\ MemoryOK /\ ChecksOK

-----------------------------------------------------------------------------
(* Lemmas.                                                                 *)

\* A step of one check keeps the invariant when it writes a good record and
\* leaves time, list and memory alone.
LEMMA OneCheck ==
    ASSUME RevocationInv, NEW r \in Checks, NEW k \in CheckRecs, CheckOK(k),
           CheckStep(r, k), UNCHANGED <<now, list, cutoff, memory>>
    PROVE  RevocationInv'
<1>1. RevocationTypeOK'
  BY DEF RevocationInv, RevocationTypeOK, CheckStep
<1>2. ListOK'
  BY DEF RevocationInv, ListOK
<1>3. MemoryOK'
  BY DEF RevocationInv, MemoryOK, Remembers
<1>4. ChecksOK'
  <2> SUFFICES ASSUME NEW q \in Checks PROVE CheckOK(chk[q])'
    BY DEF ChecksOK
  <2>1. chk'[q] = IF q = r THEN k ELSE chk[q]
    BY DEF CheckStep, RevocationInv, RevocationTypeOK
  <2>2. CheckOK(chk[q])
    BY DEF RevocationInv, ChecksOK
  <2>3. CheckOK(chk'[q])
    BY <2>1, <2>2
  <2> QED BY <2>3 DEF CheckOK, Answers
<1> QED BY <1>1, <1>2, <1>3, <1>4 DEF RevocationInv

\* The entry of a cutoff that concerns a token still being presented has not
\* left the list.
LEMMA StillListed ==
    ASSUME RevocationInv, NEW k \in Nat, k \in cutoff, now < k + RevocationTTL
    PROVE  Listed = {k} /\ cutoff = {k}
<1>1. PICK c \in Nat : /\ cutoff = {c} /\ c <= now
                       /\ IF now < c + RevocationTTL THEN list = {Item({c}, c + RevocationTTL)} ELSE list = {}
  BY DEF RevocationInv, ListOK
<1>2. c = k
  BY <1>1
<1>3. list = {Item({k}, k + RevocationTTL)}
  BY <1>1, <1>2
<1>4. Listed = {k}
  BY <1>3 DEF Listed, Item
<1> QED BY <1>1, <1>2, <1>4

LEMMA ListedTyped == ASSUME RevocationInv PROVE Listed \in SUBSET Nat
BY DEF RevocationInv, RevocationTypeOK, Items, Listed

-----------------------------------------------------------------------------
(* One lemma per action.                                                   *)

LEMMA BeginKeeps ==
    ASSUME RevocationInv, NEW r \in Checks, NEW kind \in {"memory", "strict", "open", "closed"},
           NEW iat \in 1..now, Begin(r, kind, iat)
    PROVE  RevocationInv'
<1>0. now \in Nat /\ iat \in Nat /\ now < iat + Life /\ kind \in Kinds /\ Known(kind, iat) \in BOOLEAN
  BY DEF RevocationInv, RevocationTypeOK, Begin, Kinds, Known
<1>1. CASE kind = "memory" /\ memory # {}
  <2>1. PICK e \in memory : CheckStep(r, Verdict(kind, iat, Known(kind, iat), e.cut))
    BY <1>1, Zenon DEF Begin
  <2>2. ASSUME Known(kind, iat) PROVE Revokes(e.cut, iat)
    <3>1. PICK c \in cutoff : iat <= c /\ now > c + MemoryTTL
      BY <1>1, <2>2 DEF Known
    <3>2. c \in Nat /\ e.exp \in Nat /\ now < e.exp /\ Remembers(e, c)
      BY DEF RevocationInv, RevocationTypeOK, MemoryOK, Items
    <3>3. c \in e.cut
      BY <3>1, <3>2, <1>0, RevocationAssumption DEF Remembers
    <3> QED BY <3>1, <3>3 DEF Revokes
  <2>3. Verdict(kind, iat, Known(kind, iat), e.cut) \in CheckRecs
    BY <1>0 DEF Verdict, Judge, Check, CheckRecs, CheckPCs
  <2>4. CheckOK(Verdict(kind, iat, Known(kind, iat), e.cut))
    BY <2>2, Zenon DEF Verdict, Judge, Check, CheckOK
  <2> QED BY <2>1, <2>3, <2>4, OneCheck DEF Begin
<1>2. CASE ~(kind = "memory" /\ memory # {})
  <2> DEFINE k == Check("read", kind, iat, now, Known(kind, iat), {}, FALSE)
  <2>1. CheckStep(r, k)
    BY <1>2, Zenon DEF Begin
  <2>2. k \in CheckRecs
    BY <1>0 DEF Check, CheckRecs, CheckPCs
  <2>3. Known(kind, iat) => Revokes(cutoff, iat)
    BY DEF Known, Revokes
  <2>4. CheckOK(k)
    BY <1>0, <2>3, SMTT(20) DEF CheckOK, Check
  <2> QED BY <2>1, <2>2, <2>4, OneCheck, Zenon DEF Begin
<1> QED BY <1>1, <1>2

LEMMA LookupKeeps ==
    ASSUME RevocationInv, NEW r \in Checks, LookupRevocation(r)
    PROVE  RevocationInv'
<1> DEFINE c == chk[r]
<1>1. c \in CheckRecs /\ CheckOK(c) /\ c.pc = "read" /\ now \in Nat
  BY DEF RevocationInv, RevocationTypeOK, ChecksOK, LookupRevocation
<1>2. c.kind \in Kinds /\ c.iat \in Nat /\ c.at \in Nat /\ c.must \in BOOLEAN
  BY <1>1 DEF CheckRecs
<1>3. c.at <= now /\ now <= c.at + 1 /\ c.at < c.iat + Life
  BY <1>1 DEF CheckOK
<1>4. ASSUME c.must PROVE Revokes(Listed, c.iat)
  <2>1. PICK k \in cutoff : c.iat <= k
    BY <1>1, <1>4 DEF CheckOK, Revokes
  <2>2. k \in Nat
    BY DEF RevocationInv, RevocationTypeOK
  <2>3. now < k + RevocationTTL
    BY <1>1, <1>2, <1>3, <2>1, <2>2, RevocationAssumption
  <2>4. Listed = {k}
    BY <2>2, <2>3, StillListed
  <2> QED BY <2>1, <2>4 DEF Revokes
<1>5. Listed \in SUBSET Nat
  BY ListedTyped
<1>6. CASE c.kind \in {"memory", "strict"}
  <2> DEFINE k == Check("remember", c.kind, c.iat, c.at, c.must, Listed, FALSE)
  <2>1. CheckStep(r, k)
    BY <1>6, Zenon DEF LookupRevocation
  <2>2. k \in CheckRecs
    BY <1>2, <1>5 DEF Check, CheckRecs, CheckPCs
  <2>3. /\ k.pc = "remember" /\ k.at = c.at /\ k.iat = c.iat /\ k.cut = Listed /\ k.must = c.must
    BY DEF Check
  <2>4. ASSUME NEW z \in cutoff PROVE Answers(k, z)
    <3>1. z \in Nat
      BY DEF RevocationInv, RevocationTypeOK
    <3>2. CASE now < z + RevocationTTL
      <4>1. Listed = {z}
        BY <3>1, <3>2, StillListed
      <4> QED BY <4>1, <2>3, Zenon DEF Answers
    <3>3. CASE ~(now < z + RevocationTTL)
      <4>1. now >= z + RevocationTTL
        BY <3>1, <3>3, <1>1, RevocationAssumption
      <4> QED BY <4>1, Zenon DEF Answers
    <3> QED BY <3>2, <3>3, Zenon
  <2>5. CheckOK(k)
    <3> HIDE DEF k
    <3> QED BY <1>3, <1>4, <2>3, <2>4 DEF CheckOK
  <2> QED BY <2>1, <2>2, <2>5, OneCheck, Zenon DEF LookupRevocation
<1>7. CASE c.kind \notin {"memory", "strict"}
  <2> DEFINE k == Verdict(c.kind, c.iat, c.must, Listed)
  <2>1. CheckStep(r, k)
    BY <1>7 DEF LookupRevocation
  <2>2. k \in CheckRecs
    BY <1>2 DEF Verdict, Judge, Check, CheckRecs, CheckPCs
  <2>3. CheckOK(k)
    BY <1>4, Zenon DEF Verdict, Judge, Check, CheckOK
  <2> QED BY <2>1, <2>2, <2>3, OneCheck DEF LookupRevocation
<1> QED BY <1>6, <1>7

LEMMA FailKeeps ==
    ASSUME RevocationInv, NEW r \in Checks, LookupFails(r)
    PROVE  RevocationInv'
<1> DEFINE c == chk[r]
<1> DEFINE k == Judge(c.kind, IF c.kind \in {"memory", "open"} THEN "passed" ELSE "unavailable", c.must, TRUE)
<1>1. c.kind \in Kinds /\ c.must \in BOOLEAN
  BY DEF RevocationInv, RevocationTypeOK, CheckRecs
<1>2. k \in CheckRecs
  BY <1>1 DEF Judge, Check, CheckRecs, CheckPCs
<1>3. CheckOK(k)
  BY Zenon DEF Judge, Check, CheckOK
<1> QED BY <1>2, <1>3, OneCheck, Zenon DEF LookupFails

LEMMA JudgedKeeps ==
    ASSUME RevocationInv, NEW r \in Checks, Judged(r)
    PROVE  RevocationInv'
<1>1. Unused \in CheckRecs
  BY DEF Unused, Check, CheckRecs, CheckPCs, Kinds
<1>2. CheckOK(Unused)
  BY DEF Unused, Check, CheckOK
<1> QED BY <1>1, <1>2, OneCheck DEF Judged

LEMMA RememberKeeps ==
    ASSUME RevocationInv, NEW r \in Checks, RememberAnswer(r)
    PROVE  RevocationInv'
<1> DEFINE c == chk[r]
           k == Verdict(c.kind, c.iat, c.must, c.cut)
           e == Item(c.cut, now + MemoryTTL)
<1>1. c \in CheckRecs /\ CheckOK(c) /\ c.pc = "remember" /\ now \in Nat
  BY DEF RevocationInv, RevocationTypeOK, ChecksOK, RememberAnswer
<1>2. c.kind \in Kinds /\ c.iat \in Nat /\ c.at \in Nat /\ c.must \in BOOLEAN /\ c.cut \in SUBSET Nat
  BY <1>1 DEF CheckRecs
<1>3. c.at <= now /\ now <= c.at + 1
  BY <1>1 DEF CheckOK
<1>4. memory' = {e} /\ chk' = [chk EXCEPT ![r] = k] /\ UNCHANGED <<now, list, cutoff>>
  BY DEF RememberAnswer, CheckStep
<1>5. e \in Items /\ e.cut = c.cut /\ e.exp = now + MemoryTTL
  BY <1>1, <1>2, RevocationAssumption, SMTT(20) DEF Items, Item
<1>6. k \in CheckRecs
  BY <1>2 DEF Verdict, Judge, Check, CheckRecs, CheckPCs
<1>7. c.must => Revokes(c.cut, c.iat)
  BY <1>1 DEF CheckOK
<1>8. /\ k.pc \in {"passed", "revoked"} /\ ~k.skipped /\ k.must = c.must
      /\ (k.pc = "passed" => ~Revokes(c.cut, c.iat))
  BY DEF Verdict, Judge, Check
<1>9. RevocationTypeOK'
  BY <1>4, <1>5, <1>6 DEF RevocationInv, RevocationTypeOK
<1>10. ListOK'
  BY <1>4 DEF RevocationInv, ListOK
<1>11. MemoryOK'
  <2>1. now < e.exp /\ e.exp <= now + MemoryTTL
    BY <1>1, <1>5, RevocationAssumption, SMTT(20)
  <2>2. ASSUME NEW z \in cutoff PROVE Remembers(e, z)
    <3>1. z \in Nat /\ Answers(c, z)
      BY <1>1 DEF RevocationInv, RevocationTypeOK, CheckOK
    <3>2. CASE c.at <= z
      <4>1. e.exp <= z + 1 + MemoryTTL
        BY <1>1, <1>2, <1>3, <1>5, <3>1, <3>2, RevocationAssumption, SMTT(20)
      <4> QED BY <4>1 DEF Remembers
    <3> QED BY <3>1, <3>2, <1>5 DEF Answers, Remembers
  <2> HIDE DEF e
  <2> QED BY <1>4, <2>1, <2>2 DEF MemoryOK, Remembers
<1>12. ChecksOK'
  <2> SUFFICES ASSUME NEW q \in Checks PROVE CheckOK(chk[q])'
    BY DEF ChecksOK
  <2> HIDE DEF k
  <2>1. chk'[q] = IF q = r THEN k ELSE chk[q]
    BY <1>4 DEF RevocationInv, RevocationTypeOK
  <2>2. CheckOK(chk[q])
    BY DEF RevocationInv, ChecksOK
  <2>3. CheckOK(k)
    BY <1>7, <1>8 DEF CheckOK
  <2>4. CheckOK(chk'[q])
    BY <2>1, <2>2, <2>3
  <2> QED BY <1>4, <2>4 DEF CheckOK, Answers
<1> QED BY <1>9, <1>10, <1>11, <1>12 DEF RevocationInv

LEMMA RevokeKeeps ==
    ASSUME RevocationInv, Revoke
    PROVE  RevocationInv'
<1>1. now \in Nat /\ UNCHANGED <<now, memory, chk>> /\ cutoff' = {now} /\ list' = {Item({now}, now + RevocationTTL)}
  BY DEF RevocationInv, RevocationTypeOK, Revoke
<1>2. Item({now}, now + RevocationTTL) \in Items
  BY <1>1, RevocationAssumption DEF Item, Items
<1>3. RevocationTypeOK'
  BY <1>1, <1>2 DEF RevocationInv, RevocationTypeOK
<1>4. ListOK'
  <2>1. now <= now /\ now < now + RevocationTTL
    BY <1>1, RevocationAssumption
  <2>2. \E c \in Nat : /\ cutoff' = {c} /\ c <= now
                       /\ IF now < c + RevocationTTL THEN list' = {Item({c}, c + RevocationTTL)} ELSE list' = {}
    BY <1>1, <2>1, Zenon
  <2> QED BY <1>1, <2>2, Zenon DEF ListOK
<1>5. MemoryOK'
  <2> SUFFICES ASSUME NEW e \in memory
               PROVE  now < e.exp /\ e.exp <= now + MemoryTTL /\ e.exp <= now + 1 + MemoryTTL
    BY <1>1 DEF MemoryOK, Remembers
  <2>1. now < e.exp /\ e.exp <= now + MemoryTTL /\ e.exp \in Nat
    BY DEF RevocationInv, MemoryOK, RevocationTypeOK, Items
  <2> QED BY <1>1, <2>1, RevocationAssumption
<1>6. ChecksOK'
  <2> SUFFICES ASSUME NEW q \in Checks PROVE CheckOK(chk[q])'
    BY DEF ChecksOK
  <2> DEFINE k == chk[q]
  <2>1. CheckOK(k) /\ k \in CheckRecs
    BY DEF RevocationInv, ChecksOK, RevocationTypeOK
  <2>2. ASSUME Revokes(cutoff, k.iat) PROVE Revokes({now}, k.iat)
    <3>1. PICK c \in Nat : cutoff = {c} /\ c <= now
      BY <2>2, Zenon DEF RevocationInv, ListOK, Revokes
    <3>2. k.iat <= c
      BY <2>2, <3>1 DEF Revokes
    <3>3. k.iat <= now
      BY <1>1, <2>1, <3>1, <3>2 DEF CheckRecs
    <3> QED BY <3>3 DEF Revokes
  <2>3. k.pc = "remember" => k.at <= now
    BY <2>1 DEF CheckOK
  <2> HIDE DEF k
  <2>4. /\ k.pc \in {"read", "remember"} => k.at <= now /\ now <= k.at + 1 /\ k.at < k.iat + Life
        /\ (k.pc = "read" /\ k.must) => Revokes({now}, k.iat)
        /\ (k.pc = "remember" /\ k.must) => Revokes(k.cut, k.iat)
        /\ k.pc = "passed" => IF k.skipped THEN k.kind \in {"memory", "open"} ELSE ~k.must
    BY <2>1, <2>2 DEF CheckOK
  <2> QED BY <1>1, <2>3, <2>4 DEF CheckOK, Answers, k
<1> QED BY <1>3, <1>4, <1>5, <1>6 DEF RevocationInv

LEMMA UnrevokeKeeps ==
    ASSUME RevocationInv, Unrevoke
    PROVE  RevocationInv'
<1>1. list' = {} /\ cutoff' = {} /\ UNCHANGED <<now, memory>> /\ chk' = [r \in Checks |-> Excused(chk[r])]
  BY DEF Unrevoke
<1>2. ASSUME NEW k \in CheckRecs, CheckOK(k)
      PROVE  /\ Excused(k) \in CheckRecs /\ Excused(k).pc = k.pc /\ Excused(k).kind = k.kind
             /\ Excused(k).iat = k.iat /\ Excused(k).at = k.at /\ ~Excused(k).must
             /\ Excused(k).skipped = k.skipped
  BY DEF CheckRecs, Excused, Check
<1>3. RevocationTypeOK'
  BY <1>1, <1>2 DEF RevocationInv, RevocationTypeOK, ChecksOK
<1>4. ListOK' /\ MemoryOK'
  BY <1>1 DEF RevocationInv, ListOK, MemoryOK
<1>5. ChecksOK'
  <2> SUFFICES ASSUME NEW q \in Checks PROVE CheckOK(chk[q])'
    BY DEF ChecksOK
  <2>1. chk[q] \in CheckRecs /\ CheckOK(chk[q]) /\ chk'[q] = Excused(chk[q])
    BY <1>1 DEF RevocationInv, RevocationTypeOK, ChecksOK
  <2> QED BY <1>1, <1>2, <2>1, Zenon DEF CheckOK
<1> QED BY <1>3, <1>4, <1>5 DEF RevocationInv

LEMMA RevocationTickKeeps ==
    ASSUME RevocationInv, RevocationTick
    PROVE  RevocationInv'
<1>1. /\ now \in Nat /\ now' = now + 1 /\ UNCHANGED <<cutoff, chk>>
      /\ list' = {e \in list : now + 1 < e.exp} /\ memory' = {e \in memory : now + 1 < e.exp}
  BY DEF RevocationInv, RevocationTypeOK, RevocationTick, Lasting
<1>2. RevocationTypeOK'
  BY <1>1 DEF RevocationInv, RevocationTypeOK
<1>3. ListOK'
  <2>1. CASE cutoff = {} /\ list = {}
    BY <1>1, <2>1 DEF ListOK
  <2>2. ASSUME NEW c \in Nat, cutoff = {c}, c <= now,
               IF now < c + RevocationTTL THEN list = {Item({c}, c + RevocationTTL)} ELSE list = {}
        PROVE  ListOK'
    <3>1. Item({c}, c + RevocationTTL).exp = c + RevocationTTL
      BY DEF Item
    <3>2. CASE now + 1 < c + RevocationTTL
      <4>1. now < c + RevocationTTL
        BY <1>1, <3>2, RevocationAssumption
      <4>2. list' = {Item({c}, c + RevocationTTL)}
        BY <1>1, <2>2, <3>1, <3>2, <4>1
      <4> QED BY <1>1, <2>2, <3>2, <4>2 DEF ListOK
    <3>3. CASE ~(now + 1 < c + RevocationTTL)
      <4>1. list' = {}
        BY <1>1, <2>2, <3>1, <3>3
      <4> QED BY <1>1, <2>2, <3>3, <4>1 DEF ListOK
    <3> QED BY <3>2, <3>3
  <2> QED BY <2>1, <2>2, Zenon DEF RevocationInv, ListOK
<1>4. MemoryOK'
  <2> SUFFICES ASSUME NEW e \in memory, now + 1 < e.exp
               PROVE  e.exp <= now + 1 + MemoryTTL /\ \A c \in cutoff : Remembers(e, c)'
    BY <1>1 DEF MemoryOK
  <2>1. e.exp \in Nat /\ e.exp <= now + MemoryTTL
    BY DEF RevocationInv, MemoryOK, RevocationTypeOK, Items
  <2>2. ASSUME NEW c \in cutoff PROVE Remembers(e, c)'
    <3>1. c \in Nat /\ Remembers(e, c)
      BY DEF RevocationInv, MemoryOK, RevocationTypeOK
    <3>2. now >= c + RevocationTTL => now + 1 >= c + RevocationTTL
      BY <1>1, <3>1, RevocationAssumption
    <3> QED BY <1>1, <3>1, <3>2 DEF Remembers
  <2> QED BY <1>1, <2>1, <2>2, RevocationAssumption
<1>5. ChecksOK'
  <2> SUFFICES ASSUME NEW q \in Checks PROVE CheckOK(chk[q])'
    BY DEF ChecksOK
  <2> DEFINE k == chk[q]
  <2>1. CheckOK(k) /\ k \in CheckRecs
    BY DEF RevocationInv, ChecksOK, RevocationTypeOK
  <2>2. k.at \in Nat /\ k.iat \in Nat /\ (k.pc \in {"read", "remember"} => k.at = now)
    BY <2>1 DEF CheckRecs, RevocationTick
  <2>3. k.pc \in {"read", "remember"} => k.at <= now + 1 /\ now + 1 <= k.at + 1 /\ k.at < k.iat + Life
    <3>1. k.pc \in {"read", "remember"} => k.at <= now /\ k.at < k.iat + Life
      BY <2>1 DEF CheckOK
    <3> QED BY <1>1, <2>2, <3>1
  <2>4. ASSUME k.pc = "remember", NEW c \in cutoff PROVE Answers(k, c)'
    <3>1. c \in Nat /\ Answers(k, c)
      BY <2>1, <2>4 DEF RevocationInv, RevocationTypeOK, CheckOK
    <3>2. now >= c + RevocationTTL => now + 1 >= c + RevocationTTL
      BY <1>1, <3>1, RevocationAssumption
    <3> QED BY <1>1, <3>1, <3>2 DEF Answers
  <2>5. /\ (k.pc = "read" /\ k.must) => Revokes(cutoff, k.iat)
        /\ (k.pc = "remember" /\ k.must) => Revokes(k.cut, k.iat)
        /\ k.pc = "passed" => IF k.skipped THEN k.kind \in {"memory", "open"} ELSE ~k.must
    BY <2>1 DEF CheckOK
  <2>6. k' = k
    BY <1>1
  <2>7. k.pc = "remember" => \A c \in cutoff' : Answers(k, c)'
    BY <1>1, <2>4
  <2> QED BY <1>1, <2>3, <2>5, <2>7 DEF CheckOK
<1> QED BY <1>2, <1>3, <1>4, <1>5 DEF RevocationInv

-----------------------------------------------------------------------------
(* Theorems.                                                               *)

\* The invariant above holds of the list, the memory and the checks.
THEOREM RevocationInvariant == RevocationSpec => []RevocationInv
<1>1. RevocationInit => RevocationInv
  <2> SUFFICES ASSUME RevocationInit PROVE RevocationInv
    OBVIOUS
  <2>1. Unused \in CheckRecs /\ CheckOK(Unused)
    BY DEF Unused, Check, CheckRecs, CheckPCs, Kinds, CheckOK
  <2>2. RevocationTypeOK
    BY <2>1 DEF RevocationInit, RevocationTypeOK
  <2>3. ListOK /\ MemoryOK
    BY DEF RevocationInit, ListOK, MemoryOK
  <2>4. ChecksOK
    BY <2>1 DEF RevocationInit, ChecksOK
  <2> QED BY <2>2, <2>3, <2>4 DEF RevocationInv
<1>2. RevocationInv /\ [RevocationNext]_rvars => RevocationInv'
  <2> SUFFICES ASSUME RevocationInv, [RevocationNext]_rvars PROVE RevocationInv'
    OBVIOUS
  <2>1. CASE UNCHANGED rvars
    BY <2>1 DEF rvars, RevocationInv, RevocationTypeOK, ListOK, MemoryOK, Remembers, ChecksOK, CheckOK, Answers
  <2>2. CASE RevocationNext
    BY <2>2, BeginKeeps, LookupKeeps, FailKeeps, RememberKeeps, JudgedKeeps, RevokeKeeps, UnrevokeKeeps, RevocationTickKeeps
       DEF RevocationNext
  <2> QED BY <2>1, <2>2
<1> QED BY <1>1, <1>2, PTL DEF RevocationSpec

\* A revoked token is refused for the rest of its life by every check that can
\* read the list (checkRevoked, checkRevocation), for any number of concurrent
\* checks, provided the entry outlives the token.
THEOREM RevokedTokensRefused == RevocationSpec => []RevokedIsRefused
<1>1. RevocationInv => RevokedIsRefused
  BY DEF RevocationInv, ChecksOK, CheckOK, RevokedIsRefused
<1> QED BY <1>1, RevocationInvariant, PTL

-----------------------------------------------------------------------------
(* The safety properties of Resilient, for every set of callers and every  *)
(* configuration of the breaker and of the retries.                        *)

-----------------------------------------------------------------------------
(* What the operations on a breaker preserve.                              *)

\* The part of the invariant that speaks of the breaker alone.
Sound(b) ==
    /\ b \in Breakers
    /\ b.state = "closed" => b.failures < Failures
    /\ b.wait <= b.cooldown
    /\ b.state # "open" => b.wait = 0
    /\ Cooldown <= MaxCooldown => b.cooldown \in Cooldown..MaxCooldown
    /\ b.probing => b.state = "halfopen"

\* A new breaker is sound.
LEMMA FreshSound == Sound(Fresh)
BY BreakerAssumption DEF Sound, Fresh, Breakers

\* admit takes the probe slot, and only of a circuit that is not closed.
LEMMA AdmittedSound ==
    ASSUME NEW b, Sound(b), Admits(b)
    PROVE  /\ Sound(Admitted(b))
           /\ ~b.probing
           /\ Admitted(b).probing <=> IsProbe(b)
           /\ b.state = "open" => b.wait = 0 /\ Admitted(b).state = "halfopen"
           /\ b.state # "closed" => Admitted(b).state = "halfopen"
BY Zenon DEF Sound, Admits, Admitted, IsProbe, Breakers

\* record: a probe frees its slot; any other call leaves the slot and a circuit
\* that is not closed alone.
LEMMA RecordedSound ==
    ASSUME NEW b, Sound(b), NEW failed \in BOOLEAN, NEW probe \in BOOLEAN,
           probe => b.probing
    PROVE  /\ Sound(Recorded(b, failed, probe))
           /\ probe => ~Recorded(b, failed, probe).probing
           /\ ~probe => Recorded(b, failed, probe).probing = b.probing
           /\ ~probe /\ b.state # "closed" => Recorded(b, failed, probe) = b
<1> DEFINE r == Recorded(b, failed, probe)
<1>0. /\ b.failures \in Nat /\ b.wait \in Nat /\ b.cooldown \in Nat
      /\ b.probing \in BOOLEAN
  BY DEF Sound, Breakers
<1>1. CASE probe /\ failed
  <2> DEFINE d == Min2(b.cooldown * 2, MaxCooldown)
  <2>1. d \in Nat /\ (Cooldown <= MaxCooldown => d \in Cooldown..MaxCooldown)
    BY <1>0, BreakerAssumption DEF Sound, Min2
  <2>2. r = [state |-> "open", failures |-> b.failures, wait |-> d,
             probing |-> FALSE, cooldown |-> d]
    BY <1>1, Zenon DEF Sound, Recorded, ProbeFailed, Opened, Breakers
  <2> HIDE DEF d, r
  <2>3. r \in Breakers /\ ~r.probing
    BY <1>0, <2>1, <2>2 DEF Breakers
  <2>4. r.state = "open" /\ r.wait = d /\ r.cooldown = d
    BY <2>2
  <2>5. Sound(r)
    BY <2>1, <2>3, <2>4 DEF Sound
  <2> QED
    BY <1>1, <2>3, <2>5, Zenon DEF r
<1>2. CASE probe /\ ~failed
  <2>1. r = [state |-> "closed", failures |-> 0, wait |-> b.wait,
             probing |-> FALSE, cooldown |-> Cooldown]
    BY <1>2, Zenon DEF Sound, Recorded, ProbeSucceeded, Breakers
  <2> HIDE DEF r
  <2>2. r \in Breakers /\ ~r.probing
    BY <1>0, <2>1, BreakerAssumption DEF Breakers
  <2>3. b.wait = 0
    BY <1>2 DEF Sound
  <2>4. r.state = "closed" /\ r.failures = 0 /\ r.wait = 0 /\ r.cooldown = Cooldown
    BY <2>1, <2>3
  <2>5. Sound(r)
    BY <2>2, <2>4, BreakerAssumption DEF Sound
  <2> QED
    BY <1>2, <2>2, <2>5, Zenon DEF r
<1>3. CASE ~probe /\ b.state # "closed"
  BY <1>3 DEF Recorded
<1>4. CASE ~probe /\ b.state = "closed" /\ ~failed
  BY <1>4, BreakerAssumption DEF Sound, Recorded, Breakers
<1>5. CASE ~probe /\ b.state = "closed" /\ failed
  <2>1. CASE b.failures + 1 >= Failures
    <3>1. r = [state |-> "open", failures |-> b.failures + 1, wait |-> b.cooldown,
               probing |-> b.probing, cooldown |-> b.cooldown]
      BY <1>5, <2>1, Zenon DEF Sound, Recorded, Counted, Breakers
    <3> HIDE DEF r
    <3>2. r \in Breakers
      BY <1>0, <3>1 DEF Breakers
    <3>3. /\ r.state = "open" /\ r.wait = b.cooldown /\ r.cooldown = b.cooldown
          /\ r.probing = b.probing
      BY <3>1
    <3>4. ~b.probing
      BY <1>5 DEF Sound
    <3>5. Sound(r)
      BY <1>0, <3>2, <3>3, <3>4 DEF Sound
    <3> QED
      BY <1>5, <3>3, <3>5, Zenon DEF r
  <2>2. CASE ~(b.failures + 1 >= Failures)
    BY <1>5, <2>2, BreakerAssumption DEF Sound, Recorded, Counted, Breakers
  <2> QED
    BY <2>1, <2>2
<1> QED
  BY <1>1, <1>2, <1>3, <1>4, <1>5

\* abandon frees the slot of a probe and does nothing else.
LEMMA AbandonedSound ==
    ASSUME NEW b, Sound(b), NEW probe \in BOOLEAN
    PROVE  /\ Sound(Abandoned(b, probe))
           /\ probe => ~Abandoned(b, probe).probing
           /\ ~probe => Abandoned(b, probe) = b
           /\ Abandoned(b, probe).state = b.state
BY Zenon DEF Sound, Abandoned, Breakers

\* Time changes nothing but the time left.
LEMMA ElapsedSound ==
    ASSUME NEW b, Sound(b)
    PROVE  Sound(Elapsed(b)) /\ Elapsed(b).probing = b.probing
           /\ Elapsed(b).state = b.state
BY DEF Sound, Elapsed, Breakers

-----------------------------------------------------------------------------
(* The calls.                                                              *)

Locals == [pc: {"idle", "sent", "sleep"}, again: BOOLEAN,
           attempt: 0..(Attempts - 1), probe: BOOLEAN, sends: Nat]

\* The part of the invariant that speaks of one call.
Proper(l) ==
    /\ l \in Locals
    /\ l.pc = "idle" => l = NotCalling
    /\ l.pc # "idle" => l.sends = l.attempt + 1
    /\ l.pc = "sleep" => l.attempt + 1 < Attempts /\ l.again
    /\ ~l.again => l.attempt = 0

\* The invariant, sorted by what it speaks of.
Sorted ==
    /\ Sound(breaker)
    /\ call = [c \in Calls |-> call[c]]
    /\ \A c \in Calls : Proper(call[c])
    /\ breaker.probing <=> \E c \in Calls : Probing(c)
    /\ \A c, d \in Calls : Probing(c) /\ Probing(d) => c = d
    /\ host \in {"up", "down"}

\* The two forms of the invariant say the same.
LEMMA Parts == IInv <=> Sorted
BY DEF IInv, CircuitTypeOK, CallsOK, ProbeSlot, ClosedHasRoom, CooldownRange,
       WaitsWhileOpen, Sorted, Sound, Proper, Locals

\* A step of call c that leaves it at l: the invariant holds again if the breaker
\* and l are as they should be and the slot agrees with its holders.
LEMMA Moved ==
    ASSUME IInv, NEW c \in Calls, NEW l, Proper(l), Sound(breaker'),
           call' = [call EXCEPT ![c] = l], host' \in {"up", "down"},
           breaker'.probing <=> \/ l.pc = "sent" /\ l.probe
                                \/ \E d \in Calls \ {c} : Probing(d),
           l.pc = "sent" /\ l.probe => \A d \in Calls \ {c} : ~Probing(d)
    PROVE  IInv'
<1>1. /\ call = [d \in Calls |-> call[d]]
      /\ \A d \in Calls : Proper(call[d])
      /\ \A d, e \in Calls : Probing(d) /\ Probing(e) => d = e
  BY Parts DEF Sorted
<1>2. /\ call' = [d \in Calls |-> call'[d]]
      /\ call'[c] = l
      /\ \A d \in Calls \ {c} : call'[d] = call[d]
  BY <1>1
<1>3. Probing(c)' <=> l.pc = "sent" /\ l.probe
  BY <1>2 DEF Probing
<1>4. \A d \in Calls \ {c} : Probing(d)' <=> Probing(d)
  BY <1>2 DEF Probing
<1>5. \A d \in Calls : Proper(call'[d])
  BY <1>1, <1>2, Zenon
<1>6. breaker'.probing <=> \E d \in Calls : Probing(d)'
  BY <1>3, <1>4
<1>7. \A d, e \in Calls : Probing(d)' /\ Probing(e)' => d = e
  BY <1>1, <1>3, <1>4
<1>8. Sorted'
  BY <1>2, <1>5, <1>6, <1>7, Zenon DEF Sorted
<1> QED
  BY <1>8, Parts, PTL

\* A frame has the fields it was built from.
LEMMA LocalForm ==
    ASSUME NEW pc \in {"idle", "sent", "sleep"}, NEW again \in BOOLEAN,
           NEW attempt \in 0..(Attempts - 1), NEW probe \in BOOLEAN, NEW sends \in Nat
    PROVE  /\ Local(pc, again, attempt, probe, sends) \in Locals
           /\ Local(pc, again, attempt, probe, sends).pc = pc
           /\ Local(pc, again, attempt, probe, sends).again = again
           /\ Local(pc, again, attempt, probe, sends).attempt = attempt
           /\ Local(pc, again, attempt, probe, sends).probe = probe
           /\ Local(pc, again, attempt, probe, sends).sends = sends
BY DEF Local, Locals

\* No call is a proper one.
LEMMA NotCallingProper == Proper(NotCalling) /\ NotCalling.pc = "idle" /\ NotCalling.sends = 0
<1>1. 0 \in 0..(Attempts - 1)
  BY ResilientAssumption
<1>2. /\ NotCalling \in Locals /\ NotCalling.pc = "idle" /\ NotCalling.sends = 0
      /\ NotCalling.attempt = 0
  BY <1>1 DEF NotCalling, Local, Locals
<1> QED
  BY <1>2 DEF Proper

\* An attempt of call c, with its counters set for it.
LEMMA AttemptKeeps ==
    ASSUME IInv, NEW c \in Calls, ~Probing(c),
           NEW again \in BOOLEAN, NEW attempt \in 0..(Attempts - 1),
           ~again => attempt = 0, Attempt(c, again, attempt, attempt), UNCHANGED host
    PROVE  IInv'
<1>1. /\ Sound(breaker) /\ host' \in {"up", "down"} /\ breaker.probing \in BOOLEAN
      /\ breaker.probing <=> \E d \in Calls : Probing(d)
  BY Parts DEF Sorted, Sound, Breakers
<1>2. CASE Admits(breaker)
  <2> DEFINE m == Local("sent", again, attempt, IsProbe(breaker), attempt + 1)
  <2>1. breaker' = Admitted(breaker) /\ call' = [call EXCEPT ![c] = m]
    BY <1>2 DEF Attempt
  <2>2. IsProbe(breaker) \in BOOLEAN /\ attempt + 1 \in Nat
    BY ResilientAssumption DEF IsProbe
  <2>3. /\ m \in Locals /\ m.pc = "sent" /\ m.sends = attempt + 1
        /\ m.again = again /\ m.attempt = attempt
        /\ m.probe = IsProbe(breaker)
    BY <2>2, LocalForm
  <2> HIDE DEF m
  <2>4. Proper(m)
    BY <2>3 DEF Proper
  <2>5. /\ Sound(breaker') /\ ~breaker.probing
        /\ breaker'.probing <=> IsProbe(breaker)
    BY <1>1, <1>2, <2>1, AdmittedSound
  <2>6. \A d \in Calls : ~Probing(d)
    BY <1>1, <2>5
  <2>7. m.probe <=> IsProbe(breaker)
    BY <2>2, <2>3
  <2> QED
    BY <1>1, <2>1, <2>3, <2>4, <2>5, <2>6, <2>7, Moved, Zenon
<1>3. CASE ~Admits(breaker)
  <2>1. breaker' = breaker /\ call' = [call EXCEPT ![c] = NotCalling]
    BY <1>3 DEF Attempt
  <2>2. breaker'.probing <=> \E d \in Calls \ {c} : Probing(d)
    BY <1>1, <2>1
  <2> QED
    BY <1>1, <2>1, <2>2, NotCallingProper, Moved, Zenon
<1> QED
  BY <1>2, <1>3

\* The first attempt.
LEMMA StartKeeps ==
    ASSUME IInv, NEW c \in Calls, StartCall(c)
    PROVE  IInv'
<1>1. PICK again \in BOOLEAN : Attempt(c, again, 0, 0)
  BY DEF StartCall
<1>2. 0 \in 0..(Attempts - 1) /\ ~Probing(c) /\ UNCHANGED host
  BY ResilientAssumption DEF StartCall, Probing
<1> QED
  BY <1>1, <1>2, AttemptKeeps

\* A further attempt.
LEMMA WakeKeeps ==
    ASSUME IInv, NEW c \in Calls, Wake(c)
    PROVE  IInv'
<1>1. Proper(call[c]) /\ call[c].pc = "sleep"
  BY Parts DEF Sorted, Wake
<1>2. /\ call[c].attempt + 1 \in 0..(Attempts - 1)
      /\ call[c].again \in BOOLEAN /\ call[c].again
      /\ call[c].sends = call[c].attempt + 1
  BY <1>1, ResilientAssumption DEF Proper, Locals
<1>3. Attempt(c, call[c].again, call[c].attempt + 1, call[c].attempt + 1)
  BY <1>2, Zenon DEF Wake
<1>4. ~Probing(c) /\ UNCHANGED host
  BY <1>1 DEF Wake, Probing
<1> QED
  BY <1>2, <1>3, <1>4, AttemptKeeps, Zenon

\* The answer to an attempt.
LEMMA ReportKeeps ==
    ASSUME IInv, NEW c \in Calls, NEW o \in Outcomes, NEW giveUp \in BOOLEAN,
           Report(c, o, giveUp)
    PROVE  IInv'
<1> DEFINE l == call[c]
           m == IF TriesAgain(l, o) /\ ~giveUp
                THEN Local("sleep", l.again, l.attempt, FALSE, l.sends) ELSE NotCalling
<1>1. /\ Sound(breaker) /\ host' \in {"up", "down"} /\ Proper(l)
      /\ breaker.probing <=> \E d \in Calls : Probing(d)
      /\ \A d, e \in Calls : Probing(d) /\ Probing(e) => d = e
  BY Parts DEF Sorted, Report
<1>2. l \in Locals /\ l.pc = "sent" /\ l.probe \in BOOLEAN
  BY <1>1, Zenon DEF Report, Proper, Locals
<1>3. l.probe <=> Probing(c)
  BY <1>2 DEF Probing
<1>4. call' = [call EXCEPT ![c] = m]
  BY DEF Report
<1>5. Proper(m) /\ m.pc # "sent"
  <2>1. CASE TriesAgain(l, o) /\ ~giveUp
    <3>1. /\ l.again \in BOOLEAN /\ l.attempt \in 0..(Attempts - 1) /\ l.sends \in Nat
          /\ l.again /\ l.attempt + 1 < Attempts /\ l.sends = l.attempt + 1
      BY <1>1, <1>2, <2>1, Zenon DEF TriesAgain, Proper, Locals
    <3>2. /\ m \in Locals /\ m.pc = "sleep" /\ m.again = l.again
          /\ m.attempt = l.attempt /\ m.sends = l.sends
      <4>1. m = Local("sleep", l.again, l.attempt, FALSE, l.sends)
        BY <2>1
      <4> HIDE DEF l, m
      <4> QED
        BY <3>1, <4>1 DEF Local, Locals
    <3> HIDE DEF m
    <3> QED
      BY <3>1, <3>2 DEF Proper
  <2>2. CASE ~(TriesAgain(l, o) /\ ~giveUp)
    BY <2>2, NotCallingProper, Zenon
  <2> QED
    BY <2>1, <2>2, Zenon
<1>6. /\ Sound(breaker')
      /\ l.probe => ~breaker'.probing
      /\ ~l.probe => breaker'.probing = breaker.probing
  <2>1. CASE o = "cancelled"
    BY <1>1, <1>2, <2>1, AbandonedSound DEF Report
  <2>2. CASE o # "cancelled"
    <3>1. breaker' = Recorded(breaker, IsFailure(o), l.probe)
      BY <2>2 DEF Report
    <3>2. IsFailure(o) \in BOOLEAN
      BY DEF IsFailure
    <3>3. l.probe => breaker.probing
      BY <1>1, <1>3
    <3> QED
      BY <1>1, <1>2, <3>1, <3>2, <3>3, RecordedSound, Zenon
  <2> QED
    BY <2>1, <2>2
<1>7. breaker'.probing <=> \E d \in Calls \ {c} : Probing(d)
  <2>1. CASE l.probe
    BY <1>1, <1>3, <1>6, <2>1
  <2>2. CASE ~l.probe
    BY <1>1, <1>3, <1>6, <2>2
  <2> QED
    BY <2>1, <2>2
<1> HIDE DEF l, m
<1> QED
  BY <1>1, <1>4, <1>5, <1>6, <1>7, Moved, Zenon

\* A call that gives up while it sleeps.
LEMMA AbortKeeps ==
    ASSUME IInv, NEW c \in Calls, Abort(c)
    PROVE  IInv'
<1>1. /\ Sound(breaker) /\ host' \in {"up", "down"} /\ ~Probing(c)
      /\ breaker.probing <=> \E d \in Calls : Probing(d)
  BY Parts DEF Sorted, Abort, Probing
<1>2. breaker' = breaker /\ call' = [call EXCEPT ![c] = NotCalling]
  BY DEF Abort
<1>3. breaker'.probing <=> \E d \in Calls \ {c} : Probing(d)
  BY <1>1, <1>2
<1> QED
  BY <1>1, <1>2, <1>3, NotCallingProper, Moved, Zenon

\* The invariant is inductive.
LEMMA Inductive ==
    ASSUME IInv, [CircuitNext]_hvars
    PROVE  IInv'
<1>1. CASE \E c \in Calls : StartCall(c) \/ Reports(c) \/ Wake(c) \/ Abort(c)
  BY <1>1, StartKeeps, ReportKeeps, WakeKeeps, AbortKeeps, Zenon DEF Reports
<1>2. CASE Tick
  <2>1. /\ Sound(breaker') /\ breaker'.probing = breaker.probing
        /\ call' = call /\ host' = host
    BY <1>2, Parts, ElapsedSound DEF Tick, Sorted
  <2>2. Sorted'
    BY <2>1, Parts DEF Sorted, Probing
  <2> QED
    BY <2>2, Parts, PTL
<1>3. CASE Flip
  <2>1. /\ breaker' = breaker /\ call' = call /\ host' \in {"up", "down"}
    BY <1>3 DEF Flip
  <2>2. Sorted'
    BY <2>1, Parts DEF Sorted, Probing
  <2> QED
    BY <2>2, Parts, PTL
<1>4. CASE UNCHANGED hvars
  <2>1. Sorted'
    BY <1>4, Parts DEF hvars, Sorted, Probing
  <2> QED
    BY <2>1, Parts, PTL
<1> QED
  BY <1>1, <1>2, <1>3, <1>4 DEF CircuitNext

\* The invariant holds at the start.
LEMMA Initially == CircuitInit => IInv
<1> SUFFICES ASSUME CircuitInit PROVE IInv
  OBVIOUS
<1>1. \A c \in Calls : call[c] = NotCalling
  BY DEF CircuitInit
<1>2. Sound(breaker) /\ ~breaker.probing
  BY FreshSound DEF CircuitInit, Fresh
<1>3. \A c \in Calls : ~Probing(c)
  BY <1>1, NotCallingProper DEF Probing
<1>4. Sorted
  BY <1>1, <1>2, <1>3, NotCallingProper DEF Sorted, CircuitInit
<1> QED
  BY <1>4, Parts

\* The inductive invariant holds throughout.
LEMMA Invariance == CircuitSpec => []IInv
BY Initially, Inductive, PTL DEF CircuitSpec

-----------------------------------------------------------------------------
(* The theorems.                                                           *)

\* The breaker and the calls keep their types.
THEOREM TypeCorrect == CircuitSpec => []CircuitTypeOK
<1>1. IInv => CircuitTypeOK
  BY DEF IInv
<1> QED
  BY <1>1, Invariance, PTL

\* A half-open circuit has one probe at most, and its slot is taken exactly while
\* that probe is out: admit, record and abandon never leak or share it.
THEOREM ProbeSlotHeld == CircuitSpec => []ProbeSlot
<1>1. IInv => ProbeSlot
  BY DEF IInv
<1> QED
  BY <1>1, Invariance, PTL

\* record leaves a closed circuit only with room for a failure.
THEOREM ClosedRoom == CircuitSpec => []ClosedHasRoom
<1>1. IInv => ClosedHasRoom
  BY DEF IInv
<1> QED
  BY <1>1, Invariance, PTL

\* The doubling of the cooldown stays within its configured bounds.
THEOREM CooldownBounded == CircuitSpec => []CooldownRange
<1>1. IInv => CooldownRange
  BY DEF IInv
<1> QED
  BY <1>1, Invariance, PTL

\* RoundTrip sends a request at most Attempts times, one that must not be repeated
\* once.
THEOREM SendsAtMost == CircuitSpec => []SendsBounded
<1>1. ASSUME IInv PROVE SendsBounded
  <2>1. \A c \in Calls : Proper(call[c])
    BY <1>1, Parts DEF Sorted
  <2>2. ASSUME NEW l, Proper(l)
        PROVE  l.sends <= IF l.again THEN Attempts ELSE 1
    <3>1. l.attempt \in 0..(Attempts - 1) /\ l.sends \in Nat
      BY <2>2 DEF Proper, Locals
    <3>2. l.pc = "idle" => l.sends = 0
      BY <2>2, NotCallingProper DEF Proper
    <3>3. l.pc # "idle" => l.sends = l.attempt + 1
      BY <2>2 DEF Proper
    <3>4. ~l.again => l.attempt = 0
      BY <2>2 DEF Proper
    <3> QED
      BY <3>1, <3>2, <3>3, <3>4, ResilientAssumption
  <2> QED
    BY <2>1, <2>2 DEF SendsBounded
<1> QED
  BY <1>1, Invariance, PTL

\* A step leaves the open state only after the cooldown, and closes a circuit only
\* when it is a probe's answer.
LEMMA StepMovesCircuit ==
    ASSUME IInv, [CircuitNext]_hvars
    PROVE  CircuitMoves
<1>1. /\ Sound(breaker)
      /\ \A c \in Calls : Proper(call[c])
      /\ call = [c \in Calls |-> call[c]]
      /\ breaker.probing <=> \E c \in Calls : Probing(c)
  BY Parts DEF Sorted
<1>2. ASSUME NEW c \in Calls, NEW again, NEW attempt, NEW sends,
             Attempt(c, again, attempt, sends)
      PROVE  CircuitMoves
  <2>1. CASE Admits(breaker)
    <3>1. breaker' = Admitted(breaker)
      BY <1>2, <2>1 DEF Attempt
    <3>2. /\ breaker.state = "open" => breaker.wait = 0 /\ breaker'.state = "halfopen"
          /\ breaker.state # "closed" => breaker'.state = "halfopen"
      BY <1>1, <2>1, <3>1, AdmittedSound
    <3> QED
      BY <3>2 DEF CircuitMoves
  <2>2. CASE ~Admits(breaker)
    BY <1>2, <2>2 DEF Attempt, CircuitMoves
  <2> QED
    BY <2>1, <2>2
<1>3. ASSUME NEW c \in Calls, NEW o \in Outcomes, NEW giveUp \in BOOLEAN,
             Report(c, o, giveUp)
      PROVE  CircuitMoves
  <2>1. call[c].probe \in BOOLEAN /\ call[c].pc = "sent"
    BY <1>1, <1>3 DEF Report, Proper, Locals
  <2>2. call[c].probe <=> Probing(c)
    BY <2>1 DEF Probing
  <2>3. CASE o = "cancelled"
    <3>1. breaker'.state = breaker.state
      BY <1>1, <1>3, <2>1, <2>3, AbandonedSound DEF Report
    <3> QED
      BY <3>1 DEF CircuitMoves
  <2>4. CASE o # "cancelled" /\ call[c].probe
    <3>1. breaker.state = "halfopen"
      BY <1>1, <2>2, <2>4 DEF Sound
    <3>2. call'[c].pc # "sent"
      BY <1>1, <1>3, NotCallingProper DEF Report, Local
    <3>3. Probing(c) /\ ~Probing(c)'
      BY <2>2, <2>4, <3>2 DEF Probing
    <3> QED
      BY <3>1, <3>3 DEF CircuitMoves
  <2>5. CASE o # "cancelled" /\ ~call[c].probe
    <3>1. breaker' = Recorded(breaker, IsFailure(o), call[c].probe)
      BY <1>3, <2>5 DEF Report
    <3>2. breaker.state # "closed" => breaker' = breaker
      BY <2>5, <3>1 DEF Recorded
    <3> QED
      BY <3>2 DEF CircuitMoves
  <2> QED
    BY <2>3, <2>4, <2>5
<1>4. CASE \E c \in Calls : StartCall(c) \/ Reports(c) \/ Wake(c) \/ Abort(c)
  <2>1. PICK c \in Calls : StartCall(c) \/ Reports(c) \/ Wake(c) \/ Abort(c)
    BY <1>4
  <2>2. CASE StartCall(c)
    BY <1>2, <2>2 DEF StartCall
  <2>3. CASE Reports(c)
    BY <1>3, <2>3 DEF Reports
  <2>4. CASE Wake(c)
    BY <1>2, <2>4 DEF Wake
  <2>5. CASE Abort(c)
    BY <2>5 DEF Abort, CircuitMoves
  <2> QED
    BY <2>1, <2>2, <2>3, <2>4, <2>5
<1>5. CASE Tick
  <2>1. breaker'.state = breaker.state
    BY <1>1, <1>5, ElapsedSound DEF Tick
  <2> QED
    BY <2>1 DEF CircuitMoves
<1>6. CASE breaker' = breaker
  BY <1>6 DEF CircuitMoves
<1> QED
  BY <1>4, <1>5, <1>6 DEF CircuitNext, Flip, hvars

\* A host that is cut off stays so for its cooldown, and only a probe's answer
\* closes its circuit, whatever late calls report to record.
THEOREM ProbesClose == CircuitSpec => OnlyProbesClose
<1>1. IInv /\ [CircuitNext]_hvars => [CircuitMoves]_hvars
  BY StepMovesCircuit
<1> QED
  BY <1>1, Invariance, PTL DEF CircuitSpec, OnlyProbesClose

=============================================================================

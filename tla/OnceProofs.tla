----------------------------- MODULE OnceProofs -----------------------------
(***************************************************************************)
(* What must be done by one only, and what must be reported as it is, for  *)
(* every value of the constants: the worker that holds a lease, and the    *)
(* charges, refunds, payouts and scopes of the bank integration.           *)
(***************************************************************************)
EXTENDS Supervisor, Banking, BankLoops, TLAPS

-----------------------------------------------------------------------------
(* LeaderHolds, OneLeader and QuietAfterShutdown for any workers,          *)
(* processes, keys and TTL.  LeaderHolds alone is not inductive: that a    *)
(* renewal or a release reaches the right lease needs the tokens to be     *)
(* distinct (Unique), the heartbeat to renew the token of its own worker   *)
(* (Beats), and the lease to last at least as long as the worker's claim   *)
(* on it (Outlasts).  Beats is where Separate is needed: Locker.tokens has *)
(* one entry per key and process.                                          *)

\* Each worker that is past Acquire has a token, and no other worker has it.
Unique ==
    /\ \A w \in Workers : pc[w] \in Holding <=> tok[w] # NoToken
    /\ \A v, w \in Workers : v # w /\ tok[v] # NoToken => tok[v] # tok[w]

\* Locker.tokens has the token of a worker that runs, and so does the renewal.
Beats ==
    \A w \in Workers :
        /\ pc[w] = "running" => tokens[Proc[w]][Key[w]] = tok[w]
        /\ hb[w] # "off" => pc[w] = "running"
        /\ hb[w] = "busy" => hbtok[w] = tok[w]

Outlasts ==
    \A w \in Workers :
        Leads(w) => lease[Key[w]].tok = tok[w] /\ lease[Key[w]].left + age[w] >= TTL

\* The part of TypeOK the proofs about leases use, and the rest.
CoreOK ==
    /\ LockTypeOK
    /\ pc \in [Workers -> PCs]
    /\ tok \in [Workers -> Tokens \cup {NoToken}]
    /\ age \in [Workers -> 0..TTL]
    /\ hb \in [Workers -> {"off", "idle", "busy"}]
    /\ hbtok \in [Workers -> Tokens \cup {NoToken}]
    /\ late \subseteq Requests

SetsOK ==
    /\ finished \cup lost \cup ended \subseteq Workers
    /\ created \cup registered \cup draining \cup stopped \cup returned \subseteq Procs
    /\ faults \in 0..MaxFaults

CoreInv == CoreOK /\ Unique /\ Beats /\ Outlasts

\* Shutdown returns only when stopped, and what QuietAfterShutdown says.
QuietInv == returned \subseteq stopped /\ QuietAfterShutdown

coreVars == <<lease, tokens, pc, tok, age, hb, hbtok, late>>

-----------------------------------------------------------------------------
LEMMA Constants ==
  ASSUME NEW w \in Workers
  PROVE  Proc[w] \in Procs /\ Key[w] \in Keys
BY SupervisorAssumption

LEMMA LeaseTyped ==
  ASSUME NEW t \in Tokens, NEW n \in 0..TTL
  PROVE  Lease(t, n) \in Leases /\ Lease(t, n).tok = t /\ Lease(t, n).left = n
BY DEF Lease, Leases

LEMMA FreeTyped == Free \in Leases /\ Free.left = 0
BY LockAssumption DEF Free, Lease, Leases

LEMMA FullTyped ==
  ASSUME NEW t \in Tokens
  PROVE  Lease(t, TTL) \in Leases /\ Lease(t, TTL).tok = t /\ Lease(t, TTL).left = TTL
<1>1. TTL \in 0..TTL
  BY LockAssumption
<1> QED BY <1>1, LeaseTyped

\* A new token is nobody's.
LEMMA NewIsFresh ==
  ASSUME Fresh # {}
  PROVE  /\ NewToken \in Tokens
         /\ \A w \in Workers : tok[w] # NewToken
<1>1. NewToken \in Fresh
  BY DEF NewToken
<1> QED BY <1>1 DEF Fresh, Used

LEMMA LateTyped ==
  ASSUME CoreInv, NEW W \in SUBSET Workers, Outlive(W)
  PROVE  late' \subseteq Requests
<1>1. ASSUME NEW w \in W, hb[w] = "busy"
      PROVE  [key |-> Key[w], tok |-> hbtok[w]] \in Requests
  <2>1. hbtok[w] = tok[w] /\ pc[w] = "running"
    BY <1>1 DEF CoreInv, Beats
  <2>2. tok[w] \in Tokens
    BY <2>1 DEF CoreInv, CoreOK, Unique, Holding
  <2> QED BY <2>1, <2>2, Constants DEF Requests
<1>2. Orphans(W) \subseteq Requests
  BY <1>1 DEF Orphans
<1> QED BY <1>2 DEF Outlive, Pending, CoreInv, CoreOK

LEMMA CoreInit == Init => CoreInv
BY LockAssumption, FreeTyped DEF Init, LockInit, CoreInv, CoreOK, LockTypeOK, Unique, Beats, Outlasts, PCs, Holding,
   Leads

LEMMA CoreStutters == CoreInv /\ UNCHANGED coreVars => CoreInv'
BY DEF CoreInv, coreVars, CoreOK, LockTypeOK, Unique, Beats, Outlasts, Leads

-----------------------------------------------------------------------------
(* The store commands take no lease from a worker that leads.              *)

Kept ==
    /\ lease' \in [Keys -> Leases]
    /\ \A w \in Workers : Leads(w) => /\ lease'[Key[w]].tok = lease[Key[w]].tok
                                      /\ lease'[Key[w]].left >= lease[Key[w]].left

LEMMA Numbers ==
  ASSUME CoreInv, NEW w \in Workers
  PROVE  /\ age[w] \in Nat /\ age[w] <= TTL /\ TTL \in Nat /\ TTL > 0
         /\ lease[Key[w]].left \in Nat /\ lease[Key[w]].left <= TTL
<1>1. TTL \in Nat /\ TTL > 0
  BY LockAssumption
<1>2. age[w] \in 0..TTL
  BY DEF CoreInv, CoreOK
<1>3. lease[Key[w]].left \in 0..TTL
  BY Constants DEF CoreInv, CoreOK, LockTypeOK, Leases
<1> QED BY <1>1, <1>2, <1>3

LEMMA SameLease ==
  ASSUME CoreInv, UNCHANGED lease
  PROVE  Kept
BY Numbers DEF Kept, CoreInv, CoreOK, LockTypeOK

LEMMA SetNXKeeps ==
  ASSUME CoreInv, NEW k \in Keys, NEW t \in Tokens, SetNX(k, t)
  PROVE  Kept /\ lease'[k].tok = t /\ lease'[k].left = TTL
<1>1. Lease(t, TTL) \in Leases /\ Lease(t, TTL).tok = t /\ Lease(t, TTL).left = TTL
  BY FullTyped
<1>2. lease \in [Keys -> Leases] /\ lease[k].left = 0 /\ lease' = [lease EXCEPT ![k] = Lease(t, TTL)]
  BY DEF SetNX, CoreInv, CoreOK, LockTypeOK
<1>3. ASSUME NEW w \in Workers, Leads(w) PROVE Key[w] # k
  BY <1>2, <1>3, Numbers DEF Leads, CoreInv, Outlasts
<1>4. \A w \in Workers : Leads(w) => lease'[Key[w]] = lease[Key[w]]
  BY <1>2, <1>3, Constants
<1> QED BY <1>1, <1>2, <1>4, Numbers DEF Kept

LEMMA RenewKeeps ==
  ASSUME CoreInv, NEW k \in Keys, NEW t \in Tokens, RenewIfMatch(k, t)
  PROVE  Kept /\ (Owns(k, t) => lease'[k].tok = t /\ lease'[k].left = TTL)
<1>1. Lease(t, TTL) \in Leases /\ Lease(t, TTL).tok = t /\ Lease(t, TTL).left = TTL
  BY FullTyped
<1>2. lease \in [Keys -> Leases]
  BY DEF CoreInv, CoreOK, LockTypeOK
<1>3. CASE ~Owns(k, t)
  BY <1>3, SameLease DEF RenewIfMatch
<1>4. CASE Owns(k, t)
  <2>1. lease' = [lease EXCEPT ![k] = Lease(t, TTL)] /\ lease[k].tok = t
    BY <1>4 DEF RenewIfMatch, Owns
  <2>2. lease' \in [Keys -> Leases] /\ lease'[k].tok = t /\ lease'[k].left = TTL
    BY <1>1, <1>2, <2>1
  <2>3. ASSUME NEW w \in Workers
        PROVE  lease'[Key[w]].tok = lease[Key[w]].tok /\ lease'[Key[w]].left >= lease[Key[w]].left
    <3>1. CASE Key[w] = k
      BY <2>1, <2>2, <3>1, Numbers
    <3>2. CASE Key[w] # k
      BY <1>2, <2>1, <3>2, Constants, Numbers
    <3> QED BY <3>1, <3>2
  <2> QED BY <2>2, <2>3 DEF Kept
<1> QED BY <1>3, <1>4

LEMMA DelKeeps ==
  ASSUME CoreInv, NEW w \in Workers, pc[w] = "releasing", DelIfMatch(Key[w], tok[w])
  PROVE  Kept
<1>1. lease \in [Keys -> Leases]
  BY DEF CoreInv, CoreOK, LockTypeOK
<1>2. CASE ~Owns(Key[w], tok[w])
  BY <1>2, SameLease DEF DelIfMatch
<1>3. CASE Owns(Key[w], tok[w])
  <2>1. lease' = [lease EXCEPT ![Key[w]] = Free] /\ lease[Key[w]].tok = tok[w]
    BY <1>3 DEF DelIfMatch, Owns
  <2>2. ASSUME NEW v \in Workers, Leads(v) PROVE Key[v] # Key[w]
    <3>1. v # w /\ tok[v] # NoToken
      BY <2>2 DEF Leads, CoreInv, Unique, Holding
    <3>2. tok[v] # tok[w] /\ lease[Key[v]].tok = tok[v]
      BY <2>2, <3>1 DEF CoreInv, Unique, Outlasts
    <3> QED BY <2>1, <3>2
  <2>3. \A v \in Workers : Leads(v) => lease'[Key[v]] = lease[Key[v]]
    BY <1>1, <2>1, <2>2, Constants
  <2>4. lease' \in [Keys -> Leases]
    BY <1>1, <2>1, FreeTyped, Zenon
  <2> QED BY <2>3, <2>4, Numbers DEF Kept
<1> QED BY <1>2, <1>3

\* A worker that led and still does, its claim no younger, keeps its lease.
LEMMA StillOutlasts ==
  ASSUME CoreInv, Kept, NEW w \in Workers, Leads(w), tok'[w] = tok[w], age'[w] = age[w]
  PROVE  lease'[Key[w]].tok = tok'[w] /\ lease'[Key[w]].left + age'[w] >= TTL
<1>1. lease'[Key[w]].left \in Nat
  BY Constants, LockAssumption DEF Kept, Leases
<1> QED BY <1>1, Numbers DEF Kept, CoreInv, Outlasts

-----------------------------------------------------------------------------
(* A worker without the lease moves on; another's lease may be granted by  *)
(* a command whose answer it never saw.                                    *)
LEMMA PcMoves ==
  ASSUME CoreInv, Kept, NEW w \in Workers, NEW l \in PCs \ Holding, pc[w] \notin Holding, Goto(w, l),
         age' = age \/ age' = [age EXCEPT ![w] = 0],
         UNCHANGED <<tokens, tok, hb, hbtok, late>>
  PROVE  CoreInv'
<1> USE DEF CoreInv
<1>1. pc' \in [Workers -> PCs] /\ pc'[w] = l /\ \A v \in Workers : v # w => pc'[v] = pc[v] /\ age'[v] = age[v]
  BY DEF Goto, CoreOK
<1>2. 0 \in 0..TTL
  BY LockAssumption
<1>3. CoreOK'
  BY <1>1, <1>2 DEF CoreOK, LockTypeOK, Kept
<1>4. Unique'
  BY <1>1 DEF Unique
<1>5. Beats'
  BY <1>1 DEF Beats, Holding
<1>6. Outlasts'
  <2> SUFFICES ASSUME NEW v \in Workers, Leads(v)'
               PROVE  lease'[Key[v]].tok = tok'[v] /\ lease'[Key[v]].left + age'[v] >= TTL
    BY DEF Outlasts
  <2>1. v # w
    BY <1>1 DEF Leads, Holding
  <2>2. Leads(v) /\ tok'[v] = tok[v] /\ age'[v] = age[v]
    BY <1>1, <2>1 DEF Leads
  <2> QED BY <2>2, StillOutlasts
<1> QED BY <1>3, <1>4, <1>5, <1>6

LEMMA AcquireKeeps ==
  ASSUME CoreInv, NEW w \in Workers, Acquire(w)
  PROVE  CoreInv'
<1>1. pc[w] = "taking" /\ age' = [age EXCEPT ![w] = 0] /\ UNCHANGED <<tokens, hb, hbtok, late>> /\ Key[w] \in Keys
  BY Constants DEF Acquire, beatVars
<1>2. pc[w] \notin Holding /\ "waiting" \in PCs \ Holding
  BY <1>1 DEF Holding, PCs
<1>3. CASE Kept /\ Goto(w, "waiting") /\ tok' = tok
  BY <1>1, <1>2, <1>3, PcMoves, Zenon
<1>4. CASE Fresh # {} /\ SetNX(Key[w], NewToken) /\ tok' = [tok EXCEPT ![w] = NewToken] /\ Goto(w, "granted")
  <2> DEFINE t == NewToken
  <2>1. t \in Tokens /\ \A v \in Workers : tok[v] # t
    BY <1>4, NewIsFresh
  <2>2. Kept /\ lease'[Key[w]].tok = t /\ lease'[Key[w]].left = TTL
    BY <1>1, <1>4, <2>1, SetNXKeeps
  <2> HIDE DEF t
  <2>3. t # NoToken
    BY <2>1, LockAssumption
  <2>4. /\ pc' \in [Workers -> PCs] /\ pc'[w] = "granted"
        /\ tok' \in [Workers -> Tokens \cup {NoToken}] /\ tok'[w] = t
        /\ \A v \in Workers : v # w => pc'[v] = pc[v] /\ tok'[v] = tok[v] /\ age'[v] = age[v]
    BY <1>1, <1>4, <2>1 DEF t, Goto, CoreInv, CoreOK, PCs, Holding
  <2>5. age' \in [Workers -> 0..TTL] /\ age'[w] = 0
    BY <1>1, LockAssumption DEF CoreInv, CoreOK
  <2>6. CoreOK'
    BY <1>1, <2>2, <2>4, <2>5 DEF CoreInv, CoreOK, LockTypeOK, Kept
  <2>7. Unique'
    BY <2>1, <2>3, <2>4 DEF CoreInv, Unique, Holding
  <2>8. Beats'
    BY <1>1, <2>4 DEF CoreInv, Beats
  <2>9. Outlasts'
    <3> SUFFICES ASSUME NEW v \in Workers, Leads(v)'
                 PROVE  lease'[Key[v]].tok = tok'[v] /\ lease'[Key[v]].left + age'[v] >= TTL
      BY DEF Outlasts
    <3>1. CASE v = w
      BY <2>2, <2>4, <2>5, <3>1, LockAssumption
    <3>2. CASE v # w
      BY <2>2, <2>4, <3>2, StillOutlasts DEF Leads
    <3> QED BY <3>1, <3>2
  <2> QED BY <2>6, <2>7, <2>8, <2>9 DEF CoreInv
<1>5. ASSUME Fresh # {}, SetNX(Key[w], NewToken) PROVE Kept
  BY <1>1, <1>5, NewIsFresh, SetNXKeeps
<1>6. UNCHANGED lease => Kept
  BY SameLease
<1> QED BY <1>3, <1>4, <1>5, <1>6 DEF Acquire

LEMMA HoldKeeps ==
  ASSUME Separate, CoreInv, NEW w \in Workers, Hold(w)
  PROVE  CoreInv'
<1>1. /\ pc[w] = "granted" /\ tokens' = [tokens EXCEPT ![Proc[w]][Key[w]] = tok[w]]
      /\ hb' = [hb EXCEPT ![w] = "idle"] /\ pc' = [pc EXCEPT ![w] = "running"]
      /\ UNCHANGED <<lease, tok, age, hbtok, late>>
  BY DEF Hold, Remember, Goto
<1>2. Proc[w] \in Procs /\ Key[w] \in Keys /\ tok[w] \in Tokens \cup {NoToken}
  BY Constants DEF CoreInv, CoreOK
<1>3. tokens \in [Procs -> [Keys -> Tokens \cup {NoToken}]]
  BY DEF CoreInv, CoreOK, LockTypeOK
<1>4. /\ tokens' \in [Procs -> [Keys -> Tokens \cup {NoToken}]] /\ tokens'[Proc[w]][Key[w]] = tok[w]
      /\ \A v \in Workers : v # w => tokens'[Proc[v]][Key[v]] = tokens[Proc[v]][Key[v]]
  BY <1>1, <1>2, <1>3, Constants DEF Separate
<1>5. /\ pc' \in [Workers -> PCs] /\ pc'[w] = "running"
      /\ hb' \in [Workers -> {"off", "idle", "busy"}] /\ hb'[w] = "idle"
      /\ \A v \in Workers : v # w => pc'[v] = pc[v] /\ hb'[v] = hb[v]
  BY <1>1 DEF CoreInv, CoreOK, PCs, Holding
<1>6. CoreOK'
  BY <1>1, <1>4, <1>5 DEF CoreInv, CoreOK, LockTypeOK
<1>7. Unique'
  BY <1>1, <1>5 DEF CoreInv, Unique, Holding
<1>8. Beats'
  BY <1>1, <1>4, <1>5 DEF CoreInv, Beats
<1>9. Outlasts'
  BY <1>1, <1>5 DEF CoreInv, Outlasts, Leads
<1> QED BY <1>6, <1>7, <1>8, <1>9 DEF CoreInv

LEMMA FnReturnsKeeps ==
  ASSUME CoreInv, NEW w \in Workers, NEW nil \in BOOLEAN, FnReturns(w, nil)
  PROVE  CoreInv'
<1>1. /\ pc[w] = "running" /\ pc' = [pc EXCEPT ![w] = "releasing"] /\ hb' = [hb EXCEPT ![w] = "off"]
      /\ hbtok' = [hbtok EXCEPT ![w] = NoToken] /\ UNCHANGED <<lease, tokens, tok, age>>
  BY DEF FnReturns, Goto, lockVars
<1>2. late' \subseteq Requests
  BY LateTyped DEF FnReturns
<1>3. /\ pc' \in [Workers -> PCs] /\ pc'[w] = "releasing"
      /\ hb' \in [Workers -> {"off", "idle", "busy"}] /\ hb'[w] = "off"
      /\ hbtok' \in [Workers -> Tokens \cup {NoToken}]
      /\ \A v \in Workers : v # w => pc'[v] = pc[v] /\ hb'[v] = hb[v] /\ hbtok'[v] = hbtok[v]
  BY <1>1 DEF CoreInv, CoreOK, PCs, Holding
<1>4. CoreOK'
  BY <1>1, <1>2, <1>3 DEF CoreInv, CoreOK, LockTypeOK
<1>5. Unique'
  BY <1>1, <1>3 DEF CoreInv, Unique, Holding
<1>6. Beats'
  BY <1>1, <1>3 DEF CoreInv, Beats
<1>7. Outlasts'
  BY <1>1, <1>3 DEF CoreInv, Outlasts, Leads
<1> QED BY <1>4, <1>5, <1>6, <1>7 DEF CoreInv

LEMMA ReleaseKeeps ==
  ASSUME CoreInv, NEW w \in Workers, Release(w)
  PROVE  CoreInv'
<1>1. /\ pc[w] = "releasing" /\ pc' = [pc EXCEPT ![w] = "forgetting"]
      /\ UNCHANGED <<tokens, tok, age, hb, hbtok>>
  BY DEF Release, Goto
<1>2. Kept
  BY <1>1, DelKeeps, SameLease DEF Release
<1>3. late' \subseteq Requests
  BY LateTyped DEF Release
<1>4. /\ pc' \in [Workers -> PCs] /\ pc'[w] = "forgetting"
      /\ \A v \in Workers : v # w => pc'[v] = pc[v]
  BY <1>1 DEF CoreInv, CoreOK, PCs, Holding
<1>5. CoreOK'
  BY <1>1, <1>2, <1>3, <1>4 DEF CoreInv, CoreOK, LockTypeOK, Kept
<1>6. Unique'
  BY <1>1, <1>4 DEF CoreInv, Unique, Holding
<1>7. Beats'
  BY <1>1, <1>4 DEF CoreInv, Beats
<1>8. Outlasts'
  BY <1>1, <1>2, <1>4, StillOutlasts DEF Outlasts, Leads
<1> QED BY <1>5, <1>6, <1>7, <1>8 DEF CoreInv

LEMMA ForgetKeeps ==
  ASSUME Separate, CoreInv, NEW w \in Workers, ForgetToken(w)
  PROVE  CoreInv'
<1> DEFINE l == IF w \in finished \cup ended THEN "ended" ELSE "waiting"
<1>1. /\ pc[w] = "forgetting" /\ tokens' = [tokens EXCEPT ![Proc[w]][Key[w]] = NoToken]
      /\ tok' = [tok EXCEPT ![w] = NoToken] /\ age' = [age EXCEPT ![w] = 0]
      /\ pc' = [pc EXCEPT ![w] = l]
      /\ UNCHANGED <<lease, hb, hbtok, late>>
  BY DEF ForgetToken, Remember, Goto, beatVars
<1>2. l \in PCs /\ l \notin Holding /\ l # "running"
  BY DEF PCs, Holding
<1> HIDE DEF l
<1>3. Proc[w] \in Procs /\ Key[w] \in Keys
  BY Constants
<1>4. tokens \in [Procs -> [Keys -> Tokens \cup {NoToken}]]
  BY DEF CoreInv, CoreOK, LockTypeOK
<1>5. /\ tokens' \in [Procs -> [Keys -> Tokens \cup {NoToken}]]
      /\ \A v \in Workers : v # w => tokens'[Proc[v]][Key[v]] = tokens[Proc[v]][Key[v]]
  BY <1>1, <1>3, <1>4, Constants DEF Separate
<1>6. /\ pc' \in [Workers -> PCs] /\ pc'[w] = l
      /\ tok' \in [Workers -> Tokens \cup {NoToken}] /\ tok'[w] = NoToken
      /\ \A v \in Workers : v # w => pc'[v] = pc[v] /\ tok'[v] = tok[v] /\ age'[v] = age[v]
  BY <1>1, <1>2 DEF CoreInv, CoreOK
<1>7. age' \in [Workers -> 0..TTL]
  BY <1>1, LockAssumption DEF CoreInv, CoreOK
<1>8. CoreOK'
  BY <1>1, <1>5, <1>6, <1>7 DEF CoreInv, CoreOK, LockTypeOK
<1>9. Unique'
  BY <1>2, <1>6 DEF CoreInv, Unique
<1>10. Beats'
  BY <1>1, <1>2, <1>5, <1>6 DEF CoreInv, Beats
<1>11. Outlasts'
  <2>1. \A v \in Workers : Leads(v)' => v # w
    BY <1>2, <1>6 DEF Leads, Holding
  <2> QED BY <1>1, <1>6, <2>1 DEF CoreInv, Outlasts, Leads
<1> QED BY <1>8, <1>9, <1>10, <1>11 DEF CoreInv

\* The heartbeat starts a renewal with its worker's token, or stops.
LEMMA HbMoves ==
  ASSUME CoreInv, Kept, NEW w \in Workers, pc[w] = "running",
         NEW h \in {"off", "idle", "busy"}, NEW t \in Tokens \cup {NoToken},
         hb' = [hb EXCEPT ![w] = h], hbtok' = [hbtok EXCEPT ![w] = t], h = "busy" => t = tok[w],
         \/ age' = age
         \/ /\ age' = [age EXCEPT ![w] = 0]
            /\ lease'[Key[w]].tok = tok[w] /\ lease'[Key[w]].left = TTL,
         UNCHANGED <<tokens, pc, tok, late>>
  PROVE  CoreInv'
<1>1. /\ hb' \in [Workers -> {"off", "idle", "busy"}] /\ hb'[w] = h
      /\ hbtok' \in [Workers -> Tokens \cup {NoToken}] /\ hbtok'[w] = t
      /\ \A v \in Workers : v # w => hb'[v] = hb[v] /\ hbtok'[v] = hbtok[v] /\ age'[v] = age[v]
  BY DEF CoreInv, CoreOK
<1>2. age' \in [Workers -> 0..TTL]
  BY LockAssumption DEF CoreInv, CoreOK
<1>3. CoreOK'
  BY <1>1, <1>2 DEF CoreInv, CoreOK, LockTypeOK, Kept
<1>4. Unique'
  BY DEF CoreInv, Unique
<1>5. Beats'
  BY <1>1 DEF CoreInv, Beats
<1>6. Outlasts'
  <2> SUFFICES ASSUME NEW v \in Workers, Leads(v)'
               PROVE  lease'[Key[v]].tok = tok'[v] /\ lease'[Key[v]].left + age'[v] >= TTL
    BY DEF Outlasts
  <2>1. CASE age'[v] = age[v]
    BY <2>1, StillOutlasts DEF Leads
  <2>2. CASE age'[v] # age[v]
    <3>1. v = w /\ age'[w] = 0 /\ lease'[Key[w]].tok = tok[w] /\ lease'[Key[w]].left = TTL
      BY <1>1, <2>2 DEF CoreInv, CoreOK
    <3> QED BY <3>1, LockAssumption
  <2> QED BY <2>1, <2>2
<1> QED BY <1>3, <1>4, <1>5, <1>6 DEF CoreInv

LEMMA BeatReadKeeps ==
  ASSUME CoreInv, NEW w \in Workers, BeatRead(w)
  PROVE  CoreInv'
<1>1. hb[w] = "idle" /\ UNCHANGED <<lease, tokens, pc, tok, age, late>>
  BY DEF BeatRead, lockVars
<1>2. pc[w] = "running" /\ tokens[Proc[w]][Key[w]] = tok[w] /\ tok[w] \in Tokens \cup {NoToken}
  BY <1>1 DEF CoreInv, CoreOK, Beats
<1>3. Kept
  BY <1>1, SameLease
<1>4. \/ hb' = [hb EXCEPT ![w] = "off"] /\ hbtok' = [hbtok EXCEPT ![w] = NoToken]
      \/ hb' = [hb EXCEPT ![w] = "busy"] /\ hbtok' = [hbtok EXCEPT ![w] = tok[w]]
  BY <1>2 DEF BeatRead, Lose
<1> QED BY <1>1, <1>2, <1>3, <1>4, HbMoves

LEMMA BeatDoneKeeps ==
  ASSUME CoreInv, NEW w \in Workers, BeatDone(w)
  PROVE  CoreInv'
<1>1. hb[w] = "busy" /\ UNCHANGED <<tokens, pc, tok, late>> /\ Key[w] \in Keys
  BY Constants DEF BeatDone
<1>2. pc[w] = "running" /\ hbtok[w] = tok[w] /\ tok[w] \in Tokens
  BY <1>1 DEF CoreInv, CoreOK, Beats, Unique, Holding
<1>3. CASE /\ Owns(Key[w], hbtok[w]) /\ RenewIfMatch(Key[w], hbtok[w]) /\ age' = [age EXCEPT ![w] = 0]
           /\ hb' = [hb EXCEPT ![w] = "idle"] /\ hbtok' = [hbtok EXCEPT ![w] = NoToken]
  <2>1. Kept /\ lease'[Key[w]].tok = tok[w] /\ lease'[Key[w]].left = TTL
    BY <1>1, <1>2, <1>3, RenewKeeps
  <2> QED BY <1>1, <1>2, <1>3, <2>1, HbMoves, Zenon
<1>4. CASE Lose(w) /\ age' = age /\ (UNCHANGED lease \/ RenewIfMatch(Key[w], hbtok[w]))
  <2>1. Kept
    BY <1>1, <1>2, <1>4, SameLease, RenewKeeps, Zenon
  <2> QED BY <1>1, <1>2, <1>4, <2>1, HbMoves, Zenon DEF Lose
<1> QED BY <1>3, <1>4 DEF BeatDone

LEMMA LateKeeps ==
  ASSUME CoreInv, NEW r \in late, LateRenew(r)
  PROVE  CoreInv'
<1>1. UNCHANGED <<tokens, pc, tok, age, hb, hbtok>> /\ late' \subseteq Requests /\ r.key \in Keys /\ r.tok \in Tokens
  BY DEF LateRenew, workerVars, CoreInv, CoreOK, Requests
<1>2. Kept
  BY <1>1, SameLease, RenewKeeps DEF LateRenew
<1>3. CoreOK'
  BY <1>1, <1>2 DEF CoreInv, CoreOK, LockTypeOK, Kept
<1>4. Unique' /\ Beats'
  BY <1>1, Zenon DEF CoreInv, Unique, Beats
<1>5. Outlasts'
  BY <1>1, <1>2, StillOutlasts, Zenon DEF Outlasts, Leads
<1> QED BY <1>3, <1>4, <1>5 DEF CoreInv

LEMMA AgedTyped ==
  ASSUME NEW l \in Leases
  PROVE  /\ Aged(l) \in Leases
         /\ l.left > 1 => Aged(l).tok = l.tok /\ Aged(l).left = l.left - 1
<1>1. l.left \in 0..TTL /\ l.tok \in Tokens \cup {NoToken} /\ TTL \in Nat
  BY LockAssumption DEF Leases
<1>2. CASE l.left <= 1
  BY <1>1, <1>2, FreeTyped DEF Aged
<1>3. CASE l.left > 1
  <2>1. Aged(l) = Lease(l.tok, l.left - 1) /\ l.left - 1 \in 0..TTL
    BY <1>1, <1>3 DEF Aged
  <2> QED BY <1>1, <2>1 DEF Lease, Leases
<1> QED BY <1>1, <1>2, <1>3

LEMMA TickKeeps == CoreInv /\ Tick => CoreInv'
<1> SUFFICES ASSUME CoreInv, Tick PROVE CoreInv'
  OBVIOUS
<1>1. /\ lease' = [k \in Keys |-> Aged(lease[k])]
      /\ age' = [w \in Workers |-> IF tok[w] = NoToken THEN 0 ELSE Min(age[w] + 1, TTL)]
      /\ UNCHANGED <<tokens, pc, tok, hb, hbtok>>
  BY DEF Tick, Age
<1>2. lease' \in [Keys -> Leases]
  BY <1>1, AgedTyped DEF CoreInv, CoreOK, LockTypeOK
<1>3. ASSUME NEW w \in Workers PROVE age'[w] \in 0..TTL /\ (tok[w] # NoToken => age'[w] = Min(age[w] + 1, TTL))
  BY <1>1, Numbers DEF Min
<1>4. age' \in [Workers -> 0..TTL]
  BY <1>1, <1>3
<1>5. late' \subseteq Requests
  BY LateTyped DEF Tick
<1>6. CoreOK'
  BY <1>1, <1>2, <1>4, <1>5 DEF CoreInv, CoreOK, LockTypeOK
<1>7. Unique' /\ Beats'
  BY <1>1 DEF CoreInv, Unique, Beats
<1>8. Outlasts'
  <2> SUFFICES ASSUME NEW w \in Workers, Leads(w)'
               PROVE  lease'[Key[w]].tok = tok'[w] /\ lease'[Key[w]].left + age'[w] >= TTL
    BY DEF Outlasts
  <2>1. pc[w] \in {"granted", "running"} /\ age'[w] < TTL
    BY <1>1 DEF Leads
  <2>2. tok[w] # NoToken
    BY <2>1 DEF CoreInv, Unique, Holding
  <2>3. age'[w] = age[w] + 1 /\ age[w] + 1 < TTL
    BY <1>3, <2>1, <2>2, Numbers DEF Min
  <2>4. Leads(w)
    BY <2>1, <2>3, Numbers DEF Leads
  <2>5. lease[Key[w]].tok = tok[w] /\ lease[Key[w]].left + age[w] >= TTL
    BY <2>4 DEF CoreInv, Outlasts
  <2>6. lease[Key[w]].left > 1 /\ lease[Key[w]] \in Leases
    BY <2>3, <2>5, Numbers, Constants DEF CoreInv, CoreOK, LockTypeOK
  <2>7. lease'[Key[w]].tok = lease[Key[w]].tok /\ lease'[Key[w]].left = lease[Key[w]].left - 1
    BY <1>1, <2>6, AgedTyped, Constants
  <2> QED BY <1>1, <2>3, <2>5, <2>7, Numbers
<1> QED BY <1>6, <1>7, <1>8 DEF CoreInv

LEMMA CrashKeeps ==
  ASSUME CoreInv, NEW p \in Procs, Crash(p)
  PROVE  CoreInv'
<1>1. /\ UNCHANGED lease /\ tokens' = [tokens EXCEPT ![p] = [k \in Keys |-> NoToken]]
      /\ pc' = [w \in Workers |-> IF Proc[w] = p THEN "off" ELSE pc[w]]
      /\ tok' = [w \in Workers |-> IF Proc[w] = p THEN NoToken ELSE tok[w]]
      /\ age' = [w \in Workers |-> IF Proc[w] = p THEN 0 ELSE age[w]]
      /\ hb' = [w \in Workers |-> IF Proc[w] = p THEN "off" ELSE hb[w]]
      /\ hbtok' = [w \in Workers |-> IF Proc[w] = p THEN NoToken ELSE hbtok[w]]
  BY Zenon DEF Crash
<1>2. late' \subseteq Requests
  BY LateTyped, Zenon DEF Crash, Of
<1>3. tokens' \in [Procs -> [Keys -> Tokens \cup {NoToken}]]
      /\ \A w \in Workers : Proc[w] # p => tokens'[Proc[w]] = tokens[Proc[w]]
  BY <1>1, Constants DEF CoreInv, CoreOK, LockTypeOK
<1>4. age' \in [Workers -> 0..TTL]
  BY <1>1, LockAssumption DEF CoreInv, CoreOK
<1>5. CoreOK'
  BY <1>1, <1>2, <1>3, <1>4 DEF CoreInv, CoreOK, LockTypeOK, PCs
<1>6. Unique'
  BY <1>1, Zenon DEF CoreInv, Unique, Holding
<1>7. Beats'
  BY <1>1, <1>3 DEF CoreInv, Beats
<1>8. Outlasts'
  BY <1>1 DEF CoreInv, Outlasts, Leads
<1> QED BY <1>5, <1>6, <1>7, <1>8 DEF CoreInv

LEMMA MovesKeep ==
  ASSUME CoreInv, NEW w \in Workers, Run(w) \/ Launch(w) \/ Loop(w) \/ Wake(w)
  PROVE  CoreInv'
<1>1. Kept /\ UNCHANGED <<tokens, tok, age, hb, hbtok, late>>
  BY SameLease DEF Run, Launch, Loop, Wake, lockVars, beatVars
<1>2. pc[w] \in PCs \ Holding
  BY DEF Run, Launch, Loop, Wake, PCs, Holding
<1>3. \E l \in PCs \ Holding : Goto(w, l)
  <2>1. \E l \in {"starting", "loop", "ended", "taking"} : Goto(w, l)
    BY DEF Run, Launch, Loop, Wake
  <2>2. {"starting", "loop", "ended", "taking"} \subseteq PCs \ Holding
    BY DEF PCs, Holding
  <2> QED BY <2>1, <2>2
<1> QED BY <1>1, <1>2, <1>3, PcMoves

LEMMA NextKeeps ==
  ASSUME Separate, CoreInv, [Next]_vars
  PROVE  CoreInv'
<1>1. ASSUME NEW w \in Workers, Run(w) \/ Step(w) PROVE CoreInv'
  BY <1>1, MovesKeep, AcquireKeeps, HoldKeeps, ReleaseKeeps, ForgetKeeps DEF Step
<1>2. ASSUME NEW w \in Workers, Beat(w) \/ Returns(w) PROVE CoreInv'
  BY <1>2, BeatReadKeeps, BeatDoneKeeps, FnReturnsKeeps DEF Beat, Returns
<1>3. ASSUME NEW w \in Workers, Cancel(w) PROVE CoreInv'
  BY <1>3, CoreStutters DEF Cancel, coreVars, lockVars, beatVars
<1>4. ASSUME NEW p \in Procs, New(p) \/ Shutdown(p) \/ ShutdownReturns(p) \/ Drain(p) \/ DrainCloses(p)
      PROVE  CoreInv'
  <2>1. UNCHANGED <<lockVars, workerVars, beatVars>>
    BY <1>4 DEF New, Shutdown, ShutdownReturns, Drain, DrainCloses
  <2> QED BY <2>1, CoreStutters DEF coreVars, lockVars, workerVars, beatVars
<1>5. CASE UNCHANGED vars
  BY <1>5, CoreStutters DEF vars, coreVars, lockVars, workerVars, beatVars
<1> QED BY <1>1, <1>2, <1>3, <1>4, <1>5, CrashKeeps, LateKeeps, TickKeeps DEF Next

-----------------------------------------------------------------------------
LEMMA SetsKeep ==
  ASSUME SetsOK, [Next]_vars
  PROVE  SetsOK'
<1> USE DEF SetsOK
<1>1. ASSUME Fault PROVE faults' \in 0..MaxFaults
  BY <1>1, SupervisorAssumption DEF Fault
<1>2. ASSUME NEW w \in Workers, Run(w) \/ Launch(w) \/ Loop(w) \/ Hold(w) \/ Wake(w) \/ ForgetToken(w) PROVE SetsOK'
  BY <1>2, Zenon DEF Run, Launch, Loop, Hold, Wake, ForgetToken, supVars
<1>3. ASSUME NEW w \in Workers, Acquire(w) \/ Release(w) PROVE SetsOK'
  BY <1>1, <1>3, Zenon DEF Acquire, Release, supVars
<1>4. ASSUME NEW w \in Workers, Beat(w) PROVE SetsOK'
  BY <1>1, <1>4, Zenon DEF Beat, BeatRead, BeatDone, Lose, supVars
<1>5. ASSUME NEW w \in Workers, Cancel(w) \/ Returns(w) PROVE SetsOK'
  BY <1>5, Zenon DEF Cancel, Returns, FnReturns, supVars
<1>6. ASSUME NEW p \in Procs, New(p) \/ Shutdown(p) \/ ShutdownReturns(p) \/ Drain(p) \/ DrainCloses(p)
      PROVE  SetsOK'
  BY <1>6 DEF New, Shutdown, ShutdownReturns, Drain, DrainCloses, workerVars
<1>7. ASSUME NEW p \in Procs, Crash(p) PROVE SetsOK'
  BY <1>1, <1>7, Zenon DEF Crash
<1>8. ASSUME NEW r \in late, LateRenew(r) PROVE SetsOK'
  BY <1>8 DEF LateRenew, workerVars, supVars
<1>9. CASE Tick
  BY <1>9 DEF Tick, supVars
<1>10. CASE UNCHANGED vars
  BY <1>10 DEF vars, workerVars, supVars
<1> QED BY <1>2, <1>3, <1>4, <1>5, <1>6, <1>7, <1>8, <1>9, <1>10 DEF Next, Step

LEMMA QuietKeeps ==
  ASSUME CoreOK, QuietInv, [Next]_vars
  PROVE  QuietInv'
<1> USE DEF QuietInv, QuietAfterShutdown
<1> DEFINE still == {"off", "starting", "loop", "ended"}
<1>1. ASSUME NEW w \in Workers, pc'[w] \in still \/ Proc[w] \notin returned, UNCHANGED supVars,
             \A v \in Workers : v # w => pc'[v] = pc[v]
      PROVE  QuietInv'
  BY <1>1 DEF supVars
<1>2. ASSUME NEW w \in Workers, NEW l, Goto(w, l) PROVE pc'[w] = l /\ \A v \in Workers : v # w => pc'[v] = pc[v]
  BY <1>2 DEF Goto, CoreOK
<1>3. ASSUME NEW w \in Workers, Run(w) \/ Step(w) PROVE QuietInv'
  <2>1. UNCHANGED supVars
    BY <1>3, Zenon DEF Run, Step, Launch, Loop, Acquire, Hold, Release, ForgetToken, Wake, supVars
  <2>2. \A v \in Workers : v # w => pc'[v] = pc[v]
    BY <1>2, <1>3, Zenon DEF Run, Step, Launch, Loop, Acquire, Hold, Release, ForgetToken, Wake
  <2>3. pc'[w] \in still \/ Proc[w] \notin returned
    <3>1. CASE Run(w) \/ Launch(w)
      BY <1>2, <3>1 DEF Run, Launch
    <3>2. CASE Loop(w)
      BY <1>2, <3>2 DEF Loop, Stopping
    <3>3. CASE Acquire(w) \/ Hold(w) \/ Release(w) \/ ForgetToken(w) \/ Wake(w)
      BY <3>3, Zenon DEF Acquire, Hold, Release, ForgetToken, Wake
    <3> QED BY <1>3, <3>1, <3>2, <3>3 DEF Step
  <2> QED BY <1>1, <2>1, <2>2, <2>3
<1>4. ASSUME NEW w \in Workers, NEW nil \in BOOLEAN, FnReturns(w, nil) PROVE QuietInv'
  BY <1>1, <1>2, <1>4 DEF FnReturns
<1>5. ASSUME UNCHANGED <<pc, supVars>> PROVE QuietInv'
  BY <1>5 DEF supVars
<1>6. ASSUME NEW w \in Workers, Beat(w) \/ Cancel(w) PROVE QuietInv'
  BY <1>5, <1>6, Zenon DEF Beat, BeatRead, BeatDone, Cancel
<1>7. ASSUME NEW p \in Procs, New(p) \/ Shutdown(p) \/ Drain(p) \/ DrainCloses(p) PROVE QuietInv'
  BY <1>7 DEF New, Shutdown, Drain, DrainCloses, workerVars
<1>8. ASSUME NEW p \in Procs, ShutdownReturns(p) PROVE QuietInv'
  BY <1>8, Zenon DEF ShutdownReturns, workerVars
<1>9. ASSUME NEW p \in Procs, Crash(p) PROVE QuietInv'
  BY <1>9 DEF Crash
<1>10. CASE Tick \/ (\E r \in late : LateRenew(r)) \/ UNCHANGED vars
  BY <1>5, <1>10 DEF Tick, LateRenew, workerVars, vars
<1> QED BY <1>3, <1>4, <1>6, <1>7, <1>8, <1>9, <1>10, Zenon DEF Next, Returns

-----------------------------------------------------------------------------
LEMMA InitSets == Init => SetsOK /\ QuietInv
BY SupervisorAssumption DEF Init, SetsOK, QuietInv, QuietAfterShutdown

\* The inductive invariant: with one Locker per contender, every behaviour
\* keeps the tokens apart and the leases at least as long as the claims.
THEOREM CoreInvariant == Separate => (Spec => [](CoreInv /\ SetsOK /\ QuietInv))
<1> SUFFICES ASSUME Separate PROVE Spec => [](CoreInv /\ SetsOK /\ QuietInv)
  OBVIOUS
<1>1. CoreInv /\ SetsOK /\ QuietInv /\ [Next]_vars => (CoreInv /\ SetsOK /\ QuietInv)'
  BY NextKeeps, SetsKeep, QuietKeeps DEF CoreInv
<1> QED BY <1>1, CoreInit, InitSets, PTL DEF Spec

\* Every value the supervisor, the lock and the drain tracker hold is of its type.
THEOREM SupervisorTyped == Separate => (Spec => []TypeOK)
<1>1. CoreInv /\ SetsOK => TypeOK
  BY DEF CoreInv, CoreOK, SetsOK, TypeOK
<1> QED BY <1>1, CoreInvariant, PTL

\* A leader whose last renewal is younger than the TTL holds the lease of its
\* key, however store calls fail, processes crash and renewals are delayed.
THEOREM LeadersHoldLeases == Separate => (Spec => []LeaderHolds)
<1>1. CoreInv => LeaderHolds
  <2> SUFFICES ASSUME CoreInv, NEW w \in Workers, Leads(w) PROVE Owns(Key[w], tok[w])
    BY DEF LeaderHolds
  <2> QED BY Numbers DEF CoreInv, Outlasts, Leads, Owns
<1> QED BY <1>1, CoreInvariant, PTL

\* So at most one worker of a name leads.
THEOREM AtMostOneLeader == Separate => (Spec => []OneLeader)
<1>1. CoreInv => OneLeader
  <2> SUFFICES ASSUME CoreInv, NEW v \in Workers, NEW w \in Workers, Leads(v), Leads(w), Key[v] = Key[w]
               PROVE  v = w
    BY DEF OneLeader
  <2>1. tok[v] = tok[w] /\ tok[v] # NoToken
    BY DEF CoreInv, Outlasts, Leads, Unique, Holding
  <2> QED BY <2>1 DEF CoreInv, Unique
<1> QED BY <1>1, CoreInvariant, PTL

\* After Shutdown has returned nil, no worker of its process runs or will run.
THEOREM ShutdownIsQuiet == Separate => (Spec => []QuietAfterShutdown)
<1>1. QuietInv => QuietAfterShutdown
  BY DEF QuietInv
<1> QED BY <1>1, CoreInvariant, PTL

-----------------------------------------------------------------------------
(* The refinement.  Leads(w) begins in two actions only: a grant, with the *)
(* lease of the key free, and a renewal, with the lease carrying the       *)
(* worker's own token.  Neither is possible while another worker of the    *)
(* key leads.                                                              *)
Leaders == {w \in Workers : Leads(w)}

LEMMA OnlyLeader ==
  ASSUME CoreInv, NEW w \in Workers, lease[Key[w]].left = 0 \/ (Owns(Key[w], tok[w]) /\ pc[w] \in Holding),
         NEW v \in Workers, Leads(v), Key[v] = Key[w]
  PROVE  v = w
<1>1. lease[Key[v]].tok = tok[v] /\ lease[Key[v]].left > 0
  BY Numbers DEF CoreInv, Outlasts, Leads
<1>2. tok[v] = tok[w] /\ tok[v] # NoToken
  <2>1. tok[v] # NoToken
    BY DEF CoreInv, Unique, Holding, Leads
  <2>2. lease[Key[w]].left > 0
    BY <1>1
  <2>3. Owns(Key[w], tok[w])
    BY <2>2
  <2> QED BY <1>1, <2>1, <2>3 DEF Owns
<1> QED BY <1>2 DEF CoreInv, Unique

LEMMA Begins ==
  ASSUME CoreInv, NEW w \in Workers, lease[Key[w]].left = 0 \/ (Owns(Key[w], tok[w]) /\ pc[w] \in Holding),
         \A v \in Workers : v # w => (Leads(v)' <=> Leads(v)), Leads(w)'
  PROVE  Elections!Elect(w)
<1>1. Leaders' = Leaders \cup {w}
  BY DEF Leaders
<1>2. \A v \in Leaders : Key[v] # Key[w] \/ v = w
  BY OnlyLeader DEF Leaders
<1> QED BY <1>1, <1>2 DEF Elections!Elect, Leaders

LEMMA Ends ==
  ASSUME \A v \in Workers : Leads(v)' => Leads(v)
  PROVE  Elections!Resign
<1>1. Leaders' \subseteq Leaders
  BY DEF Leaders
<1> QED BY <1>1 DEF Elections!Resign, Leaders

LEMMA StepImplements ==
  ASSUME CoreInv, [Next]_vars
  PROVE  [Elections!LNext]_Leaders
<1> DEFINE ends == \A v \in Workers : Leads(v)' => Leads(v)
<1>1. SUFFICES ends \/ \E w \in Workers : Elections!Elect(w)
  BY Ends DEF Elections!LNext
<1> USE DEF CoreInv
<1>2. pc \in [Workers -> PCs] /\ age \in [Workers -> 0..TTL] /\ TTL \in Nat /\ TTL > 0
  BY LockAssumption DEF CoreOK
<1>3. ASSUME age' = age, UNCHANGED pc PROVE ends
  BY <1>3 DEF Leads
<1>4. ASSUME NEW w \in Workers, NEW l \in {"starting", "loop", "taking", "waiting", "ended", "releasing", "forgetting"},
             Goto(w, l), age' = age \/ age' = [age EXCEPT ![w] = 0]
      PROVE  ends
  BY <1>2, <1>4 DEF Goto, Leads
<1>5. ASSUME NEW w \in Workers, Run(w) \/ Launch(w) \/ Loop(w) \/ Wake(w) \/ Release(w) \/ ForgetToken(w) \/ Returns(w)
      PROVE  ends
  BY <1>4, <1>5, Zenon DEF Run, Launch, Loop, Wake, Release, ForgetToken, Returns, FnReturns
<1>6. ASSUME NEW w \in Workers, Hold(w) PROVE ends
  BY <1>2, <1>6, Zenon DEF Hold, Goto, Leads
<1>7. ASSUME NEW w \in Workers, Acquire(w) PROVE ends \/ Elections!Elect(w)
  <2>1. age' = [age EXCEPT ![w] = 0] /\ (Goto(w, "waiting") \/ (Goto(w, "granted") /\ lease[Key[w]].left = 0))
    <3>1. SetNX(Key[w], NewToken) => lease[Key[w]].left = 0
      BY DEF SetNX
    <3> QED BY <1>7, <3>1 DEF Acquire
  <2>2. CASE Goto(w, "waiting")
    <3>1. ends
      BY <1>4, <2>1, <2>2, Zenon
    <3> QED BY <3>1
  <2>3. CASE Goto(w, "granted") /\ lease[Key[w]].left = 0
    <3>1. Leads(w)' /\ \A v \in Workers : v # w => (Leads(v)' <=> Leads(v))
      BY <1>2, <2>1, <2>3 DEF Goto, Leads
    <3> QED BY <2>3, <3>1, Begins
  <2> QED BY <2>1, <2>2, <2>3
<1>8. ASSUME NEW w \in Workers, BeatDone(w) PROVE ends \/ Elections!Elect(w)
  <2>1. hb[w] = "busy" /\ UNCHANGED pc /\ (age' = age \/ (Owns(Key[w], hbtok[w]) /\ age' = [age EXCEPT ![w] = 0]))
    BY <1>8, Zenon DEF BeatDone
  <2>2. pc[w] = "running" /\ hbtok[w] = tok[w] /\ pc[w] \in Holding
    BY <2>1 DEF Beats, Holding
  <2>3. CASE Owns(Key[w], hbtok[w]) /\ age' = [age EXCEPT ![w] = 0]
    <3>1. Leads(w)' /\ \A v \in Workers : v # w => (Leads(v)' <=> Leads(v))
      BY <1>2, <2>1, <2>2, <2>3 DEF Leads
    <3> QED BY <2>2, <2>3, <3>1, Begins
  <2> QED BY <1>3, <2>1, <2>3
<1>9. CASE Tick
  <2>1. age' = [w \in Workers |-> IF tok[w] = NoToken THEN 0 ELSE Min(age[w] + 1, TTL)] /\ UNCHANGED <<pc, tok>>
    BY <1>9 DEF Tick
  <2>2. \A v \in Workers : Leads(v)' => tok[v] # NoToken
    BY <2>1 DEF Leads, Unique, Holding
  <2>3. \A v \in Workers : tok[v] # NoToken /\ age'[v] < TTL => age[v] < TTL
    BY <1>2, <2>1 DEF Min
  <2> QED BY <2>1, <2>2, <2>3 DEF Leads
<1>10. ASSUME NEW p \in Procs, Crash(p) PROVE ends
  BY <1>2, <1>10, Zenon DEF Crash, Leads
<1>11. ASSUME NEW w \in Workers, BeatRead(w) \/ Cancel(w) PROVE ends
  BY <1>3, <1>11 DEF BeatRead, Cancel
<1>12. ASSUME NEW p \in Procs, New(p) \/ Shutdown(p) \/ ShutdownReturns(p) \/ Drain(p) \/ DrainCloses(p) PROVE ends
  BY <1>3, <1>12, Zenon DEF New, Shutdown, ShutdownReturns, Drain, DrainCloses, workerVars
<1>13. CASE (\E r \in late : LateRenew(r)) \/ UNCHANGED vars
  BY <1>3, <1>13 DEF LateRenew, vars, workerVars
<1> HIDE DEF ends
<1> QED BY <1>5, <1>6, <1>7, <1>8, <1>9, <1>10, <1>11, <1>12, <1>13 DEF Next, Step, Beat

\* The supervisor over the lease, with its crashes, lost answers and delayed
\* renewals, implements Leadership.
THEOREM LeadershipImplemented == Separate => (Spec => ImplementsLeadership)
<1> SUFFICES ASSUME Separate PROVE Spec => ImplementsLeadership
  OBVIOUS
<1>1. Init => Elections!LInit
  BY DEF Init, Elections!LInit, Leads
<1>2. CoreInv /\ [Next]_vars => [Elections!LNext]_Leaders
  BY StepImplements
<1>3. Spec => []CoreInv
  BY CoreInvariant, PTL
<1> QED BY <1>1, <1>2, <1>3, PTL DEF Spec, ImplementsLeadership, Elections!LSpec, Leaders

-----------------------------------------------------------------------------
(* Charges, refunds and payouts of the bank: ReportsHold for any number of *)
(* callers and attempts, and NotDowngraded for the ladder of the           *)
(* connection, whatever optional products there are.                       *)

Kinds == {"charge", "refund", "payout"}

Removals == {"REMOVIDA_PSP", "REMOVIDA_RECEBEDOR"}

Cobs == [status : RawStatuses \cup {"none"}, amount : Amounts \cup {0}, paid : BOOLEAN]

BankCalls == [step : {"idle", "readback"}, report : Reports]

\* What the bank's charge may be: no payment before it exists, and a settled one
\* was paid.
CobOK(v) ==
    /\ v \in Cobs
    /\ v.status = "none" => ~v.paid
    /\ v.status = "CONCLUIDA" => v.paid

\* The status of an order is one that its kind can have.
OrderOK == order \in RawOrders /\ (kind = "payout" => order # "NAO_REALIZADO")

\* What a report says of the bank's order.
OrderTold(report) ==
    /\ kind = "refund" /\ report = "done" => order = "DEVOLVIDO"
    /\ kind = "refund" /\ report = "failed" => order = "NAO_REALIZADO"
    /\ kind = "payout" /\ report = "done" => order \in {"PAGO", "DEVOLVIDO"}
    /\ kind = "payout" /\ report = "failed" => order \in {"REJEITADO", "DEVOLVIDO"}

\* What a report says of the bank's state.
ReportOK(report) ==
    /\ report = "paid" => cob.paid
    /\ report \in {"expired", "removed"} => cob.status \in Removals /\ ~cob.paid
    /\ OrderTold(report)

BankingInv ==
    /\ kind \in Kinds
    /\ CobOK(cob)
    /\ OrderOK
    /\ bcall \in [Callers -> BankCalls]
    /\ \A c \in Callers : ReportOK(bcall[c].report)

\* A charge moves on: a payment is never taken back, a removed charge stays as
\* it is.
Later(v, w) ==
    /\ v.paid => w.paid
    /\ v.status \in Removals => w = v

-----------------------------------------------------------------------------
(* Lemmas.                                                                 *)

LEMMA ChargeOfSound ==
  ASSUME NEW v, CobOK(v), v.status # "none"
  PROVE  /\ ChargeOf(v) \in Reports \ {"done", "failed"}
         /\ ChargeOf(v) = "paid" => v.paid
         /\ ChargeOf(v) \in {"expired", "removed"} => v.status \in Removals /\ ~v.paid
<1>1. v.status \in RawStatuses /\ v.paid \in BOOLEAN
  BY DEF CobOK, Cobs
<1>2. CASE v.status = "OUTRO"
  BY <1>1, <1>2 DEF ChargeOf, Reports
<1>3. CASE v.status # "OUTRO" /\ (v.paid \/ v.status = "CONCLUIDA")
  BY <1>1, <1>3 DEF ChargeOf, Reports, CobOK
<1>4. CASE v.status = "ATIVA" /\ ~v.paid
  BY <1>1, <1>4 DEF ChargeOf, Reports
<1>5. CASE v.status = "REMOVIDA_PSP" /\ ~v.paid
  BY <1>1, <1>5 DEF ChargeOf, Reports, Removals
<1>6. CASE v.status = "REMOVIDA_RECEBEDOR" /\ ~v.paid
  BY <1>1, <1>6 DEF ChargeOf, Reports, Removals
<1> QED BY <1>1, <1>2, <1>3, <1>4, <1>5, <1>6 DEF RawStatuses

LEMMA CobvOK ==
  ASSUME NEW a \in Amounts
  PROVE  CobOK(Cobv("ATIVA", a, FALSE)) /\ Cobv("ATIVA", a, FALSE).status = "ATIVA"
BY DEF CobOK, Cobs, Cobv, RawStatuses

\* A method of the charge returns, or goes on to the read.
LEMMA ChargeReports ==
  ASSUME BankingInv, NEW c \in Callers, CobOK(cob'), Later(cob, cob'), UNCHANGED <<kind, order>>,
         NEW n \in BankCalls, bcall' = [bcall EXCEPT ![c] = n],
         n.report \in Reports \ {"done", "failed"},
         n.report = "paid" => cob'.paid,
         n.report \in {"expired", "removed"} => cob'.status \in Removals /\ ~cob'.paid
  PROVE  BankingInv'
<1>1. /\ bcall' \in [Callers -> BankCalls] /\ bcall'[c] = n
      /\ \A d \in Callers : d # c => bcall'[d] = bcall[d]
  BY DEF BankingInv
<1>2. OrderOK'
  BY DEF BankingInv, OrderOK
<1>3. ASSUME NEW d \in Callers PROVE ReportOK(bcall[d].report)'
  <2>1. CASE d = c
    BY <1>1, <2>1 DEF ReportOK, OrderTold
  <2>2. CASE d # c
    <3>1. bcall'[d] = bcall[d] /\ ReportOK(bcall[d].report)
      BY <1>1, <2>2 DEF BankingInv
    <3> QED BY <3>1 DEF ReportOK, OrderTold, Later
  <2> QED BY <2>1, <2>2
<1> QED BY <1>1, <1>2, <1>3 DEF BankingInv

LEMMA Answered ==
  ASSUME NEW r \in Reports, NEW st \in {"idle", "readback"}
  PROVE  [step |-> st, report |-> r] \in BankCalls /\ [step |-> st, report |-> r].report = r
BY DEF BankCalls

LEMMA SameCob == BankingInv => CobOK(cob) /\ Later(cob, cob)
BY DEF BankingInv, Later

LEMMA CreateKeeps ==
  ASSUME BankingInv, NEW c \in Callers, CreateDueCharge(c)
  PROVE  BankingInv'
<1>1. PICK a \in Amounts, reached \in BOOLEAN, answered \in BOOLEAN :
        LET puts == reached /\ cob.status = "none"
        IN  /\ cob' = IF puts THEN Cobv("ATIVA", a, FALSE) ELSE cob
            /\ IF puts /\ answered
               THEN Replies(c, ChargeOf(cob'))
               ELSE bcall' = [bcall EXCEPT ![c] = [step |-> "readback", report |-> "none"]]
  BY Zenon DEF CreateDueCharge
<1>2. CobOK(cob') /\ Later(cob, cob')
  BY <1>1, CobvOK, SameCob, Zenon DEF BankingInv, CobOK, Later, Removals
<1>3. UNCHANGED <<kind, order>>
  BY DEF CreateDueCharge
<1>4. CASE reached /\ cob.status = "none" /\ answered
  <2>1. cob'.status # "none"
    BY <1>1, <1>4, CobvOK, Zenon
  <2>2. bcall' = [bcall EXCEPT ![c] = [step |-> "idle", report |-> ChargeOf(cob')]]
    BY <1>1, <1>4, Zenon DEF Replies
  <2> QED BY <1>2, <1>3, <2>1, <2>2, ChargeOfSound, Answered, ChargeReports, Zenon
<1>5. CASE ~(reached /\ cob.status = "none" /\ answered)
  <2>1. "none" \in Reports \ {"done", "failed"}
    BY DEF Reports
  <2> QED BY <1>1, <1>2, <1>3, <1>5, <2>1, Answered, ChargeReports, Zenon
<1> QED BY <1>4, <1>5

\* A read of the charge: what was answered, or an error.
LEMMA ReadingKeeps ==
  ASSUME BankingInv, NEW c \in Callers, ReadBack(c) \/ GetCharge(c)
  PROVE  BankingInv'
<1>1. PICK answered \in BOOLEAN :
        Replies(c, IF answered /\ cob.status # "none" THEN ChargeOf(cob) ELSE "error")
  BY DEF ReadBack, GetCharge
<1>2. cob' = cob /\ UNCHANGED <<kind, order>>
  BY DEF ReadBack, GetCharge
<1>3. CASE answered /\ cob.status # "none"
  BY <1>1, <1>2, <1>3, SameCob, ChargeOfSound, Answered, ChargeReports, Zenon DEF Replies
<1>4. CASE ~(answered /\ cob.status # "none")
  <2>1. "error" \in Reports \ {"done", "failed"}
    BY DEF Reports
  <2> QED BY <1>1, <1>2, <1>4, <2>1, SameCob, Answered, ChargeReports, Zenon DEF Replies
<1> QED BY <1>3, <1>4

LEMMA UpdateChargeKeeps ==
  ASSUME BankingInv, NEW c \in Callers, UpdateCharge(c)
  PROVE  BankingInv'
<1>1. PICK a \in Amounts, reached \in BOOLEAN, answered \in BOOLEAN :
        LET patches == reached /\ cob.status = "ATIVA" /\ ~cob.paid
        IN  /\ cob' = IF patches THEN Cobv("ATIVA", a, FALSE) ELSE cob
            /\ Replies(c, IF patches /\ answered THEN ChargeOf(cob') ELSE "error")
  BY Zenon DEF UpdateCharge
<1>2. CobOK(cob') /\ Later(cob, cob')
  BY <1>1, CobvOK, SameCob, Zenon DEF BankingInv, CobOK, Later, Removals
<1>3. UNCHANGED <<kind, order>>
  BY DEF UpdateCharge
<1>4. CASE reached /\ cob.status = "ATIVA" /\ ~cob.paid /\ answered
  <2>1. cob'.status # "none"
    BY <1>1, <1>4, CobvOK, Zenon
  <2>2. bcall' = [bcall EXCEPT ![c] = [step |-> "idle", report |-> ChargeOf(cob')]]
    BY <1>1, <1>4 DEF Replies
  <2> QED BY <1>2, <1>3, <2>1, <2>2, ChargeOfSound, Answered, ChargeReports
<1>5. CASE ~(reached /\ cob.status = "ATIVA" /\ ~cob.paid /\ answered)
  <2>1. "error" \in Reports \ {"done", "failed"}
    BY DEF Reports
  <2> QED BY <1>1, <1>2, <1>3, <1>5, <2>1, Answered, ChargeReports, Zenon DEF Replies
<1> QED BY <1>4, <1>5

\* The bank's charge with another status, or paid.
LEMMA CobMoves ==
  ASSUME BankingInv, NEW st \in RawStatuses, cob.status \notin Removals, cob.status # "none",
         st = "CONCLUIDA" => cob.paid
  PROVE  LET w == [cob EXCEPT !.status = st] IN CobOK(w) /\ Later(cob, w) /\ w.paid = cob.paid
BY DEF BankingInv, CobOK, Cobs, Later, RawStatuses

LEMMA CancelKeeps ==
  ASSUME BankingInv, NEW c \in Callers, CancelCharge(c)
  PROVE  BankingInv'
<1>1. PICK reached \in BOOLEAN, answered \in BOOLEAN :
        LET removes == reached /\ cob.status = "ATIVA"
        IN  /\ cob' = IF removes THEN [cob EXCEPT !.status = "REMOVIDA_RECEBEDOR"] ELSE cob
            /\ Replies(c, IF removes /\ answered THEN "ok" ELSE "error")
  BY DEF CancelCharge
<1>2. CobOK(cob') /\ Later(cob, cob')
  BY <1>1, CobMoves, SameCob DEF RawStatuses, Removals
<1>3. UNCHANGED <<kind, order>>
  BY DEF CancelCharge
<1>4. "ok" \in Reports \ {"done", "failed"} /\ "error" \in Reports \ {"done", "failed"}
  BY DEF Reports
<1> QED BY <1>1, <1>2, <1>3, <1>4, Answered, ChargeReports, Zenon DEF Replies

LEMMA BankActsKeeps ==
  ASSUME BankingInv, BankActs
  PROVE  BankingInv'
<1>1. CobOK(cob') /\ Later(cob, cob')
  <2>1. CASE cob.status = "ATIVA" /\ ~cob.paid /\ cob' = [cob EXCEPT !.paid = TRUE]
    BY <2>1, Zenon DEF BankingInv, CobOK, Cobs, Later, Removals
  <2>2. CASE cob.status \in {"ATIVA", "OUTRO"} /\ cob.paid /\ cob' = [cob EXCEPT !.status = "CONCLUIDA"]
    BY <2>2, CobMoves, Zenon DEF RawStatuses, Removals
  <2>3. CASE cob.status = "ATIVA" /\ cob' = [cob EXCEPT !.status = "REMOVIDA_PSP"]
    BY <2>3, CobMoves DEF RawStatuses, Removals
  <2>4. CASE cob.status = "ATIVA" /\ cob' = [cob EXCEPT !.status = "OUTRO"]
    BY <2>4, CobMoves DEF RawStatuses, Removals
  <2>5. CASE cob.status = "OUTRO" /\ cob' = [cob EXCEPT !.status = "ATIVA"]
    BY <2>5, CobMoves DEF RawStatuses, Removals
  <2> QED BY <2>1, <2>2, <2>3, <2>4, <2>5 DEF BankActs
<1>2. UNCHANGED <<kind, order, bcall>>
  BY DEF BankActs
<1> QED BY <1>1, <1>2 DEF BankingInv, OrderOK, ReportOK, OrderTold, Later

\* An order moves on: what was decided stays decided, and the same way, except
\* that a payout may come back.
Settling ==
    /\ OrderOK' /\ UNCHANGED <<kind, cob>>
    /\ \A report \in Reports : OrderTold(report) => OrderTold(report)'

\* A method of a refund or a payout returns.
LEMMA OrderReports ==
  ASSUME BankingInv, NEW c \in Callers, Settling,
         NEW r \in Reports \ {"paid", "expired", "removed"}, Replies(c, r), OrderTold(r)'
  PROVE  BankingInv'
<1> DEFINE n == [step |-> "idle", report |-> r]
<1>1. n \in BankCalls /\ n.report = r
  BY Answered, Zenon
<1>2. bcall' = [bcall EXCEPT ![c] = n]
  BY DEF Replies
<1> HIDE DEF n
<1>3. /\ bcall' \in [Callers -> BankCalls] /\ bcall'[c] = n
      /\ \A d \in Callers : d # c => bcall'[d] = bcall[d]
  BY <1>1, <1>2 DEF BankingInv
<1>4. ASSUME NEW d \in Callers PROVE ReportOK(bcall[d].report)'
  <2>1. CASE d = c
    BY <1>1, <1>3, <2>1 DEF ReportOK
  <2>2. CASE d # c
    <3>1. bcall'[d] = bcall[d] /\ ReportOK(bcall[d].report) /\ bcall[d].report \in Reports
      BY <1>3, <2>2 DEF BankingInv, BankCalls
    <3> QED BY <3>1 DEF ReportOK, Settling
  <2> QED BY <2>1, <2>2
<1> QED BY <1>3, <1>4 DEF BankingInv, Settling

\* The bank takes an order it does not have yet.
LEMMA AcceptsSettles ==
  ASSUME BankingInv, NEW taken \in BOOLEAN, Accepts(taken), UNCHANGED <<kind, cob>>
  PROVE  Settling
BY DEF BankingInv, OrderOK, OrderTold, Settling, Accepts, RawOrders

LEMMA SameOrder ==
  ASSUME BankingInv, UNCHANGED <<kind, cob, order>>
  PROVE  Settling
BY DEF BankingInv, OrderOK, OrderTold, Settling

LEMMA RefundOfSound ==
  ASSUME NEW raw
  PROVE  /\ RefundOf(raw) \in Reports \ {"paid", "expired", "removed"}
         /\ RefundOf(raw) = "done" => raw = "DEVOLVIDO"
         /\ RefundOf(raw) = "failed" => raw = "NAO_REALIZADO"
BY DEF RefundOf, Reports

LEMMA PayoutStatusSound ==
  ASSUME NEW raw
  PROVE  /\ PayoutStatus(raw) \in Reports \ {"paid", "expired", "removed"}
         /\ PayoutStatus(raw) = "done" => raw = "PAGO"
         /\ PayoutStatus(raw) = "failed" => raw \in {"REJEITADO", "DEVOLVIDO", "NAO_REALIZADO"}
BY DEF PayoutStatus, Reports

\* Reports that say nothing of the order.
LEMMA Undecided ==
  ASSUME NEW r \in {"processing", "nokey", "error"}
  PROVE  r \in Reports \ {"paid", "expired", "removed"} /\ OrderTold(r)'
BY DEF Reports, OrderTold

LEMMA PayoutKeeps ==
  ASSUME BankingInv, NEW c \in Callers, Payout(c)
  PROVE  BankingInv'
<1>1. PICK taken \in BOOLEAN, r \in {"processing", "nokey", "error"} : Accepts(taken) /\ Replies(c, r)
  <2>1. PICK reached \in BOOLEAN, answered \in BOOLEAN, found \in BOOLEAN :
          LET taken == found \/ order # "none"
          IN  /\ Accepts(reached /\ taken)
              /\ Replies(c, CASE reached /\ answered /\ taken -> "processing"
                              [] reached /\ answered /\ ~taken -> "nokey"
                              [] ~(reached /\ answered) -> "error")
    BY Zenon DEF Payout
  <2> DEFINE told == CASE reached /\ answered /\ (found \/ order # "none") -> "processing"
                       [] reached /\ answered /\ ~(found \/ order # "none") -> "nokey"
                       [] ~(reached /\ answered) -> "error"
  <2>2. told \in {"processing", "nokey", "error"}
    OBVIOUS
  <2>3. Accepts(reached /\ (found \/ order # "none")) /\ Replies(c, told)
    BY <2>1
  <2>4. (reached /\ (found \/ order # "none")) \in BOOLEAN
    OBVIOUS
  <2> HIDE DEF told
  <2> QED BY <2>2, <2>3, <2>4, Zenon
<1>2. UNCHANGED <<kind, cob>>
  BY DEF Payout
<1>3. Settling
  BY <1>1, <1>2, AcceptsSettles
<1> QED BY <1>1, <1>3, Undecided, OrderReports

\* A report made from the status of the order is true of it.
LEMMA OrderOfTold ==
  ASSUME OrderOK'
  PROVE  /\ kind' = "refund" => OrderTold(RefundOf(order))'
         /\ kind' = "payout" => OrderTold(PayoutStatus(order))'
BY RefundOfSound, PayoutStatusSound DEF OrderTold, OrderOK

LEMMA RefundKeeps ==
  ASSUME BankingInv, NEW c \in Callers, Refund(c)
  PROVE  BankingInv'
<1>1. PICK reached \in BOOLEAN, answered \in BOOLEAN :
        /\ Accepts(reached)
        /\ Replies(c, IF reached /\ answered THEN RefundOf(order') ELSE "error")
  BY DEF Refund
<1>2. kind' = "refund" /\ UNCHANGED <<kind, cob>>
  BY DEF Refund
<1>3. Settling
  BY <1>1, <1>2, AcceptsSettles
<1>4. CASE reached /\ answered
  <2>1. Replies(c, RefundOf(order')) /\ RefundOf(order') \in Reports \ {"paid", "expired", "removed"}
    BY <1>1, <1>4, RefundOfSound
  <2>2. OrderTold(RefundOf(order))'
    BY <1>2, <1>3, OrderOfTold DEF Settling
  <2> QED BY <1>3, <2>1, <2>2, OrderReports DEF OrderTold
<1>5. CASE ~(reached /\ answered)
  BY <1>1, <1>3, <1>5, Undecided, OrderReports
<1> QED BY <1>4, <1>5

LEMMA GetOrderKeeps ==
  ASSUME BankingInv, NEW c \in Callers, GetPayout(c) \/ GetRefund(c)
  PROVE  BankingInv'
<1>1. UNCHANGED <<kind, cob, order>> /\ Settling
  BY SameOrder DEF GetPayout, GetRefund
<1>2. \/ Replies(c, "error")
      \/ kind = "payout" /\ Replies(c, PayoutStatus(order'))
      \/ kind = "refund" /\ Replies(c, RefundOf(order'))
  BY DEF GetPayout, GetRefund
<1>3. CASE Replies(c, "error")
  BY <1>1, <1>3, Undecided, OrderReports
<1>4. CASE kind = "payout" /\ Replies(c, PayoutStatus(order'))
  <2>1. PayoutStatus(order') \in Reports \ {"paid", "expired", "removed"}
    BY PayoutStatusSound
  <2>2. OrderTold(PayoutStatus(order))'
    BY <1>1, <1>4, OrderOfTold DEF Settling
  <2> QED BY <1>1, <1>4, <2>1, <2>2, OrderReports DEF OrderTold
<1>5. CASE kind = "refund" /\ Replies(c, RefundOf(order'))
  <2>1. RefundOf(order') \in Reports \ {"paid", "expired", "removed"}
    BY RefundOfSound
  <2>2. OrderTold(RefundOf(order))'
    BY <1>1, <1>5, OrderOfTold DEF Settling
  <2> QED BY <1>1, <1>5, <2>1, <2>2, OrderReports DEF OrderTold
<1> QED BY <1>2, <1>3, <1>4, <1>5

LEMMA BankSettlesKeeps ==
  ASSUME BankingInv, BankSettles
  PROVE  BankingInv'
<1>1. PICK raw \in RawOrders :
        /\ \/ order \in {"EM_PROCESSAMENTO", "OUTRO"} /\ raw \in {PaidRaw, NotDone}
           \/ order = "EM_PROCESSAMENTO" /\ raw = "OUTRO"
           \/ kind = "payout" /\ order = "PAGO" /\ raw = "DEVOLVIDO"
        /\ order' = raw
  BY Zenon DEF BankSettles
<1>2. UNCHANGED <<kind, cob, bcall>>
  BY DEF BankSettles
<1>3. OrderOK'
  BY <1>1, <1>2 DEF BankingInv, OrderOK, PaidRaw, NotDone
<1>4. \A report : OrderTold(report) => OrderTold(report)'
  BY <1>1, <1>2 DEF OrderTold
<1> QED BY <1>2, <1>3, <1>4 DEF BankingInv, ReportOK

LEMMA BankingStart == BankingInit => BankingInv
<1> SUFFICES ASSUME BankingInit PROVE BankingInv
  OBVIOUS
<1>1. "none" \in Reports /\ "none" \in RawOrders
  BY DEF Reports, RawOrders
<1>2. bcall \in [Callers -> BankCalls] /\ \A c \in Callers : bcall[c].report = "none"
  BY <1>1, Answered, Zenon DEF BankingInit, Unstarted
<1>3. CobOK(cob)
  BY DEF BankingInit, NoCharge, CobOK, Cobs
<1>4. OrderOK
  BY <1>1 DEF BankingInit, OrderOK
<1> QED BY <1>2, <1>3, <1>4 DEF BankingInit, BankingInv, Kinds, ReportOK, OrderTold

LEMMA BankingStep == BankingInv /\ [BankingNext]_bkvars => BankingInv'
<1> SUFFICES ASSUME BankingInv, [BankingNext]_bkvars PROVE BankingInv'
  OBVIOUS
<1>1. CASE UNCHANGED bkvars
  BY <1>1 DEF BankingInv, OrderOK, ReportOK, OrderTold, bkvars
<1> QED BY <1>1, CreateKeeps, ReadingKeeps, UpdateChargeKeeps, CancelKeeps, PayoutKeeps, RefundKeeps,
           GetOrderKeeps, BankActsKeeps, BankSettlesKeeps DEF BankingNext

\* The inductive invariant of the bank's charge and order and of what callers
\* were told of them.
THEOREM BankingInvariant == BankingSpec => []BankingInv
BY BankingStart, BankingStep, PTL DEF BankingSpec

\* A decisive report of chargeOf, payoutStatus or refundOf is true and stays so.
THEOREM ReportsAlwaysHold == BankingSpec => []ReportsHold
<1>1. BankingInv => ReportsHold
  BY DEF BankingInv, ReportOK, OrderTold, ReportsHold, Removals
<1> QED BY <1>1, BankingInvariant, PTL

-----------------------------------------------------------------------------
(* Connect.  Every rung above the present one was refused by the bank, so  *)
(* it is not within the ticked scopes or the secret is wrong, unless some  *)
(* answer was one that statusErr has no name for.  What FetchToken and the *)
(* ladder guarantee of a rung goes into the invariant with the scopes that *)
(* the token grants.                                                       *)

TokenErrs == {"ErrUnavailable", "ErrCredentialsRefused", "ErrUnauthorized", "ErrScopesRefused",
              "ErrNotFound", "ErrConcluded", "ErrRateLimited", "ErrInvalidRequest"}

ConnSteps == {"pair", "badpair", "token", "balance", "connected", "nobalance", "unread"} \cup TokenErrs

Conns == [ticked : SUBSET Everything, secret : BOOLEAN, rung : 1..3, granted : SUBSET Everything,
          step : ConnSteps, odd : BOOLEAN]

\* The bank grants rung r in full.
Grants(r) == conn.secret /\ Ladder[r] \subseteq conn.ticked

ConnInv ==
    /\ conn \in Conns
    /\ ~conn.odd => \A r \in 1..3 : r < conn.rung => ~Grants(r)
    /\ conn.step \in {"balance", "connected"} =>
         /\ conn.secret /\ conn.granted = Ladder[conn.rung] \cap conn.ticked
         /\ "statement" \in Capabilities(conn.granted)
    /\ conn.step \in {"ErrCredentialsRefused", "unread"} => ~Grants(3)

\* Each rung of Connect's ladder is part of the one above.
LEMMA LadderIs ==
  /\ Len(Ladder) = 3 /\ DOMAIN Ladder = 1..3 /\ Ladder[3] = ScopesFor("statement")
  /\ \A r \in 1..3 : Ladder[r] \subseteq Everything
  /\ \A r, q \in 1..3 : r <= q => Ladder[q] \subseteq Ladder[r]
<1> DEFINE s == ScopesFor("statement")
           b == ScopesFor("statement") \cup ScopesFor("collection")
<1>1. s \subseteq b /\ b \subseteq Everything
  BY DEF Everything, Products
<1>2. Ladder = <<Everything, b, s>>
  BY DEF Ladder
<1> HIDE DEF s, b
<1> QED BY <1>1, <1>2 DEF s

LEMMA CapableIs ==
  ASSUME NEW granted
  PROVE  "statement" \in Capabilities(granted) <=> Ladder[3] \subseteq granted
BY LadderIs DEF Capabilities, Products

LEMMA GoesTyped ==
  ASSUME conn \in Conns, NEW r \in 1..3, NEW granted \in SUBSET Everything, NEW st \in ConnSteps,
         NEW odd \in BOOLEAN, Goes(r, granted, st, odd)
  PROVE  /\ conn' \in Conns /\ conn'.rung = r /\ conn'.step = st /\ conn'.granted = granted
         /\ conn'.odd = odd /\ conn'.ticked = conn.ticked /\ conn'.secret = conn.secret
BY DEF Goes, Connection, Conns

LEMMA ConnFields ==
  ASSUME ConnInv
  PROVE  /\ conn \in Conns /\ conn.ticked \subseteq Everything /\ conn.secret \in BOOLEAN
         /\ conn.rung \in 1..3 /\ conn.granted \in SUBSET Everything /\ conn.odd \in BOOLEAN
BY DEF ConnInv, Conns

\* The integration at the bank stays as it is.
LEMMA SameGrants ==
  ASSUME conn'.ticked = conn.ticked, conn'.secret = conn.secret
  PROVE  \A r \in 1..3 : Grants(r)' = Grants(r)
BY DEF Grants

LEMMA InspectPairKeeps ==
  ASSUME ConnInv, InspectPair
  PROVE  ConnInv'
<1>1. PICK st \in {"token", "badpair"} : Goes(1, {}, st, FALSE)
  BY DEF InspectPair
<1>2. st \in ConnSteps /\ {} \in SUBSET Everything /\ 1 \in 1..3
  BY DEF ConnSteps
<1>3. conn' \in Conns /\ conn'.rung = 1 /\ conn'.step = st
  BY <1>1, <1>2, ConnFields, GoesTyped
<1> QED BY <1>3 DEF ConnInv

LEMMA FetchTokenKeeps ==
  ASSUME ConnInv, FetchToken
  PROVE  ConnInv'
<1> DEFINE granted == Ladder[conn.rung] \cap conn.ticked
           st == IF "statement" \in Capabilities(granted) THEN "balance" ELSE "unread"
<1>1. Goes(conn.rung, granted, st, conn.odd) /\ conn.secret
  BY DEF FetchToken, Serves
<1>2. granted \in SUBSET Everything /\ st \in ConnSteps
  BY ConnFields, LadderIs DEF ConnSteps
<1>3. "statement" \notin Capabilities(granted) => ~Grants(3)
  BY ConnFields, LadderIs, CapableIs DEF Grants
<1>4. st \in {"balance", "unread"} /\ (st = "balance" <=> "statement" \in Capabilities(granted))
  OBVIOUS
<1> HIDE DEF granted, st
<1>5. /\ conn' \in Conns /\ conn'.rung = conn.rung /\ conn'.step = st /\ conn'.granted = granted
      /\ conn'.odd = conn.odd /\ conn'.ticked = conn.ticked /\ conn'.secret = conn.secret
  BY <1>1, <1>2, ConnFields, GoesTyped
<1>6. \A r \in 1..3 : Grants(r)' = Grants(r)
  BY <1>5, SameGrants
<1>7. granted = Ladder[conn'.rung] \cap conn'.ticked
  BY <1>5 DEF granted
<1>8. conn'.step \in {"balance", "connected"} =>
        conn'.secret /\ conn'.granted = granted /\ "statement" \in Capabilities(conn'.granted)
  BY <1>1, <1>4, <1>5
<1>9. conn'.step \in {"ErrCredentialsRefused", "unread"} => ~Grants(3)'
  BY <1>3, <1>4, <1>5, <1>6
<1>10. ~conn'.odd => \A r \in 1..3 : r < conn'.rung => ~Grants(r)'
  BY <1>5, <1>6 DEF ConnInv
<1> QED BY <1>5, <1>7, <1>8, <1>9, <1>10 DEF ConnInv, Capabilities

\* What the class of an answer says of the bank: only 400, 401 and 403 are read
\* as a refusal, and an answer without a name as the caller's mistake.
LEMMA TokenErrIs ==
  ASSUME NEW code \in Inconclusive \cup {400, 401, 403}
  PROVE  /\ TokenErr(code) \in TokenErrs
         /\ TokenErr(code) = "ErrCredentialsRefused" => code \notin Inconclusive
         /\ StepsDown(TokenErr(code)) /\ TokenErr(code) # "ErrInvalidRequest" => code \notin Inconclusive
BY DEF TokenErr, StatusErr, TokenErrs, StepsDown, Inconclusive

LEMMA TokenFailsKeeps ==
  ASSUME ConnInv, TokenFails
  PROVE  ConnInv'
<1>1. PICK code \in Inconclusive \cup {400, 401, 403} :
        LET err == TokenErr(code)
            odd == conn.odd \/ err = "ErrInvalidRequest"
        IN  /\ code \in Inconclusive \/ Refuses(Ladder[conn.rung])
            /\ IF StepsDown(err) /\ conn.rung < Len(Ladder)
               THEN Goes(conn.rung + 1, {}, "token", odd)
               ELSE Goes(conn.rung, {}, err, odd)
  BY Zenon DEF TokenFails
<1> DEFINE err == TokenErr(code)
           odd == conn.odd \/ err = "ErrInvalidRequest"
<1>2. /\ code \in Inconclusive \/ ~Grants(conn.rung)
      /\ IF StepsDown(err) /\ conn.rung < 3
         THEN Goes(conn.rung + 1, {}, "token", odd)
         ELSE Goes(conn.rung, {}, err, odd)
  BY <1>1, LadderIs DEF Refuses, Grants
<1>3. /\ err \in TokenErrs
      /\ err = "ErrCredentialsRefused" => ~Grants(conn.rung)
      /\ StepsDown(err) /\ err # "ErrInvalidRequest" => ~Grants(conn.rung)
  BY <1>2, TokenErrIs
<1>4. odd \in BOOLEAN /\ {} \in SUBSET Everything /\ "token" \in ConnSteps /\ err \in ConnSteps
  BY <1>3, ConnFields DEF ConnSteps
<1>5. err \notin {"balance", "connected", "unread"}
  BY <1>3 DEF TokenErrs
<1>6. ~odd => ~conn.odd /\ err # "ErrInvalidRequest"
  OBVIOUS
<1> HIDE DEF err, odd
<1>7. CASE StepsDown(err) /\ conn.rung < 3
  <2>1. conn.rung + 1 \in 1..3
    BY <1>7, ConnFields
  <2>2. /\ conn' \in Conns /\ conn'.rung = conn.rung + 1 /\ conn'.step = "token" /\ conn'.odd = odd
        /\ conn'.ticked = conn.ticked /\ conn'.secret = conn.secret
    BY <1>2, <1>4, <1>7, <2>1, ConnFields, GoesTyped
  <2>3. \A r \in 1..3 : Grants(r)' = Grants(r)
    BY <2>2, SameGrants
  <2>4. ASSUME ~odd, NEW r \in 1..3, r < conn.rung + 1 PROVE ~Grants(r)
    <3>1. r < conn.rung \/ r = conn.rung
      BY <2>4, ConnFields
    <3> QED BY <1>3, <1>6, <1>7, <2>4, <3>1 DEF ConnInv
  <2> QED BY <2>2, <2>3, <2>4 DEF ConnInv
<1>8. CASE ~(StepsDown(err) /\ conn.rung < 3)
  <2>1. /\ conn' \in Conns /\ conn'.rung = conn.rung /\ conn'.step = err /\ conn'.odd = odd
        /\ conn'.ticked = conn.ticked /\ conn'.secret = conn.secret
    BY <1>2, <1>4, <1>8, ConnFields, GoesTyped
  <2>2. \A r \in 1..3 : Grants(r)' = Grants(r)
    BY <2>1, SameGrants
  <2>3. err = "ErrCredentialsRefused" => ~Grants(3)
    <3>1. err = "ErrCredentialsRefused" => conn.rung = 3
      BY <1>8, ConnFields DEF StepsDown
    <3> QED BY <1>3, <3>1
  <2>4. ~odd => \A r \in 1..3 : r < conn.rung => ~Grants(r)
    BY <1>6 DEF ConnInv
  <2>5. ~conn'.odd => \A r \in 1..3 : r < conn'.rung => ~Grants(r)'
    BY <2>1, <2>2, <2>4
  <2>6. /\ conn'.step \notin {"balance", "connected"}
        /\ conn'.step \in {"ErrCredentialsRefused", "unread"} => ~Grants(3)'
    BY <1>5, <2>1, <2>2, <2>3
  <2> QED BY <2>1, <2>5, <2>6 DEF ConnInv
<1> QED BY <1>7, <1>8

LEMMA CheckBalanceKeeps ==
  ASSUME ConnInv, CheckBalance
  PROVE  ConnInv'
<1>1. PICK st \in {"connected", "nobalance"} : Goes(conn.rung, conn.granted, st, conn.odd)
  BY DEF CheckBalance
<1>2. st \in ConnSteps /\ conn.step = "balance"
  BY DEF CheckBalance, ConnSteps
<1>3. /\ conn' \in Conns /\ conn'.rung = conn.rung /\ conn'.step = st /\ conn'.granted = conn.granted
      /\ conn'.odd = conn.odd /\ conn'.ticked = conn.ticked /\ conn'.secret = conn.secret
  BY <1>1, <1>2, ConnFields, GoesTyped
<1>4. \A r \in 1..3 : Grants(r)' = Grants(r)
  BY <1>3, SameGrants
<1> QED BY <1>2, <1>3, <1>4 DEF ConnInv, Capabilities

\* The inductive invariant of Connect's way down the ladder: unless an answer had
\* no name, every rung above the present one is beyond what the integration has;
\* and a token grants what is both asked for and ticked, the statement included.
THEOREM ConnInvariant == LoopsSpec => []ConnInv
<1>1. LoopsInit => ConnInv
  <2> SUFFICES ASSUME LoopsInit PROVE ConnInv
    OBVIOUS
  <2>1. PICK ticked \in SUBSET Everything, secret \in BOOLEAN : conn = Connection(ticked, secret, 1, {}, "pair", FALSE)
    BY DEF LoopsInit
  <2>2. conn \in Conns /\ conn.rung = 1 /\ conn.step = "pair"
    BY <2>1 DEF Connection, Conns, ConnSteps
  <2> QED BY <2>2 DEF ConnInv
<1>2. ConnInv /\ [LoopsNext]_lpvars => ConnInv'
  <2> SUFFICES ASSUME ConnInv, [LoopsNext]_lpvars PROVE ConnInv'
    OBVIOUS
  <2>1. CASE UNCHANGED conn
    BY <2>1 DEF ConnInv, Grants, Capabilities
  <2> QED BY <2>1, InspectPairKeeps, FetchTokenKeeps, TokenFailsKeeps, CheckBalanceKeeps, Zenon
          DEF LoopsNext, ListPage, lpvars
<1> QED BY <1>1, <1>2, PTL DEF LoopsSpec

\* Connect never stores an integration as smaller than it is because a token call
\* failed, and never as larger; it calls the credentials or the scopes wrong only
\* when they are.  This holds for every set of optional products, and excepts the
\* answers that statusErr has no name for, which step down as a refusal does.
THEOREM NeverDowngraded == LoopsSpec => []NotDowngraded
<1>1. ConnInv => NotDowngraded
  <2> SUFFICES ASSUME ConnInv PROVE NotDowngraded
    OBVIOUS
  <2>1. ASSUME conn.step = "connected", ~conn.odd, NEW r \in 1..3, Ladder[r] \subseteq conn.ticked
        PROVE  Ladder[r] \subseteq conn.granted
    <3>1. conn.secret /\ conn.granted = Ladder[conn.rung] \cap conn.ticked
      BY <2>1 DEF ConnInv
    <3>2. ~(r < conn.rung)
      BY <2>1, <3>1 DEF ConnInv, Grants
    <3>3. Ladder[r] \subseteq Ladder[conn.rung]
      BY <3>2, ConnFields, LadderIs
    <3> QED BY <2>1, <3>1, <3>3
  <2>2. conn.step = "connected" => /\ conn.secret /\ conn.granted \subseteq conn.ticked
                                   /\ "statement" \in Capabilities(conn.granted)
    BY DEF ConnInv
  <2>3. conn.step \in {"ErrCredentialsRefused", "unread"} =>
          ~conn.secret \/ "statement" \notin Capabilities(conn.ticked)
    BY CapableIs DEF ConnInv, Grants
  <2> QED BY <2>1, <2>2, <2>3, LadderIs DEF NotDowngraded, FullScopes
<1> QED BY <1>1, ConnInvariant, PTL

=============================================================================

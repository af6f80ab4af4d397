---------------------------- MODULE LimitProofs -----------------------------
(***************************************************************************)
(* What the limiters admit, for every value of the constants: the windows  *)
(* of a store, Lockout, and the token bucket of a process.                 *)
(***************************************************************************)
EXTENDS Limiter, Bucket, FiniteSetTheorems, TLAPS

-----------------------------------------------------------------------------
(* The limiters and Lockout: BudgetKept and RetryNotEarly for any limits,  *)
(* windows and number of requests. A request that has passed the check and *)
(* is not counted yet is one of those that may overdraw the budget, so the *)
(* budget and the requests on their way to it are counted together; a      *)
(* request that was refused knows a bound of what is left of the window.   *)

Policies == {"all", "failures", "successes", "lockout"}

ReqPcs == {"idle", "seedtake", "incrtake", "count", "ttl", "seed", "incr", "handler", "reset",
           "unblock", "unfail", "done", "denied", "unavailable"}

Vals == [n : Nat, left : Nat]

Requests == [pc : ReqPcs, key : Keys, told : Nat, open : BOOLEAN]

LimiterTypeOK ==
    /\ policy \in Policies /\ spent \in Nat
    /\ counter \in [Keys -> Vals]
    /\ req \in [Reqs -> Requests]

\* A counter that does not exist is 0; one that does was given its period.
CounterOK(k) ==
    /\ counter[k].left = 0 => counter[k].n = 0
    /\ counter[k].left <= Period(k) \/ counter[k].left = Forever

\* Which keys a request of each policy works on.
Place(c) ==
    /\ c.pc \in {"seedtake", "incrtake"} => policy = "all" /\ c.key = "main"
    /\ c.pc = "count" => policy # "all" /\ c.key = IF policy = "lockout" THEN "block" ELSE "main"
    /\ c.pc \in {"seed", "incr"} =>
          \/ policy \in {"failures", "successes"} /\ c.key = "main"
          \/ policy = "lockout" /\ c.key \in {"fail", "block"}
    /\ c.pc \in {"reset", "unblock", "unfail"} => policy = "lockout"

\* The window that refused a request is there, and ends before the retry.
OpenOK(c) ==
    c.open =>
        /\ c.pc \in {"ttl", "denied"} /\ c.key \in {"main", "block"}
        /\ counter[c.key].left > 0
        /\ c.pc = "denied" => counter[c.key].left = Forever \/ c.told >= counter[c.key].left

Passed == {r \in Reqs : req[r].pc \in {"handler", "seed", "incr"}}

Seeders == {r \in Reqs : req[r].pc = "seed" /\ req[r].key = "block"}

TakeOK ==
    policy = "all" => spent <= MaxRequests /\ (counter["main"].left > 0 => spent <= counter["main"].n)

CountOK ==
    policy \in {"failures", "successes"} /\ ~excused =>
        counter["main"].n + Cardinality(Passed) < MaxRequests + Cardinality(Reqs)

LockoutOK ==
    policy = "lockout" /\ ~excused =>
        /\ counter["fail"].left > 0 => spent <= counter["fail"].n
        /\ counter["block"].left > 0 => spent = 0
        /\ spent < Threshold + Cardinality(Seeders)

PlacesOK == \A r \in Reqs : Place(req[r])

OpensOK == \A r \in Reqs : OpenOK(req[r])

CountersOK == \A k \in Keys : CounterOK(k)

LimiterInv == LimiterTypeOK /\ CountersOK /\ PlacesOK /\ OpensOK /\ TakeOK /\ CountOK /\ LockoutOK

LEMMA PeriodTyped ==
  /\ Forever \in Nat /\ Forever > 0
  /\ \A k \in Keys : Period(k) \in Nat /\ Period(k) > 0 /\ Period(k) < Forever
BY LimiterAssumption DEF Forever, Period

LEMMA ValIs ==
  ASSUME NEW n \in Nat, NEW left \in Nat
  PROVE  Val(n, left) \in Vals /\ Val(n, left).n = n /\ Val(n, left).left = left
BY DEF Val, Vals

LEMMA RequestIs ==
  ASSUME NEW pc \in ReqPcs, NEW key \in Keys, NEW told \in Nat, NEW open \in BOOLEAN
  PROVE  LET c == Request(pc, key, told, open)
         IN  c \in Requests /\ c.pc = pc /\ c.key = key /\ c.told = told /\ c.open = open
BY DEF Request, Requests

LEMMA RequestsIs ==
  ASSUME NEW c \in Requests
  PROVE  c.pc \in ReqPcs /\ c.key \in Keys /\ c.told \in Nat /\ c.open \in BOOLEAN
BY DEF Requests

LEMMA CounterIs ==
  ASSUME LimiterTypeOK, NEW k \in Keys
  PROVE  counter[k] \in Vals /\ counter[k].n \in Nat /\ counter[k].left \in Nat
BY DEF LimiterTypeOK, Vals

LEMMA MoveIs ==
  ASSUME req \in [Reqs -> Requests], NEW r \in Reqs, NEW c \in Requests, Move(r, c)
  PROVE  /\ req' \in [Reqs -> Requests] /\ req'[r] = c
         /\ \A q \in Reqs \ {r} : req'[q] = req[q]
BY DEF Move

LEMMA GotoIs ==
  ASSUME req \in [Reqs -> Requests], NEW r \in Reqs, NEW pc \in ReqPcs, NEW key \in Keys, Goto(r, pc, key)
  PROVE  /\ req' \in [Reqs -> Requests] /\ req'[r].pc = pc /\ req'[r].key = key /\ ~req'[r].open
         /\ \A q \in Reqs \ {r} : req'[q] = req[q]
<1> DEFINE c == Request(pc, key, 0, FALSE)
<1>1. c \in Requests /\ c.pc = pc /\ c.key = key /\ ~c.open
  BY DEF Request, Requests
<1>2. Move(r, c)
  BY Zenon DEF Goto
<1> HIDE DEF c
<1> QED BY <1>1, <1>2, MoveIs

\* The counters that refused somebody stay as they are while they live.
Steady == \A k \in {"main", "block"} : counter[k].left > 0 => counter'[k].left = counter[k].left

LEMMA OneMoves ==
  ASSUME LimiterInv, NEW r \in Reqs, \A q \in Reqs \ {r} : req'[q] = req[q], policy' = policy, Steady,
         Place(req[r])', OpenOK(req[r])'
  PROVE  PlacesOK' /\ OpensOK'
<1>1. ASSUME NEW q \in Reqs PROVE Place(req[q])' /\ OpenOK(req[q])'
  <2>1. CASE q = r
    BY <2>1
  <2>2. CASE q # r
    <3>1. req'[q] = req[q] /\ Place(req[q]) /\ OpenOK(req[q])
      BY <2>2 DEF LimiterInv, PlacesOK, OpensOK
    <3>2. Place(req[q])'
      BY <3>1 DEF Place
    <3>3. OpenOK(req[q])'
      BY <3>1 DEF OpenOK, Steady
    <3> QED BY <3>2, <3>3
  <2> QED BY <2>1, <2>2
<1> QED BY <1>1 DEF PlacesOK, OpensOK

LEMMA SomeReqs ==
  ASSUME NEW S \in SUBSET Reqs
  PROVE  /\ IsFiniteSet(S) /\ Cardinality(S) \in Nat /\ Cardinality(Reqs) \in Nat
         /\ Cardinality(S) <= Cardinality(Reqs)
         /\ \A r \in S : Cardinality(S \ {r}) = Cardinality(S) - 1
         /\ \A r \in Reqs \ S : Cardinality(S \cup {r}) = Cardinality(S) + 1
<1>1. IsFiniteSet(Reqs)
  BY LimiterAssumption
<1>2. IsFiniteSet(S) /\ Cardinality(S) <= Cardinality(Reqs)
  BY <1>1, FS_Subset
<1>3. \A r \in S : Cardinality(S \ {r}) = Cardinality(S) - 1
  BY <1>2, FS_RemoveElement
<1>4. \A r \in Reqs \ S : Cardinality(S \cup {r}) = Cardinality(S) + 1
  BY <1>2, FS_AddElement
<1> QED BY <1>1, <1>2, <1>3, <1>4, FS_CardinalityType

LEMMA FewerReqs ==
  ASSUME NEW S \in SUBSET Reqs, NEW T \in SUBSET S
  PROVE  Cardinality(T) <= Cardinality(S) /\ Cardinality(T) \in Nat /\ Cardinality(S) \in Nat
<1>1. IsFiniteSet(S)
  BY SomeReqs
<1>2. IsFiniteSet(T) /\ Cardinality(T) <= Cardinality(S)
  BY <1>1, FS_Subset
<1> QED BY <1>1, <1>2, FS_CardinalityType

LEMMA Budgets ==
  /\ Passed \in SUBSET Reqs /\ Seeders \in SUBSET Reqs
  /\ Passed' \in SUBSET Reqs /\ Seeders' \in SUBSET Reqs
BY DEF Passed, Seeders

\* A step of a request that touches no counter.
LEMMA UntouchedKeeps ==
  ASSUME LimiterInv, NEW r \in Reqs, Untouched, req' \in [Reqs -> Requests],
         \A q \in Reqs \ {r} : req'[q] = req[q],
         Place(req[r])', OpenOK(req[r])',
         policy \in {"failures", "successes"} /\ r \in Passed' => r \in Passed \/ counter["main"].n < MaxRequests,
         r \notin Seeders, r \notin Seeders'
  PROVE  LimiterInv'
<1>1. counter' = counter /\ spent' = spent /\ policy' = policy /\ excused' = excused
  BY DEF Untouched
<1>2. LimiterTypeOK' /\ CountersOK'
  BY <1>1 DEF LimiterInv, LimiterTypeOK, CountersOK, CounterOK
<1>3. PlacesOK' /\ OpensOK'
  BY <1>1, OneMoves DEF Steady
<1>4. TakeOK'
  BY <1>1 DEF LimiterInv, TakeOK
<1>5. CountOK'
  <2> SUFFICES ASSUME policy \in {"failures", "successes"}, ~excused
               PROVE  counter["main"].n + Cardinality(Passed') < MaxRequests + Cardinality(Reqs)
    BY <1>1 DEF CountOK
  <2>1. counter["main"].n + Cardinality(Passed) < MaxRequests + Cardinality(Reqs)
    BY DEF LimiterInv, CountOK
  <2>2. counter["main"].n \in Nat /\ MaxRequests \in Nat
    BY CounterIs, LimiterAssumption DEF LimiterInv, Keys
  <2>3. CASE r \in Passed' => r \in Passed
    <3>1. Passed' \subseteq Passed
      BY <2>3 DEF Passed
    <3>2. Cardinality(Passed') <= Cardinality(Passed) /\ Cardinality(Passed') \in Nat /\ Cardinality(Passed) \in Nat
      BY <3>1, Budgets, FewerReqs
    <3>3. Cardinality(Reqs) \in Nat
      BY Budgets, SomeReqs
    <3> QED BY <2>1, <2>2, <3>2, <3>3
  <2>4. CASE counter["main"].n < MaxRequests
    <3>1. Cardinality(Passed') <= Cardinality(Reqs) /\ Cardinality(Passed') \in Nat /\ Cardinality(Reqs) \in Nat
      BY Budgets, SomeReqs
    <3> QED BY <2>2, <2>4, <3>1
  <2> QED BY <2>3, <2>4
<1>6. LockoutOK'
  <2>1. Seeders' = Seeders
    BY DEF Seeders
  <2> QED BY <1>1, <2>1 DEF LimiterInv, LockoutOK
<1> QED BY <1>2, <1>3, <1>4, <1>5, <1>6 DEF LimiterInv

LEMMA ArriveKeeps ==
  ASSUME LimiterInv, NEW r \in Reqs, Arrive(r)
  PROVE  LimiterInv'
<1>1. req[r].pc = "idle" /\ Untouched /\ policy \in Policies /\ req \in [Reqs -> Requests] /\ policy' = policy
  BY DEF Arrive, LimiterInv, LimiterTypeOK, Untouched
<1>2. \E pc \in ReqPcs, key \in Keys :
        /\ Goto(r, pc, key)
        /\ \/ policy = "all" /\ pc = "seedtake" /\ key = "main"
           \/ policy # "all" /\ pc = "count" /\ key = IF policy = "lockout" THEN "block" ELSE "main"
  BY DEF Arrive, ReqPcs, Keys
<1>3. PICK pc \in ReqPcs, key \in Keys :
        /\ Goto(r, pc, key)
        /\ \/ policy = "all" /\ pc = "seedtake" /\ key = "main"
           \/ policy # "all" /\ pc = "count" /\ key = IF policy = "lockout" THEN "block" ELSE "main"
  BY <1>2
<1>4. /\ req' \in [Reqs -> Requests] /\ req'[r].pc = pc /\ req'[r].key = key /\ ~req'[r].open
      /\ \A q \in Reqs \ {r} : req'[q] = req[q]
  BY <1>1, <1>3, GotoIs
<1>5. Place(req[r])' /\ OpenOK(req[r])'
  BY <1>1, <1>3, <1>4 DEF Place, OpenOK
<1>6. r \notin Passed' /\ r \notin Seeders' /\ r \notin Seeders
  BY <1>1, <1>3, <1>4 DEF Passed, Seeders
<1> QED BY <1>1, <1>4, <1>5, <1>6, UntouchedKeeps

LEMMA AnsweredKeeps ==
  ASSUME LimiterInv, NEW r \in Reqs, Answered(r)
  PROVE  LimiterInv'
<1>1. req[r].pc \in {"done", "denied", "unavailable"} /\ Untouched /\ req \in [Reqs -> Requests]
      /\ Goto(r, "idle", "main") /\ "idle" \in ReqPcs /\ "main" \in Keys
  BY Zenon DEF Answered, Idle, Goto, LimiterInv, LimiterTypeOK, ReqPcs, Keys
<1>2. /\ req' \in [Reqs -> Requests] /\ req'[r].pc = "idle" /\ ~req'[r].open
      /\ \A q \in Reqs \ {r} : req'[q] = req[q]
  BY <1>1, GotoIs
<1>3. Place(req[r])' /\ OpenOK(req[r])'
  BY <1>2 DEF Place, OpenOK
<1>4. r \notin Passed' /\ r \notin Seeders' /\ r \notin Seeders
  BY <1>1, <1>2 DEF Passed, Seeders
<1> QED BY <1>1, <1>2, <1>3, <1>4, UntouchedKeeps

LEMMA UnblockKeeps ==
  ASSUME LimiterInv, NEW r \in Reqs, Unblock(r)
  PROVE  LimiterInv'
<1>1. req[r].pc = "idle" /\ policy = "lockout" /\ Untouched /\ req \in [Reqs -> Requests] /\ policy' = policy
      /\ Goto(r, "unblock", "block") /\ "unblock" \in ReqPcs /\ "block" \in Keys
  BY DEF Unblock, LimiterInv, LimiterTypeOK, ReqPcs, Keys, Untouched
<1>2. /\ req' \in [Reqs -> Requests] /\ req'[r].pc = "unblock" /\ ~req'[r].open
      /\ \A q \in Reqs \ {r} : req'[q] = req[q]
  BY <1>1, GotoIs
<1>3. Place(req[r])' /\ OpenOK(req[r])'
  BY <1>1, <1>2 DEF Place, OpenOK
<1>4. r \notin Passed' /\ r \notin Seeders' /\ r \notin Seeders
  BY <1>1, <1>2 DEF Passed, Seeders
<1> QED BY <1>1, <1>2, <1>3, <1>4, UntouchedKeeps

LEMMA HandlerKeeps ==
  ASSUME LimiterInv, NEW r \in Reqs, Handler(r)
  PROVE  LimiterInv'
<1>1. req[r].pc = "handler" /\ Untouched /\ req \in [Reqs -> Requests] /\ policy' = policy
  BY DEF Handler, LimiterInv, LimiterTypeOK, Untouched
<1>2. \E pc \in ReqPcs, key \in Keys :
        /\ Goto(r, pc, key)
        /\ \/ pc = "done"
           \/ policy \in {"failures", "successes"} /\ pc = "seed" /\ key = "main"
           \/ policy = "lockout" /\ pc \in {"seed", "reset"} /\ key = "fail"
  BY DEF Handler, ReqPcs, Keys
<1>3. PICK pc \in ReqPcs, key \in Keys :
        /\ Goto(r, pc, key)
        /\ \/ pc = "done"
           \/ policy \in {"failures", "successes"} /\ pc = "seed" /\ key = "main"
           \/ policy = "lockout" /\ pc \in {"seed", "reset"} /\ key = "fail"
  BY <1>2
<1>4. /\ req' \in [Reqs -> Requests] /\ req'[r].pc = pc /\ req'[r].key = key /\ ~req'[r].open
      /\ \A q \in Reqs \ {r} : req'[q] = req[q]
  BY <1>1, <1>3, GotoIs
<1>5. Place(req[r])' /\ OpenOK(req[r])'
  BY <1>1, <1>3, <1>4 DEF Place, OpenOK
<1>6. r \in Passed /\ r \notin Seeders' /\ r \notin Seeders
  BY <1>1, <1>3, <1>4 DEF Passed, Seeders
<1> QED BY <1>1, <1>4, <1>5, <1>6, UntouchedKeeps

LEMMA CountKeyKeeps ==
  ASSUME LimiterInv, NEW r \in Reqs, CountKey(r)
  PROVE  LimiterInv'
<1> DEFINE k == req[r].key
<1>1. /\ req[r].pc = "count" /\ Untouched /\ req \in [Reqs -> Requests] /\ policy' = policy
      /\ counter' = counter /\ Place(req[r]) /\ req[r] \in Requests
  BY DEF CountKey, LimiterInv, LimiterTypeOK, Untouched, PlacesOK
<1>2. k \in Keys /\ k \in {"main", "block"} /\ policy # "all" /\ (policy # "lockout" => k = "main")
  BY <1>1, RequestsIs DEF Place
<1>3. counter[k].n \in Nat /\ counter[k].left \in Nat /\ (counter[k].left = 0 => counter[k].n = 0)
  BY <1>2, CounterIs DEF LimiterInv, CountersOK, CounterOK
<1>4. r \notin Seeders
  BY <1>1 DEF Seeders
<1>5. CASE Denied(k, counter[k].n)
  <2>1. Move(r, Request("ttl", k, 0, TRUE))
    BY <1>5, Zenon DEF CountKey
  <2> DEFINE c == Request("ttl", k, 0, TRUE)
  <2>2. c \in Requests /\ c.pc = "ttl" /\ c.key = k
    BY <1>2 DEF Request, Requests, ReqPcs
  <2>3. Move(r, c)
    BY <2>1, Zenon
  <2> HIDE DEF c
  <2>4. /\ req' \in [Reqs -> Requests] /\ req'[r].pc = "ttl" /\ req'[r].key = k
        /\ \A q \in Reqs \ {r} : req'[q] = req[q]
    BY <1>1, <2>2, <2>3, MoveIs
  <2>5. counter[k].n > 0
    BY <1>3, <1>5, LimiterAssumption DEF Denied
  <2>6. counter[k].left > 0
    BY <1>3, <2>5
  <2>7. Place(req[r])' /\ OpenOK(req[r])'
    BY <1>1, <1>2, <2>4, <2>6 DEF Place, OpenOK
  <2>8. r \notin Passed' /\ r \notin Seeders'
    BY <2>4 DEF Passed, Seeders
  <2> QED BY <1>1, <1>4, <2>4, <2>7, <2>8, UntouchedKeeps
<1>6. CASE ~Denied(k, counter[k].n)
  <2>1. Goto(r, "handler", k) /\ "handler" \in ReqPcs
    BY <1>6 DEF CountKey, ReqPcs
  <2>2. /\ req' \in [Reqs -> Requests] /\ req'[r].pc = "handler" /\ ~req'[r].open
        /\ \A q \in Reqs \ {r} : req'[q] = req[q]
    BY <1>1, <1>2, <2>1, GotoIs
  <2>3. Place(req[r])' /\ OpenOK(req[r])' /\ r \notin Seeders'
    BY <2>2 DEF Place, OpenOK, Seeders
  <2>4. policy \in {"failures", "successes"} => counter["main"].n < MaxRequests
    <3> SUFFICES ASSUME policy \in {"failures", "successes"} PROVE counter["main"].n < MaxRequests
      OBVIOUS
    <3>1. k = "main"
      BY <1>2
    <3> QED BY <1>3, <1>6, <3>1, LimiterAssumption DEF Denied
  <2> QED BY <1>1, <1>4, <2>2, <2>3, <2>4, UntouchedKeeps
<1> QED BY <1>5, <1>6

\* Rounded up, a time is not shorter.
LEMMA RoundedUp ==
  ASSUME NEW t \in Nat
  PROVE  RetryAfter(t) \in Nat /\ RetryAfter(t) >= t
BY DEF RetryAfter

LEMMA ReadTTLKeeps ==
  ASSUME LimiterInv, NEW r \in Reqs, ReadTTL(r)
  PROVE  LimiterInv'
<1> DEFINE k == req[r].key
<1>1. /\ req[r].pc = "ttl" /\ Untouched /\ req \in [Reqs -> Requests] /\ policy' = policy
      /\ counter' = counter /\ OpenOK(req[r]) /\ req[r] \in Requests
  BY DEF ReadTTL, LimiterInv, LimiterTypeOK, Untouched, OpensOK
<1>2. k \in Keys /\ req[r].open \in BOOLEAN
  BY <1>1, RequestsIs
<1>3. PICK reset \in {Reset(k), Period(k)} : Move(r, Request("denied", k, Hint(k, reset), req[r].open))
  BY DEF ReadTTL
<1>4. /\ counter[k].left \in Nat /\ Period(k) \in Nat /\ Forever \in Nat
      /\ counter[k].left <= Period(k) \/ counter[k].left = Forever
  BY <1>2, CounterIs, PeriodTyped DEF LimiterInv, CountersOK, CounterOK
<1>5. reset \in Nat /\ (counter[k].left = Forever \/ reset >= counter[k].left)
  BY <1>4 DEF Reset
<1>6. Hint(k, reset) \in Nat /\ (counter[k].left = Forever \/ Hint(k, reset) >= counter[k].left)
  BY <1>4, <1>5, RoundedUp DEF Hint
<1> DEFINE c == Request("denied", k, Hint(k, reset), req[r].open)
<1>7. c \in Requests /\ c.pc = "denied" /\ c.key = k /\ c.told = Hint(k, reset) /\ c.open = req[r].open
  <2>1. "denied" \in ReqPcs
    BY DEF ReqPcs
  <2> QED BY <1>2, <1>6, <2>1, RequestIs
<1>8. Move(r, c)
  BY <1>3
<1> HIDE DEF c
<1>9. req' \in [Reqs -> Requests] /\ req'[r] = c /\ \A q \in Reqs \ {r} : req'[q] = req[q]
  BY <1>1, <1>7, <1>8, MoveIs
<1>10. Place(req[r])'
  BY <1>7, <1>9 DEF Place
<1>11. OpenOK(req[r])'
  BY <1>1, <1>6, <1>7, <1>9 DEF OpenOK
<1>12. r \notin Passed' /\ r \notin Seeders /\ r \notin Seeders'
  BY <1>1, <1>7, <1>9 DEF Passed, Seeders
<1> QED BY <1>1, <1>9, <1>10, <1>11, <1>12, UntouchedKeeps

\* SET NX: a new window, or nothing.
LEMMA SetNXIs ==
  ASSUME LimiterInv, NEW k \in Keys, SetNX(k)
  PROVE  /\ \/ counter[k].left > 0 /\ counter' = counter /\ spent' = spent
            \/ /\ counter[k].left = 0 /\ counter[k].n = 0 /\ spent' = 0
               /\ counter'[k].n = 0 /\ counter'[k].left = Period(k)
               /\ \A q \in Keys \ {k} : counter'[q] = counter[q]
         /\ counter' \in [Keys -> Vals] /\ CountersOK' /\ Steady /\ spent' \in Nat
<1>1. /\ counter \in [Keys -> Vals] /\ spent \in Nat /\ counter[k].left \in Nat /\ CountersOK
      /\ counter[k].left = 0 => counter[k].n = 0
  BY CounterIs DEF LimiterInv, LimiterTypeOK, CountersOK, CounterOK
<1>2. CASE counter[k].left # 0
  <2>1. counter' = counter /\ spent' = spent
    BY <1>2 DEF SetNX
  <2> QED BY <1>1, <1>2, <2>1 DEF CountersOK, CounterOK, Steady
<1>3. CASE counter[k].left = 0
  <2> DEFINE v == Val(0, Period(k))
  <2>1. counter' = [counter EXCEPT ![k] = v] /\ spent' = 0
    BY <1>3 DEF SetNX, Write
  <2>2. v \in Vals /\ v.n = 0 /\ v.left = Period(k) /\ Period(k) \in Nat /\ Period(k) > 0
    BY ValIs, PeriodTyped
  <2> HIDE DEF v
  <2>3. counter' \in [Keys -> Vals] /\ counter'[k] = v /\ \A q \in Keys \ {k} : counter'[q] = counter[q]
    BY <1>1, <2>1, <2>2
  <2>4. CountersOK'
    BY <1>1, <2>2, <2>3 DEF CountersOK, CounterOK
  <2>5. Steady
    BY <1>3, <2>3 DEF Steady, Keys
  <2> QED BY <1>1, <1>3, <2>1, <2>2, <2>3, <2>4, <2>5
<1> QED BY <1>2, <1>3

LEMMA SeedKeeps ==
  ASSUME LimiterInv, NEW r \in Reqs, Seed(r)
  PROVE  LimiterInv'
<1> DEFINE k == req[r].key
<1>1. /\ req[r].pc \in {"seedtake", "seed"} /\ req \in [Reqs -> Requests] /\ policy' = policy
      /\ excused' = excused /\ SetNX(k) /\ Place(req[r]) /\ req[r] \in Requests
  BY DEF Seed, LimiterInv, LimiterTypeOK, PlacesOK
<1>2. k \in Keys
  BY <1>1, RequestsIs
<1>3. PICK pc \in {"incr", "incrtake"} : Goto(r, pc, k) /\ (pc = "incr" <=> req[r].pc = "seed")
  BY <1>1 DEF Seed
<1>4. /\ req' \in [Reqs -> Requests] /\ req'[r].pc = pc /\ req'[r].key = k /\ ~req'[r].open
      /\ \A q \in Reqs \ {r} : req'[q] = req[q]
  <2>1. pc \in ReqPcs
    BY DEF ReqPcs
  <2> QED BY <1>1, <1>2, <1>3, <2>1, GotoIs
<1>5. Place(req[r])' /\ OpenOK(req[r])'
  BY <1>1, <1>3, <1>4 DEF Place, OpenOK
<1>6. Steady /\ CountersOK' /\ counter' \in [Keys -> Vals] /\ spent' \in Nat
  BY <1>1, <1>2, SetNXIs
<1>7. LimiterTypeOK'
  BY <1>1, <1>4, <1>6 DEF LimiterInv, LimiterTypeOK
<1>8. PlacesOK' /\ OpensOK'
  BY <1>1, <1>4, <1>5, <1>6, OneMoves
<1>9. TakeOK'
  <2> SUFFICES ASSUME policy = "all" PROVE spent' <= MaxRequests /\ (counter'["main"].left > 0 => spent' <= counter'["main"].n)
    BY <1>1 DEF TakeOK
  <2>1. k = "main"
    BY <1>1 DEF Place
  <2> QED BY <1>1, <1>2, <2>1, SetNXIs, LimiterAssumption DEF LimiterInv, TakeOK
<1>10. CountOK'
  <2> SUFFICES ASSUME policy \in {"failures", "successes"}, ~excused
               PROVE  counter'["main"].n + Cardinality(Passed') < MaxRequests + Cardinality(Reqs)
    BY <1>1 DEF CountOK
  <2>1. k = "main" /\ req[r].pc = "seed" /\ pc = "incr"
    BY <1>1, <1>3 DEF Place
  <2>2. Passed' = Passed
    BY <1>4, <2>1 DEF Passed
  <2>3. counter'["main"].n = counter["main"].n
    BY <1>1, <1>2, <2>1, SetNXIs
  <2> QED BY <2>2, <2>3 DEF LimiterInv, CountOK
<1>11. LockoutOK'
  <2> SUFFICES ASSUME policy = "lockout", ~excused
               PROVE  /\ counter'["fail"].left > 0 => spent' <= counter'["fail"].n
                      /\ counter'["block"].left > 0 => spent' = 0
                      /\ spent' < Threshold + Cardinality(Seeders')
    BY <1>1 DEF LockoutOK
  <2>1. /\ counter["fail"].left > 0 => spent <= counter["fail"].n
        /\ counter["block"].left > 0 => spent = 0
        /\ spent < Threshold + Cardinality(Seeders)
    BY DEF LimiterInv, LockoutOK
  <2>2. Cardinality(Seeders') \in Nat /\ Threshold \in Nat /\ Threshold > 0
    BY Budgets, SomeReqs, LimiterAssumption
  <2>3. /\ counter["fail"].n \in Nat /\ counter'["fail"].n \in Nat /\ spent' \in Nat
    BY <1>7, CounterIs DEF LimiterInv, LimiterTypeOK, Keys, Vals
  <2>4. CASE spent' = 0
    BY <2>2, <2>3, <2>4
  <2>5. CASE spent' # 0
    <3>1. counter' = counter /\ spent' = spent /\ counter[k].left > 0
      BY <1>1, <1>2, <2>5, SetNXIs
    <3>2. k # "block"
      BY <2>1, <2>5, <3>1
    <3>3. Seeders' = Seeders
      BY <1>3, <1>4, <3>2 DEF Seeders
    <3> QED BY <2>1, <3>1, <3>3
  <2> QED BY <2>4, <2>5
<1> QED BY <1>6, <1>7, <1>8, <1>9, <1>10, <1>11 DEF LimiterInv

\* What the new value of a counter makes of the request.
LEMMA CountedIs ==
  ASSUME NEW r \in Reqs, NEW n \in Nat, req[r] \in Requests, req[r].pc \in {"incrtake", "incr"}
  PROVE  /\ Counted(r, n) \in Requests
         /\ req[r].pc = "incrtake" /\ n > MaxRequests => Counted(r, n).pc = "ttl" /\ Counted(r, n).key = "main"
         /\ req[r].pc = "incrtake" /\ ~(n > MaxRequests) => Counted(r, n).pc = "handler" /\ ~Counted(r, n).open
         /\ req[r].pc = "incr" /\ req[r].key = "fail" /\ n >= Threshold =>
              Counted(r, n).pc = "seed" /\ Counted(r, n).key = "block" /\ ~Counted(r, n).open
         /\ req[r].pc = "incr" /\ ~(req[r].key = "fail" /\ n >= Threshold) =>
              Counted(r, n).pc = "done" /\ ~Counted(r, n).open
<1>1. req[r].key \in Keys
  BY RequestsIs
<1>2. CASE req[r].pc = "incrtake" /\ n > MaxRequests
  <2>1. Counted(r, n) = Request("ttl", "main", 0, TRUE)
    BY <1>2 DEF Counted, Over
  <2>2. Request("ttl", "main", 0, TRUE) \in Requests /\ Request("ttl", "main", 0, TRUE).pc = "ttl"
        /\ Request("ttl", "main", 0, TRUE).key = "main"
    BY DEF Request, Requests, ReqPcs, Keys
  <2> QED BY <1>2, <2>1, <2>2, Zenon
<1>3. CASE req[r].pc = "incrtake" /\ ~(n > MaxRequests)
  <2>1. Counted(r, n) = Request("handler", "main", 0, FALSE)
    BY <1>3 DEF Counted, Over
  <2>2. Request("handler", "main", 0, FALSE) \in Requests /\ Request("handler", "main", 0, FALSE).pc = "handler"
        /\ ~Request("handler", "main", 0, FALSE).open
    BY DEF Request, Requests, ReqPcs, Keys
  <2> QED BY <1>3, <2>1, <2>2, Zenon
<1>4. CASE req[r].pc = "incr" /\ req[r].key = "fail" /\ n >= Threshold
  <2>1. Counted(r, n) = Request("seed", "block", 0, FALSE)
    BY <1>4 DEF Counted, Blocks
  <2>2. Request("seed", "block", 0, FALSE) \in Requests /\ Request("seed", "block", 0, FALSE).pc = "seed"
        /\ Request("seed", "block", 0, FALSE).key = "block" /\ ~Request("seed", "block", 0, FALSE).open
    BY DEF Request, Requests, ReqPcs, Keys
  <2> QED BY <1>4, <2>1, <2>2, Zenon
<1>5. CASE req[r].pc = "incr" /\ ~(req[r].key = "fail" /\ n >= Threshold)
  <2>1. Counted(r, n) = Request("done", req[r].key, 0, FALSE)
    BY <1>5, Zenon DEF Counted, Blocks
  <2>2. Request("done", req[r].key, 0, FALSE) \in Requests /\ Request("done", req[r].key, 0, FALSE).pc = "done"
        /\ ~Request("done", req[r].key, 0, FALSE).open
    BY <1>1 DEF Request, Requests, ReqPcs, Keys
  <2> QED BY <1>5, <2>1, <2>2, Zenon
<1> QED BY <1>2, <1>3, <1>4, <1>5

\* INCR adds one and keeps the time to live, or there is none.
LEMMA BumpedKeeps ==
  ASSUME LimiterInv, NEW k \in Keys, counter' = [counter EXCEPT ![k] = Bumped(counter[k])]
  PROVE  /\ counter' \in [Keys -> Vals] /\ CountersOK' /\ Steady
         /\ counter'[k].n = counter[k].n + 1 /\ counter'[k].left > 0
         /\ \A q \in Keys \ {k} : counter'[q] = counter[q]
<1>1. /\ counter \in [Keys -> Vals] /\ counter[k].left \in Nat /\ counter[k].n \in Nat /\ CountersOK
  BY CounterIs DEF LimiterInv, LimiterTypeOK
<1> DEFINE left == IF counter[k].left = 0 THEN Forever ELSE counter[k].left
           v == Bumped(counter[k])
<1>2. left \in Nat /\ left > 0 /\ (left <= Period(k) \/ left = Forever) /\ (counter[k].left > 0 => left = counter[k].left)
  BY <1>1, PeriodTyped DEF CountersOK, CounterOK
<1>3. v \in Vals /\ v.n = counter[k].n + 1 /\ v.left = left
  BY <1>1, <1>2, ValIs DEF Bumped
<1> HIDE DEF left, v
<1>4. counter' \in [Keys -> Vals] /\ counter'[k] = v /\ \A q \in Keys \ {k} : counter'[q] = counter[q]
  BY <1>1, <1>3 DEF v
<1>5. CountersOK'
  BY <1>1, <1>2, <1>3, <1>4 DEF CountersOK, CounterOK
<1>6. Steady
  BY <1>2, <1>3, <1>4 DEF Steady, Keys
<1> QED BY <1>2, <1>3, <1>4, <1>5, <1>6

LEMMA IncrKeeps ==
  ASSUME LimiterInv, NEW r \in Reqs, Incr(r)
  PROVE  LimiterInv'
<1> DEFINE k == req[r].key
           n == counter[k].n
           c == Counted(r, n + 1)
           base == IF counter[k].left = 0 THEN 0 ELSE spent
           more == IF c.pc = "handler" \/ (k = "fail" /\ counter["block"].left = 0) THEN 1 ELSE 0
<1>1. /\ req[r].pc \in {"incrtake", "incr"} /\ req \in [Reqs -> Requests] /\ policy' = policy
      /\ excused' = excused /\ Place(req[r]) /\ req[r] \in Requests
      /\ counter' = [counter EXCEPT ![k] = Bumped(counter[k])]
      /\ spent' = base + more /\ Move(r, c) /\ spent \in Nat
  BY DEF Incr, LimiterInv, LimiterTypeOK, PlacesOK
<1>2. k \in Keys /\ n \in Nat /\ counter[k].left \in Nat /\ (counter[k].left = 0 => n = 0)
  BY <1>1, RequestsIs, CounterIs DEF LimiterInv, CountersOK, CounterOK
<1>3. /\ counter' \in [Keys -> Vals] /\ CountersOK' /\ Steady
      /\ counter'[k].n = n + 1 /\ counter'[k].left > 0
      /\ \A q \in Keys \ {k} : counter'[q] = counter[q]
  BY <1>1, <1>2, BumpedKeeps, Zenon
<1>4. /\ c \in Requests
      /\ req[r].pc = "incrtake" /\ n + 1 > MaxRequests => c.pc = "ttl" /\ c.key = "main"
      /\ req[r].pc = "incrtake" /\ ~(n + 1 > MaxRequests) => c.pc = "handler" /\ ~c.open
      /\ req[r].pc = "incr" /\ k = "fail" /\ n + 1 >= Threshold => c.pc = "seed" /\ c.key = "block" /\ ~c.open
      /\ req[r].pc = "incr" /\ ~(k = "fail" /\ n + 1 >= Threshold) => c.pc = "done" /\ ~c.open
  <2>1. n + 1 \in Nat
    BY <1>2
  <2> QED BY <1>1, <2>1, CountedIs, Zenon
<1>5. req' \in [Reqs -> Requests] /\ req'[r] = c /\ \A q \in Reqs \ {r} : req'[q] = req[q]
  BY <1>1, <1>4, MoveIs, Zenon
<1>6. base \in Nat /\ more \in 0..1 /\ base <= spent
  BY <1>1
<1>7. /\ req[r].pc = "incrtake" => policy = "all" /\ k = "main"
      /\ req[r].pc = "incr" => \/ policy \in {"failures", "successes"} /\ k = "main"
                               \/ policy = "lockout" /\ k \in {"fail", "block"}
  BY <1>1 DEF Place
<1>8. more = 1 <=> c.pc = "handler" \/ (k = "fail" /\ counter["block"].left = 0)
  OBVIOUS
<1>9. counter[k].left = 0 => base = 0
  OBVIOUS
<1>10. counter[k].left # 0 => base = spent
  OBVIOUS
<1> HIDE DEF c, base, more
<1>11. Place(req[r])'
  BY <1>1, <1>4, <1>5, <1>7 DEF Place
<1>12. OpenOK(req[r])'
  <2>1. CASE c.pc = "ttl"
    BY <1>1, <1>3, <1>4, <1>5, <1>7, <2>1 DEF OpenOK
  <2>2. CASE c.pc # "ttl"
    BY <1>1, <1>4, <1>5, <2>2 DEF OpenOK
  <2> QED BY <2>1, <2>2
<1>13. LimiterTypeOK' /\ PlacesOK' /\ OpensOK'
  BY <1>1, <1>3, <1>5, <1>6, <1>11, <1>12, OneMoves DEF LimiterInv, LimiterTypeOK
<1>14. TakeOK'
  <2> SUFFICES ASSUME policy = "all" PROVE spent' <= MaxRequests /\ (counter'["main"].left > 0 => spent' <= counter'["main"].n)
    BY <1>1 DEF TakeOK
  <2>1. req[r].pc = "incrtake" /\ k = "main"
    BY <1>1, <1>7
  <2>2. base <= n /\ base <= MaxRequests
    BY <1>1, <1>2, <1>6, <1>9, <1>10, <2>1, LimiterAssumption DEF LimiterInv, TakeOK
  <2>3. more = 1 => n + 1 <= MaxRequests
    BY <1>2, <1>4, <1>8, <2>1, LimiterAssumption
  <2>4. base + more <= MaxRequests /\ base + more <= n + 1
    BY <1>2, <1>6, <2>2, <2>3, LimiterAssumption
  <2> QED BY <1>1, <1>3, <2>1, <2>4
<1>15. CountOK'
  <2> SUFFICES ASSUME policy \in {"failures", "successes"}, ~excused
               PROVE  counter'["main"].n + Cardinality(Passed') < MaxRequests + Cardinality(Reqs)
    BY <1>1 DEF CountOK
  <2>1. req[r].pc = "incr" /\ k = "main" /\ c.pc = "done"
    BY <1>1, <1>4, <1>7
  <2>2. r \in Passed /\ Passed' = Passed \ {r}
    BY <1>5, <2>1 DEF Passed
  <2>3. Cardinality(Passed') = Cardinality(Passed) - 1 /\ Cardinality(Passed) \in Nat /\ Cardinality(Reqs) \in Nat
    BY <2>2, Budgets, SomeReqs
  <2>4. n + Cardinality(Passed) < MaxRequests + Cardinality(Reqs)
    BY <2>1 DEF LimiterInv, CountOK
  <2>5. counter'["main"].n = n + 1
    BY <1>3, <2>1
  <2>6. (n + 1) + (Cardinality(Passed) - 1) < MaxRequests + Cardinality(Reqs)
    BY <1>2, <2>3, <2>4, LimiterAssumption
  <2> QED BY <2>3, <2>5, <2>6
<1>16. LockoutOK'
  <2> SUFFICES ASSUME policy = "lockout", ~excused
               PROVE  /\ counter'["fail"].left > 0 => spent' <= counter'["fail"].n
                      /\ counter'["block"].left > 0 => spent' = 0
                      /\ spent' < Threshold + Cardinality(Seeders')
    BY <1>1 DEF LockoutOK
  <2>1. /\ counter["fail"].left > 0 => spent <= counter["fail"].n
        /\ counter["block"].left > 0 => spent = 0
        /\ spent < Threshold + Cardinality(Seeders)
    BY DEF LimiterInv, LockoutOK
  <2>2. /\ Cardinality(Seeders') \in Nat /\ Cardinality(Seeders) \in Nat /\ Threshold \in Nat /\ Threshold > 0
    BY Budgets, SomeReqs, LimiterAssumption
  <2>3. req[r].pc = "incr" /\ k \in {"fail", "block"} /\ c.pc # "handler"
    BY <1>1, <1>4, <1>7
  <2>4. counter["block"].left \in Nat /\ counter["fail"].left \in Nat /\ counter["fail"].n \in Nat
    BY CounterIs DEF LimiterInv, Keys
  <2>5. CASE k = "block"
    <3>1. more = 0 /\ base = 0
      BY <1>2, <1>6, <1>8, <1>9, <1>10, <2>1, <2>3, <2>4, <2>5
    <3>2. spent' = 0
      BY <1>1, <3>1
    <3>3. counter'["fail"].n \in Nat
      BY <1>3 DEF Keys, Vals
    <3> QED BY <2>2, <3>2, <3>3
  <2>6. CASE k = "fail" /\ counter["block"].left > 0
    <3>1. more = 0 /\ base = 0
      BY <1>6, <1>8, <1>9, <1>10, <2>1, <2>3, <2>4, <2>6
    <3>2. spent' = 0
      BY <1>1, <3>1
    <3>3. counter'["fail"].n \in Nat
      BY <1>3 DEF Keys, Vals
    <3> QED BY <2>2, <3>2, <3>3
  <2>7. CASE k = "fail" /\ counter["block"].left = 0
    <3>1. more = 1 /\ base <= n
      BY <1>2, <1>6, <1>8, <1>9, <1>10, <2>1, <2>4, <2>7
    <3>2. spent' <= n + 1 /\ spent' = base + 1
      BY <1>1, <1>2, <1>6, <3>1
    <3>3. counter'["block"].left = 0 /\ counter'["fail"].n = n + 1
      BY <1>3, <2>7 DEF Keys
    <3>4. CASE n + 1 >= Threshold
      <4>1. r \notin Seeders /\ Seeders' = Seeders \cup {r}
        BY <1>4, <1>5, <2>3, <2>7, <3>4 DEF Seeders
      <4>2. Cardinality(Seeders') = Cardinality(Seeders) + 1
        BY <4>1, Budgets, SomeReqs
      <4>3. spent' < Threshold + (Cardinality(Seeders) + 1)
        BY <1>1, <1>6, <2>1, <2>2, <3>2
      <4> QED BY <3>2, <3>3, <4>2, <4>3
    <3>5. CASE ~(n + 1 >= Threshold)
      <4>1. spent' < Threshold + Cardinality(Seeders')
        BY <1>1, <1>2, <1>6, <2>2, <3>2, <3>5
      <4> QED BY <3>2, <3>3, <4>1
    <3> QED BY <3>4, <3>5
  <2> QED BY <2>3, <2>4, <2>5, <2>6, <2>7
<1> QED BY <1>3, <1>13, <1>14, <1>15, <1>16 DEF LimiterInv

LEMMA FailsKeeps ==
  ASSUME LimiterInv, NEW r \in Reqs, Fails(r)
  PROVE  LimiterInv'
<1> DEFINE k == req[r].key
<1>1. /\ req \in [Reqs -> Requests] /\ policy' = policy /\ excused' = TRUE
      /\ Place(req[r]) /\ req[r] \in Requests /\ spent \in Nat
  BY DEF Fails, LimiterInv, LimiterTypeOK, PlacesOK
<1>2. k \in Keys
  BY <1>1, RequestsIs
<1>3. PICK pc \in {"unavailable", "handler", "done"} : Goto(r, pc, k)
  BY DEF Fails, OnError
<1>4. /\ req' \in [Reqs -> Requests] /\ req'[r].pc = pc /\ ~req'[r].open
      /\ \A q \in Reqs \ {r} : req'[q] = req[q]
  <2>1. pc \in ReqPcs
    BY DEF ReqPcs
  <2> QED BY <1>1, <1>2, <1>3, <2>1, GotoIs
<1>5. Place(req[r])' /\ OpenOK(req[r])'
  BY <1>4 DEF Place, OpenOK
<1>6. /\ counter' \in [Keys -> Vals] /\ CountersOK' /\ Steady /\ spent' \in Nat
      /\ TakeOK'
  <2>1. CASE UNCHANGED <<counter, spent>>
    BY <1>1, <2>1 DEF LimiterInv, LimiterTypeOK, CountersOK, CounterOK, Steady, TakeOK
  <2>2. CASE req[r].pc \in {"seed", "seedtake"} /\ SetNX(k)
    <3>1. policy = "all" => k = "main"
      BY <1>1, <2>2 DEF Place
    <3> QED BY <1>1, <1>2, <2>2, <3>1, SetNXIs, LimiterAssumption DEF LimiterInv, TakeOK
  <2>3. CASE req[r].pc \in {"incr", "incrtake"} /\ Write(k, Bumped(counter[k]))
    <3>1. /\ counter' = [counter EXCEPT ![k] = Bumped(counter[k])]
          /\ spent' = IF counter[k].left = 0 THEN 0 ELSE spent
      BY <2>3 DEF Write
    <3>2. /\ counter' \in [Keys -> Vals] /\ CountersOK' /\ Steady
          /\ counter'[k].n = counter[k].n + 1 /\ counter'[k].left > 0
      BY <1>2, <3>1, BumpedKeeps, Zenon
    <3>3. policy = "all" => k = "main"
      BY <1>1, <2>3 DEF Place
    <3>4. counter[k].n \in Nat /\ counter[k].left \in Nat
      BY <1>2, CounterIs DEF LimiterInv
    <3>5. TakeOK'
      BY <1>1, <3>1, <3>2, <3>3, <3>4, LimiterAssumption DEF LimiterInv, TakeOK
    <3> QED BY <1>1, <3>1, <3>2, <3>5
  <2> QED BY <2>1, <2>2, <2>3 DEF Fails
<1>7. PlacesOK' /\ OpensOK'
  BY <1>1, <1>4, <1>5, <1>6, OneMoves
<1>8. LimiterTypeOK'
  BY <1>1, <1>4, <1>6 DEF LimiterInv, LimiterTypeOK
<1> QED BY <1>1, <1>6, <1>7, <1>8 DEF LimiterInv, CountOK, LockoutOK

LEMMA AbsentIs == Absent \in Vals /\ Absent.n = 0 /\ Absent.left = 0
BY ValIs DEF Absent

\* The failures of an identity are deleted.
LEMMA ForgottenKeeps ==
  ASSUME LimiterInv, NEW r \in Reqs, ResetFailures(r) \/ DeleteFail(r)
  PROVE  LimiterInv'
<1>1. /\ req[r].pc \in {"reset", "unfail"} /\ req \in [Reqs -> Requests] /\ policy' = policy
      /\ excused' = excused /\ spent' = spent /\ Place(req[r]) /\ spent \in Nat
      /\ counter \in [Keys -> Vals] /\ counter' = [counter EXCEPT !["fail"] = Absent]
      /\ Goto(r, "done", "fail") /\ "done" \in ReqPcs /\ "fail" \in Keys
  BY DEF ResetFailures, DeleteFail, LimiterInv, LimiterTypeOK, PlacesOK, ReqPcs, Keys
<1>2. policy = "lockout"
  BY <1>1 DEF Place
<1>3. /\ req' \in [Reqs -> Requests] /\ req'[r].pc = "done" /\ ~req'[r].open
      /\ \A q \in Reqs \ {r} : req'[q] = req[q]
  BY <1>1, GotoIs
<1>4. /\ counter' \in [Keys -> Vals] /\ counter'["fail"] = Absent
      /\ \A q \in Keys \ {"fail"} : counter'[q] = counter[q]
  BY <1>1, AbsentIs
<1>5. CountersOK'
  BY <1>1, <1>4, AbsentIs, PeriodTyped DEF LimiterInv, CountersOK, CounterOK
<1>6. Steady
  BY <1>4 DEF Steady, Keys
<1>7. Place(req[r])' /\ OpenOK(req[r])'
  BY <1>3 DEF Place, OpenOK
<1>8. PlacesOK' /\ OpensOK'
  BY <1>1, <1>3, <1>6, <1>7, OneMoves
<1>9. Seeders' = Seeders
  BY <1>1, <1>3 DEF Seeders
<1>10. counter'["block"] = counter["block"] /\ counter'["fail"].left = 0
  BY <1>4, AbsentIs DEF Keys
<1>11. LockoutOK'
  BY <1>1, <1>9, <1>10 DEF LimiterInv, LockoutOK
<1>12. LimiterTypeOK'
  BY <1>1, <1>3, <1>4 DEF LimiterInv, LimiterTypeOK
<1> QED BY <1>1, <1>2, <1>5, <1>8, <1>11, <1>12 DEF LimiterInv, TakeOK, CountOK

LEMMA DeleteBlockKeeps ==
  ASSUME LimiterInv, NEW r \in Reqs, DeleteBlock(r)
  PROVE  LimiterInv'
<1>1. /\ req[r].pc = "unblock" /\ req \in [Reqs -> Requests] /\ policy' = policy
      /\ excused' = excused /\ spent' = spent /\ Place(req[r]) /\ spent \in Nat
      /\ counter \in [Keys -> Vals] /\ counter' = [counter EXCEPT !["block"] = Absent] /\ "block" \in Keys
  BY DEF DeleteBlock, LimiterInv, LimiterTypeOK, PlacesOK, Keys
<1>2. policy = "lockout"
  BY <1>1 DEF Place
<1>3. /\ counter' \in [Keys -> Vals] /\ counter'["block"] = Absent
      /\ \A q \in Keys \ {"block"} : counter'[q] = counter[q]
  BY <1>1, AbsentIs
<1>4. CountersOK'
  BY <1>1, <1>3, AbsentIs, PeriodTyped DEF LimiterInv, CountersOK, CounterOK
<1>5. req'[r] = Request("unfail", "fail", 0, FALSE)
  BY DEF DeleteBlock
<1>6. req'[r] \in Requests /\ req'[r].pc = "unfail" /\ ~req'[r].open
  BY <1>5 DEF Request, Requests, ReqPcs, Keys
<1>7. ASSUME NEW q \in Reqs \ {r}
      PROVE  req'[q] \in Requests /\ req'[q].pc = req[q].pc /\ req'[q].key = req[q].key /\ ~req'[q].open
  <2>1. req'[q] = Request(req[q].pc, req[q].key, req[q].told, req[q].open /\ policy # "lockout")
    BY DEF DeleteBlock
  <2>2. req[q].pc \in ReqPcs /\ req[q].key \in Keys /\ req[q].told \in Nat
    BY <1>1, RequestsIs
  <2>3. (req[q].open /\ policy # "lockout") = FALSE
    BY <1>2
  <2>4. req'[q] = Request(req[q].pc, req[q].key, req[q].told, FALSE)
    BY <2>1, <2>3, Zenon
  <2> QED BY <2>2, <2>4 DEF Request, Requests
<1>8. req' \in [Reqs -> Requests]
  <2>1. req' = [q \in Reqs |-> req'[q]]
    BY DEF DeleteBlock
  <2> QED BY <1>6, <1>7, <2>1
<1>9. OpensOK'
  BY <1>6, <1>7 DEF OpensOK, OpenOK
<1>10. PlacesOK'
  <2>1. ASSUME NEW q \in Reqs PROVE Place(req[q])'
    <3>1. Place(req[q])
      BY DEF LimiterInv, PlacesOK
    <3> QED BY <1>1, <1>2, <1>6, <1>7, <3>1 DEF Place
  <2> QED BY <2>1 DEF PlacesOK
<1>11. Seeders' = Seeders
  BY <1>1, <1>6, <1>7 DEF Seeders
<1>12. counter'["fail"] = counter["fail"] /\ counter'["block"].left = 0
  BY <1>3, AbsentIs DEF Keys
<1>13. LockoutOK'
  BY <1>1, <1>11, <1>12 DEF LimiterInv, LockoutOK
<1>14. LimiterTypeOK'
  BY <1>1, <1>3, <1>8 DEF LimiterInv, LimiterTypeOK
<1> QED BY <1>1, <1>2, <1>4, <1>9, <1>10, <1>13, <1>14 DEF LimiterInv, TakeOK, CountOK

\* A counter a tick later.
LEMMA OlderIs ==
  ASSUME NEW v \in Vals
  PROVE  /\ Older(v) \in Vals
         /\ v.left = 0 => Older(v) = v
         /\ v.left = Forever => Older(v) = v
         /\ v.left = 1 /\ v.left # Forever => Older(v) = Absent
         /\ v.left > 1 /\ v.left # Forever => Older(v).n = v.n /\ Older(v).left = v.left - 1
<1>1. v.n \in Nat /\ v.left \in Nat
  BY DEF Vals
<1>2. v.left > 1 => v.left - 1 \in Nat
  BY <1>1
<1>3. v.left > 1 /\ v.left # Forever => Older(v) = Val(v.n, v.left - 1)
  BY <1>1 DEF Older
<1>4. /\ v.left = 0 => Older(v) = v
      /\ v.left = Forever => Older(v) = v
      /\ v.left = 1 /\ v.left # Forever => Older(v) = Absent
  BY DEF Older
<1> QED BY <1>1, <1>2, <1>3, <1>4, ValIs, AbsentIs

LEMMA LimiterTickKeeps ==
  ASSUME LimiterInv, LimiterTick
  PROVE  LimiterInv'
<1>1. /\ req \in [Reqs -> Requests] /\ policy' = policy /\ excused' = excused /\ spent' = spent /\ spent \in Nat
      /\ counter \in [Keys -> Vals] /\ counter' = [k \in Keys |-> Older(counter[k])]
  BY DEF LimiterTick, LimiterInv, LimiterTypeOK
<1>2. counter' \in [Keys -> Vals] /\ \A k \in Keys : counter'[k] = Older(counter[k])
  BY <1>1, OlderIs
<1>3. ASSUME NEW k \in Keys
      PROVE  /\ counter[k].n \in Nat /\ counter'[k].n \in Nat /\ counter[k].left \in Nat /\ counter'[k].left \in Nat
             /\ counter'[k].n <= counter[k].n
             /\ counter'[k].left > 0 => counter[k].left > 0 /\ counter'[k].n = counter[k].n
             /\ counter[k].left = Forever => counter'[k].left = Forever
             /\ counter[k].left # Forever => counter'[k].left = 0 \/ counter'[k].left = counter[k].left - 1
             /\ counter[k].left \notin {0, 1} => counter'[k].left > 0
             /\ CounterOK(k)'
  <2>1. /\ counter[k] \in Vals /\ counter[k].n \in Nat /\ counter[k].left \in Nat /\ CounterOK(k)
        /\ counter'[k] = Older(counter[k]) /\ counter'[k] \in Vals /\ Forever \in Nat /\ Forever > 0
        /\ counter'[k].n \in Nat /\ counter'[k].left \in Nat /\ Period(k) \in Nat
    BY <1>2, CounterIs, PeriodTyped, OlderIs DEF LimiterInv, CountersOK, Vals
  <2>2. CASE counter[k].left = 0 \/ counter[k].left = Forever
    <3>1. counter'[k] = counter[k]
      BY <2>1, <2>2, OlderIs
    <3> QED BY <2>1, <2>2, <3>1 DEF CounterOK
  <2>3. CASE counter[k].left = 1 /\ counter[k].left # Forever
    <3>1. counter'[k] = Absent
      BY <2>1, <2>3, OlderIs
    <3> QED BY <2>1, <2>3, <3>1, AbsentIs DEF CounterOK
  <2>4. CASE counter[k].left > 1 /\ counter[k].left # Forever
    <3>1. counter'[k].n = counter[k].n /\ counter'[k].left = counter[k].left - 1
      BY <2>1, <2>4, OlderIs
    <3> QED BY <2>1, <2>4, <3>1, SMTT(20) DEF CounterOK
  <2>5. \/ counter[k].left = 0 \/ counter[k].left = Forever
        \/ counter[k].left = 1 /\ counter[k].left # Forever
        \/ counter[k].left > 1 /\ counter[k].left # Forever
    BY <2>1
  <2> QED BY <2>2, <2>3, <2>4, <2>5, Zenon
<1>4. ASSUME NEW r \in Reqs
      PROVE  /\ req'[r] \in Requests /\ req'[r].pc = req[r].pc /\ req'[r].key = req[r].key
             /\ req[r].told \in Nat /\ req'[r].told = IF req[r].told = 0 THEN 0 ELSE req[r].told - 1
             /\ req'[r].open = (req[r].open /\ counter[req[r].key].left # 1)
  <2> DEFINE t == IF req[r].told = 0 THEN 0 ELSE req[r].told - 1
             o == req[r].open /\ counter[req[r].key].left # 1
  <2>1. req'[r] = Request(req[r].pc, req[r].key, t, o)
    BY DEF LimiterTick
  <2>2. req[r].pc \in ReqPcs /\ req[r].key \in Keys /\ req[r].told \in Nat /\ t \in Nat
    BY <1>1, RequestsIs
  <2>3. o \in BOOLEAN
    OBVIOUS
  <2> HIDE DEF t, o
  <2>4. req'[r] \in Requests /\ req'[r].pc = req[r].pc /\ req'[r].key = req[r].key /\ req'[r].told = t /\ req'[r].open = o
    BY <2>1, <2>2, <2>3, RequestIs
  <2> QED BY <2>2, <2>4 DEF t, o
<1>5. req' \in [Reqs -> Requests]
  <2>1. req' = [q \in Reqs |-> req'[q]]
    BY DEF LimiterTick
  <2> QED BY <1>4, <2>1
<1>6. PlacesOK'
  BY <1>1, <1>4 DEF LimiterInv, PlacesOK, Place
<1>7. OpensOK'
  <2> SUFFICES ASSUME NEW r \in Reqs, req'[r].open PROVE OpenOK(req[r])'
    BY DEF OpensOK, OpenOK
  <2> DEFINE k == req[r].key
  <2>1. req[r].open /\ counter[k].left # 1
    BY <1>4, Zenon
  <2>2. /\ req[r].pc \in {"ttl", "denied"} /\ k \in {"main", "block"} /\ counter[k].left > 0
        /\ req[r].pc = "denied" => counter[k].left = Forever \/ req[r].told >= counter[k].left
    BY <2>1 DEF LimiterInv, OpensOK, OpenOK
  <2>3. k \in Keys
    BY <2>2 DEF Keys
  <2>4. /\ counter[k].left \in Nat /\ counter'[k].left \in Nat /\ counter'[k].left > 0
        /\ counter[k].left = Forever => counter'[k].left = Forever
        /\ counter[k].left # Forever => counter'[k].left = counter[k].left - 1
    <3>1. /\ counter[k].left \in Nat /\ counter'[k].left \in Nat
          /\ counter[k].left = Forever => counter'[k].left = Forever
          /\ counter[k].left # Forever => counter'[k].left = 0 \/ counter'[k].left = counter[k].left - 1
          /\ counter[k].left \notin {0, 1} => counter'[k].left > 0
      BY <1>3, <2>3, Zenon
    <3>2. counter[k].left \notin {0, 1}
      BY <2>1, <2>2, <3>1
    <3> QED BY <3>1, <3>2, SMTT(20)
  <2>5. req[r].pc = "denied" => counter'[k].left = Forever \/ req'[r].told >= counter'[k].left
    <3>1. req[r].told \in Nat /\ req'[r].told = IF req[r].told = 0 THEN 0 ELSE req[r].told - 1
      BY <1>4
    <3> QED BY <2>2, <2>4, <3>1
  <2> QED BY <1>4, <2>2, <2>4, <2>5 DEF OpenOK
<1>8. Passed' = Passed /\ Seeders' = Seeders
  BY <1>4 DEF Passed, Seeders
<1>9. "main" \in Keys /\ "fail" \in Keys /\ "block" \in Keys
  BY DEF Keys
<1>10. TakeOK'
  BY <1>1, <1>3, <1>9 DEF LimiterInv, TakeOK
<1>11. CountOK'
  <2>1. Cardinality(Passed) \in Nat /\ Cardinality(Reqs) \in Nat /\ MaxRequests \in Nat
    BY Budgets, SomeReqs, LimiterAssumption
  <2>2. counter["main"].n \in Nat /\ counter'["main"].n \in Nat /\ counter'["main"].n <= counter["main"].n
    BY <1>3, <1>9
  <2> QED BY <1>1, <1>8, <2>1, <2>2 DEF LimiterInv, CountOK
<1>12. LockoutOK'
  BY <1>1, <1>3, <1>8, <1>9 DEF LimiterInv, LockoutOK
<1>13. LimiterTypeOK' /\ CountersOK'
  BY <1>1, <1>2, <1>3, <1>5 DEF LimiterInv, LimiterTypeOK, CountersOK
<1> QED BY <1>6, <1>7, <1>10, <1>11, <1>12, <1>13 DEF LimiterInv

LEMMA LimiterStart ==
  ASSUME LimiterInit
  PROVE  LimiterInv
<1>1. Idle \in Requests /\ Idle.pc = "idle" /\ ~Idle.open
  BY DEF Idle, Request, Requests, ReqPcs, Keys
<1>2. LimiterTypeOK
  BY <1>1, AbsentIs DEF LimiterInit, LimiterTypeOK, Policies
<1>3. CountersOK
  BY AbsentIs, PeriodTyped DEF LimiterInit, CountersOK, CounterOK
<1>4. PlacesOK /\ OpensOK
  BY <1>1 DEF LimiterInit, PlacesOK, OpensOK, Place, OpenOK
<1>5. Passed = {} /\ Cardinality(Passed) = 0
  BY <1>1, FS_EmptySet DEF LimiterInit, Passed
<1>6. counter["main"].n = 0 /\ counter["block"].left = 0 /\ counter["fail"].left = 0 /\ spent = 0
  BY AbsentIs DEF LimiterInit, Keys
<1>7. Cardinality(Reqs) \in Nat /\ Cardinality(Seeders) \in Nat
  BY Budgets, SomeReqs
<1>8. TakeOK /\ CountOK /\ LockoutOK
  BY <1>5, <1>6, <1>7, LimiterAssumption, CounterIs, <1>2 DEF TakeOK, CountOK, LockoutOK, Keys
<1> QED BY <1>2, <1>3, <1>4, <1>8 DEF LimiterInv

LEMMA LimiterStep ==
  ASSUME LimiterInv, [LimiterNext]_lvars
  PROVE  LimiterInv'
<1>1. CASE UNCHANGED lvars
  BY <1>1 DEF lvars, LimiterInv, LimiterTypeOK, CountersOK, CounterOK, PlacesOK, OpensOK, Place, OpenOK,
              TakeOK, CountOK, LockoutOK, Passed, Seeders
<1> QED BY <1>1, ArriveKeeps, CountKeyKeeps, ReadTTLKeeps, SeedKeeps, IncrKeeps, FailsKeeps, HandlerKeeps,
           ForgottenKeeps, UnblockKeeps, DeleteBlockKeeps, AnsweredKeeps, LimiterTickKeeps DEF LimiterNext

\* The inductive invariant of the counters and of the requests that spend them.
THEOREM LimiterInvariant == LimiterSpec => []LimiterInv
<1>1. LimiterInit => LimiterInv
  BY LimiterStart
<1>2. LimiterInv /\ [LimiterNext]_lvars => LimiterInv'
  BY LimiterStep
<1> QED BY <1>1, <1>2, PTL DEF LimiterSpec

\* The budgets of every policy hold, for every limit, window and number of
\* requests that overlap.
THEOREM BudgetAlwaysKept == LimiterSpec => []BudgetKept
<1>1. LimiterInv => BudgetKept
  <2> SUFFICES ASSUME LimiterInv PROVE BudgetKept
    OBVIOUS
  <2>1. /\ Cardinality(Passed) \in Nat /\ Cardinality(Seeders) \in Nat /\ Cardinality(Reqs) \in Nat
        /\ Cardinality(Seeders) <= Cardinality(Reqs)
    BY Budgets, SomeReqs
  <2>2. counter["main"].n \in Nat /\ spent \in Nat
    BY CounterIs DEF LimiterInv, LimiterTypeOK, Keys
  <2>3. policy = "all" => spent <= MaxRequests
    BY DEF LimiterInv, TakeOK
  <2>4. policy \in {"failures", "successes"} /\ ~excused => counter["main"].n < MaxRequests + Cardinality(Reqs)
    BY <2>1, <2>2, LimiterAssumption DEF LimiterInv, CountOK
  <2>5. policy = "lockout" /\ ~excused => spent < Threshold + Cardinality(Reqs)
    BY <2>1, <2>2, LimiterAssumption DEF LimiterInv, LockoutOK
  <2> QED BY <2>3, <2>4, <2>5 DEF BudgetKept
<1> QED BY <1>1, LimiterInvariant, PTL

\* Retry-After never leads back into the window that refused, for every window
\* and block.
THEOREM RetryNeverEarly == LimiterSpec => []RetryNotEarly
<1>1. LimiterInv => RetryNotEarly
  <2> SUFFICES ASSUME LimiterInv, NEW r \in Reqs, req[r].pc = "denied", req[r].told = 0, req[r].open
               PROVE  counter[req[r].key].left = Forever
    BY DEF RetryNotEarly
  <2>1. req[r].key \in Keys
    BY RequestsIs DEF LimiterInv, LimiterTypeOK
  <2>2. counter[req[r].key].left \in Nat
    BY <2>1, CounterIs DEF LimiterInv
  <2> QED BY <2>2 DEF LimiterInv, OpensOK, OpenOK
<1> QED BY <1>1, LimiterInvariant, PTL

-----------------------------------------------------------------------------
(* The token bucket: NothingGained for any keys, rate and size. What is    *)
(* kept of a key, and the full bucket of a key that is not kept, is what a *)
(* bucket of its own would hold.                                           *)

BucketEntries == [tokens : Nat, age : Nat]

BucketInv ==
    /\ IsFiniteSet(DOMAIN entries)
    /\ \A k \in DOMAIN entries : entries[k] \in BucketEntries
    /\ ideal \in [BKeys -> 0..Full]
    /\ NothingGained

\* A tick more is Rate units more.
LEMMA Times ==
  ASSUME NEW a \in Nat, NEW r \in Nat
  PROVE  a * r \in Nat /\ (a + 1) * r = a * r + r /\ 0 * r = 0
<1>1. a * r >= 0
  OBVIOUS
<1>2. a * r \in Int
  OBVIOUS
<1> QED BY <1>1, <1>2

LEMMA FullTyped == Full \in Nat
BY BucketAssumption, Times DEF Full

LEMMA HoldingTyped ==
  ASSUME NEW t \in Nat, NEW a \in Nat
  PROVE  /\ Holding(t, a) \in BucketEntries
         /\ Holding(t, a).tokens = t /\ Holding(t, a).age = a
BY DEF Holding, BucketEntries

LEMMA RefilledTyped ==
  ASSUME NEW e \in BucketEntries
  PROVE  /\ Refilled(e) \in 0..Full
         /\ Droppable(e) => Refilled(e) = Full
         /\ ~Droppable(e) => Refilled(e) = e.tokens + e.age * Rate
         /\ e.age = 0 /\ e.tokens <= Full => Refilled(e) = e.tokens
<1>1. e.tokens \in Nat /\ e.age \in Nat
  BY DEF BucketEntries
<1>2. e.age * Rate \in Nat /\ 0 * Rate = 0
  BY <1>1, BucketAssumption, Times
<1> QED BY <1>1, <1>2, FullTyped DEF Refilled, Droppable, Least

LEMMA TakesTyped ==
  ASSUME NEW t \in 0..Full
  PROVE  Takes(t) \in 0..Full
BY BucketAssumption, FullTyped DEF Takes

LEMMA BucketTickKeeps ==
  ASSUME BucketInv, BucketTick
  PROVE  BucketInv'
<1>1. DOMAIN entries' = DOMAIN entries
  BY DEF BucketTick
<1>2. ASSUME NEW k \in DOMAIN entries
      PROVE  /\ entries'[k] \in BucketEntries
             /\ Refilled(entries'[k]) = Least(Full, Refilled(entries[k]) + Rate)
  <2>1. entries[k] \in BucketEntries /\ entries[k].tokens \in Nat /\ entries[k].age \in Nat
    BY <1>2 DEF BucketInv, BucketEntries
  <2>2. CASE Droppable(entries[k])
    <3>1. entries'[k] = entries[k]
      BY <1>2, <2>2 DEF BucketTick
    <3> QED BY <2>1, <2>2, <3>1, RefilledTyped, FullTyped, BucketAssumption DEF Least
  <2>3. CASE ~Droppable(entries[k])
    <3>1. entries'[k] = Holding(entries[k].tokens, entries[k].age + 1)
      BY <1>2, <2>3 DEF BucketTick
    <3>2. /\ entries'[k] \in BucketEntries
          /\ entries'[k].tokens = entries[k].tokens /\ entries'[k].age = entries[k].age + 1
      BY <2>1, <3>1, HoldingTyped
    <3>3. Refilled(entries[k]) = entries[k].tokens + entries[k].age * Rate
      BY <2>1, <2>3, RefilledTyped
    <3>4. (entries[k].age + 1) * Rate = entries[k].age * Rate + Rate /\ entries[k].age * Rate \in Nat
      BY <2>1, Times, BucketAssumption
    <3>5. Refilled(entries'[k]) = Least(Full, entries[k].tokens + (entries[k].age + 1) * Rate)
      BY <3>2 DEF Refilled
    <3>6. entries[k].tokens + (entries[k].age * Rate + Rate) = (entries[k].tokens + entries[k].age * Rate) + Rate
      BY <2>1, <3>4, BucketAssumption
    <3> QED BY <3>2, <3>3, <3>4, <3>5, <3>6
  <2> QED BY <2>2, <2>3
<1>3. ideal' = [k \in BKeys |-> Least(Full, ideal[k] + Rate)] /\ ideal \in [BKeys -> 0..Full]
  BY DEF BucketTick, BucketInv
<1>4. ideal' \in [BKeys -> 0..Full]
  BY <1>3, FullTyped, BucketAssumption DEF Least
<1>5. ASSUME NEW k \in BKeys PROVE Held(k)' = ideal'[k]
  <2>1. Held(k) = ideal[k]
    BY DEF BucketInv, NothingGained
  <2>2. CASE k \in DOMAIN entries
    BY <1>1, <1>2, <1>3, <2>1, <2>2 DEF Held
  <2>3. CASE k \notin DOMAIN entries
    <3>1. ideal[k] = Full /\ Held(k)' = Full
      BY <1>1, <2>1, <2>3 DEF Held, Full
    <3> QED BY <1>3, <3>1, FullTyped, BucketAssumption DEF Least
  <2> QED BY <2>2, <2>3
<1>6. NothingGained'
  BY <1>1, <1>5 DEF BucketInv, NothingGained
<1> QED BY <1>1, <1>2, <1>4, <1>6 DEF BucketInv, Full

\* Making room drops full buckets only.
LEMMA RoomyIs ==
  ASSUME BucketInv, NEW k \in BKeys
  PROVE  /\ DOMAIN Roomy(k) \subseteq DOMAIN entries
         /\ \A q \in DOMAIN Roomy(k) : Roomy(k)[q] = entries[q]
         /\ \A q \in DOMAIN entries \ DOMAIN Roomy(k) : Refilled(entries[q]) = Full
         /\ k \in DOMAIN entries => Roomy(k) = entries
         /\ IsFiniteSet(DOMAIN Roomy(k)) /\ Cardinality(DOMAIN Roomy(k)) \in Nat
         /\ Cardinality(DOMAIN Roomy(k)) <= MaxKeys
<1> DEFINE Busy == {q \in DOMAIN entries : ~Droppable(entries[q])}
<1>1. Roomy(k) = entries \/ (k \notin DOMAIN entries /\ Roomy(k) = Restrict(entries, Busy))
  BY DEF Roomy
<1>2. DOMAIN Restrict(entries, Busy) = Busy /\ \A q \in Busy : Restrict(entries, Busy)[q] = entries[q]
  BY DEF Restrict
<1>3. \A q \in DOMAIN entries \ Busy : Refilled(entries[q]) = Full
  BY RefilledTyped DEF BucketInv
<1>4. DOMAIN Roomy(k) \in SUBSET DOMAIN entries
  BY <1>1, <1>2
<1>5. IsFiniteSet(DOMAIN Roomy(k)) /\ Cardinality(DOMAIN Roomy(k)) <= Cardinality(DOMAIN entries)
  BY <1>4, FS_Subset DEF BucketInv
<1>6. Cardinality(DOMAIN Roomy(k)) \in Nat /\ Cardinality(DOMAIN entries) \in Nat
  BY <1>5, FS_CardinalityType DEF BucketInv
<1>7. Cardinality(DOMAIN entries) <= MaxKeys
  BY DEF BucketInv, NothingGained
<1>8. Cardinality(DOMAIN Roomy(k)) <= MaxKeys
  BY <1>5, <1>6, <1>7, BucketAssumption
<1> HIDE DEF Busy
<1> QED BY <1>1, <1>2, <1>3, <1>4, <1>5, <1>6, <1>8

LEMMA AllowKeeps ==
  ASSUME BucketInv, NEW k \in BKeys, Allow(k)
  PROVE  BucketInv'
<1>1. CASE ~HasRoom(k)
  <2>1. entries' = Roomy(k) /\ ideal' = ideal
    BY <1>1 DEF Allow
  <2>2. \A q \in BKeys : Held(q)' = Held(q)
    BY <2>1, RoomyIs DEF Held, Full, Refilled
  <2>3. \A q \in DOMAIN entries' : entries'[q] \in BucketEntries
    BY <2>1, RoomyIs DEF BucketInv
  <2>4. NothingGained'
    BY <2>1, <2>2, RoomyIs DEF BucketInv, NothingGained
  <2> QED BY <2>1, <2>3, <2>4, RoomyIs DEF BucketInv, Full
<1>2. CASE HasRoom(k)
  <2> DEFINE D == DOMAIN Roomy(k)
             topped == Holding(Takes(Held(k)), 0)
  <2>1. /\ entries' = [q \in D \cup {k} |-> IF q = k THEN topped ELSE entries[q]]
        /\ ideal' = [ideal EXCEPT ![k] = Takes(@)]
    BY <1>2 DEF Allow
  <2>2. Held(k) = ideal[k] /\ ideal[k] \in 0..Full /\ ideal \in [BKeys -> 0..Full]
    BY DEF BucketInv, NothingGained
  <2>3. Takes(Held(k)) \in 0..Full
    BY <2>2, TakesTyped
  <2>4. topped \in BucketEntries /\ topped.tokens = Takes(Held(k)) /\ topped.age = 0
    BY <2>3, HoldingTyped, FullTyped
  <2>5. Refilled(topped) = Takes(ideal[k])
    BY <2>2, <2>3, <2>4, RefilledTyped, FullTyped
  <2> HIDE DEF topped, D
  <2>6. DOMAIN entries' = D \cup {k} /\ entries'[k] = topped /\ \A q \in D \ {k} : entries'[q] = entries[q]
    BY <2>1
  <2>7. ideal' \in [BKeys -> 0..Full] /\ ideal'[k] = Takes(ideal[k])
        /\ \A q \in BKeys \ {k} : ideal'[q] = ideal[q]
    BY <2>1, <2>2, <2>3
  <2>8. ASSUME NEW q \in BKeys PROVE Held(q)' = ideal'[q]
    <3>1. CASE q = k
      BY <2>5, <2>6, <2>7, <3>1 DEF Held
    <3>2. CASE q # k /\ q \in D
      <4>1. q \in DOMAIN entries /\ q \in DOMAIN entries' /\ entries'[q] = entries[q] /\ ideal'[q] = ideal[q]
        BY <2>6, <2>7, <3>2, RoomyIs, Zenon DEF D
      <4>2. Held(q) = Refilled(entries[q]) /\ Held(q)' = Refilled(entries'[q])
        BY <4>1 DEF Held
      <4> QED BY <4>1, <4>2 DEF BucketInv, NothingGained
    <3>3. CASE q # k /\ q \notin D
      <4>1. q \notin DOMAIN entries' /\ ideal'[q] = ideal[q]
        BY <2>6, <2>7, <3>3
      <4>2. Held(q)' = Full /\ Held(q) = Full
        BY <3>3, <4>1, RoomyIs DEF Held, D, Full
      <4> QED BY <4>1, <4>2 DEF BucketInv, NothingGained
    <3> QED BY <3>1, <3>2, <3>3
  <2>9. IsFiniteSet(D \cup {k}) /\ Cardinality(D \cup {k}) <= MaxKeys
    <3>1. IsFiniteSet(D) /\ Cardinality(D) \in Nat /\ Cardinality(D) <= MaxKeys
      BY RoomyIs DEF D
    <3>2. CASE k \in DOMAIN entries
      <4>1. D \cup {k} = D
        BY <3>2, RoomyIs DEF D
      <4> QED BY <3>1, <4>1
    <3>3. CASE k \notin DOMAIN entries
      <4>1. Cardinality(D) < MaxKeys /\ k \notin D
        BY <1>2, <3>3, RoomyIs DEF HasRoom, D
      <4>2. Cardinality(D) + 1 <= MaxKeys
        BY <3>1, <4>1, BucketAssumption
      <4>3. IsFiniteSet(D \cup {k}) /\ Cardinality(D \cup {k}) = Cardinality(D) + 1
        BY <3>1, <4>1, FS_AddElement
      <4> QED BY <4>2, <4>3
    <3> QED BY <3>2, <3>3
  <2>10. \A q \in DOMAIN entries' : entries'[q] \in BucketEntries
    BY <2>4, <2>6, RoomyIs DEF BucketInv, D
  <2>11. NothingGained'
    BY <2>6, <2>8, <2>9 DEF NothingGained
  <2> QED BY <2>6, <2>7, <2>9, <2>10, <2>11 DEF BucketInv, Full
<1> QED BY <1>1, <1>2

\* The token bucket gives no key more than a bucket of its own would, for every
\* rate, burst and number of keys.
THEOREM BucketInvariant == BucketSpec => []NothingGained
<1>1. BucketInit => BucketInv
  <2> SUFFICES ASSUME BucketInit PROVE BucketInv
    OBVIOUS
  <2>1. DOMAIN entries = {} /\ ideal = [k \in BKeys |-> Full]
    BY DEF BucketInit
  <2>2. IsFiniteSet({}) /\ Cardinality({}) = 0
    BY FS_EmptySet
  <2>3. NothingGained
    BY <2>1, <2>2, BucketAssumption DEF NothingGained, Held
  <2> QED BY <2>1, <2>2, <2>3, FullTyped DEF BucketInv
<1>2. BucketInv /\ [BucketNext]_bvars => BucketInv'
  <2> SUFFICES ASSUME BucketInv, [BucketNext]_bvars PROVE BucketInv'
    OBVIOUS
  <2>1. CASE UNCHANGED bvars
    BY <2>1 DEF bvars, BucketInv, NothingGained, Held, Full, Refilled
  <2> QED BY <2>1, BucketTickKeeps, AllowKeeps DEF BucketNext
<1>3. BucketInv => NothingGained
  BY DEF BucketInv
<1> QED BY <1>1, <1>2, <1>3, PTL DEF BucketSpec

=============================================================================

------------------------------ MODULE Limiter ------------------------------
(***************************************************************************)
(* The counters of ratelimit on Valkey for one identity, the policies of   *)
(* fiberlimit that spend them (every request, the failures, the successes) *)
(* and Lockout.  A call of Incr is a SET NX EX and then an INCR, and other *)
(* requests, and the end of the window, come in between.  A tick is half a *)
(* second.                                                                 *)
(***************************************************************************)
EXTENDS Naturals, FiniteSets

CONSTANTS Reqs,
          MaxRequests, Threshold, Window, BlockFor,
          MaxCount              \* bound: a counter's value

\* A limit that lets something through; SET EX takes no period of zero.
ASSUME LimiterAssumption ==
    /\ IsFiniteSet(Reqs)
    /\ MaxRequests \in Nat \ {0} /\ Threshold \in Nat \ {0}
    /\ Window \in Nat \ {0} /\ BlockFor \in Nat \ {0}

VARIABLES policy,               \* what this behaviour's requests go through
          closed,               \* FailMode
          counter,              \* key -> value and time left; left 0: no such key
          spent,                \* history: requests let through in the live window, or
                                \* failures of a lockout since its window or a block began
          excused,              \* history: a call to the store has failed
          req

lvars == <<policy, closed, counter, spent, excused, req>>

Keys == {"main", "fail", "block"}

\* The time left of a key that never expires.
Forever == Window + BlockFor

Period(k) == IF k = "block" THEN BlockFor ELSE Window

Val(n, left) == [n |-> n, left |-> left]

Absent == Val(0, 0)

\* told: the time until the retry; open: history, the window that refused is open.
Request(pc, key, told, open) == [pc |-> pc, key |-> key, told |-> told, open |-> open]

Idle == Request("idle", "main", 0, FALSE)

Move(r, rec) == req' = [req EXCEPT ![r] = rec]

Goto(r, pc, key) == Move(r, Request(pc, key, 0, FALSE))

\* A key that comes to exist starts a new window.
Write(k, v) ==
    /\ counter' = [counter EXCEPT ![k] = v]
    /\ spent' = IF counter[k].left = 0 THEN 0 ELSE spent

Untouched == UNCHANGED <<policy, closed, counter, spent, excused>>

-----------------------------------------------------------------------------
(* Lockout.Check, Limiter.DecideFailures and Limiter.Decide.               *)

\* What a store error makes of the call under way: the fail mode decides for a
\* check, and a failure that could not be recorded is only logged.
OnError(pc) ==
    CASE pc \in {"seedtake", "incrtake", "count"} -> IF closed THEN "unavailable" ELSE "handler"
      [] OTHER -> "done"

Arrive(r) ==
    /\ req[r].pc = "idle"
    /\ IF policy = "all" THEN Goto(r, "seedtake", "main")
       ELSE Goto(r, "count", IF policy = "lockout" THEN "block" ELSE "main")
    /\ Untouched

\* A count is compared before the handler spends it.
Denied(key, n) == IF key = "block" THEN n > 0 ELSE n >= MaxRequests

CountKey(r) ==
    LET k == req[r].key
        n == counter[k].n
    IN  /\ req[r].pc = "count"
        /\ IF Denied(k, n) THEN Move(r, Request("ttl", k, 0, TRUE))
           ELSE Goto(r, "handler", k)
        /\ Untouched

\* Variant with a fault: a part of a second is dropped.
RetryDown(t) == IF t \div 2 < 1 THEN 2 ELSE 2 * (t \div 2)

\* RetryAfterSeconds: whole seconds, rounded up, at least one.
RetryAfter(t) == IF t < 2 THEN 2 ELSE 2 * ((t + 1) \div 2)

\* reset: a key with no time left to report is given the whole window.
Reset(k) == IF counter[k].left \in {0, Forever} THEN Period(k) ELSE counter[k].left

\* The header of a policy is in whole seconds, the answer of Lockout.Check is not.
Hint(k, reset) == IF k = "block" THEN reset ELSE RetryAfter(reset)

ReadTTL(r) ==
    /\ req[r].pc = "ttl"
    /\ \E reset \in {Reset(req[r].key), Period(req[r].key)} :
         Move(r, Request("denied", req[r].key, Hint(req[r].key, reset), req[r].open))
    /\ Untouched

-----------------------------------------------------------------------------
(* ValkeyCounter.Incr.                                                     *)

SetNX(k) == IF counter[k].left = 0 THEN Write(k, Val(0, Period(k))) ELSE UNCHANGED <<counter, spent>>

Seed(r) ==
    /\ req[r].pc \in {"seedtake", "seed"}
    /\ SetNX(req[r].key)
    /\ Goto(r, IF req[r].pc = "seed" THEN "incr" ELSE "incrtake", req[r].key)
    /\ UNCHANGED <<policy, closed, excused>>

\* Variant with a fault: only the failure that reaches the threshold blocks.
BlocksOnce(n) == n = Threshold

\* Fail: the failure that reaches the threshold, and every later one, blocks.
Blocks(n) == n >= Threshold

\* Take and Decide: the new value is over the budget.
Over(n) == n > MaxRequests

\* Take and Decide judge the new value; Fail goes on to the block.
Counted(r, n) ==
    CASE req[r].pc = "incrtake" ->
           IF Over(n) THEN Request("ttl", "main", 0, TRUE) ELSE Request("handler", "main", 0, FALSE)
      [] req[r].pc = "incr" /\ req[r].key = "fail" /\ Blocks(n) -> Request("seed", "block", 0, FALSE)
      [] OTHER -> Request("done", req[r].key, 0, FALSE)

\* INCR: a key that does not exist is created, without an expiry.
Bumped(v) == Val(v.n + 1, IF v.left = 0 THEN Forever ELSE v.left)

Incr(r) ==
    LET k == req[r].key
        old == counter[k]
        new == Counted(r, old.n + 1)
    IN  /\ req[r].pc \in {"incrtake", "incr"}
        /\ old.n < MaxCount
        /\ counter' = [counter EXCEPT ![k] = Bumped(old)]
        /\ spent' = (IF old.left = 0 THEN 0 ELSE spent)
                      + (IF new.pc = "handler" \/ (k = "fail" /\ counter["block"].left = 0) THEN 1 ELSE 0)
        /\ Move(r, new)
        /\ UNCHANGED <<policy, closed, excused>>

\* A call to the store fails, before or after it took effect (a delete that
\* took effect leaves what DeleteFail, or DeleteBlock and a failure, leave).
Fails(r) ==
    /\ req[r].pc \in {"seedtake", "incrtake", "count", "seed", "incr", "reset", "unblock", "unfail"}
    /\ \/ UNCHANGED <<counter, spent>>
       \/ /\ req[r].pc \in {"seed", "seedtake"}
          /\ SetNX(req[r].key)
       \/ /\ req[r].pc \in {"incr", "incrtake"}
          /\ counter[req[r].key].n < MaxCount
          /\ Write(req[r].key, Bumped(counter[req[r].key]))
    /\ Goto(r, OnError(req[r].pc), req[r].key)
    /\ excused' = TRUE
    /\ UNCHANGED <<policy, closed>>

-----------------------------------------------------------------------------
(* The handler and what follows it.                                        *)

\* The handler fails, or not; SkipCount is a failure that is not counted.
Handler(r) ==
    /\ req[r].pc = "handler"
    /\ \/ Goto(r, "done", "main")
       \/ policy \in {"failures", "successes"} /\ Goto(r, "seed", "main")
       \/ policy = "lockout" /\ Goto(r, "seed", "fail")
       \/ policy = "lockout" /\ Goto(r, "reset", "fail")
    /\ Untouched

\* Lockout.Reset, after a success.
ResetFailures(r) ==
    /\ req[r].pc = "reset"
    /\ counter' = [counter EXCEPT !["fail"] = Absent]
    /\ Goto(r, "done", "fail")
    /\ UNCHANGED <<policy, closed, spent, excused>>

\* Lockout.Unblock: two deletes.
Unblock(r) ==
    /\ req[r].pc = "idle"
    /\ policy = "lockout"
    /\ Goto(r, "unblock", "block")
    /\ Untouched

DeleteBlock(r) ==
    /\ req[r].pc = "unblock"
    /\ counter' = [counter EXCEPT !["block"] = Absent]
    /\ req' = [q \in Reqs |-> IF q = r THEN Request("unfail", "fail", 0, FALSE)
                              ELSE Request(req[q].pc, req[q].key, req[q].told, req[q].open /\ policy # "lockout")]
    /\ UNCHANGED <<policy, closed, spent, excused>>

DeleteFail(r) ==
    /\ req[r].pc = "unfail"
    /\ counter' = [counter EXCEPT !["fail"] = Absent]
    /\ Goto(r, "done", "fail")
    /\ UNCHANGED <<policy, closed, spent, excused>>

Answered(r) ==
    /\ req[r].pc \in {"done", "denied", "unavailable"}
    /\ Move(r, Idle)
    /\ Untouched

Older(v) ==
    IF v.left \in {0, Forever} THEN v ELSE IF v.left = 1 THEN Absent ELSE Val(v.n, v.left - 1)

LimiterTick ==
    /\ counter' = [k \in Keys |-> Older(counter[k])]
    /\ req' = [r \in Reqs |-> Request(req[r].pc, req[r].key, IF req[r].told = 0 THEN 0 ELSE req[r].told - 1,
                                       req[r].open /\ counter[req[r].key].left # 1)]
    /\ UNCHANGED <<policy, closed, spent, excused>>

LimiterInit ==
    /\ policy \in {"all", "failures", "successes", "lockout"}
    /\ closed \in BOOLEAN
    /\ counter = [k \in Keys |-> Absent]
    /\ spent = 0
    /\ excused = FALSE
    /\ req = [r \in Reqs |-> Idle]

LimiterNext ==
    \/ \E r \in Reqs :
         \/ Arrive(r) \/ CountKey(r) \/ ReadTTL(r) \/ Seed(r) \/ Incr(r) \/ Fails(r)
         \/ Handler(r) \/ ResetFailures(r) \/ Unblock(r) \/ DeleteBlock(r) \/ DeleteFail(r)
         \/ Answered(r)
    \/ LimiterTick

LimiterSpec == LimiterInit /\ [][LimiterNext]_lvars

-----------------------------------------------------------------------------
(* Properties.                                                             *)

\* A fail-closed throughput policy lets at most MaxRequests requests through in a
\* window, whatever calls to the store fail.  The budget of the other policies is
\* read before the handler and spent after it, and a lockout's block is set
\* after the failure is counted: requests that overlap may spend more than there
\* is, but each of them at most once before the next are refused, as long as no
\* call to the store fails.
BudgetKept ==
    /\ policy = "all" /\ closed => spent <= MaxRequests
    /\ policy \in {"failures", "successes"} /\ ~excused
         => counter["main"].n < MaxRequests + Cardinality(Reqs)
    /\ policy = "lockout" /\ ~excused => spent < Threshold + Cardinality(Reqs)

\* Nobody is told to come back while the window that refused them is open.
RetryNotEarly ==
    \A r \in Reqs :
        req[r].pc = "denied" /\ req[r].told = 0 /\ req[r].open
          => counter[req[r].key].left = Forever

\* Every counter has a time to live, so that nobody stays locked out for good.
EveryKeyExpires == \A k \in Keys : counter[k].left # Forever

=============================================================================

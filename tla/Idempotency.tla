---------------------------- MODULE Idempotency ----------------------------
(***************************************************************************)
(* The idempotency middleware over DynamoStore, for one key of one scope:  *)
(* requests that carry the key claim it, run the handler and record its    *)
(* answer or give the claim back, on any number of processes.              *)
(*                                                                         *)
(* Times are kept relative to now: left is the ttl of the row, age what    *)
(* has passed since the request read the clock for its claim.              *)
(***************************************************************************)
EXTENDS Integers

CONSTANTS Requests,  \* requests in flight at once
          FailOpen,  \* those on a route with Config.FailOpen
          Hashes,    \* request fingerprints
          Statuses,  \* what the handler may answer
          Lease, TTL,
          MaxRun,    \* the longest a request takes, bookkeeping included
          MaxFaults, \* failed store calls and crashes
          None

ASSUME IdempotencyAssumption ==
    /\ FailOpen \subseteq Requests
    /\ Statuses \subseteq Nat \ {0}
    /\ Lease \in Nat /\ TTL \in Nat /\ MaxRun \in Nat /\ MaxFaults \in Nat
    /\ None \notin Hashes
    /\ None \notin [hash: Hashes, status: {0} \cup Statuses, left: Int]

VARIABLES row,     \* the key's row in the table, or None
          req,     \* req[r]: where r is in the middleware
          faults,  \* failures so far
          served,  \* history: the last final answer a handler gave
          effects, \* history: final answers since the last recorded one expired
          late,    \* history: a request has outlived its lease
          repeated \* history: a release was sent again after it took effect

vars == <<row, req, faults, served, effects, late, repeated>>

Row(hash, status, left) == [hash |-> hash, status |-> status, left |-> left]

Request(pc, hash, status, age) ==
    [pc |-> pc, hash |-> hash, status |-> status, age |-> age]

NoRequest == Request("idle", None, 0, 0)

Idle(r) == req[r].pc \in {"idle", "replayed"}

\* Between the claim and the end of the bookkeeping.
Runs(r) == req[r].pc \in {"run", "complete", "release"}

Become(r, q) == req' = [req EXCEPT ![r] = q]

\* recordable.
Recordable(status) ==
    /\ status \notin {401, 403, 408, 409, 423, 425, 429}
    /\ status \in 200..299 \/ status \in 400..499

Fault == faults < MaxFaults /\ faults' = faults + 1

\* A request with the key enters the middleware and reads the clock.
Begin(r, h) ==
    /\ Idle(r)
    /\ Become(r, Request("claim", h, 0, 0))
    /\ UNCHANGED <<row, faults, served, effects, late, repeated>>

\* Variant with a fault: a row is free in the second of its ttl.
FreeEarly(age) == row # None => row.left + age <= 0

\* Variant with a fault: a row is free only once the table has deleted it.
FreeOnceSwept(age) == row = None

\* The condition of Claim's put: attribute_not_exists(pk) OR #ttl < :now.
Free(age) == row # None => row.left + age < 0

\* Variant with a fault: the fingerprint is not compared.
AnswersAnyHash(q) == row.status # 0

\* The row holds the answer to this request, not a claim or another request's.
Answers(q) == row.hash = q.hash /\ row.status # 0

\* Claim: hold the key, or replay, or refuse (conflict, in progress).
Claim(r) ==
    LET q == req[r]
    IN  /\ q.pc = "claim"
        /\ \/ /\ Free(q.age)
              /\ row' = Row(q.hash, 0, Lease - q.age)
              /\ Become(r, Request("run", q.hash, 0, q.age))
           \/ /\ ~Free(q.age)
              /\ Become(r, IF Answers(q) THEN Request("replayed", q.hash, row.status, 0)
                           ELSE NoRequest)
              /\ UNCHANGED row
        /\ UNCHANGED <<faults, served, effects, late, repeated>>

\* Claim fails, its write landed or not: run unprotected or refuse.  When the
\* client repeats a write that landed, the repetition finds the request's own
\* claim and is refused as in progress.
ClaimFault(r) ==
    LET q == req[r]
    IN  /\ q.pc = "claim"
        /\ Fault
        /\ \/ UNCHANGED row
           \/ Free(q.age) /\ row' = Row(q.hash, 0, Lease - q.age)
        /\ \/ Become(r, IF r \in FailOpen THEN Request("open", q.hash, 0, 0) ELSE NoRequest)
           \/ row' # row /\ Become(r, NoRequest)
        /\ UNCHANGED <<served, effects, late, repeated>>

\* The handler returns: its answer is final, or the claim is given back (spoiled:
\* it returned an error, or a body too large to store).
Handled(r, status, spoiled) ==
    LET q == req[r]
    IN  /\ q.pc = "run"
        /\ \/ /\ Recordable(status) /\ ~spoiled
              /\ Become(r, Request("complete", q.hash, status, q.age))
              /\ served' = Row(q.hash, status, 0)
              /\ effects' = effects + 1
           \/ /\ ~(Recordable(status) /\ ~spoiled)
              /\ Become(r, Request("release", q.hash, 0, q.age))
              /\ UNCHANGED <<served, effects>>
        /\ UNCHANGED <<row, faults, late, repeated>>

\* The handler of a request that runs unprotected returns; nothing is recorded.
OpenHandled(r) ==
    /\ req[r].pc = "open"
    /\ Become(r, NoRequest)
    /\ UNCHANGED <<row, faults, served, effects, late, repeated>>

\* Complete replaces the row, whatever it holds.
Complete(r) ==
    /\ req[r].pc = "complete"
    /\ row' = Row(req[r].hash, req[r].status, TTL)
    /\ Become(r, NoRequest)
    /\ UNCHANGED <<faults, served, effects, late, repeated>>

\* Complete fails, its write landed or not; the response is returned all the same.
CompleteFault(r) ==
    /\ req[r].pc = "complete"
    /\ Fault
    /\ row' \in {row, Row(req[r].hash, req[r].status, TTL)}
    /\ Become(r, NoRequest)
    /\ UNCHANGED <<served, effects, late, repeated>>

\* What the conditional delete of Release leaves: it removes a claim, anyone's,
\* and never an answer.
Released == IF row # None /\ row.status = 0 THEN None ELSE row

Release(r) ==
    /\ req[r].pc = "release"
    /\ row' = Released
    /\ Become(r, NoRequest)
    /\ UNCHANGED <<faults, served, effects, late, repeated>>

\* Release fails, its delete landed or not, and the client of the table gives up
\* or sends it again.  (A completion sent again writes the same row again.)
ReleaseFault(r) ==
    /\ req[r].pc = "release"
    /\ Fault
    /\ row' \in {row, Released}
    /\ \/ /\ Become(r, NoRequest)
          /\ UNCHANGED repeated
       \/ /\ UNCHANGED req
          /\ repeated' = (repeated \/ row' # row)
    /\ UNCHANGED <<served, effects, late>>

\* The process dies or the handler panics, its effect done or not.
Crash(r) ==
    /\ ~Idle(r)
    /\ Fault
    /\ Become(r, NoRequest)
    /\ effects' \in IF req[r].pc = "run" THEN {effects, effects + 1} ELSE {effects}
    /\ UNCHANGED <<row, served, late, repeated>>

\* DynamoDB deletes a row past its ttl, sooner or later.
Sweep ==
    /\ row # None /\ row.left < 0
    /\ row' = None
    /\ UNCHANGED <<req, faults, served, effects, late, repeated>>

\* A claim or a bookkeeping write with this clock reading is still to come.
Active(r) == Runs(r) \/ req[r].pc = "claim"

\* A second passes.  No request outlives MaxRun.  How long ago a row expired
\* matters only up to the age of a claim.
Tick ==
    /\ \A r \in Requests : Active(r) => req[r].age < MaxRun
    /\ req' = [r \in Requests |->
                 IF Active(r)
                 THEN Request(req[r].pc, req[r].hash, req[r].status, req[r].age + 1)
                 ELSE req[r]]
    /\ row' = IF row = None THEN None
              ELSE IF row.left < -MaxRun THEN row
              ELSE Row(row.hash, row.status, row.left - 1)
    /\ effects' = IF row = None THEN effects
                  ELSE IF row.status # 0 /\ row.left = 0 THEN 0 ELSE effects
    /\ late' = (late \/ \E r \in Requests : Active(r) /\ req[r].age >= Lease)
    /\ UNCHANGED <<faults, served, repeated>>

Init ==
    /\ row = None
    /\ req = [r \in Requests |-> NoRequest]
    /\ faults = 0
    /\ served = None
    /\ effects = 0
    /\ late = FALSE
    /\ repeated = FALSE

Step(r) ==
    \/ Claim(r)
    \/ \E s \in Statuses, spoiled \in BOOLEAN : Handled(r, s, spoiled)
    \/ OpenHandled(r) \/ Complete(r) \/ Release(r)

Break(r) == ClaimFault(r) \/ CompleteFault(r) \/ ReleaseFault(r) \/ Crash(r)

Next ==
    \/ \E r \in Requests : (\E h \in Hashes : Begin(r, h)) \/ Step(r) \/ Break(r)
    \/ Sweep
    \/ Tick

Spec == Init /\ [][Next]_vars

(* Fairness.  Time passes and requests go on; nothing is assumed of Sweep. *)
FairSpec == Spec /\ WF_vars(Tick) /\ \A r \in Requests : WF_vars(Step(r))

-----------------------------------------------------------------------------
(* Properties.                                                             *)

Rows == [hash: Hashes, status: {0} \cup Statuses, left: Int]

Places == {"idle", "claim", "run", "open", "complete", "release", "replayed"}

\* The row, the requests and the counters keep their types; what is about to be
\* recorded is a final answer.
TypeOK ==
    /\ row \in {None} \cup Rows
    /\ req \in [Requests -> [pc: Places, hash: Hashes \cup {None},
                             status: {0} \cup Statuses, age: 0..MaxRun]]
    /\ \A r \in Requests :
         /\ req[r].pc # "idle" => req[r].hash \in Hashes
         /\ req[r].pc = "complete" => Recordable(req[r].status)
    /\ faults \in 0..MaxFaults
    /\ served \in {None} \cup Rows
    /\ effects \in Nat
    /\ late \in BOOLEAN /\ repeated \in BOOLEAN

Alone == \A r, q \in Requests : Runs(r) /\ Runs(q) => r = q

\* What the documentation of Lease asks for, and no release sent twice.
Orderly == ~late /\ ~repeated

\* While that holds, no two protected requests with the key run at the same time,
\* crashes, lost responses and stale clock readings included.
OneRunner == Orderly => Alone

\* Within the TTL of a recorded answer the handler has run to a final answer
\* once, and once more for each failed store call or crash.
RepeatsExplained == Orderly => effects <= faults + 1

HasAnswer == row # None /\ row.status # 0 /\ row.left >= 0

\* The inductive invariant: the row is the claim of the request that runs, an
\* answer stored or about to be is the one that was served, and only then is there
\* one more final answer than failures.
RunnerHolds ==
    \A r \in Requests :
        /\ Active(r) => req[r].age <= Lease
        /\ Runs(r) => row # None /\ row.status = 0 /\ row.left = Lease - req[r].age

Serves(hash, status) == served # None /\ served.hash = hash /\ served.status = status

AnswerServed ==
    /\ row # None /\ row.status # 0 => Serves(row.hash, row.status)
    /\ \A r \in Requests :
         req[r].pc = "complete" => Serves(req[r].hash, req[r].status)

Pending == HasAnswer \/ \E r \in Requests : req[r].pc = "complete"

EffectsPaid == effects <= faults + 1 /\ (~Pending => effects <= faults)

Core == RunnerHolds /\ Alone /\ AnswerServed /\ EffectsPaid

IInv == TypeOK /\ (Orderly => Core)

Kept ==
    HasAnswer => /\ row' # None /\ row'.status # 0
                 /\ Orderly => row'.hash = row.hash /\ row'.status = row.status

\* A recorded answer that has not expired is never removed or turned into a claim,
\* not even by a request that outlived its lease (Release); and it stays the same
\* answer while all is orderly.
AnswerStays == [][Kept]_vars

Replayed ==
    \A r \in Requests :
        Orderly /\ req[r].pc # "replayed" /\ req'[r].pc = "replayed" =>
            Serves(req[r].hash, req'[r].status)

\* A replay is the last final answer the handler gave, to a request with the same
\* fingerprint.
ReplayIsOriginal == [][Replayed]_vars

Blocked == row # None /\ row.status = 0 /\ ~Free(0)

\* A claim does not block the key for ever, also when its holder died and the
\* table never deletes the row.
ClaimLapses == Blocked ~> ~Blocked

\* The claim is one conditional write before the handler, so concurrent requests
\* with one key, each within its lease, run the handler once (New).
ConcurrentRunOnce ==
    ~late => \A r, q \in Requests : req[r].pc = "run" /\ req[q].pc = "run" => r = q

=============================================================================

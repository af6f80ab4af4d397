---------------------------- MODULE WriteProofs -----------------------------
(***************************************************************************)
(* What becomes of a write that is repeated or raced, for every value of   *)
(* the constants: requests with an idempotency key, and an item that       *)
(* others write.                                                           *)
(***************************************************************************)
EXTENDS Idempotency, Versioned, TLAPS

-----------------------------------------------------------------------------
(* The safety properties of Idempotency, for every set of requests, lease, *)
(* TTL, longest run and number of failures.                                *)

\* Named, so that a fact about them is not a disjunction.
Codes == {0} \cup Statuses

Marks == Hashes \cup {None}

Frames == [pc: Places, hash: Hashes \cup {None}, status: {0} \cup Statuses,
           age: 0..MaxRun]

\* A frame that TypeOK allows.
Proper(q) ==
    /\ q \in Frames
    /\ q.pc # "idle" => q.hash \in Hashes
    /\ q.pc = "complete" => Recordable(q.status)

\* Everything of TypeOK but the requests.
Others ==
    /\ row \in {None} \cup Rows
    /\ faults \in 0..MaxFaults
    /\ served \in {None} \cup Rows
    /\ effects \in Nat
    /\ late \in BOOLEAN /\ repeated \in BOOLEAN

\* TypeOK, request by request.
Typed == Others /\ req \in [Requests -> Frames] /\ \A r \in Requests : Proper(req[r])

-----------------------------------------------------------------------------
(* Types.                                                                  *)

\* A row has the fields it was built from, and is not None.
LEMMA RowForm ==
    ASSUME NEW h \in Hashes, NEW s \in Codes, NEW n \in Int
    PROVE  /\ Row(h, s, n) \in Rows /\ Row(h, s, n) # None
           /\ Row(h, s, n).hash = h /\ Row(h, s, n).status = s /\ Row(h, s, n).left = n
BY IdempotencyAssumption DEF Row, Rows, Codes

\* A request has the fields it was built from.
LEMMA RequestForm ==
    ASSUME NEW pc \in Places, NEW h \in Marks,
           NEW s \in Codes, NEW a \in 0..MaxRun
    PROVE  /\ Request(pc, h, s, a) \in Frames
           /\ Request(pc, h, s, a).pc = pc /\ Request(pc, h, s, a).hash = h
           /\ Request(pc, h, s, a).status = s /\ Request(pc, h, s, a).age = a
BY DEF Request, Frames, Codes, Marks

\* No request is a proper one.
LEMMA NoRequestForm == Proper(NoRequest) /\ NoRequest.pc = "idle"
<1>1. "idle" \in Places /\ 0 \in 0..MaxRun /\ 0 \in Codes /\ None \in Marks
  BY IdempotencyAssumption DEF Places, Codes, Marks
<1>2. NoRequest \in Frames /\ NoRequest.pc = "idle"
  BY <1>1, RequestForm DEF NoRequest
<1> QED
  BY <1>2 DEF Proper

\* The two forms of the types say the same.
LEMMA Types == TypeOK <=> Typed
BY DEF TypeOK, Typed, Others, Frames, Proper

\* What Become leaves.
LEMMA BecomeForm ==
    ASSUME TypeOK, NEW r \in Requests, NEW q, Become(r, q)
    PROVE  req'[r] = q /\ \A d \in Requests \ {r} : req'[d] = req[d]
BY Types DEF Typed, Become

\* A step of one request keeps the types if it leaves a proper frame.
LEMMA TypeMoved ==
    ASSUME TypeOK, NEW r \in Requests, NEW q, Proper(q), Become(r, q), Others'
    PROVE  TypeOK'
<1>1. req' \in [Requests -> Frames]
  BY Types DEF Typed, Become, Proper
<1>2. \A d \in Requests : Proper(req'[d])
  BY BecomeForm, Types DEF Typed
<1>3. Typed'
  BY <1>1, <1>2, Zenon DEF Typed
<1> QED
  BY <1>3, Types, PTL

\* What a request and the rest of the state are known to be.
LEMMA Frame ==
    ASSUME TypeOK, NEW r \in Requests
    PROVE  /\ Proper(req[r]) /\ req[r].age \in 0..MaxRun /\ Others
           /\ req[r].pc # "idle" => req[r].hash \in Hashes
           /\ req[r].status \in Codes
           /\ Lease - req[r].age \in Int
BY Types, IdempotencyAssumption DEF Typed, Proper, Frames, Codes

\* What the proofs use of the named sets.
LEMMA NamedSets == 0 \in Codes /\ 0 \in 0..MaxRun /\ Statuses \subseteq Codes
                   /\ Hashes \subseteq Marks /\ TTL \in Int
BY IdempotencyAssumption DEF Codes, Marks


\* Every step keeps the types.
LEMMA TypeStep ==
    ASSUME TypeOK, [Next]_vars
    PROVE  TypeOK'
<1> USE NamedSets DEF Places
<1>0. Others
  BY Types DEF Typed
<1>1. ASSUME NEW r \in Requests, NEW h \in Hashes, Begin(r, h) PROVE TypeOK'
  <2>1. Proper(Request("claim", h, 0, 0))
    BY RequestForm, IdempotencyAssumption DEF Proper
  <2>2. Others'
    BY <1>0, <1>1 DEF Begin, Others
  <2> QED
    BY <1>1, <2>1, <2>2, TypeMoved DEF Begin
<1>2. ASSUME NEW r \in Requests, Claim(r) PROVE TypeOK'
  <2>1. /\ req[r].hash \in Hashes /\ req[r].age \in 0..MaxRun
        /\ Lease - req[r].age \in Int
    BY <1>2, Frame DEF Claim
  <2>2. CASE Free(req[r].age)
    <3>1. Proper(Request("run", req[r].hash, 0, req[r].age))
      BY <2>1, RequestForm DEF Proper
    <3>2. Row(req[r].hash, 0, Lease - req[r].age) \in Rows
      BY <2>1, RowForm
    <3>3. Others'
      BY <1>0, <1>2, <2>2, <3>2 DEF Claim, Others
    <3> QED
      BY <1>2, <2>2, <3>1, <3>3, TypeMoved DEF Claim
  <2>3. CASE ~Free(req[r].age)
    <3>1. Others'
      BY <1>0, <1>2, <2>3 DEF Claim, Others
    <3>2. CASE Answers(req[r])
      <4>1. row.status \in Codes
        BY <1>0, <2>3 DEF Free, Others, Rows, Codes
      <4>2. Proper(Request("replayed", req[r].hash, row.status, 0))
        <5>1. req[r].hash \in Marks
          BY <2>1
        <5> QED
          BY <2>1, <4>1, <5>1, RequestForm DEF Proper
      <4> QED
        BY <1>2, <2>3, <3>1, <3>2, <4>2, TypeMoved DEF Claim
    <3>3. CASE ~Answers(req[r])
      BY <1>2, <2>3, <3>1, <3>3, NoRequestForm, TypeMoved DEF Claim
    <3> QED
      BY <3>2, <3>3
  <2> QED
    BY <2>2, <2>3
<1>3. ASSUME NEW r \in Requests, ClaimFault(r) PROVE TypeOK'
  <2>1. req[r].hash \in Hashes /\ Lease - req[r].age \in Int
    BY <1>3, Frame DEF ClaimFault
  <2>2. Row(req[r].hash, 0, Lease - req[r].age) \in Rows
    BY <2>1, RowForm
  <2>3. Others'
    BY <1>0, <1>3, <2>2, IdempotencyAssumption DEF ClaimFault, Fault, Others
  <2>4. Proper(Request("open", req[r].hash, 0, 0))
    BY <2>1, RequestForm, IdempotencyAssumption DEF Proper
  <2> QED
    BY <1>3, <2>3, <2>4, NoRequestForm, TypeMoved DEF ClaimFault
<1>4. ASSUME NEW r \in Requests, NEW s \in Statuses, NEW spoiled \in BOOLEAN,
             Handled(r, s, spoiled)
      PROVE  TypeOK'
  <2>1. req[r].hash \in Hashes /\ req[r].age \in 0..MaxRun
    BY <1>4, Frame DEF Handled
  <2>2. CASE Recordable(s) /\ ~spoiled
    <3>1. Proper(Request("complete", req[r].hash, s, req[r].age))
      BY <2>1, <2>2, RequestForm DEF Proper
    <3>2. Row(req[r].hash, s, 0) \in Rows
      BY <2>1, RowForm
    <3>3. Others'
      BY <1>0, <1>4, <2>2, <3>2 DEF Handled, Others
    <3> QED
      BY <1>4, <2>2, <3>1, <3>3, TypeMoved DEF Handled
  <2>3. CASE ~(Recordable(s) /\ ~spoiled)
    <3>1. Proper(Request("release", req[r].hash, 0, req[r].age))
      BY <2>1, RequestForm DEF Proper
    <3>2. Others'
      BY <1>0, <1>4, <2>3 DEF Handled, Others
    <3> QED
      BY <1>4, <2>3, <3>1, <3>2, TypeMoved DEF Handled
  <2> QED
    BY <2>2, <2>3
<1>5. ASSUME NEW r \in Requests, OpenHandled(r) PROVE TypeOK'
  <2>1. Others'
    BY <1>0, <1>5 DEF OpenHandled, Others
  <2> QED
    BY <1>5, <2>1, NoRequestForm, TypeMoved DEF OpenHandled
<1>6. ASSUME NEW r \in Requests, Complete(r) \/ CompleteFault(r) PROVE TypeOK'
  <2>0. req[r].hash \in Hashes /\ req[r].status \in Codes
    BY <1>6, Frame DEF Complete, CompleteFault
  <2>1. Row(req[r].hash, req[r].status, TTL) \in Rows
    BY <2>0, RowForm
  <2>2. Others'
    BY <1>0, <1>6, <2>1, IdempotencyAssumption DEF Complete, CompleteFault, Fault, Others
  <2> QED
    BY <1>6, <2>2, NoRequestForm, TypeMoved DEF Complete, CompleteFault
<1>7. ASSUME NEW r \in Requests, Release(r) \/ ReleaseFault(r) PROVE TypeOK'
  <2>0. row' \in {None, row} /\ faults' \in 0..MaxFaults /\ UNCHANGED <<served, effects, late>>
    BY <1>0, <1>7, IdempotencyAssumption DEF Release, ReleaseFault, Released, Fault, Others
  <2>1a. repeated' \in BOOLEAN
    BY <1>0, <1>7, Zenon DEF Release, ReleaseFault, Others
  <2>1. Others'
    BY <1>0, <2>0, <2>1a DEF Others
  <2>2. CASE Become(r, NoRequest)
    BY <2>1, <2>2, NoRequestForm, TypeMoved
  <2>3. CASE UNCHANGED req
    <3>1. Typed'
      BY <2>1, <2>3, Types DEF Typed
    <3> QED
      BY <3>1, Types, PTL
  <2> QED
    BY <1>7, <2>2, <2>3 DEF Release, ReleaseFault
<1>8. ASSUME NEW r \in Requests, Crash(r) PROVE TypeOK'
  <2>1. Others'
    BY <1>0, <1>8, IdempotencyAssumption DEF Crash, Fault, Others
  <2> QED
    BY <1>8, <2>1, NoRequestForm, TypeMoved DEF Crash
<1>9. CASE Sweep
  <2>1. Typed'
    BY <1>9, Types DEF Typed, Sweep, Others
  <2> QED
    BY <2>1, Types, PTL
<1>10. CASE Tick
  <2>1. Others'
    <3>1. row # None => row.left \in Int /\ row.hash \in Hashes /\ row.status \in Codes
      BY <1>0 DEF Others, Rows, Codes
    <3>2. row' \in {None} \cup Rows
      <4>1. CASE row # None
        <5>1. Row(row.hash, row.status, row.left - 1) \in Rows
          BY <3>1, <4>1, RowForm
        <5> QED
          BY <1>0, <1>10, <4>1, <5>1 DEF Tick, Others
      <4> QED
        BY <1>10, <4>1 DEF Tick
    <3> QED
      BY <1>0, <1>10, <3>2 DEF Tick, Others
  <2>2. \A r \in Requests : Proper(req'[r])
    <3> SUFFICES ASSUME NEW r \in Requests PROVE Proper(req'[r])
      OBVIOUS
    <3>1. CASE Active(r)
      <4>1. /\ req'[r] = Request(req[r].pc, req[r].hash, req[r].status, req[r].age + 1)
            /\ req[r].age < MaxRun
        BY <1>10, <3>1 DEF Tick
      <4>2. /\ req[r].pc \in Places /\ req[r].hash \in Marks
            /\ req[r].status \in Codes /\ req[r].age + 1 \in 0..MaxRun
        BY <4>1, Frame, IdempotencyAssumption DEF Proper, Frames, Codes, Marks
      <4>3. /\ req'[r] \in Frames /\ req'[r].pc = req[r].pc
            /\ req'[r].hash = req[r].hash /\ req'[r].status = req[r].status
        BY <4>1, <4>2, RequestForm
      <4>4. Proper(req[r])
        BY Frame
      <4> QED
        BY <4>3, <4>4 DEF Proper
    <3>2. CASE ~Active(r)
      BY <1>10, <3>2, Frame DEF Tick
    <3> QED
      BY <3>1, <3>2
  <2>3. req' \in [Requests -> Frames]
    BY <1>10, <2>2 DEF Tick, Proper
  <2>4. Typed'
    BY <2>1, <2>2, <2>3, Zenon DEF Typed
  <2> QED
    BY <2>4, Types, PTL
<1>11. CASE UNCHANGED vars
  <2>1. Typed'
    BY <1>11, Types DEF vars, Typed, Others
  <2> QED
    BY <2>1, Types, PTL
<1> QED
  BY <1>1, <1>2, <1>3, <1>4, <1>5, <1>6, <1>7, <1>8, <1>9, <1>10, <1>11
  DEF Next, Step, Break

-----------------------------------------------------------------------------
(* The core of the invariant.                                              *)

\* Who runs holds the claim, alone.
LEMMA Holder ==
    ASSUME TypeOK, Core, NEW r \in Requests, Runs(r)
    PROVE  /\ row # None /\ row.status = 0
           /\ row.left = Lease - req[r].age /\ row.left >= 0
           /\ ~HasAnswer
           /\ \A d \in Requests : Runs(d) => d = r
BY Frame, IdempotencyAssumption DEF Core, RunnerHolds, Alone, Active, HasAnswer

\* While someone runs who is not about to record, there is nothing pending.
LEMMA HolderPaid ==
    ASSUME TypeOK, Core, NEW r \in Requests, Runs(r), req[r].pc # "complete"
    PROVE  effects <= faults
<1>1. \A d \in Requests : req[d].pc # "complete"
  BY Holder DEF Runs
<1> QED
  BY <1>1, Holder DEF Core, EffectsPaid, Pending

\* A row past its ttl, read with any clock reading still in use, has no holder.
LEMMA FreeIsIdle ==
    ASSUME TypeOK, Core, NEW a \in 0..MaxRun, Free(a)
    PROVE  (\A d \in Requests : ~Runs(d)) /\ ~HasAnswer /\ effects <= faults
<1>1. row # None => row.left \in Int
  BY Types DEF Typed, Others, Rows
<1>2. ~HasAnswer
  BY <1>1, IdempotencyAssumption DEF Free, HasAnswer
<1>3. \A d \in Requests : ~Runs(d)
  BY <1>1, Holder, IdempotencyAssumption DEF Free
<1>4. \A d \in Requests : req[d].pc # "complete"
  BY <1>3 DEF Runs
<1> QED
  BY <1>2, <1>3, <1>4 DEF Core, EffectsPaid, Pending

\* A step of one request keeps the claim with who runs.
LEMMA Moved ==
    ASSUME TypeOK, Core, NEW r \in Requests, NEW q, Become(r, q),
           q.pc \in {"claim", "run", "complete", "release"} => q.age <= Lease,
           q.pc \in {"run", "complete", "release"} =>
               /\ row' # None /\ row'.status = 0 /\ row'.left = Lease - q.age
               /\ \A d \in Requests \ {r} : ~Runs(d),
           row' = row \/ \A d \in Requests \ {r} : ~Runs(d)
    PROVE  RunnerHolds' /\ Alone'
<1>1. req'[r] = q /\ \A d \in Requests \ {r} : req'[d] = req[d]
  BY BecomeForm
<1>2. RunnerHolds'
  BY <1>1 DEF RunnerHolds, Active, Runs, Core
<1>3. Alone'
  BY <1>1 DEF Alone, Runs, Core
<1> QED
  BY <1>2, <1>3

\* The served answer stays the one stored or about to be, if no step replaces it.
LEMMA ServedKept ==
    ASSUME TypeOK, Core, NEW r \in Requests, NEW q, Become(r, q),
           q.pc # "complete", served' = served,
           row' = row \/ row' = None \/ row'.status = 0
    PROVE  AnswerServed'
<1>1. req'[r] = q /\ \A d \in Requests \ {r} : req'[d] = req[d]
  BY BecomeForm
<1> QED
  BY <1>1 DEF AnswerServed, Serves, Core

\* A step that leaves nothing owed keeps the account.
LEMMA Paid ==
    ASSUME effects' \in Nat, faults' \in Nat, effects' <= faults'
    PROVE  EffectsPaid'
<1>1. \A a, b \in Nat : a <= b => a <= b + 1
  OBVIOUS
<1>2. effects' <= faults' + 1
  BY <1>1, Zenon
<1> QED
  BY <1>2, Zenon DEF EffectsPaid

\* So does one that leaves what is pending.
LEMMA StillPending ==
    ASSUME Core, UNCHANGED <<effects, faults>>, HasAnswer => HasAnswer',
           \A d \in Requests : req[d].pc = "complete" => req'[d].pc = "complete"
    PROVE  EffectsPaid'
<1>1. Pending => Pending'
  BY DEF Pending
<1>2. EffectsPaid
  BY DEF Core
<1> QED
  BY <1>1, <1>2 DEF EffectsPaid

\* What was late or repeated stays so.
LEMMA WasOrderly ==
    ASSUME TypeOK, [Next]_vars, Orderly'
    PROVE  Orderly
<1>1. late \in BOOLEAN /\ repeated \in BOOLEAN
  BY Types DEF Typed, Others
<1> QED
  BY <1>1, Zenon DEF Next, Step, Break, Begin, Claim, ClaimFault, Handled, OpenHandled, Complete,
              CompleteFault, Release, ReleaseFault, Crash, Sweep, Tick, vars, Orderly

\* The claim that is taken is nobody's.
LEMMA CoreClaim ==
    ASSUME TypeOK, Core, Others', NEW r \in Requests, Claim(r)
    PROVE  Core'
<1> DEFINE q == req[r]
<1>1. /\ q.hash \in Hashes /\ q.age \in 0..MaxRun /\ q.age <= Lease /\ Lease - q.age \in Int
      /\ UNCHANGED <<faults, served, effects>>
      /\ effects' \in Nat /\ faults' \in Nat
  <2>1. q.pc # "idle" /\ UNCHANGED <<faults, served, effects>>
    BY DEF Claim
  <2>2. q.hash \in Hashes /\ q.age \in 0..MaxRun /\ Lease - q.age \in Int
    BY <2>1, Frame
  <2>3. q.age <= Lease
    BY Frame, IdempotencyAssumption DEF Claim, Core, RunnerHolds, Active
  <2>4. effects' \in Nat /\ faults' \in Nat
    BY DEF Others
  <2> QED BY <2>1, <2>2, <2>3, <2>4
<1>2. CASE Free(q.age)
  <2>1. /\ row' = Row(q.hash, 0, Lease - q.age)
        /\ Become(r, Request("run", q.hash, 0, q.age))
    BY <1>2 DEF Claim
  <2>2. row' # None /\ row'.status = 0 /\ row'.left = Lease - q.age
    BY <1>1, <2>1, RowForm, NamedSets
  <2>3. /\ Request("run", q.hash, 0, q.age).pc = "run"
        /\ Request("run", q.hash, 0, q.age).age = q.age
    BY DEF Request
  <2>4. (\A d \in Requests : ~Runs(d)) /\ effects <= faults
    BY <1>1, <1>2, FreeIsIdle
  <2>5. RunnerHolds' /\ Alone'
    BY <1>1, <2>1, <2>2, <2>3, <2>4, Moved
  <2>6. AnswerServed'
    BY <1>1, <2>1, <2>2, <2>3, ServedKept
  <2>7. EffectsPaid'
    BY <1>1, <2>4, Paid
  <2> QED
    BY <2>5, <2>6, <2>7 DEF Core
<1>3. CASE ~Free(q.age)
  <2> DEFINE p == IF Answers(q) THEN Request("replayed", q.hash, row.status, 0) ELSE NoRequest
  <2>1. Become(r, p) /\ row' = row
    BY <1>3 DEF Claim
  <2>2. p.pc \in {"replayed", "idle"}
    BY DEF Request, NoRequest
  <2> HIDE DEF p
  <2>3. RunnerHolds' /\ Alone'
    BY <2>1, <2>2, Moved
  <2>4. AnswerServed'
    BY <1>1, <2>1, <2>2, ServedKept
  <2>5. \A d \in Requests : req[d].pc = "complete" => req'[d].pc = "complete"
    BY <2>1, BecomeForm DEF Claim
  <2>6. EffectsPaid'
    BY <1>1, <2>1, <2>5, StillPending DEF HasAnswer
  <2> QED
    BY <2>3, <2>4, <2>6 DEF Core
<1> QED
  BY <1>2, <1>3

\* A claim that fails pays for what it may cause.
LEMMA CoreClaimFault ==
    ASSUME TypeOK, Core, Others', NEW r \in Requests, ClaimFault(r)
    PROVE  Core'
<1> DEFINE q == req[r]
<1>1. /\ q.hash \in Hashes /\ q.age \in 0..MaxRun /\ Lease - q.age \in Int
      /\ served' = served /\ effects' = effects /\ faults' = faults + 1
      /\ effects' \in Nat /\ faults' \in Nat
  BY Frame DEF ClaimFault, Fault, Others
<1>2. PICK p \in {Request("open", q.hash, 0, 0), NoRequest} : Become(r, p)
  BY DEF ClaimFault
<1>3. p.pc \in {"open", "idle"}
  BY DEF Request, NoRequest
<1>4. row' = row \/ (Free(q.age) /\ row' = Row(q.hash, 0, Lease - q.age))
  BY DEF ClaimFault
<1>5. row' = row \/ row'.status = 0
  BY <1>1, <1>4, RowForm, NamedSets
<1>6. row' = row \/ \A d \in Requests : ~Runs(d)
  BY <1>1, <1>4, FreeIsIdle
<1>7. RunnerHolds' /\ Alone'
  BY <1>2, <1>3, <1>6, Moved
<1>8. AnswerServed'
  BY <1>1, <1>2, <1>3, <1>5, ServedKept
<1>9. effects <= faults + 1
  BY DEF Core, EffectsPaid
<1>10. EffectsPaid'
  BY <1>1, <1>9, Paid
<1> QED
  BY <1>7, <1>8, <1>10 DEF Core

\* The handler returns while its request holds the claim.
LEMMA CoreHandled ==
    ASSUME TypeOK, Core, Others', NEW r \in Requests, NEW s \in Statuses,
           NEW spoiled \in BOOLEAN, Handled(r, s, spoiled)
    PROVE  Core'
<1> DEFINE q == req[r]
<1>1. Runs(r) /\ q.pc # "complete" /\ row' = row /\ faults' = faults
  BY DEF Handled, Runs
<1>2. /\ row # None /\ row.status = 0 /\ row.left = Lease - q.age
      /\ \A d \in Requests \ {r} : ~Runs(d)
  BY <1>1, Holder
<1>3. q.age <= Lease /\ q.hash \in Hashes
  BY <1>1, Frame DEF Core, RunnerHolds, Active, Runs
<1>4. effects <= faults /\ effects' \in Nat /\ faults' \in Nat /\ effects \in Nat
  BY <1>1, HolderPaid, Frame DEF Others
<1>5. CASE Recordable(s) /\ ~spoiled
  <2> DEFINE p == Request("complete", q.hash, s, q.age)
  <2>1. Become(r, p) /\ served' = Row(q.hash, s, 0) /\ effects' = effects + 1
    BY <1>5 DEF Handled
  <2>2. p.pc = "complete" /\ p.age = q.age /\ p.hash = q.hash /\ p.status = s
    BY DEF Request
  <2> HIDE DEF p
  <2>3. RunnerHolds' /\ Alone'
    BY <1>1, <1>2, <1>3, <2>1, <2>2, Moved
  <2>4. served' # None /\ served'.hash = q.hash /\ served'.status = s
    BY <1>3, <2>1, RowForm, NamedSets
  <2>5. req'[r] = p /\ \A d \in Requests \ {r} : req'[d] = req[d]
    BY <2>1, BecomeForm
  <2>6. AnswerServed'
    BY <1>1, <1>2, <2>2, <2>4, <2>5 DEF AnswerServed, Serves, Runs
  <2>7. Pending'
    BY <2>2, <2>5 DEF Pending
  <2>8. effects' <= faults' + 1
    BY <1>1, <1>4, <2>1
  <2>9. EffectsPaid'
    BY <2>7, <2>8, Zenon DEF EffectsPaid
  <2> QED
    BY <2>3, <2>6, <2>9 DEF Core
<1>6. CASE ~(Recordable(s) /\ ~spoiled)
  <2> DEFINE p == Request("release", q.hash, 0, q.age)
  <2>1. Become(r, p) /\ served' = served /\ effects' = effects
    BY <1>6 DEF Handled
  <2>2. p.pc = "release" /\ p.age = q.age
    BY DEF Request
  <2> HIDE DEF p
  <2>3. RunnerHolds' /\ Alone'
    BY <1>1, <1>2, <1>3, <2>1, <2>2, Moved
  <2>4. AnswerServed'
    BY <1>1, <2>1, <2>2, ServedKept
  <2>5. EffectsPaid'
    BY <1>1, <1>4, <2>1, Paid
  <2> QED
    BY <2>3, <2>4, <2>5 DEF Core
<1> QED
  BY <1>5, <1>6

\* Complete stores what was served, and nobody else runs.
LEMMA CoreComplete ==
    ASSUME TypeOK, Core, Others', NEW r \in Requests, Complete(r) \/ CompleteFault(r)
    PROVE  Core'
<1> DEFINE q == req[r]
           w == Row(q.hash, q.status, TTL)
<1>1. /\ Runs(r) /\ q.pc = "complete" /\ served' = served /\ effects' = effects
      /\ Become(r, NoRequest)
  BY DEF Complete, CompleteFault, Runs
<1>2. row # None /\ row.status = 0 /\ \A d \in Requests \ {r} : ~Runs(d)
  BY <1>1, Holder
<1>3. q.hash \in Hashes /\ q.status \in Codes /\ q.status # 0
  BY <1>1, Frame DEF Proper, Recordable
<1>4. w # None /\ w.hash = q.hash /\ w.status = q.status /\ w.left = TTL
  BY <1>3, RowForm, NamedSets
<1> HIDE DEF w
<1>5. RunnerHolds' /\ Alone'
  BY <1>1, <1>2, NoRequestForm, Moved
<1>6. Serves(q.hash, q.status)
  BY <1>1 DEF Core, AnswerServed
<1>7. effects \in Nat /\ faults \in Nat /\ faults' \in Nat /\ effects <= faults + 1
  BY Frame DEF Core, EffectsPaid, Others
<1>8. CASE row' = w /\ faults' = faults
  <2>1. req'[r] = NoRequest /\ \A d \in Requests \ {r} : req'[d] = req[d]
    BY <1>1, BecomeForm
  <2>2. AnswerServed'
    BY <1>1, <1>2, <1>4, <1>6, <1>8, <2>1, NoRequestForm DEF AnswerServed, Serves, Runs
  <2>3. Pending'
    BY <1>3, <1>4, <1>8, IdempotencyAssumption DEF Pending, HasAnswer
  <2>4. effects' <= faults' + 1
    BY <1>1, <1>7, <1>8
  <2>5. EffectsPaid'
    BY <2>3, <2>4, Zenon DEF EffectsPaid
  <2> QED
    BY <1>5, <2>2, <2>5 DEF Core
<1>9. CASE row' \in {row, w} /\ faults' = faults + 1
  <2>1. req'[r] = NoRequest /\ \A d \in Requests \ {r} : req'[d] = req[d]
    BY <1>1, BecomeForm
  <2>2. AnswerServed'
    BY <1>1, <1>2, <1>4, <1>6, <1>9, <2>1, NoRequestForm DEF AnswerServed, Serves, Runs
  <2>3. EffectsPaid'
    BY <1>1, <1>7, <1>9, Paid
  <2> QED
    BY <1>5, <2>2, <2>3 DEF Core
<1> QED
  BY <1>8, <1>9 DEF Complete, CompleteFault, Fault, w

\* Release takes away the claim of its own request.
LEMMA CoreRelease ==
    ASSUME TypeOK, Core, Others', Orderly', NEW r \in Requests, Release(r) \/ ReleaseFault(r)
    PROVE  Core'
<1>1. /\ Runs(r) /\ req[r].pc # "complete" /\ served' = served /\ effects' = effects
      /\ faults' = faults \/ faults' = faults + 1
  BY DEF Release, ReleaseFault, Fault, Runs
<1>2. \A d \in Requests \ {r} : ~Runs(d)
  BY <1>1, Holder
<1>3. effects \in Nat /\ faults \in Nat /\ faults' \in Nat /\ effects <= faults
  BY <1>1, HolderPaid, Frame DEF Others
<1>4. effects' \in Nat /\ effects' <= faults'
  BY <1>1, <1>3
<1>5. EffectsPaid'
  BY <1>3, <1>4, Paid
<1>6. CASE Become(r, NoRequest)
  <2>1. row' = row \/ row' = None
    BY DEF Release, ReleaseFault, Released
  <2>2. RunnerHolds' /\ Alone'
    BY <1>2, <1>6, NoRequestForm, Moved
  <2>3. AnswerServed'
    BY <1>1, <1>6, <2>1, NoRequestForm, ServedKept
  <2> QED
    BY <1>5, <2>2, <2>3 DEF Core
<1>7. CASE UNCHANGED req /\ ~Become(r, NoRequest)
  <2>1. row' = row
    BY <1>7, Zenon DEF Release, ReleaseFault, Orderly
  <2>2. (RunnerHolds /\ Alone /\ AnswerServed)'
    BY <1>1, <1>7, <2>1 DEF Core, RunnerHolds, Alone, AnswerServed, Active, Runs, Serves
  <2> QED
    BY <1>5, <2>2 DEF Core
<1> QED
  BY <1>6, <1>7 DEF Release, ReleaseFault

\* A request that dies pays for the effect it may have had.
LEMMA CoreCrash ==
    ASSUME TypeOK, Core, Others', NEW r \in Requests, Crash(r)
    PROVE  Core'
<1>1. Become(r, NoRequest) /\ row' = row /\ served' = served /\ faults' = faults + 1
  BY DEF Crash, Fault
<1>2. effects \in Nat /\ faults \in Nat /\ faults' \in Nat /\ effects' \in Nat
  BY Frame DEF Others
<1>3. effects' <= faults'
  <2>1. CASE req[r].pc = "run"
    BY <1>1, <1>2, <2>1, HolderPaid DEF Crash, Runs
  <2>2. CASE req[r].pc # "run"
    BY <1>1, <1>2, <2>2 DEF Crash, Core, EffectsPaid
  <2> QED
    BY <2>1, <2>2
<1>4. EffectsPaid'
  BY <1>2, <1>3, Paid
<1>5. RunnerHolds' /\ Alone'
  BY <1>1, NoRequestForm, Moved
<1>6. AnswerServed'
  BY <1>1, NoRequestForm, ServedKept
<1> QED
  BY <1>4, <1>5, <1>6 DEF Core

\* A request enters, or one that ran unprotected leaves.
LEMMA CoreOther ==
    ASSUME TypeOK, Core, NEW r \in Requests,
           OpenHandled(r) \/ \E h \in Hashes : Begin(r, h)
    PROVE  Core'
<1>1. PICK p \in {NoRequest} \cup {Request("claim", h, 0, 0) : h \in Hashes} : Become(r, p)
  BY DEF OpenHandled, Begin
<1>2. p.pc \in {"idle", "claim"} /\ p.age = 0
  BY DEF Request, NoRequest
<1>3. UNCHANGED <<row, served, effects, faults>> /\ req[r].pc # "complete"
  BY DEF OpenHandled, Begin, Idle
<1>4. RunnerHolds' /\ Alone'
  BY <1>1, <1>2, <1>3, Moved, IdempotencyAssumption
<1>5. AnswerServed'
  BY <1>1, <1>2, <1>3, ServedKept
<1>6. \A d \in Requests : req[d].pc = "complete" => req'[d].pc = "complete"
  BY <1>1, <1>3, BecomeForm
<1>7. EffectsPaid'
  BY <1>3, <1>6, StillPending DEF HasAnswer
<1> QED
  BY <1>4, <1>5, <1>7 DEF Core

\* The table deletes only what nobody holds.
LEMMA CoreSweep ==
    ASSUME TypeOK, Core, Others', Sweep
    PROVE  Core'
<1>1. row.left \in Int /\ row.left + 0 < 0 /\ row' = None
  BY Types DEF Sweep, Typed, Others, Rows
<1>2. (\A d \in Requests : ~Runs(d)) /\ effects <= faults
  BY <1>1, FreeIsIdle, NamedSets DEF Free
<1>3. UNCHANGED <<req, served, effects, faults>>
  BY DEF Sweep
<1>4. RunnerHolds' /\ Alone'
  BY <1>2, <1>3 DEF Core, RunnerHolds, Alone, Active, Runs
<1>5. AnswerServed'
  BY <1>1, <1>3 DEF Core, AnswerServed, Serves
<1>6. effects' \in Nat /\ faults' \in Nat /\ effects' <= faults'
  BY <1>2, <1>3 DEF Others
<1>7. EffectsPaid'
  BY <1>6, Paid
<1> QED
  BY <1>4, <1>5, <1>7 DEF Core

\* Claims age with their holders, and an answer that expires takes its effect with it.
LEMMA CoreTick ==
    ASSUME TypeOK, Core, Others', Orderly', Tick
    PROVE  Core'
<1>1. ASSUME NEW r \in Requests
      PROVE  /\ req'[r].pc = req[r].pc /\ req'[r].hash = req[r].hash
             /\ req'[r].status = req[r].status
             /\ Active(r) => req'[r].age = req[r].age + 1 /\ req[r].age < Lease
  <2>1. req[r].age \in 0..MaxRun
    BY Frame
  <2>2. Active(r) => req[r].age < Lease
    <3>1. ~(Active(r) /\ req[r].age >= Lease)
      BY Zenon DEF Tick, Orderly
    <3> QED
      BY <2>1, <3>1, IdempotencyAssumption
  <2>3. CASE Active(r)
    BY <2>2, <2>3 DEF Tick, Request
  <2>4. CASE ~Active(r)
    BY <2>4 DEF Tick
  <2> QED
    BY <2>3, <2>4
<1>2. row # None => row \in Rows /\ row.left \in Int /\ row.hash \in Hashes /\ row.status \in Codes
  BY Types DEF Typed, Others, Rows, Codes
<1>3. row # None =>
        /\ row' # None /\ row'.hash = row.hash /\ row'.status = row.status
        /\ row'.left = IF row.left < -MaxRun THEN row.left ELSE row.left - 1
  <2> SUFFICES ASSUME row # None PROVE /\ row' # None /\ row'.hash = row.hash
                                       /\ row'.status = row.status
                                       /\ row'.left = IF row.left < -MaxRun THEN row.left
                                                      ELSE row.left - 1
    OBVIOUS
  <2>1. CASE row.left < -MaxRun
    BY <2>1 DEF Tick
  <2>2. CASE ~(row.left < -MaxRun)
    <3>1. row' = Row(row.hash, row.status, row.left - 1) /\ row.left - 1 \in Int
      BY <1>2, <2>2 DEF Tick
    <3> QED
      BY <1>2, <2>2, <3>1, RowForm
  <2> QED
    BY <2>1, <2>2
<1>4. row = None => row' = None
  BY DEF Tick
<1>5. RunnerHolds'
  <2> SUFFICES ASSUME NEW r \in Requests
               PROVE  /\ Active(r)' => req'[r].age <= Lease
                      /\ Runs(r)' => /\ row' # None /\ row'.status = 0
                                     /\ row'.left = Lease - req'[r].age
    BY DEF RunnerHolds
  <2>1. (Active(r)' <=> Active(r)) /\ (Runs(r)' <=> Runs(r)) /\ (Runs(r) => Active(r))
    BY <1>1 DEF Active, Runs
  <2>2. req[r].age \in 0..MaxRun
    BY Frame
  <2>3. Active(r) => req'[r].age <= Lease
    BY <1>1, <2>2, IdempotencyAssumption
  <2>4. ASSUME Runs(r)
        PROVE row' # None /\ row'.status = 0 /\ row'.left = Lease - req'[r].age
    BY <1>1, <1>3, <2>1, <2>2, <2>4, Holder, IdempotencyAssumption
  <2> QED
    BY <2>1, <2>3, <2>4
<1>6. Alone'
  BY <1>1 DEF Core, Alone, Runs
<1>7. AnswerServed'
  BY <1>1, <1>3, <1>4 DEF Core, AnswerServed, Serves, Tick
<1>8. EffectsPaid'
  <2>1. CASE row # None /\ row.status # 0 /\ row.left = 0
    <3>1. effects' = 0 /\ effects' \in Nat /\ faults' \in Nat
      BY <2>1 DEF Tick, Others
    <3> QED
      BY <3>1, Paid
  <2>2. CASE ~(row # None /\ row.status # 0 /\ row.left = 0)
    <3>1. UNCHANGED <<effects, faults>>
      BY <2>2 DEF Tick
    <3>2. HasAnswer => HasAnswer'
      BY <1>2, <1>3, <2>2, IdempotencyAssumption DEF HasAnswer
    <3> QED
      BY <1>1, <3>1, <3>2, StillPending
  <2> QED
    BY <2>1, <2>2
<1> QED
  BY <1>5, <1>6, <1>7, <1>8 DEF Core

\* The invariant is inductive.
LEMMA InvStep ==
    ASSUME IInv, [Next]_vars
    PROVE  IInv'
<1>1. TypeOK /\ TypeOK' /\ Others'
  <2>1. TypeOK'
    BY TypeStep DEF IInv
  <2>2. Typed'
    BY <2>1, Types, PTL
  <2> QED
    BY <2>1, <2>2 DEF IInv, Typed
<1>2. ASSUME Orderly' PROVE Core'
  <2>1. Core
    BY <1>1, <1>2, WasOrderly DEF IInv
  <2>2. CASE \E r \in Requests : (\E h \in Hashes : Begin(r, h)) \/ Step(r) \/ Break(r)
    <3>1. PICK r \in Requests : (\E h \in Hashes : Begin(r, h)) \/ Step(r) \/ Break(r)
      BY <2>2
    <3>2. CASE OpenHandled(r) \/ \E h \in Hashes : Begin(r, h)
      BY <1>1, <2>1, <3>2, CoreOther
    <3>3. CASE Claim(r)
      BY <1>1, <2>1, <3>3, CoreClaim
    <3>4. CASE \E s \in Statuses, spoiled \in BOOLEAN : Handled(r, s, spoiled)
      BY <1>1, <2>1, <3>4, CoreHandled
    <3>5. CASE Complete(r) \/ CompleteFault(r)
      BY <1>1, <2>1, <3>5, CoreComplete
    <3>6. CASE Release(r) \/ ReleaseFault(r)
      BY <1>1, <1>2, <2>1, <3>6, CoreRelease
    <3>7. CASE ClaimFault(r)
      BY <1>1, <2>1, <3>7, CoreClaimFault
    <3>8. CASE Crash(r)
      BY <1>1, <2>1, <3>8, CoreCrash
    <3> QED
      BY <3>1, <3>2, <3>3, <3>4, <3>5, <3>6, <3>7, <3>8 DEF Step, Break
  <2>3. CASE Sweep
    BY <1>1, <2>1, <2>3, CoreSweep
  <2>4. CASE Tick
    BY <1>1, <1>2, <2>1, <2>4, CoreTick
  <2>5. CASE UNCHANGED vars
    BY <2>1, <2>5 DEF vars, Core, RunnerHolds, Alone, AnswerServed, Serves, EffectsPaid,
                      Pending, HasAnswer, Active, Runs
  <2> QED
    BY <2>2, <2>3, <2>4, <2>5 DEF Next
<1> QED
  BY <1>1, <1>2 DEF IInv

-----------------------------------------------------------------------------
(* The theorems.                                                           *)

\* The invariant holds in every reachable state.
THEOREM Invariant == Spec => []IInv
<1>1. Init => IInv
  <2> SUFFICES ASSUME Init PROVE IInv
    OBVIOUS
  <2>1. \A r \in Requests : req[r] = NoRequest
    BY DEF Init
  <2>2. Typed
    <3>1. Others
      <4>1. late \in BOOLEAN /\ repeated \in BOOLEAN
        BY Zenon DEF Init
      <4>2. row \in {None} \cup Rows /\ served \in {None} \cup Rows
        BY DEF Init
      <4>3. faults \in 0..MaxFaults /\ effects \in Nat
        BY IdempotencyAssumption DEF Init
      <4> QED
        BY <4>1, <4>2, <4>3, Zenon DEF Others
    <3>2. req \in [Requests -> Frames]
      BY NoRequestForm DEF Init, Proper
    <3> QED
      BY <2>1, <3>1, <3>2, NoRequestForm, Zenon DEF Typed
  <2>3. RunnerHolds /\ Alone /\ AnswerServed
    BY <2>1, NoRequestForm DEF Init, RunnerHolds, Alone, AnswerServed, Active, Runs
  <2>4. EffectsPaid
    BY DEF Init, EffectsPaid
  <2> QED
    BY <2>2, <2>3, <2>4, Types DEF IInv, Core
<1>2. IInv /\ [Next]_vars => IInv'
  BY InvStep
<1> QED
  BY <1>1, <1>2, PTL DEF Spec

\* The row, the requests and the counters keep their types, and only a final
\* answer is ever about to be recorded (recordable, Complete).
THEOREM TypeCorrect == Spec => []TypeOK
<1>1. IInv => TypeOK
  BY DEF IInv
<1> QED
  BY <1>1, Invariant, PTL

\* While no request outlives its lease and no release is sent again after it took
\* effect, protected requests with the key run one at a time (Claim).
THEOREM OneRunnerAlways == Spec => []OneRunner
<1>1. IInv => OneRunner
  BY DEF IInv, Core, OneRunner
<1> QED
  BY <1>1, Invariant, PTL

\* Every final answer but one, within the TTL of a recorded one, is paid for by a
\* failed store call or a crash (Claim, Complete, Release).
THEOREM RepeatsAlwaysExplained == Spec => []RepeatsExplained
<1>1. IInv => RepeatsExplained
  BY DEF IInv, Core, EffectsPaid, RepeatsExplained
<1> QED
  BY <1>1, Invariant, PTL

\* A live answer is never removed or turned into a claim, whatever is late or sent
\* again, and is the same while all is orderly (Release, Complete, Claim).
THEOREM AnswerAlwaysStays == Spec => AnswerStays
<1>1. ASSUME IInv, [Next]_vars PROVE [Kept]_vars
  <2> SUFFICES ASSUME Next, HasAnswer
               PROVE  /\ row' # None /\ row'.status # 0
                      /\ Orderly => row'.hash = row.hash /\ row'.status = row.status
    BY <1>1 DEF Kept
  <2>1. TypeOK /\ (Orderly => Core) /\ row \in Rows
    BY <1>1, Types DEF IInv, Typed, Others, HasAnswer
  <2>2. row.left \in Int /\ row.hash \in Hashes /\ row.status \in Codes
    BY <2>1 DEF Rows, Codes
  <2>3. \A a \in 0..MaxRun : ~Free(a)
    BY <2>2, IdempotencyAssumption DEF Free, HasAnswer
  <2>4. ASSUME NEW r \in Requests, (\E h \in Hashes : Begin(r, h)) \/ Step(r) \/ Break(r),
               ~(Complete(r) \/ CompleteFault(r))
        PROVE  row' = row
    BY <2>1, <2>3, <2>4, Frame, Zenon DEF Begin, Step, Break, Claim, ClaimFault, Handled,
       OpenHandled, Release, ReleaseFault, Released, Crash, HasAnswer
  <2>5. ASSUME NEW r \in Requests, Complete(r) \/ CompleteFault(r)
        PROVE  row' = row \/ (~Orderly /\ row' # None /\ row'.status # 0)
    <3>1. /\ req[r].hash \in Hashes /\ req[r].status \in Codes /\ req[r].status # 0
          /\ Runs(r)
      <4>1. req[r].pc = "complete"
        BY <2>5, Zenon DEF Complete, CompleteFault
      <4>2. req[r].hash \in Hashes /\ req[r].status \in Codes /\ Recordable(req[r].status)
        BY <2>1, <4>1, Frame DEF Proper
      <4>3. req[r].status # 0
        BY <4>2 DEF Recordable
      <4> QED BY <4>1, <4>2, <4>3 DEF Runs
    <3>2. ~Orderly
      BY <2>1, <3>1, Holder
    <3>3. /\ Row(req[r].hash, req[r].status, TTL) # None
          /\ Row(req[r].hash, req[r].status, TTL).status = req[r].status
      BY <3>1, RowForm, NamedSets
    <3> QED
      BY <2>5, <3>1, <3>2, <3>3, Zenon DEF Complete, CompleteFault
  <2>6. CASE Tick
    <3>1. row' = row \/ row' = Row(row.hash, row.status, row.left - 1)
      BY <2>6 DEF Tick, HasAnswer
    <3>2. /\ row.left - 1 \in Int
          /\ Row(row.hash, row.status, row.left - 1) # None
          /\ Row(row.hash, row.status, row.left - 1).hash = row.hash
          /\ Row(row.hash, row.status, row.left - 1).status = row.status
      BY <2>2, RowForm
    <3> QED
      BY <3>1, <3>2 DEF HasAnswer
  <2>7. ~Sweep
    BY <2>2 DEF Sweep, HasAnswer
  <2> QED
    BY <2>4, <2>5, <2>6, <2>7 DEF Next, HasAnswer
<1> QED
  BY <1>1, Invariant, PTL DEF Spec, AnswerStays

\* A replay answers with the last final answer the handler gave, to a request with
\* the same fingerprint (Claim, New).
THEOREM ReplayAlwaysOriginal == Spec => ReplayIsOriginal
<1>1. ASSUME IInv, [Next]_vars PROVE [Replayed]_vars
  <2> SUFFICES ASSUME Next, NEW r \in Requests, Orderly, req[r].pc # "replayed",
                      req'[r].pc = "replayed"
               PROVE  Serves(req[r].hash, req'[r].status)
    BY <1>1 DEF Replayed
  <2>1. TypeOK /\ Core
    BY <1>1 DEF IInv
  <2>2. ~Sweep /\ ~Tick
    BY DEF Sweep, Tick, Request
  <2>3. PICK d \in Requests : (\E h \in Hashes : Begin(d, h)) \/ Step(d) \/ Break(d)
    BY <2>2 DEF Next
  <2>4. d = r
    <3>1. ASSUME NEW q, Become(d, q) PROVE d = r
      BY <2>1, <3>1, BecomeForm
    <3> QED
      BY <2>3, <3>1, Zenon DEF Begin, Step, Break, Claim, ClaimFault, Handled, OpenHandled, Complete,
                        CompleteFault, Release, ReleaseFault, Crash
  <2>5. ~Become(r, NoRequest) /\ ~UNCHANGED req
    BY <2>1, BecomeForm, NoRequestForm
  <2>6. \A pc, h, s, a : /\ Request(pc, h, s, a).pc = pc
                         /\ Request(pc, h, s, a).status = s
    BY DEF Request
  <2>7. ASSUME NEW pc, NEW h, NEW s, NEW a, Become(r, Request(pc, h, s, a))
        PROVE  pc = "replayed" /\ req'[r].status = s
    <3>1. PICK q : q = Request(pc, h, s, a) /\ Become(r, q)
      BY <2>7
    <3>2. req'[r] = q
      BY <2>1, <3>1, BecomeForm
    <3>3. q.pc = pc /\ q.status = s
      BY <2>6, <3>1
    <3> QED BY <3>2, <3>3
  <2>8. /\ ~Free(req[r].age) /\ Answers(req[r])
        /\ Become(r, Request("replayed", req[r].hash, row.status, 0))
    <3>1. \A h, s, a : /\ ~Become(r, Request("claim", h, s, a))
                       /\ ~Become(r, Request("run", h, s, a))
                       /\ ~Become(r, Request("open", h, s, a))
                       /\ ~Become(r, Request("complete", h, s, a))
                       /\ ~Become(r, Request("release", h, s, a))
      BY <2>7
    <3>2. ~\E h \in Hashes : Begin(r, h)
      BY <3>1, Zenon DEF Begin
    <3>3. ~ClaimFault(r)
      BY <2>5, <3>1 DEF ClaimFault
    <3>4. ~\E s \in Statuses, spoiled \in BOOLEAN : Handled(r, s, spoiled)
      BY <3>1, Zenon DEF Handled
    <3>5. ~(OpenHandled(r) \/ Complete(r) \/ CompleteFault(r) \/ Release(r) \/ Crash(r))
      BY <2>5, Zenon DEF OpenHandled, Complete, CompleteFault, Release, Crash
    <3>6. ~ReleaseFault(r)
      BY <2>5, Zenon DEF ReleaseFault
    <3>7. Claim(r)
      BY <2>3, <2>4, <3>2, <3>3, <3>4, <3>5, <3>6, Zenon DEF Step, Break
    <3> QED
      BY <2>5, <3>1, <3>7 DEF Claim
  <2>9. req'[r].status = row.status
    BY <2>7, <2>8, Zenon
  <2> QED
    BY <2>1, <2>8, <2>9 DEF Answers, Free, Core, AnswerServed
<1> QED
  BY <1>1, Invariant, PTL DEF Spec, ReplayIsOriginal

-----------------------------------------------------------------------------
(* NoLostUpdate, IncrementsKept and ConflictWroteNothing for any number of *)
(* writers of one item and any limits.  The core is Copies: a copy read    *)
(* from the item as it is now (same gen) is not newer than the item, and   *)
(* one of the same version has the same value.  Every versioned write      *)
(* makes the item newer than all copies, and increments touch neither.     *)
(* Honest goes along a call: where it stands tells what it has not done.   *)

Docs == [gen : Nat, ver : Nat, val : SUBSET Writers, cnt : Nat]

WriterPCs == {"idle", "get", "update", "reply", "lost", "notfound", "mutate", "noop", "done", "error",
              "versionconflict"}

Verdicts == {"none", "transport", "condition", "conflict"}

WriterCalls == [pc : WriterPCs, attempt : Nat, try : Nat, read : Docs, judged : Verdicts]

\* A set of at most one item.
AtMostOne(S) == S = {} \/ \E r \in Docs : S = {r}

VersionedTypeOK ==
    /\ AtMostOne(item) /\ AtMostOne(before)
    /\ writer \in [Writers -> WriterCalls]
    /\ counted \in Nat /\ deletes \in Nat
    /\ applied \subseteq Writers
    /\ crossed \in BOOLEAN

\* Where a call can stand only if it has written nothing: before a write, between
\* two that the table refused, and at the end of one that always lost.
Unwritten(c) ==
    \/ c.pc \in {"idle", "get", "update", "lost", "versionconflict"}
    \/ c.pc = "reply" /\ c.judged \in {"condition", "conflict"}

Honest == \A w \in Writers : Unwritten(writer[w]) /\ w \notin resent => w \notin applied

\* A copy is of an item deleted since, or the item has not gone back past it.
Behind(c) ==
    /\ c.gen <= deletes
    /\ c.gen = deletes => \E i \in item : c.ver <= i.ver /\ (c.ver = i.ver => c.val = i.val)

Copies ==
    /\ \A b \in before : Behind(b)
    /\ \A w \in Writers : writer[w].pc \in {"update", "reply"} => Behind(writer[w].read)

Current ==
    /\ \A i \in item : i.gen = deletes /\ i.cnt = counted
    /\ item = {} => counted = 0 /\ applied = {}
    /\ ~crossed => \A i \in item : applied \subseteq i.val

VersionedInv == VersionedTypeOK /\ Copies /\ Current /\ Honest

-----------------------------------------------------------------------------
LEMMA WriterTyped ==
  ASSUME NEW place \in WriterPCs, NEW a \in Nat, NEW t \in Nat, NEW r \in Docs, NEW j \in Verdicts
  PROVE  LET c == WriterCall(place, a, t, r, j)
         IN  c \in WriterCalls /\ c.pc = place /\ c.read = r /\ c.judged = j
BY DEF WriterCall, WriterCalls

LEMMA DocTyped ==
  ASSUME NEW g \in Nat, NEW n \in Nat, NEW v \in SUBSET Writers, NEW k \in Nat
  PROVE  LET r == Doc(g, n, v, k) IN r \in Docs /\ r.gen = g /\ r.ver = n /\ r.val = v /\ r.cnt = k
BY DEF Doc, Docs

LEMMA NoCopyTyped == NoCopy \in Docs /\ NoCopy.gen = 0 /\ NoCopy.ver = 0 /\ NoCopy.val = {} /\ NoCopy.cnt = 0
BY DocTyped DEF NoCopy

LEMMA CallTyped ==
  ASSUME VersionedTypeOK, NEW w \in Writers
  PROVE  /\ writer[w].pc \in WriterPCs /\ writer[w].attempt \in Nat /\ writer[w].try \in Nat
         /\ writer[w].read \in Docs /\ writer[w].judged \in Verdicts
BY DEF VersionedTypeOK, WriterCalls

LEMMA InitInv == VersionedInit => VersionedInv
<1> SUFFICES ASSUME VersionedInit PROVE VersionedInv
  OBVIOUS
<1>1. NotCalled \in WriterCalls /\ NotCalled.pc = "idle"
  BY WriterTyped, NoCopyTyped DEF NotCalled, WriterPCs, Verdicts
<1>2. VersionedTypeOK
  BY <1>1, NoCopyTyped, Zenon DEF VersionedInit, VersionedTypeOK, AtMostOne
<1>3. Copies
  BY <1>1, NoCopyTyped DEF VersionedInit, Copies, Behind
<1>4. Current
  BY NoCopyTyped DEF VersionedInit, Current
<1>5. Honest
  BY DEF VersionedInit, Honest
<1> QED BY <1>2, <1>3, <1>4, <1>5 DEF VersionedInv

(* A writer that steps without touching the item keeps the invariant when *)
(* its new call is well typed, behind the item and honest.                 *)
LEMMA WriterMoves ==
  ASSUME VersionedInv, NEW w \in Writers, NEW c \in WriterCalls, WriterStep(w, c), Same,
         c.pc \in {"update", "reply"} => Behind(c.read),
         Unwritten(c) => Unwritten(writer[w])
  PROVE  VersionedInv'
<1> USE DEF VersionedInv, WriterStep, Same
<1>1. VersionedTypeOK'
  BY DEF VersionedTypeOK
<1>2. writer'[w] = c /\ \A u \in Writers : u # w => writer'[u] = writer[u]
  BY DEF VersionedTypeOK
<1>3. Copies'
  BY <1>2 DEF Copies, Behind
<1>4. Current'
  BY DEF Current
<1>5. Honest'
  BY <1>2 DEF Honest, Unwritten
<1> QED BY <1>1, <1>3, <1>4, <1>5

LEMMA Outcomes ==
  ASSUME VersionedInv, NEW w \in Writers, NEW place \in WriterPCs, Outcome(w, place), Same,
         place \notin {"idle", "get", "update", "reply", "lost"},
         place = "versionconflict" => writer[w].pc = "lost"
  PROVE  VersionedInv'
<1> DEFINE c == WriterCall(place, 0, 0, NoCopy, writer[w].judged)
<1>1. c \in WriterCalls /\ c.pc = place /\ c.judged = writer[w].judged
  <2>1. NoCopy \in Docs /\ writer[w].judged \in Verdicts
    BY NoCopyTyped, CallTyped DEF VersionedInv
  <2> QED BY <2>1 DEF WriterCall, WriterCalls
<1>2. WriterStep(w, c)
  BY DEF Outcome
<1> HIDE DEF c
<1>3. Unwritten(c) => Unwritten(writer[w])
  BY <1>1 DEF Unwritten
<1> QED BY <1>1, <1>2, <1>3, WriterMoves

LEMMA NextGet ==
  ASSUME VersionedInv, NEW w \in Writers, NEW n \in Nat, Same, writer[w].pc \in {"idle", "lost"},
         WriterStep(w, WriterCall("get", n, 0, NoCopy, "none"))
  PROVE  VersionedInv'
<1> DEFINE c == WriterCall("get", n, 0, NoCopy, "none")
<1>1. c \in WriterCalls /\ c.pc = "get"
  BY WriterTyped, NoCopyTyped DEF WriterPCs, Verdicts
<1>2. WriterStep(w, c)
  OBVIOUS
<1> HIDE DEF c
<1>3. Unwritten(writer[w])
  BY DEF Unwritten
<1> QED BY <1>1, <1>2, <1>3, WriterMoves

LEMMA ReadKeeps ==
  ASSUME VersionedInv, NEW w \in Writers, Read(w)
  PROVE  VersionedInv'
<1>1. Same /\ writer[w].pc = "get"
  BY DEF Read
<1>2. PICK copy \in {item, before} :
         IF copy = {} THEN Outcome(w, "notfound")
         ELSE \E i \in copy :
                \/ Outcome(w, "mutate")
                \/ IF w \in i.val THEN Outcome(w, "noop")
                   ELSE WriterStep(w, WriterCall("update", writer[w].attempt, 1, i, "none"))
  BY DEF Read
<1>3. CASE Outcome(w, "notfound") \/ Outcome(w, "mutate") \/ Outcome(w, "noop")
  BY <1>1, <1>3, Outcomes DEF WriterPCs
<1>4. CASE \E i \in copy : WriterStep(w, WriterCall("update", writer[w].attempt, 1, i, "none"))
  <2>1. PICK i \in copy : WriterStep(w, WriterCall("update", writer[w].attempt, 1, i, "none"))
    BY <1>4
  <2>2. i \in Docs
    BY <1>2, Zenon DEF VersionedInv, VersionedTypeOK, AtMostOne
  <2>3. Behind(i)
    <3>1. CASE i \in before
      BY <3>1 DEF VersionedInv, Copies
    <3>2. CASE i \in item
      BY <2>2, <3>2 DEF VersionedInv, VersionedTypeOK, Current, Behind, Docs
    <3> QED BY <1>2, <3>1, <3>2
  <2> DEFINE c == WriterCall("update", writer[w].attempt, 1, i, "none")
  <2>4. writer[w].attempt \in Nat /\ 1 \in Nat /\ "update" \in WriterPCs /\ "none" \in Verdicts
    BY CallTyped DEF VersionedInv, WriterPCs, Verdicts
  <2>5. c \in WriterCalls /\ c.pc = "update" /\ c.read = i
    BY <2>2, <2>4, WriterTyped
  <2> HIDE DEF c
  <2>6. Unwritten(writer[w])
    BY <1>1 DEF Unwritten
  <2> QED BY <1>1, <2>1, <2>3, <2>5, <2>6, WriterMoves DEF c
<1> QED BY <1>2, <1>3, <1>4

\* A change of the item that makes it newer than every copy.
LEMMA UpdateKeeps ==
  ASSUME VersionedInv, NEW w \in Writers, UpdateItem(w)
  PROVE  VersionedInv'
<1> DEFINE c == writer[w]
           ans(err) == WriterCall("reply", c.attempt, c.try, c.read, err)
<1>1. c.pc = "update" /\ c.read \in Docs /\ c.attempt \in Nat /\ c.try \in Nat /\ Behind(c.read)
  BY CallTyped, Zenon DEF VersionedInv, Copies, UpdateItem
<1>2. ASSUME NEW err \in Verdicts
      PROVE  ans(err) \in WriterCalls /\ ans(err).pc = "reply" /\ ans(err).read = c.read /\ ans(err).judged = err
  <2>1. "reply" \in WriterPCs
    BY DEF WriterPCs
  <2> HIDE DEF c
  <2> QED BY <1>1, <2>1, WriterTyped
<1>3. ASSUME NEW err \in Verdicts, TableSays(w, err), Same PROVE VersionedInv'
  <2> DEFINE a == ans(err)
  <2>1. a \in WriterCalls /\ a.pc = "reply" /\ a.read = c.read
    BY <1>2
  <2>2. WriterStep(w, a)
    BY <1>3 DEF TableSays
  <2>3. Behind(a.read)
    BY <1>1, <2>1
  <2>4. Unwritten(writer[w])
    BY <1>1 DEF Unwritten
  <2> HIDE DEF a
  <2> QED BY <1>3, <2>1, <2>2, <2>3, <2>4, WriterMoves
<1>4. ASSUME NEW a \in WriterCalls, WriterStep(w, a), a.read = c.read,
             \A u \in Writers \ {w} : u \in resent => u \in resent',
             Unwritten(a) => w \in resent',
             \E i \in item : Unchanged(i, c.read),
             Commit({Written(w, i, c.read) : i \in item}),
             applied' = applied \cup {w},
             crossed' = (crossed \/ \E i \in item : i.gen # c.read.gen),
             UNCHANGED <<counted, deletes>>
      PROVE  VersionedInv'
  <2>1. PICK i \in item : Unchanged(i, c.read)
    BY <1>4, Zenon
  <2>2. item = {i} /\ i \in Docs
    BY <2>1 DEF VersionedInv, VersionedTypeOK, AtMostOne
  <2>3. i.gen \in Nat /\ i.ver \in Nat /\ i.val \in SUBSET Writers /\ i.cnt \in Nat
        /\ c.read.gen \in Nat /\ c.read.ver \in Nat /\ c.read.val \in SUBSET Writers
    BY <1>1, <2>2, Zenon DEF Docs
  <2>4. i.ver = c.read.ver /\ i.gen = deletes /\ i.cnt = counted
    BY <2>1 DEF Unchanged, VersionedInv, Current
  <2> DEFINE n == Written(w, i, c.read)
  <2>5. n \in Docs /\ n.gen = i.gen /\ n.ver = i.ver + 1 /\ n.val = c.read.val \cup {w} /\ n.cnt = i.cnt
    <3>1. PICK v \in Nat : v = c.read.ver + 1
      BY <2>3
    <3>2. c.read.val \cup {w} \in SUBSET Writers
      BY <2>3
    <3>3. n = Doc(i.gen, v, c.read.val \cup {w}, i.cnt)
      BY <3>1 DEF Written
    <3>4. v = i.ver + 1
      BY <2>4, <3>1
    <3> HIDE DEF n, c
    <3> QED BY <2>3, <3>2, <3>3, <3>4, DocTyped
  <2>6. item' = {n} /\ before' = {i}
    BY <1>4, <2>2 DEF Commit
  <2> HIDE DEF n
  <2>9. writer' \in [Writers -> WriterCalls] /\ writer'[w] = a
        /\ \A u \in Writers : u # w => writer'[u] = writer[u]
    BY <1>4, Zenon DEF WriterStep, VersionedInv, VersionedTypeOK
  <2>10. VersionedTypeOK'
    BY <1>4, <2>2, <2>5, <2>6, <2>9, Zenon DEF VersionedInv, VersionedTypeOK, AtMostOne
  <2>11. \A r \in Docs : Behind(r) => Behind(r)'
    <3> SUFFICES ASSUME NEW r \in Docs, Behind(r) PROVE Behind(r)'
      OBVIOUS
    <3>1. r.gen \in Nat /\ r.ver \in Nat
      BY DEF Docs
    <3>2. r.gen <= deletes /\ (r.gen = deletes => r.ver <= i.ver)
      BY <2>2 DEF Behind
    <3>3. r.ver <= i.ver => r.ver <= n.ver /\ r.ver # n.ver
      BY <2>3, <2>5, <3>1
    <3> QED BY <1>4, <2>6, <3>2, <3>3, Zenon DEF Behind
  <2>12. Behind(i)
    BY <2>2, <2>3, <2>4 DEF Behind, VersionedInv, VersionedTypeOK
  <2>13. Copies'
    <3>1. \A b \in before' : Behind(b)'
      BY <2>2, <2>6, <2>11, <2>12
    <3>2. ASSUME NEW u \in Writers, writer'[u].pc \in {"update", "reply"} PROVE Behind(writer[u].read)'
      <4> DEFINE r == writer[u].read
      <4>1. writer'[u].read = r /\ r \in Docs /\ Behind(r)
        <5>1. CASE u = w
          BY <1>1, <1>4, <2>9, <5>1, Zenon
        <5>2. CASE u # w
          BY <2>9, <3>2, <5>2, CallTyped DEF VersionedInv, Copies
        <5> QED BY <5>1, <5>2
      <4>2. PICK q \in Docs : q = r
        BY <4>1
      <4>3. Behind(q)'
        BY <2>11, <4>1, <4>2
      <4> QED BY <4>1, <4>2, <4>3 DEF Behind
    <3> QED BY <3>1, <3>2 DEF Copies
  <2>14. Current'
    <3>1. ~crossed' => ~crossed /\ c.read.gen = i.gen
      BY <1>4, <2>2, Zenon
    <3>2. c.read.gen = i.gen => c.read.val = i.val
      BY <1>1, <2>2, <2>4 DEF Behind
    <3>3. ~crossed => applied \subseteq i.val
      BY <2>2 DEF VersionedInv, Current
    <3> QED BY <1>4, <2>4, <2>5, <2>6, <3>1, <3>2, <3>3, Zenon DEF Current
  <2>15. Honest'
    <3> SUFFICES ASSUME NEW u \in Writers, Unwritten(writer'[u]), u \notin resent' PROVE u \notin applied'
      BY DEF Honest, Unwritten
    <3>1. u # w
      BY <1>4, <2>9
    <3>2. u \notin applied
      BY <1>4, <2>9, <3>1 DEF VersionedInv, Honest
    <3> QED BY <1>4, <3>1, <3>2
  <2> QED BY <2>10, <2>13, <2>14, <2>15 DEF VersionedInv
<1>5. ASSUME NEW err \in {"none", "transport"}, TableSays(w, err), resent' = resent
      PROVE  \E a \in WriterCalls : WriterStep(w, a) /\ a.read = c.read /\ ~Unwritten(a)
  <2>1. err \in Verdicts
    BY DEF Verdicts
  <2>2. ans(err) \in WriterCalls /\ ans(err).pc = "reply" /\ ans(err).read = c.read /\ ans(err).judged = err
    BY <1>2, <2>1, Zenon
  <2>3. WriterStep(w, ans(err))
    BY <1>5, Zenon DEF TableSays
  <2> DEFINE a == ans(err)
  <2> HIDE DEF a
  <2>4. ~Unwritten(a)
    BY <2>2 DEF Unwritten, a
  <2> QED BY <2>2, <2>3, <2>4, Zenon DEF a
<1>6. ASSUME UNCHANGED writer, resent' = resent \cup {w}
      PROVE  c \in WriterCalls /\ WriterStep(w, c)
  BY <1>6 DEF WriterStep, VersionedInv, VersionedTypeOK
<1>7. CASE /\ \E i \in item : Unchanged(i, c.read)
           /\ Commit({Written(w, i, c.read) : i \in item})
           /\ applied' = applied \cup {w}
           /\ crossed' = (crossed \/ \E i \in item : i.gen # c.read.gen)
           /\ \/ (\E err \in {"none", "transport"} : TableSays(w, err)) /\ resent' = resent
              \/ resent' = resent \cup {w} /\ UNCHANGED writer
           /\ UNCHANGED <<counted, deletes>>
  <2>1. CASE (\E err \in {"none", "transport"} : TableSays(w, err)) /\ resent' = resent
    <3>1. PICK a \in WriterCalls : WriterStep(w, a) /\ a.read = c.read /\ ~Unwritten(a)
      BY <1>5, <2>1, Zenon
    <3> QED BY <1>4, <1>7, <2>1, <3>1, Zenon
  <2>2. CASE resent' = resent \cup {w} /\ UNCHANGED writer
    <3>1. c \in WriterCalls /\ WriterStep(w, c) /\ w \in resent'
      BY <1>6, <2>2
    <3>2. \A u \in Writers \ {w} : u \in resent => u \in resent'
      BY <2>2
    <3> QED BY <1>4, <1>7, <3>1, <3>2, Zenon
  <2> QED BY <1>7, <2>1, <2>2
<1>8. CASE \E err \in {"none", "transport", "conflict", "condition"} : TableSays(w, err) /\ Same
  BY <1>3, <1>8 DEF Verdicts
<1> QED BY <1>7, <1>8, Zenon DEF UpdateItem

LEMMA ReplyKeeps ==
  ASSUME VersionedInv, NEW w \in Writers, Reply(w)
  PROVE  VersionedInv'
<1> DEFINE c == writer[w]
           beaten == WriterCall("lost", c.attempt, c.try, c.read, c.judged)
           again(n) == WriterCall("update", c.attempt, n, c.read, c.judged)
<1>1. c.pc = "reply" /\ Same /\ c.read \in Docs /\ c.attempt \in Nat /\ c.try \in Nat /\ c.judged \in Verdicts
      /\ Behind(c.read)
  BY CallTyped DEF VersionedInv, Copies, Reply
<1>2. beaten \in WriterCalls /\ beaten.pc = "lost"
  <2>1. "lost" \in WriterPCs
    BY DEF WriterPCs
  <2> HIDE DEF c
  <2> QED BY <1>1, <2>1, WriterTyped
<1>3. PICK n \in Nat : n = c.try + 1
  BY <1>1
<1>4. again(n) \in WriterCalls /\ again(n).pc = "update" /\ again(n).read = c.read
  <2>1. "update" \in WriterPCs
    BY DEF WriterPCs
  <2> HIDE DEF c
  <2> QED BY <1>1, <1>3, <2>1, WriterTyped
<1>5. \/ Outcome(w, "done") \/ Outcome(w, "error")
      \/ c.judged = "condition" /\ WriterStep(w, beaten)
      \/ c.judged = "conflict" /\ WriterStep(w, again(n))
  BY <1>3 DEF Reply, IsConditionFailed, IsTransient
<1> HIDE DEF beaten, again
<1>6. CASE Outcome(w, "done") \/ Outcome(w, "error")
  <2>1. {"done", "error"} \subseteq WriterPCs
    BY DEF WriterPCs
  <2> QED BY <1>1, <1>6, <2>1, Outcomes
<1>7. CASE c.judged = "condition" /\ WriterStep(w, beaten)
  <2>1. Unwritten(writer[w])
    BY <1>1, <1>7 DEF Unwritten
  <2> QED BY <1>1, <1>2, <1>7, <2>1, WriterMoves
<1>8. CASE c.judged = "conflict" /\ WriterStep(w, again(n))
  <2>1. Unwritten(writer[w])
    BY <1>1, <1>8 DEF Unwritten
  <2> QED BY <1>1, <1>4, <1>8, <2>1, WriterMoves
<1> QED BY <1>5, <1>6, <1>7, <1>8, Zenon

LEMMA LostKeeps ==
  ASSUME VersionedInv, NEW w \in Writers, Lost(w)
  PROVE  VersionedInv'
<1>1. writer[w].pc = "lost" /\ Same /\ writer[w].attempt \in Nat /\ writer[w].attempt + 1 \in Nat
  BY CallTyped DEF VersionedInv, Lost
<1>3. \/ WriterStep(w, WriterCall("get", writer[w].attempt + 1, 0, NoCopy, "none"))
      \/ Outcome(w, "versionconflict")
  BY DEF Lost
<1>4. CASE WriterStep(w, WriterCall("get", writer[w].attempt + 1, 0, NoCopy, "none"))
  BY <1>1, <1>4, NextGet
<1>5. CASE Outcome(w, "versionconflict")
  BY <1>1, <1>5, Outcomes DEF WriterPCs
<1> QED BY <1>3, <1>4, <1>5

LEMMA GivesUpKeeps ==
  ASSUME VersionedInv, NEW w \in Writers, GivesUp(w)
  PROVE  VersionedInv'
BY Outcomes DEF GivesUp, WriterPCs

LEMMA StartKeeps ==
  ASSUME VersionedInv, NEW w \in Writers, Start(w)
  PROVE  VersionedInv'
BY NextGet DEF Start

(* A write of somebody else keeps the invariant when no copy gets ahead of *)
(* the item by it.                                                         *)
LEMMA OthersKeep ==
  ASSUME VersionedInv, UNCHANGED <<writer, applied, crossed, resent>>,
         counted' \in Nat, deletes' = deletes,
         AtMostOne(item'), before' = item, Current',
         \A r \in Docs : Behind(r) => Behind(r)'
  PROVE  VersionedInv'
<1> USE DEF VersionedInv
<1>1. VersionedTypeOK'
  BY DEF VersionedTypeOK, AtMostOne
<1>2. ASSUME NEW r \in Docs, Behind(r) PROVE Behind(r)'
  BY <1>2
<1>3. ASSUME NEW i \in item PROVE i \in Docs /\ Behind(i)
  BY <1>3 DEF VersionedTypeOK, AtMostOne, Current, Behind, Docs
<1>4. Copies'
  <2>1. \A b \in before' : Behind(b)'
    BY <1>2, <1>3
  <2>2. ASSUME NEW u \in Writers, writer'[u].pc \in {"update", "reply"} PROVE Behind(writer[u].read)'
    <3>1. PICK q \in Docs : q = writer[u].read
      BY CallTyped
    <3>2. Behind(q)'
      BY <1>2, <2>2, <3>1 DEF Copies
    <3> QED BY <3>1, <3>2 DEF Behind
  <2> QED BY <2>1, <2>2 DEF Copies
<1>5. Honest'
  BY DEF Honest, Unwritten
<1> QED BY <1>1, <1>4, <1>5

LEMMA FreshTyped ==
  ASSUME VersionedTypeOK
  PROVE  FreshItem \in Docs /\ FreshItem.gen = deletes /\ FreshItem.ver = 0 /\ FreshItem.val = {} /\ FreshItem.cnt = 0
BY DocTyped DEF FreshItem, VersionedTypeOK

LEMMA UpsertKeeps == VersionedInv /\ UpsertAttrs => VersionedInv'
<1> SUFFICES ASSUME VersionedInv, UpsertAttrs PROVE VersionedInv'
  OBVIOUS
<1>1. FreshItem \in Docs /\ FreshItem.gen = deletes /\ FreshItem.cnt = 0
  BY FreshTyped DEF VersionedInv
<1> DEFINE n == FreshItem
<1>2. item = {} /\ item' = {n} /\ before' = item
  BY DEF UpsertAttrs, Commit
<1> HIDE DEF n
<1>3. AtMostOne(item')
  BY <1>1, <1>2 DEF AtMostOne, n
<1>4. UNCHANGED <<writer, applied, crossed, resent, counted, deletes>> /\ counted' \in Nat
  BY DEF UpsertAttrs, VersionedInv, VersionedTypeOK
<1>5. Current'
  BY <1>1, <1>2, <1>4 DEF n, VersionedInv, Current
<1>6. \A r \in Docs : Behind(r) => Behind(r)'
  BY <1>2, <1>4 DEF Behind
<1> QED BY <1>2, <1>3, <1>4, <1>5, <1>6, OthersKeep

LEMMA IncrementKeeps == VersionedInv /\ AtomicIncrement => VersionedInv'
<1> SUFFICES ASSUME VersionedInv, AtomicIncrement PROVE VersionedInv'
  OBVIOUS
<1>1. PICK i \in Docs : /\ (IF item = {} THEN {FreshItem} ELSE item) = {i}
                        /\ i.gen = deletes /\ i.cnt = counted
                        /\ ~crossed => applied \subseteq i.val
                        /\ item # {} => item = {i}
  <2>1. CASE item = {}
    BY <2>1, FreshTyped DEF VersionedInv, Current
  <2>2. CASE item # {}
    BY <2>2 DEF VersionedInv, VersionedTypeOK, AtMostOne, Current
  <2> QED BY <2>1, <2>2
<1>2. i.gen \in Nat /\ i.ver \in Nat /\ i.val \in SUBSET Writers /\ i.cnt \in Nat /\ i.cnt + 1 \in Nat
  BY DEF Docs
<1> DEFINE n == Doc(i.gen, i.ver, i.val, i.cnt + 1)
<1>3. n \in Docs /\ n.gen = i.gen /\ n.ver = i.ver /\ n.val = i.val /\ n.cnt = i.cnt + 1
  BY <1>2 DEF Doc, Docs
<1>4. item' = {n} /\ before' = item
  BY <1>1 DEF AtomicIncrement, Commit
<1> HIDE DEF n
<1>5. UNCHANGED <<writer, applied, crossed, resent, deletes>> /\ counted' = counted + 1 /\ counted' \in Nat
  BY DEF AtomicIncrement, VersionedInv, VersionedTypeOK
<1>6. AtMostOne(item')
  BY <1>3, <1>4 DEF AtMostOne
<1>7. Current'
  BY <1>1, <1>3, <1>4, <1>5 DEF VersionedInv, Current
<1>8. \A r \in Docs : Behind(r) => Behind(r)'
  BY <1>1, <1>3, <1>4, <1>5 DEF Behind
<1> QED BY <1>4, <1>5, <1>6, <1>7, <1>8, OthersKeep

LEMMA DeleteKeeps == VersionedInv /\ DeleteItem => VersionedInv'
<1> SUFFICES ASSUME VersionedInv, DeleteItem PROVE VersionedInv'
  OBVIOUS
<1> USE DEF VersionedInv, DeleteItem, Commit
<1>1. VersionedTypeOK'
  <2>1. AtMostOne(item') /\ AtMostOne(before')
    BY DEF VersionedTypeOK, AtMostOne
  <2>2. crossed' \in BOOLEAN /\ applied' \subseteq Writers /\ writer' = writer
    OBVIOUS
  <2>3. counted' \in Nat /\ deletes' \in Nat
    BY DEF VersionedTypeOK
  <2> QED BY <2>1, <2>2, <2>3 DEF VersionedTypeOK, AtMostOne
<1>2. deletes \in Nat /\ deletes' = deletes + 1
  BY DEF VersionedTypeOK
<1>3. ASSUME NEW r \in Docs, r.gen <= deletes PROVE Behind(r)'
  BY <1>2, <1>3 DEF Behind, Docs
<1>4. Copies'
  <2>1. ASSUME NEW b \in item PROVE Behind(b)'
    BY <1>2, <1>3, <2>1 DEF VersionedTypeOK, AtMostOne, Current
  <2>2. ASSUME NEW u \in Writers, writer'[u].pc \in {"update", "reply"} PROVE Behind(writer[u].read)'
    <3>1. PICK q \in Docs : q = writer[u].read
      BY CallTyped
    <3>2. q.gen <= deletes
      BY <2>2, <3>1 DEF Copies, Behind
    <3>3. Behind(q)'
      BY <1>3, <3>2
    <3> QED BY <3>1, <3>3 DEF Behind
  <2> QED BY <2>1, <2>2 DEF Copies
<1>5. Current'
  BY DEF Current
<1>6. Honest'
  BY DEF Honest
<1> QED BY <1>1, <1>4, <1>5, <1>6

LEMMA StepKeeps == VersionedInv /\ [VersionedNext]_vvars => VersionedInv'
<1> SUFFICES ASSUME VersionedInv, [VersionedNext]_vvars PROVE VersionedInv'
  OBVIOUS
<1>1. ASSUME NEW w \in Writers,
             Start(w) \/ Read(w) \/ UpdateItem(w) \/ Reply(w) \/ Lost(w) \/ GivesUp(w)
      PROVE  VersionedInv'
  BY <1>1, StartKeeps, ReadKeeps, UpdateKeeps, ReplyKeeps, LostKeeps, GivesUpKeeps
<1>2. CASE UpsertAttrs \/ AtomicIncrement \/ DeleteItem
  BY <1>2, UpsertKeeps, IncrementKeeps, DeleteKeeps
<1>3. CASE UNCHANGED vvars
  BY <1>3 DEF vvars, VersionedInv, VersionedTypeOK, Copies, Behind, Current, Honest, Unwritten
<1> QED BY <1>1, <1>2, <1>3 DEF VersionedNext

-----------------------------------------------------------------------------
\* The inductive invariant holds of every behaviour of the writers.
THEOREM VersionedInvariant == VersionedSpec => []VersionedInv
BY InitInv, StepKeeps, PTL DEF VersionedSpec

\* UpdateVersioned loses no change, for any number of writers and any attempts:
\* what the item holds includes every change written to it.
THEOREM NoUpdateIsLost == VersionedSpec => []NoLostUpdate
<1>1. VersionedInv => NoLostUpdate
  BY DEF VersionedInv, Current, NoLostUpdate
<1> QED BY <1>1, VersionedInvariant, PTL

\* AtomicIncrement is never undone by a versioned write from an old copy.
THEOREM NoIncrementIsLost == VersionedSpec => []IncrementsKept
<1>1. VersionedInv => IncrementsKept
  BY DEF VersionedInv, VersionedTypeOK, AtMostOne, Current, IncrementsKept
<1> QED BY <1>1, VersionedInvariant, PTL

\* ErrVersionConflict means what it says: whoever UpdateVersioned tells that every
\* attempt lost the race wrote nothing, for any number of attempts and whatever
\* else the table answered, as long as the AWS client repeats no write that landed.
THEOREM ConflictsWroteNothing == VersionedSpec => []ConflictWroteNothing
<1>1. VersionedInv => ConflictWroteNothing
  BY DEF VersionedInv, Honest, Unwritten, ConflictWroteNothing
<1> QED BY <1>1, VersionedInvariant, PTL

=============================================================================

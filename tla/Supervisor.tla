----------------------------- MODULE Supervisor -----------------------------
(***************************************************************************)
(* Packages supervisor, lock and drain: workers that run in several        *)
(* processes, each only while its process holds the lease of the worker's  *)
(* key.  pc[w] is where the goroutine of Run stands; its heartbeat is a    *)
(* second goroutine, and a renewal that is under way when the heartbeat is *)
(* stopped reaches the store later (late).  age is history: the ticks      *)
(* since the store last granted or renewed the lease for this worker.      *)
(***************************************************************************)
EXTENDS Lock, FiniteSets

CONSTANTS Workers, Proc, Key,   \* worker -> its process, worker -> its key
          Managed,              \* processes that are shut down or drained
          MaxFaults,            \* bound: failed store calls and crashes
          MaxLate               \* bound: late renewals that are followed

ASSUME SupervisorAssumption ==
    Proc \in [Workers -> Procs] /\ Key \in [Workers -> Keys] /\ MaxFaults \in Nat /\ MaxLate \in Nat

VARIABLES pc, tok, finished, age,
          lost,                 \* runCtx was cancelled by the heartbeat
          ended,                \* wctx is cancelled
          hb, hbtok, late,
          created, registered, draining, stopped,
          returned,             \* Shutdown returned nil
          faults

workerVars == <<pc, tok, finished, age, lost, ended>>
beatVars == <<hb, hbtok, late>>
supVars == <<created, registered, draining, stopped, returned>>
vars == <<lockVars, workerVars, beatVars, supVars, faults>>

Holding == {"granted", "running", "releasing", "forgetting"}

PCs == {"off", "starting", "loop", "taking", "waiting", "ended"} \cup Holding

Requests == [key : Keys, tok : Tokens]

Stopping(p) == p \in stopped \cup draining

Cancelled(w) == w \in lost \cup ended

Used ==
    {lease[k].tok : k \in Keys} \cup {tok[w] : w \in Workers}
      \cup {hbtok[w] : w \in Workers} \cup {r.tok : r \in late}
      \cup {tokens[Proc[w]][Key[w]] : w \in Workers}

\* newToken: 16 random bytes, so a token nothing refers to.
Fresh == Tokens \ Used

NewToken == CHOOSE t \in Fresh : TRUE

\* One more failed call or crash.
Fault ==
    /\ faults < MaxFaults
    /\ faults' = faults + 1

Goto(w, l) == pc' = [pc EXCEPT ![w] = l]

-----------------------------------------------------------------------------
(* The supervisor.                                                         *)

\* supervisor.New registers Shutdown with the tracker, which refuses once it
\* drains.
New(p) ==
    /\ p \notin created
    /\ created' = created \cup {p}
    /\ registered' = IF p \in draining THEN registered ELSE registered \cup {p}
    /\ UNCHANGED <<lockVars, workerVars, beatVars, draining, stopped, returned, faults>>

\* Run, up to its check of stopped(); a stopped supervisor answers ErrStopped.
Run(w) ==
    /\ pc[w] = "off"
    /\ Proc[w] \in created
    /\ ~Stopping(Proc[w])
    /\ Goto(w, "starting")
    /\ UNCHANGED <<lockVars, tok, finished, age, lost, ended, beatVars, supVars, faults>>

\* wg.Add and the goroutine.
Launch(w) ==
    /\ pc[w] = "starting"
    /\ Goto(w, "loop")
    /\ UNCHANGED <<lockVars, tok, finished, age, lost, ended, beatVars, supVars, faults>>

\* Variant with a fault: the loop looks at its context only.
LoopUnchecked(w) ==
    /\ pc[w] = "loop"
    /\ Goto(w, IF w \in ended THEN "ended" ELSE "taking")
    /\ UNCHANGED <<lockVars, tok, finished, age, lost, ended, beatVars, supVars, faults>>

\* The condition of loop.
Loop(w) ==
    /\ pc[w] = "loop"
    /\ Goto(w, IF Stopping(Proc[w]) \/ w \in ended THEN "ended" ELSE "taking")
    /\ UNCHANGED <<lockVars, tok, finished, age, lost, ended, beatVars, supVars, faults>>

\* Acquire in the store: granted, refused, or an error, before or after the
\* store carried the command out.
Acquire(w) ==
    /\ pc[w] = "taking"
    /\ \/ /\ Fresh # {}
          /\ SetNX(Key[w], NewToken)
          /\ tok' = [tok EXCEPT ![w] = NewToken]
          /\ Goto(w, "granted")
          /\ UNCHANGED faults
       \/ /\ lease[Key[w]].left > 0
          /\ Goto(w, "waiting")
          /\ UNCHANGED <<lease, tok, faults>>
       \/ /\ IF w \in ended THEN UNCHANGED faults ELSE Fault
          /\ UNCHANGED lease \/ (Fresh # {} /\ SetNX(Key[w], NewToken))
          /\ Goto(w, "waiting")
          /\ UNCHANGED tok
    /\ age' = [age EXCEPT ![w] = 0]
    /\ UNCHANGED <<tokens, finished, lost, ended, beatVars, supVars>>

\* Acquire notes the token, the heartbeat starts and fn is called.
Hold(w) ==
    /\ pc[w] = "granted"
    /\ Remember(Proc[w], Key[w], tok[w])
    /\ hb' = [hb EXCEPT ![w] = "idle"]
    /\ Goto(w, "running")
    /\ UNCHANGED <<lease, tok, finished, age, lost, ended, hbtok, late, supVars, faults>>

\* A renewal in flight outlives its heartbeat.
Orphans(W) == {[key |-> Key[w], tok |-> hbtok[w]] : w \in {v \in W : hb[v] = "busy"}}

\* A renewal of a lease that is gone matches nothing any more: it is dropped.
Pending(R) == {r \in R : lease'[r.key].tok = r.tok}

Outlive(W) ==
    LET R == Pending(late \cup Orphans(W))
    IN  late' = IF Cardinality(R) <= MaxLate THEN R ELSE Pending(late)

\* runSafe: nil under a cancelled context is not the end of the work.
Done(w, nil) == nil /\ ~Cancelled(w)

\* fn returns nil, an error or a panic; the deferred calls stop the heartbeat
\* and cancel runCtx.
FnReturns(w, nil) ==
    /\ pc[w] = "running"
    /\ finished' = IF Done(w, nil) THEN finished \cup {w} ELSE finished
    /\ lost' = lost \ {w}
    /\ Goto(w, "releasing")
    /\ hb' = [hb EXCEPT ![w] = "off"]
    /\ hbtok' = [hbtok EXCEPT ![w] = NoToken]
    /\ UNCHANGED <<lockVars, tok, age, ended, supVars, faults>>
    /\ Outlive({w})

\* The release func: the store first, whose error is dropped ...
Release(w) ==
    /\ pc[w] = "releasing"
    /\ \/ DelIfMatch(Key[w], tok[w]) /\ UNCHANGED faults
       \/ Fault /\ UNCHANGED lease
    /\ Outlive({})
    /\ Goto(w, "forgetting")
    /\ UNCHANGED <<tokens, tok, finished, age, lost, ended, hb, hbtok, supVars>>

\* ... then the process's map; a worker that is not done waits and tries again.
ForgetToken(w) ==
    /\ pc[w] = "forgetting"
    /\ Remember(Proc[w], Key[w], NoToken)
    /\ tok' = [tok EXCEPT ![w] = NoToken]
    /\ age' = [age EXCEPT ![w] = 0]
    /\ Goto(w, IF w \in finished \cup ended THEN "ended" ELSE "waiting")
    /\ finished' = finished \ {w}
    /\ UNCHANGED <<lease, lost, ended, beatVars, supVars, faults>>

\* Variant with a fault: sleep ends with the context only.
WakeOnCancel(w) ==
    /\ pc[w] = "waiting"
    /\ w \in ended
    /\ Goto(w, "ended")
    /\ UNCHANGED <<lockVars, tok, finished, age, lost, ended, beatVars, supVars, faults>>

\* sleep: the backoff or LeaderRetry passes, or the context ends.
Wake(w) ==
    /\ pc[w] = "waiting"
    /\ Goto(w, IF w \in ended THEN "ended" ELSE "loop")
    /\ UNCHANGED <<lockVars, tok, finished, age, lost, ended, beatVars, supVars, faults>>

-----------------------------------------------------------------------------
(* The heartbeat.                                                          *)

\* The heartbeat gives up and cancels runCtx.
Lose(w) ==
    /\ lost' = lost \cup {w}
    /\ hb' = [hb EXCEPT ![w] = "off"]
    /\ hbtok' = [hbtok EXCEPT ![w] = NoToken]

\* Renew reads the process's token for the key.
BeatRead(w) ==
    LET t == tokens[Proc[w]][Key[w]]
    IN  /\ hb[w] = "idle"
        /\ \/ /\ t = NoToken
              /\ Lose(w)
           \/ /\ t # NoToken
              /\ hb' = [hb EXCEPT ![w] = "busy"]
              /\ hbtok' = [hbtok EXCEPT ![w] = t]
              /\ UNCHANGED lost
        /\ UNCHANGED <<lockVars, pc, tok, finished, age, ended, late, supVars, faults>>

\* Variant with a fault: a failed renewal is left to the next beat.
BeatIgnored(w) ==
    /\ hb[w] = "busy"
    /\ RenewIfMatch(Key[w], hbtok[w])
    /\ age' = [age EXCEPT ![w] = IF Owns(Key[w], hbtok[w]) THEN 0 ELSE @]
    /\ hb' = [hb EXCEPT ![w] = "idle"]
    /\ hbtok' = [hbtok EXCEPT ![w] = NoToken]
    /\ UNCHANGED <<tokens, pc, tok, finished, lost, ended, late, supVars, faults>>

\* Renew in the store: renewed, refused, or an error before or after the store
\* carried it out.
BeatDone(w) ==
    /\ hb[w] = "busy"
    /\ \/ /\ Owns(Key[w], hbtok[w])
          /\ RenewIfMatch(Key[w], hbtok[w])
          /\ age' = [age EXCEPT ![w] = 0]
          /\ hb' = [hb EXCEPT ![w] = "idle"]
          /\ hbtok' = [hbtok EXCEPT ![w] = NoToken]
          /\ UNCHANGED <<lost, faults>>
       \/ /\ ~Owns(Key[w], hbtok[w])
          /\ Lose(w)
          /\ UNCHANGED <<lease, age, faults>>
       \/ /\ IF w \in ended THEN UNCHANGED faults ELSE Fault
          /\ UNCHANGED lease \/ RenewIfMatch(Key[w], hbtok[w])
          /\ Lose(w)
          /\ UNCHANGED age
    /\ UNCHANGED <<tokens, pc, tok, finished, ended, late, supVars>>

\* A renewal whose heartbeat is gone arrives at the store, or never does.
LateRenew(r) ==
    /\ late' = late \ {r}
    /\ UNCHANGED lease \/ RenewIfMatch(r.key, r.tok)
    /\ UNCHANGED <<tokens, workerVars, hb, hbtok, supVars, faults>>

-----------------------------------------------------------------------------
(* Cancellation, shutdown, drain, time and crashes.                        *)

\* The context given to Run ends, or the AfterFunc on the supervisor's runs.
Cancel(w) ==
    /\ Proc[w] \in Managed
    /\ w \notin ended
    /\ pc[w] \notin {"off", "ended"}
    /\ ended' = ended \cup {w}
    /\ UNCHANGED <<lockVars, pc, tok, finished, age, lost, beatVars, supVars, faults>>

\* Variant with a fault: the AfterFunc is on the context given to Run.
AfterFuncOfRun(w) == w \in ended /\ Cancel(w)

AfterFunc(w) == Proc[w] \in stopped /\ Cancel(w)

\* Shutdown, called by the service or by Drain through the registration.
Shutdown(p) ==
    /\ p \in (created \cap Managed) \ stopped
    /\ stopped' = stopped \cup {p}
    /\ UNCHANGED <<lockVars, workerVars, beatVars, created, registered, draining, returned, faults>>

\* wg.Wait: no goroutine of Run is left.
ShutdownReturns(p) ==
    /\ p \in stopped \ returned
    /\ \A w \in Workers : Proc[w] = p => pc[w] \in {"off", "starting", "ended"}
    /\ returned' = returned \cup {p}
    /\ UNCHANGED <<lockVars, workerVars, beatVars, created, registered, draining, stopped, faults>>

\* Tracker.Drain refuses new registrations, then calls the registered ones.
Drain(p) ==
    /\ p \in Managed \ draining
    /\ draining' = draining \cup {p}
    /\ UNCHANGED <<lockVars, workerVars, beatVars, created, registered, stopped, returned, faults>>

DrainCloses(p) == p \in draining \cap registered /\ Shutdown(p)

Min(a, b) == IF a <= b THEN a ELSE b

Tick ==
    /\ Age
    /\ age' = [w \in Workers |-> IF tok[w] = NoToken THEN 0 ELSE Min(age[w] + 1, TTL)]
    /\ Outlive({})
    /\ UNCHANGED <<tokens, pc, tok, finished, lost, ended, hb, hbtok, supVars, faults>>

Of(p) == {w \in Workers : Proc[w] = p}

\* A process dies and starts again; what it had in flight may still arrive.
Crash(p) ==
    /\ p \in created
    /\ Fault
    /\ UNCHANGED lease
    /\ tokens' = [tokens EXCEPT ![p] = [k \in Keys |-> NoToken]]
    /\ pc' = [w \in Workers |-> IF Proc[w] = p THEN "off" ELSE pc[w]]
    /\ tok' = [w \in Workers |-> IF Proc[w] = p THEN NoToken ELSE tok[w]]
    /\ age' = [w \in Workers |-> IF Proc[w] = p THEN 0 ELSE age[w]]
    /\ hb' = [w \in Workers |-> IF Proc[w] = p THEN "off" ELSE hb[w]]
    /\ hbtok' = [w \in Workers |-> IF Proc[w] = p THEN NoToken ELSE hbtok[w]]
    /\ Outlive(Of(p))
    /\ finished' = finished \ Of(p)
    /\ lost' = lost \ Of(p)
    /\ ended' = ended \ Of(p)
    /\ created' = created \ {p}
    /\ registered' = registered \ {p}
    /\ draining' = draining \ {p}
    /\ stopped' = stopped \ {p}
    /\ returned' = returned \ {p}

-----------------------------------------------------------------------------
Init ==
    /\ LockInit
    /\ pc = [w \in Workers |-> "off"]
    /\ tok = [w \in Workers |-> NoToken]
    /\ age = [w \in Workers |-> 0]
    /\ hb = [w \in Workers |-> "off"]
    /\ hbtok = [w \in Workers |-> NoToken]
    /\ late = {}
    /\ finished = {} /\ lost = {} /\ ended = {}
    /\ created = {} /\ registered = {} /\ draining = {} /\ stopped = {} /\ returned = {}
    /\ faults = 0

Step(w) ==
    \/ Launch(w) \/ Loop(w) \/ Acquire(w) \/ Hold(w)
    \/ Release(w) \/ ForgetToken(w) \/ Wake(w)

Beat(w) == BeatRead(w) \/ BeatDone(w)

Returns(w) == \E nil \in BOOLEAN : FnReturns(w, nil)

Next ==
    \/ \E w \in Workers : Run(w) \/ Step(w) \/ Beat(w) \/ Cancel(w) \/ Returns(w)
    \/ \E p \in Procs : New(p) \/ Shutdown(p) \/ ShutdownReturns(p)
                        \/ Drain(p) \/ DrainCloses(p) \/ Crash(p)
    \/ \E r \in late : LateRenew(r)
    \/ Tick

Spec == Init /\ [][Next]_vars

(* Fairness.  Goroutines run, calls end, time passes, and fn returns when  *)
(* its context is cancelled, as Run asks of it.                            *)
Fairness ==
    /\ WF_vars(Tick)
    /\ \A p \in Procs : WF_vars(ShutdownReturns(p) \/ DrainCloses(p))
    /\ \A w \in Workers :
         /\ WF_vars(Step(w)) /\ WF_vars(Beat(w)) /\ WF_vars(AfterFunc(w))
         /\ WF_vars(Cancelled(w) /\ Returns(w))

FairSpec == Spec /\ Fairness

-----------------------------------------------------------------------------
(* Properties.                                                             *)

TypeOK ==
    /\ LockTypeOK
    /\ pc \in [Workers -> PCs]
    /\ tok \in [Workers -> Tokens \cup {NoToken}]
    /\ age \in [Workers -> 0..TTL]
    /\ hb \in [Workers -> {"off", "idle", "busy"}]
    /\ hbtok \in [Workers -> Tokens \cup {NoToken}]
    /\ late \subseteq Requests
    /\ finished \cup lost \cup ended \subseteq Workers
    /\ created \cup registered \cup draining \cup stopped \cup returned \subseteq Procs
    /\ faults \in 0..MaxFaults

\* No two workers that contend for a key share a Locker.
Separate ==
    \A v, w \in Workers : Proc[v] = Proc[w] /\ Key[v] = Key[w] => v = w

Leads(w) == pc[w] \in {"granted", "running"} /\ age[w] < TTL

\* Authority: as long as the last renewal the store carried out for a worker is
\* younger than the TTL, the lease of its key carries the worker's own token.
LeaderHolds == \A w \in Workers : Leads(w) => Owns(Key[w], tok[w])

\* So no two workers of one name lead at the same time, whatever the store
\* loses, whenever a process crashes and however late a renewal arrives.
OneLeader ==
    \A v, w \in Workers : Leads(v) /\ Leads(w) /\ Key[v] = Key[w] => v = w

Elections == INSTANCE Leadership WITH leaders <- {w \in Workers : Leads(w)}

\* Leadership changes hands only through nobody: a worker begins to lead, by
\* Acquire or by a renewal, when no other of its name still does.
ImplementsLeadership == Elections!LSpec

\* Once Shutdown has returned nil no fn runs and none will: not even that of a
\* Run that passed its check before Shutdown began.
QuietAfterShutdown ==
    \A w \in Workers :
        Proc[w] \in returned => pc[w] \in {"off", "starting", "loop", "ended"}

\* A worker whose lease another worker holds is cancelled.
LostIsNoticed ==
    \A w \in Workers :
        (/\ pc[w] = "running"
         /\ lease[Key[w]].left > 0 /\ lease[Key[w]].tok # tok[w])
        ~> (Cancelled(w) \/ pc[w] # "running")

\* Shutdown and a drain come to an end.
ShutdownEnds ==
    /\ \A p \in Procs : p \in stopped ~> (p \in returned \/ p \notin created)
    /\ \A w \in Workers :
         Proc[w] \in draining \cap created
         ~> (pc[w] \in {"off", "ended"} \/ Proc[w] \notin registered)

\* Failover: a worker that keeps trying gets its turn, or another of its name
\* has it.
Failover ==
    \A w \in Workers :
        pc[w] \in {"loop", "taking", "waiting"}
        ~> \/ pc[w] = "off" \/ w \in ended \/ Stopping(Proc[w])
           \/ \E v \in Workers : Key[v] = Key[w] /\ pc[v] = "running"

=============================================================================

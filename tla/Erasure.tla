------------------------------ MODULE Erasure ------------------------------
(***************************************************************************)
(* The participant side of the account-deletion saga for one user: the     *)
(* erasure-state table, the processes that each run a Consumer over the    *)
(* service's queue and answer Blocked from memory, and what leaves the     *)
(* service (purges and acks).                                              *)
(*                                                                         *)
(* Every network call is a step of its own; the local code that follows a  *)
(* call runs in the same step.  The queue delivers any message it holds to *)
(* any idle consumer, so duplicates, redeliveries after a visibility       *)
(* timeout and every reordering are included.                              *)
(***************************************************************************)
EXTENDS ErasureState

CONSTANTS Procs,      \* processes: each runs one consumer
          Servers,    \* the processes that also serve user requests
          Sub,        \* the user's key
          Orgs,       \* keys of the organizations erased with the user
          Sends,      \* what ctech-account may publish: messages without seq
          MaxSeq,     \* bound: messages published
          MaxFaults   \* bound: failed calls and crashes

Keys == {Sub} \cup Orgs

Payload == [type: Types, req: Requests, orgs: SUBSET Orgs, targets: BOOLEAN]

Message == [type: Types, req: Requests, orgs: SUBSET Orgs, targets: BOOLEAN,
            seq: Nat \ {0}]

ASSUME ErasureAssumption ==
    /\ Servers \subseteq Procs
    /\ Sub \notin Orgs
    /\ Sends \subseteq Payload
    /\ MaxSeq \in Nat
    /\ MaxFaults \in Nat
    /\ None \notin Message
    /\ None \notin Procs

VARIABLES
    table,    \* the erasure_state table: key -> Record or None
    clock,    \* issued_at of the newest message; also the local time
    queue,    \* messages published and not deleted
    sent,     \* every message published
    cons,     \* cons[p]: where p's consumer is in handling its message
    blocked,  \* blocked[p]: Blocked's remembered answer
    serve,    \* serve[p]: a request of p inside Blocked or Clear
    purged,   \* requests whose purge reported done
    acks,     \* acks that reached ctech-account
    locks,    \* writes that moved the user from another state to locked
    hooks,    \* calls of the OnLock hook
    faults    \* failures so far

\* What a process holds in memory, what the service stores, what left it.
store == <<table, locks>>
transport == <<clock, queue, sent>>
effects == <<purged, acks, hooks>>

vars == <<store, transport, effects, cons, blocked, serve, faults>>

-----------------------------------------------------------------------------
(* The consumer.  pc is the next network call; phase is the call of        *)
(* ApplyChanged (or Relink) in progress, on key; cur and next are the      *)
(* record read and the one being written; under is the state the lock      *)
(* returned to the erase in progress.                                      *)

\* handle about to make the call pc, for message m.
At(m, pc) == [pc |-> pc, msg |-> m, phase |-> "none", key |-> Sub, todo |-> {},
              tries |-> 0, cur |-> None, next |-> None, out |-> "none",
              under |-> "none"]

Idle == At(None, "idle")

\* handle about to read the record of key, in a phase of handling m.
Reading(m, phase, key, todo, under) ==
    [pc |-> "get", msg |-> m, phase |-> phase, key |-> key, todo |-> todo,
     tries |-> 0, cur |-> None, next |-> None, out |-> "none", under |-> under]

\* The record cur was read; next is about to be put.
Putting(l, cur, next) == [l EXCEPT !.pc = "put", !.cur = cur, !.next = next]

Become(p, local) == cons' = [cons EXCEPT ![p] = local]

\* The message ApplyChanged is given: an erase is first applied as a lock.
Applied(l) == IF l.phase = "lock" THEN [l.msg EXCEPT !.type = "locked"] ELSE l.msg

\* Variant with a fault: the organizations are forgotten.
TombstoneUserOnly(p, l, todo) ==
    Become(p, Reading(l.msg, "sub", Sub, {}, l.under))

\* After a done purge: tombstone each organization, then the user.
TombstoneNext(p, l, todo) ==
    \/ \E o \in todo :
         Become(p, Reading(l.msg, "org", o, todo \ {o}, l.under))
    \/ /\ todo = {}
       /\ Become(p, Reading(l.msg, "sub", Sub, {}, l.under))

\* ApplyChanged returned rec: what handle does next.
Returned(p, l, rec) ==
    \/ /\ l.phase = "plain"
       /\ Become(p, At(l.msg, "delete"))
    \/ /\ l.phase = "lock" /\ rec.state # "active"
       /\ Become(p, [At(l.msg, "purge") EXCEPT !.under = rec.state])
    \/ /\ l.phase = "lock" /\ rec.state = "active" /\ rec.req = l.msg.req
       /\ Become(p, [At(l.msg, "ack") EXCEPT !.out = "done"])
    \/ /\ l.phase = "lock" /\ rec.state = "active" /\ rec.req # l.msg.req
       /\ Become(p, Idle)
    \/ /\ l.phase = "org"
       /\ TombstoneNext(p, l, l.todo)
    \/ /\ l.phase = "sub"
       /\ Become(p, [At(l.msg, "ack") EXCEPT !.out = "done"])

\* A failure: bounded, so that liveness does not depend on luck.
Fault == /\ faults < MaxFaults
         /\ faults' = faults + 1

\* ctech-account publishes a message, with a newer issued_at.
Publish(s) ==
    /\ clock < MaxSeq
    /\ clock' = clock + 1
    /\ LET m == [type |-> s.type, req |-> s.req, orgs |-> s.orgs,
                 targets |-> s.targets, seq |-> clock + 1]
       IN  /\ queue' = queue \cup {m}
           /\ sent' = sent \cup {m}
    /\ UNCHANGED <<store, effects, cons, blocked, serve, faults>>

\* Run receives one message and handle routes it by target and type.
Receive(p, m) ==
    /\ cons[p].pc = "idle"
    /\ m \in queue
    /\ \/ /\ ~m.targets
          /\ Become(p, At(m, "delete"))
       \/ /\ m.targets /\ m.type = "relinked"
          /\ Become(p, Reading(m, "relink", Sub, {}, "none"))
       \/ /\ m.targets /\ m.type = "erase"
          /\ Become(p, Reading(m, "lock", Sub, {}, "none"))
       \/ /\ m.targets /\ m.type \in {"locked", "unlocked"}
          /\ Become(p, Reading(m, "plain", Sub, {}, "none"))
    /\ UNCHANGED <<store, transport, effects, blocked, serve, faults>>

\* ApplyChanged: read the record and run apply on it.
Get(p) ==
    LET l == cons[p]
        rec == table[l.key]
    IN  /\ l.pc = "get" /\ l.phase # "relink"
        /\ \/ /\ Accepts(rec, Applied(l))
              /\ Become(p, Putting(l, rec, Outcome(rec, Applied(l))))
           \/ /\ ~Accepts(rec, Applied(l))
              /\ Returned(p, l, Prev(rec))
        /\ UNCHANGED <<store, transport, effects, blocked, serve, faults>>

\* Relink: read the record; anything but an older tombstone is left alone.
RelinkGet(p) ==
    LET l == cons[p]
        rec == table[l.key]
    IN  /\ l.pc = "get" /\ l.phase = "relink"
        /\ \/ /\ Relinks(rec, l.msg)
              /\ Become(p, Putting(l, rec, Reopened(rec, l.msg.seq)))
           \/ /\ ~Relinks(rec, l.msg)
              /\ Become(p, At(l.msg, "delete"))
        /\ UNCHANGED <<store, transport, effects, blocked, serve, faults>>

\* Variant with a fault: a newer lock on a locked record counts as a change.
LocksUserAgain(cur, next) == next.state = "locked"

\* ApplyChanged's changed result, for a record that is now locked.
LocksUser(cur, next) == next.state = "locked" /\ Prev(cur).state # "locked"

\* Variant with a fault: an unconditional write.
WriteAnyway(key, cur, next) ==
    /\ table' = [table EXCEPT ![key] = next]
    /\ UNCHANGED locks

\* put's conditional write lands.
Write(key, cur, next) ==
    /\ SameVersion(cur, table[key])
    /\ table' = [table EXCEPT ![key] = next]
    /\ locks' = IF next.state = "locked" /\ (cur = None \/ cur.state # "locked")
                THEN locks + 1 ELSE locks

Put(p) ==
    LET l == cons[p]
    IN  /\ l.pc = "put"
        /\ \/ /\ Write(l.key, l.cur, l.next)
              /\ Become(p, [l EXCEPT !.pc = "settle", !.out = "ok"])
           \/ /\ ~SameVersion(l.cur, table[l.key])
              /\ Become(p, [l EXCEPT !.pc = "settle", !.out = "failed"])
              /\ UNCHANGED store
        /\ UNCHANGED <<transport, effects, blocked, serve, faults>>

\* The call fails in transport.  The write may have landed, and the SDK may
\* have repeated a write that landed, whose condition then fails.
PutFault(p) ==
    LET l == cons[p]
    IN  /\ l.pc = "put"
        /\ Fault
        /\ \/ /\ Write(l.key, l.cur, l.next)
              /\ \E out \in {"failed", "err"} :
                   Become(p, [l EXCEPT !.pc = "settle", !.out = out])
           \/ /\ Become(p, [l EXCEPT !.pc = "settle", !.out = "err"])
              /\ UNCHANGED store
        /\ UNCHANGED <<transport, effects, blocked, serve>>

\* Attempts of ApplyChanged.
Attempts == 3

\* put returns: its deferred Delete forgets the remembered answer, whatever
\* the outcome, and the caller goes on.
Settle(p) ==
    LET l == cons[p]
    IN  /\ l.pc = "settle"
        /\ blocked' = IF l.key = Sub THEN [blocked EXCEPT ![p] = "unset"]
                                     ELSE blocked
        /\ \/ /\ l.out = "ok" /\ l.phase # "relink"
              /\ Returned(p, l, l.next)
           \/ /\ l.out = "ok" /\ l.phase = "relink"
              /\ Become(p, At(l.msg, "delete"))
           \/ /\ l.out = "failed" /\ l.phase # "relink" /\ l.tries + 1 < Attempts
              /\ Become(p, [l EXCEPT !.pc = "get", !.tries = @ + 1, !.cur = None,
                                     !.next = None, !.out = "none"])
           \/ /\ \/ l.out = "err"
                 \/ l.out = "failed" /\ l.phase = "relink"
                 \/ l.out = "failed" /\ l.tries + 1 >= Attempts
              /\ Become(p, Idle)
        /\ hooks' = IF l.out = "ok" /\ LocksUser(l.cur, l.next) THEN hooks + 1
                                                               ELSE hooks
        /\ UNCHANGED <<store, transport, purged, acks, serve, faults>>

\* Variants with a fault: a blocked purge is acked done, or not acked at all.
PurgeAlwaysDone(p) ==
    LET l == cons[p]
    IN  /\ l.pc = "purge"
        /\ Become(p, [At(l.msg, "ack") EXCEPT !.out = "done"])
        /\ UNCHANGED <<store, transport, effects, blocked, serve, faults>>

PurgeBlockedUnacked(p) ==
    LET l == cons[p]
    IN  /\ l.pc = "purge"
        /\ Become(p, At(l.msg, "delete"))
        /\ UNCHANGED <<store, transport, effects, blocked, serve, faults>>

\* The service's PurgeFunc returns done, or blocked (nothing was erased).
Purge(p) ==
    LET l == cons[p]
    IN  /\ l.pc = "purge"
        /\ \/ /\ purged' = purged \cup {l.msg.req}
              /\ TombstoneNext(p, l, l.msg.orgs)
           \/ /\ Become(p, [At(l.msg, "ack") EXCEPT !.out = "blocked"])
              /\ UNCHANGED purged
        /\ UNCHANGED <<store, transport, acks, hooks, blocked, serve, faults>>

\* The ack is accepted; handle returns nil and the message will be deleted.
Ack(p) ==
    LET l == cons[p]
    IN  /\ l.pc = "ack"
        /\ acks' = acks \cup {[req |-> l.msg.req, result |-> l.out]}
        /\ Become(p, At(l.msg, "delete"))
        /\ UNCHANGED <<store, transport, purged, hooks, blocked, serve, faults>>

\* The ack call fails after it reached ctech-account.
AckLost(p) ==
    LET l == cons[p]
    IN  /\ l.pc = "ack"
        /\ Fault
        /\ acks' = acks \cup {[req |-> l.msg.req, result |-> l.out]}
        /\ Become(p, Idle)
        /\ UNCHANGED <<store, transport, purged, hooks, blocked, serve>>

\* Run deletes the message it handled.
Delete(p) ==
    LET l == cons[p]
    IN  /\ l.pc = "delete"
        /\ queue' = queue \ {l.msg}
        /\ Become(p, Idle)
        /\ UNCHANGED <<store, effects, clock, sent, blocked, serve, faults>>

\* A read, the purge, the ack or the delete fails: the message is left for
\* redelivery.
Fail(p) ==
    /\ cons[p].pc \in {"get", "purge", "ack", "delete"}
    /\ Fault
    /\ Become(p, Idle)
    /\ UNCHANGED <<store, transport, effects, blocked, serve>>

-----------------------------------------------------------------------------
(* Requests of a serving process: Blocked and Clear.                       *)

NoRequest == [pc |-> "none", cur |-> None, next |-> None]

IsBlocked(rec) == rec # None /\ rec.state # "active"

\* Blocked with nothing remembered reads the record.
BlockedRead(p) ==
    /\ serve[p].pc = "none"
    /\ blocked[p] = "unset"
    /\ serve' = [serve EXCEPT ![p] = [pc |-> "set", cur |-> table[Sub],
                                      next |-> None]]
    /\ UNCHANGED <<store, transport, effects, cons, blocked, faults>>

\* Blocked remembers what it read.
BlockedSet(p) ==
    /\ serve[p].pc = "set"
    /\ blocked' = [blocked EXCEPT ![p] = IF IsBlocked(serve[p].cur) THEN "yes"
                                                                     ELSE "no"]
    /\ serve' = [serve EXCEPT ![p] = NoRequest]
    /\ UNCHANGED <<store, transport, effects, cons, faults>>

\* Variant with a fault: only the answer "blocked" ages.
ForgetOnlyBlocked(p) ==
    /\ blocked[p] = "yes"
    /\ blocked' = [blocked EXCEPT ![p] = "unset"]
    /\ UNCHANGED <<store, transport, effects, cons, serve, faults>>

\* blockedMemoryTTL passes.
Forget(p) ==
    /\ blocked[p] # "unset"
    /\ blocked' = [blocked EXCEPT ![p] = "unset"]
    /\ UNCHANGED <<store, transport, effects, cons, serve, faults>>

\* Clear: the user consents to the service again.
ClearRead(p) ==
    LET rec == table[Sub]
    IN  /\ serve[p].pc = "none"
        /\ rec # None /\ rec.state = "erased"
        /\ serve' = [serve EXCEPT ![p] =
                        [pc |-> "clear", cur |-> rec,
                         next |-> Reopened(rec, MaxOf(rec.seq, clock))]]
        /\ UNCHANGED <<store, transport, effects, cons, blocked, faults>>

ClearPut(p) ==
    LET r == serve[p]
    IN  /\ r.pc = "clear"
        /\ \/ Write(Sub, r.cur, r.next)
           \/ /\ ~SameVersion(r.cur, table[Sub])
              /\ UNCHANGED store
        /\ serve' = [serve EXCEPT ![p] = [@ EXCEPT !.pc = "settle"]]
        /\ UNCHANGED <<transport, effects, cons, blocked, faults>>

\* Clear's write fails in transport and does not land.
ClearFault(p) ==
    /\ serve[p].pc = "clear"
    /\ Fault
    /\ serve' = [serve EXCEPT ![p] = [@ EXCEPT !.pc = "settle"]]
    /\ UNCHANGED <<store, transport, effects, cons, blocked>>

ClearSettle(p) ==
    /\ serve[p].pc = "settle"
    /\ blocked' = [blocked EXCEPT ![p] = "unset"]
    /\ serve' = [serve EXCEPT ![p] = NoRequest]
    /\ UNCHANGED <<store, transport, effects, cons, faults>>

-----------------------------------------------------------------------------
(* The environment: crashes and DynamoDB's TTL.                            *)

\* The process dies: its consumer, its requests and its memory are gone.
Crash(p) ==
    /\ Fault
    /\ Become(p, Idle)
    /\ blocked' = [blocked EXCEPT ![p] = "unset"]
    /\ serve' = [serve EXCEPT ![p] = NoRequest]
    /\ UNCHANGED <<store, transport, effects>>

\* DynamoDB deletes an expired record.  The TTLs (30 days, or a retention)
\* outlast the queue's retention, so no message that old is still around.
Expire(k) ==
    /\ table[k] # None
    /\ HasTTL(table[k])
    /\ \A m \in queue : m.seq > table[k].seq
    /\ \A p \in Procs : cons[p].msg # None => cons[p].msg.seq > table[k].seq
    /\ table' = [table EXCEPT ![k] = None]
    /\ UNCHANGED <<transport, effects, locks, cons, blocked, serve, faults>>

-----------------------------------------------------------------------------
Init ==
    /\ table = [k \in Keys |-> None]
    /\ clock = 0
    /\ queue = {}
    /\ sent = {}
    /\ cons = [p \in Procs |-> Idle]
    /\ blocked = [p \in Procs |-> "unset"]
    /\ serve = [p \in Procs |-> NoRequest]
    /\ purged = {}
    /\ acks = {}
    /\ locks = 0
    /\ hooks = 0
    /\ faults = 0

Consume(p) ==
    \/ Get(p) \/ RelinkGet(p) \/ Put(p) \/ Settle(p)
    \/ Purge(p) \/ Ack(p) \/ Delete(p)

Serve(p) ==
    \/ BlockedRead(p) \/ BlockedSet(p) \/ Forget(p)
    \/ ClearRead(p) \/ ClearPut(p) \/ ClearSettle(p)

Break(p) == PutFault(p) \/ AckLost(p) \/ Fail(p) \/ ClearFault(p) \/ Crash(p)

Next ==
    \/ \E s \in Sends : Publish(s)
    \/ \E p \in Procs, m \in queue : Receive(p, m)
    \/ \E p \in Procs : Consume(p)
    \/ \E p \in Servers : Serve(p)
    \/ \E p \in Procs : Break(p)
    \/ \E k \in Keys : Expire(k)

Spec == Init /\ [][Next]_vars

(* Fairness.  A consumer that holds a message keeps calling; SQS delivers   *)
(* every message it holds again and again; entries of the memory age.      *)
Fairness ==
    /\ \A p \in Procs : WF_vars(Consume(p))
    /\ \A n \in 1..MaxSeq :
         SF_vars(\E p \in Procs, m \in queue : m.seq = n /\ Receive(p, m))
    /\ \A p \in Servers : WF_vars(BlockedSet(p)) /\ WF_vars(Forget(p))

FairSpec == Spec /\ Fairness

-----------------------------------------------------------------------------
(* Properties.                                                             *)

RecordOrNone == Record \cup {None}

Phases == {"none", "plain", "relink", "lock", "org", "sub"}

Locals == [pc: {"idle", "get", "put", "settle", "purge", "ack", "delete"},
           msg: Message \cup {None}, phase: Phases, key: Keys,
           todo: SUBSET Orgs, tries: 0..(Attempts - 1), cur: RecordOrNone,
           next: RecordOrNone,
           out: {"none", "ok", "failed", "err", "done", "blocked"},
           under: {"none", "locked", "erased"}]

Request == [pc: {"none", "set", "clear", "settle"}, cur: RecordOrNone,
            next: RecordOrNone]

\* Every variable keeps the shape of the data the code holds: records,
\* messages, and the local variables of handle, ApplyChanged and Clear.
TypeOK ==
    /\ table \in [Keys -> RecordOrNone]
    /\ clock \in 0..MaxSeq
    /\ sent \in SUBSET Message /\ queue \in SUBSET sent
    /\ cons \in [Procs -> Locals]
    /\ blocked \in [Procs -> {"unset", "yes", "no"}]
    /\ serve \in [Procs -> Request]
    /\ purged \in SUBSET Requests
    /\ acks \in SUBSET [req: Requests, result: {"done", "blocked"}]
    /\ locks \in Nat /\ hooks \in Nat
    /\ faults \in 0..MaxFaults

\* Within one seq a record only moves locked -> erased -> active.
Rank(state) == CASE state = "locked" -> 0 [] state = "erased" -> 1
                 [] state = "active" -> 2

Newer(a, b) == \/ a.seq > b.seq
               \/ a.seq = b.seq /\ Rank(a.state) > Rank(b.state)

RecordsAge ==
    \A k \in Keys :
        table[k] # None /\ table'[k] # None /\ table'[k] # table[k]
        => Newer(table'[k], table[k])

\* Every landed put makes the record strictly newer (seq_ns, then
\* locked < erased < active): no delivery order, duplicate or concurrent
\* Clear takes the state machine of apply back.
OnlyNewer == [][RecordsAge]_vars

TombstonesHold ==
    \A k \in Keys :
        table[k] # None /\ table[k].state = "erased" /\ table'[k] # table[k]
        => \/ table'[k] = None /\ ErasedExpires
           \/ /\ k = Sub /\ table'[k] # None
              /\ table'[k].state = "active" /\ table'[k].req = table[k].req

\* A tombstone ends only by its TTL or by the user coming back, which keeps
\* the request that proves which erase was done (Clear, Relink).
TombstoneStays == [][TombstonesHold]_vars

\* put's condition compares seq_ns and erasure_state, not request_id.  It is
\* enough: a record read by a consumer or by Clear that still has the version
\* of the stored one is the stored one.
VersionIdentifies ==
    /\ \A p \in Procs :
         LET l == cons[p] IN
         l.pc = "put" /\ SameVersion(l.cur, table[l.key]) => l.cur = table[l.key]
    /\ \A p \in Procs :
         LET r == serve[p] IN
         r.pc = "clear" /\ SameVersion(r.cur, table[Sub]) => r.cur = table[Sub]

Erasing(l) == l.pc = "purge" \/ l.phase \in {"org", "sub"}

\* While an erase that was given the lock purges, and until its tombstones are
\* written, the user is locked or erased in the table, unless an unlock, relink
\* or Clear newer than the erase came in between; no TTL ends the lock.
PurgeUnderLock ==
    \A p \in Procs : Erasing(cons[p]) /\ cons[p].under = "locked" =>
        /\ table[Sub] # None
        /\ table[Sub].state = "active" => table[Sub].seq >= cons[p].msg.seq

\* "Anything else is unexplained ... never claim done" (handle): only a purge of
\* that very request backs a done ack.
NeverClaimDone ==
    \A r \in Requests : [req |-> r, result |-> "done"] \in acks => r \in purged

Erases(r) == {m \in sent : m.type = "erase" /\ m.req = r}

\* handle tombstones the organizations before the user: whoever sees the
\* user's tombstone (tombstones kept forever) finds those of its erase.
OrgsBeforeUser ==
    (~ErasedExpires /\ table[Sub] # None /\ table[Sub].state = "erased")
    => \E m \in Erases(table[Sub].req) : \A o \in m.orgs :
          table[o] # None /\ table[o].state = "erased"

\* A done ack is backed by a purge of that very request, or the request was
\* called off by an unlock.
DoneIsExplained ==
    \A r \in Requests : [req |-> r, result |-> "done"] \in acks =>
        r \in purged \/ \E m \in sent : m.type = "unlocked" /\ m.req = r

Table == INSTANCE ErasureTable

\* The reads, conditional puts and retries of all processes together change a
\* record only as if each message were applied at once to the current record:
\* no stale read, lost response or repeated write is visible in the table.
ImplementsTable == Table!TSpec

\* Every erase of the queue that targets this service is answered: an ack
\* reaches ctech-account, or a newer record of another request is active (the
\* case handle leaves to the DLQ).
EraseIsAnswered ==
    \A r \in Requests :
        (\E m \in queue : m.req = r /\ m.type = "erase" /\ m.targets)
        ~> \/ \E a \in acks : a.req = r
           \/ /\ table[Sub] # None /\ table[Sub].state = "active" /\ table[Sub].req # r
              /\ \A m \in sent : m.req = r /\ m.type = "erase" => table[Sub].seq >= m.seq

\* A lock or tombstone that stays is not ignored forever by any process: the
\* memory of Blocked outlives it only by blockedMemoryTTL.
BlockedConverges ==
    \A p \in Servers :
        <>[](table[Sub] # None /\ IsBlocked(table[Sub])) => <>[](blocked[p] # "no")

\* OnLock runs at most once per move to locked, whatever is redelivered.
HookPerLock == hooks <= locks

=============================================================================

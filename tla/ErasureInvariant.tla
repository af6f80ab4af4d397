-------------------------- MODULE ErasureInvariant --------------------------
(***************************************************************************)
(* The inductive invariant behind the safety properties of Erasure, in     *)
(* layers: each layer is preserved by Next given the ones before it.       *)
(***************************************************************************)
EXTENDS Erasure

\* What handle knows about its message in each phase, and what a consumer about
\* to put has computed from the record it read.
Computed(l) ==
    IF l.phase = "relink"
    THEN Relinks(l.cur, l.msg) /\ l.next = Reopened(l.cur, l.msg.seq)
    ELSE Accepts(l.cur, Applied(l)) /\ l.next = Outcome(l.cur, Applied(l))

LocalOK(l) ==
    /\ l.pc = "idle" <=> l.msg = None
    /\ l.pc \in {"get", "put", "settle"} <=> l.phase # "none"
    /\ l.phase # "none" \/ l.pc \in {"purge", "ack"} => l.msg.targets
    /\ l.phase = "plain" => l.msg.type \in {"locked", "unlocked"}
    /\ l.phase = "relink" => l.msg.type = "relinked"
    /\ l.phase \in {"lock", "org", "sub"} => l.msg.type = "erase"
    /\ l.pc \in {"purge", "ack"} => l.msg.type = "erase"
    /\ l.phase # "org" => l.key = Sub
    /\ l.phase = "org" => l.key \in l.msg.orgs /\ l.todo \subseteq l.msg.orgs
    /\ l.pc = "put" => Computed(l)
    /\ l.pc = "settle" => l.next # None /\ l.out \in {"ok", "failed", "err"}
    /\ l.pc = "settle" /\ l.phase \in {"lock", "sub", "org"} =>
         /\ l.next.seq >= l.msg.seq
         /\ l.next.state = StateFor(Applied(l).type)
         /\ l.next.req = l.msg.req
    /\ l.pc = "ack" => l.out \in {"done", "blocked"}

\* What a request inside Clear has computed.
RequestOK(r, time) ==
    r.pc = "clear" =>
        /\ r.cur # None /\ r.cur.state = "erased"
        /\ \E now \in 0..time : r.next = Reopened(r.cur, MaxOf(r.cur.seq, now))

Shapes == /\ \A p \in Procs : LocalOK(cons[p])
          /\ \A p \in Procs : cons[p].msg # None => cons[p].msg \in sent
          /\ \A p \in Procs : RequestOK(serve[p], clock)

-----------------------------------------------------------------------------
\* Messages that may still be handled: queued, or held by a consumer.
Live == queue \cup {cons[p].msg : p \in {q \in Procs : cons[q].msg # None}}

\* A record read earlier is the stored one or older; if the stored one expired,
\* whatever is written next is newer.
Behind(cur, stored, live, time) ==
    cur # None =>
        /\ cur.seq <= time
        /\ stored # None => cur = stored \/ Newer(stored, cur)
        /\ stored = None => \A m \in live : m.seq > cur.seq

Versions ==
    /\ \A m \in sent : m.seq <= clock
    /\ \A k \in Keys : table[k] # None => table[k].seq <= clock
    /\ \A p \in Procs :
         cons[p].pc = "put" => Behind(cons[p].cur, table[cons[p].key], Live, clock)
    /\ \A p \in Procs :
         serve[p].pc = "clear" => Behind(serve[p].cur, table[Sub], Live, clock)

-----------------------------------------------------------------------------
\* A consumer whose erase holds the lock keeps the record at its own seq or
\* later: it can neither expire nor be reopened by anything older.
HoldsLock(l) ==
    \/ Erasing(l) /\ l.under = "locked"
    \/ l.pc = "settle" /\ l.phase = "lock" /\ l.out = "ok"

LockHeld ==
    \A p \in Procs : HoldsLock(cons[p]) =>
        table[Sub] # None /\ table[Sub].seq >= cons[p].msg.seq

-----------------------------------------------------------------------------
\* Why a request may be acked done: it was purged, or called off by an unlock.
Explained(r, done, msgs) ==
    r \in done \/ \E m \in msgs : m.type = "unlocked" /\ m.req = r

\* A tombstone is the work of a purge; an active record of an unlock, or of a
\* user coming back to a tombstone.
Backed(rec, done, msgs) ==
    /\ rec.state = "erased" => rec.req \in done
    /\ rec.state = "active" => Explained(rec.req, done, msgs)

\* What the phase a consumer is in proves.
Earned(l, done, msgs) ==
    /\ l.phase \in {"org", "sub"} => l.msg.req \in done
    /\ l.pc = "put" => /\ Backed(l.next, done, msgs)
                       /\ l.cur # None => Backed(l.cur, done, msgs)
    /\ l.pc = "ack" /\ l.out = "done" => Explained(l.msg.req, done, msgs)

Evidence ==
    /\ \A k \in Keys : table[k] # None => Backed(table[k], purged, sent)
    /\ \A p \in Procs : Earned(cons[p], purged, sent)
    /\ \A p \in Procs : serve[p].pc = "clear" => Backed(serve[p].next, purged, sent)
    /\ DoneIsExplained

-----------------------------------------------------------------------------
Erased(tab, k) == tab[k] # None /\ tab[k].state = "erased"

\* The tombstones a consumer has written, going by its phase.
Tombstoned(l, tab) ==
    /\ l.phase = "org" => \A o \in l.msg.orgs :
                            o \in l.todo \/ o = l.key \/ Erased(tab, o)
    /\ l.phase = "org" /\ l.pc = "settle" /\ l.out = "ok" => Erased(tab, l.key)
    /\ l.phase = "sub" => \A o \in l.msg.orgs : Erased(tab, o)

\* Organizations are only ever tombstoned, and a consumer that tombstones the
\* user has tombstoned all of them.
OrgsDone ==
    ~ErasedExpires =>
        /\ \A o \in Orgs : table[o] # None => Erased(table, o)
        /\ \A p \in Procs : Tombstoned(cons[p], table)
        /\ OrgsBeforeUser

\* The whole inductive invariant.
IInv == TypeOK /\ Shapes /\ Versions /\ LockHeld /\ Evidence /\ OrgsDone

=============================================================================

--------------------------- MODULE ErasureTypeProofs ---------------------------
(***************************************************************************)
(* Type correctness of Erasure and the shape of what each process holds,   *)
(* for every set of processes, organizations, requests and messages and    *)
(* every bound; and, on the way, what each call of a consumer leads to.    *)
(***************************************************************************)
EXTENDS ErasureInvariant, TLAPS

USE DEF RecordOrNone

-----------------------------------------------------------------------------
(* The values handle and ApplyChanged compute.                             *)

\* What apply writes for a message it accepts is a record, no older than the
\* message and of the message's request.
LEMMA OutcomeType ==
    ASSUME NEW cur \in RecordOrNone, NEW m \in Message, Accepts(cur, m)
    PROVE  /\ Outcome(cur, m) \in Record
           /\ Outcome(cur, m).seq >= m.seq
           /\ Outcome(cur, m).req = m.req
           /\ Outcome(cur, m).state = StateFor(m.type)
<1>1. m.type \in {"erase", "locked", "unlocked"}
  BY DEF Accepts
<1>2. StateFor(m.type) \in States
  BY <1>1 DEF StateFor, States
<1>3. Prev(cur).seq \in Nat
  BY DEF Prev, Record
<1>4. MaxOf(Prev(cur).seq, m.seq) \in Nat /\ MaxOf(Prev(cur).seq, m.seq) >= m.seq
  BY <1>3 DEF MaxOf, Message
<1>5. m.req \in Requests
  BY DEF Message
<1> QED
  BY <1>2, <1>4, <1>5 DEF Outcome, Record

\* What Clear and Relink write is a record of the tombstone's request.
LEMMA ReopenedType ==
    ASSUME NEW cur \in Record, NEW n \in Nat
    PROVE  Reopened(cur, n) \in Record
BY DEF Reopened, Record, States

\* The message ApplyChanged is given is the one received, or its lock.
LEMMA AppliedType ==
    ASSUME NEW l \in Locals, l.msg \in Message
    PROVE  /\ Applied(l) \in Message
           /\ Applied(l).seq = l.msg.seq /\ Applied(l).req = l.msg.req
           /\ l.phase # "lock" => Applied(l) = l.msg
           /\ l.phase = "lock" => Applied(l).type = "locked"
BY DEF Applied, Message, Types

\* A consumer between two messages is well formed.
LEMMA IdleOK == Idle \in Locals /\ LocalOK(Idle)
BY DEF Idle, At, Locals, LocalOK, Phases, Keys, Attempts

\* handle between two calls, for the calls that need no phase.
LEMMA AtOK ==
    ASSUME NEW m \in Message
    PROVE  /\ At(m, "delete") \in Locals /\ LocalOK(At(m, "delete"))
           /\ m.type = "erase" /\ m.targets => \A u \in {"locked", "erased"} :
                /\ [At(m, "purge") EXCEPT !.under = u] \in Locals
                /\ LocalOK([At(m, "purge") EXCEPT !.under = u])
           /\ m.type = "erase" /\ m.targets => \A o \in {"done", "blocked"} :
                /\ [At(m, "ack") EXCEPT !.out = o] \in Locals
                /\ LocalOK([At(m, "ack") EXCEPT !.out = o])
<1>1. m # None
  BY ErasureAssumption
<1>2. At(m, "delete") \in Locals /\ LocalOK(At(m, "delete"))
  BY <1>1 DEF At, Locals, LocalOK, Phases, Keys, Attempts
<1>3. ASSUME m.type = "erase", m.targets, NEW u \in {"locked", "erased"}
      PROVE  /\ [At(m, "purge") EXCEPT !.under = u] \in Locals
             /\ LocalOK([At(m, "purge") EXCEPT !.under = u])
  BY <1>1, <1>3 DEF At, Locals, LocalOK, Phases, Keys, Attempts
<1>4. ASSUME m.type = "erase", m.targets, NEW o \in {"done", "blocked"}
      PROVE  /\ [At(m, "ack") EXCEPT !.out = o] \in Locals
             /\ LocalOK([At(m, "ack") EXCEPT !.out = o])
  BY <1>1, <1>4 DEF At, Locals, LocalOK, Phases, Keys, Attempts
<1> QED
  BY <1>2, <1>3, <1>4

\* handle about to read the record of a message it just received.
LEMMA AtReadOK ==
    ASSUME NEW m \in Message, m.targets, NEW ph \in {"plain", "relink", "lock"},
           ph = "plain" => m.type \in {"locked", "unlocked"},
           ph = "relink" => m.type = "relinked",
           ph = "lock" => m.type = "erase"
    PROVE  /\ Reading(m, ph, Sub, {}, "none") \in Locals
           /\ LocalOK(Reading(m, ph, Sub, {}, "none"))
<1>1. m # None
  BY ErasureAssumption
<1>2. Reading(m, ph, Sub, {}, "none") \in Locals
  BY DEF Reading, Locals, Phases, Keys, Attempts
<1> QED
  BY <1>1, <1>2, Zenon DEF Reading, LocalOK

\* handle about to read the record of a key it tombstones.
LEMMA AtTombstoneOK ==
    ASSUME NEW m \in Message, m.targets, m.type = "erase",
           NEW u \in {"none", "locked", "erased"}
    PROVE  /\ Reading(m, "sub", Sub, {}, u) \in Locals
           /\ LocalOK(Reading(m, "sub", Sub, {}, u))
           /\ \A todo \in SUBSET m.orgs : \A o \in todo :
                /\ Reading(m, "org", o, todo \ {o}, u) \in Locals
                /\ LocalOK(Reading(m, "org", o, todo \ {o}, u))
<1>1. m # None /\ m.orgs \subseteq Orgs
  BY ErasureAssumption DEF Message
<1>2. /\ Reading(m, "sub", Sub, {}, u) \in Locals
      /\ LocalOK(Reading(m, "sub", Sub, {}, u))
  BY <1>1 DEF Reading, Locals, LocalOK, Phases, Keys, Attempts
<1>3. ASSUME NEW todo \in SUBSET m.orgs, NEW o \in todo
      PROVE  /\ Reading(m, "org", o, todo \ {o}, u) \in Locals
             /\ LocalOK(Reading(m, "org", o, todo \ {o}, u))
  <2>1. o \in Keys /\ todo \ {o} \in SUBSET Orgs
    BY <1>1 DEF Keys
  <2>2. Reading(m, "org", o, todo \ {o}, u) \in Locals
    BY <2>1 DEF Reading, Locals, Phases, Attempts
  <2> QED
    BY <1>1, <2>2 DEF Reading, LocalOK
<1> QED
  BY <1>2, <1>3

\* n is where an erase in l goes when it has the organizations todo left.
Tombstones(l, todo, n) ==
    /\ n \in Locals /\ LocalOK(n)
    /\ n.msg = l.msg /\ n.pc = "get" /\ n.under = l.under
    /\ \/ n.phase = "sub" /\ todo = {}
       \/ n.phase = "org" /\ n.key \in todo /\ n.todo = todo \ {n.key}

\* n is where handle goes when ApplyChanged, called in l, returned rec.
Follows(l, rec, n) ==
    /\ n \in Locals /\ LocalOK(n)
    /\ n.msg = l.msg \/ n = Idle
    /\ \/ n.pc \in {"idle", "delete"} /\ n.phase = "none"
       \/ /\ l.phase = "lock" /\ rec.state # "active"
          /\ n.pc = "purge" /\ n.phase = "none" /\ n.under = rec.state
       \/ /\ l.phase = "lock" /\ rec.state = "active" /\ rec.req = l.msg.req
          /\ n.pc = "ack" /\ n.phase = "none" /\ n.out = "done"
       \/ l.phase = "org" /\ Tombstones(l, l.todo, n)
       \/ l.phase = "sub" /\ n.pc = "ack" /\ n.phase = "none" /\ n.out = "done"

\* TombstoneNext goes from one tombstone to the next.
LEMMA TombstoneOK ==
    ASSUME NEW p \in Procs, NEW l \in Locals, l.msg \in Message,
           l.msg.type = "erase", l.msg.targets,
           NEW todo \in SUBSET l.msg.orgs, TombstoneNext(p, l, todo)
    PROVE  \E n : Become(p, n) /\ Tombstones(l, todo, n)
<1>1. l.under \in {"none", "locked", "erased"}
  BY DEF Locals
<1>2. CASE \E o \in todo : Become(p, Reading(l.msg, "org", o, todo \ {o}, l.under))
  <2> PICK o \in todo : Become(p, Reading(l.msg, "org", o, todo \ {o}, l.under))
    BY <1>2, Zenon
  <2> DEFINE n == Reading(l.msg, "org", o, todo \ {o}, l.under)
  <2>1. n \in Locals /\ LocalOK(n)
    BY <1>1, AtTombstoneOK
  <2>2. /\ n.msg = l.msg /\ n.pc = "get" /\ n.under = l.under /\ n.phase = "org"
        /\ n.key = o /\ n.todo = todo \ {o}
    BY DEF Reading
  <2> QED
    BY <2>1, <2>2, Zenon DEF Tombstones
<1>3. CASE todo = {} /\ Become(p, Reading(l.msg, "sub", Sub, {}, l.under))
  <2> DEFINE n == Reading(l.msg, "sub", Sub, {}, l.under)
  <2>1. n \in Locals /\ LocalOK(n)
    BY <1>1, AtTombstoneOK
  <2>2. n.msg = l.msg /\ n.pc = "get" /\ n.under = l.under /\ n.phase = "sub"
    BY DEF Reading
  <2> QED
    BY <1>3, <2>1, <2>2 DEF Tombstones
<1> QED
  BY <1>2, <1>3 DEF TombstoneNext

\* Whatever ApplyChanged returns to handle, the consumer goes on to one of the
\* calls Follows lists, with a well-formed state.
LEMMA ReturnedOK ==
    ASSUME NEW p \in Procs, NEW l \in Locals, LocalOK(l), l.msg \in Message,
           l.phase # "none", NEW rec, rec.state \in States, Returned(p, l, rec)
    PROVE  \E n : Become(p, n) /\ Follows(l, rec, n)
<1> DEFINE m == l.msg
<1>1. CASE l.phase = "plain" /\ Become(p, At(m, "delete"))
  <2> DEFINE n == At(m, "delete")
  <2>1. n \in Locals /\ LocalOK(n)
    BY AtOK, Zenon
  <2>2. n.msg = l.msg /\ n.pc = "delete" /\ n.phase = "none"
    BY DEF At
  <2> QED
    BY <1>1, <2>1, <2>2 DEF Follows
<1>2. CASE /\ l.phase = "lock" /\ rec.state # "active"
           /\ Become(p, [At(m, "purge") EXCEPT !.under = rec.state])
  <2> DEFINE n == [At(m, "purge") EXCEPT !.under = rec.state]
  <2>1. m.type = "erase" /\ m.targets /\ rec.state \in {"locked", "erased"}
    BY <1>2 DEF LocalOK, States
  <2>2. n \in Locals /\ LocalOK(n)
    BY <2>1, AtOK, Zenon
  <2>3. n.msg = l.msg /\ n.pc = "purge" /\ n.phase = "none" /\ n.under = rec.state
    BY DEF At
  <2> QED
    BY <1>2, <2>2, <2>3, Zenon DEF Follows
<1>3. CASE /\ l.phase = "lock" /\ rec.state = "active" /\ rec.req = l.msg.req
           /\ Become(p, [At(m, "ack") EXCEPT !.out = "done"])
  <2> DEFINE n == [At(m, "ack") EXCEPT !.out = "done"]
  <2>1. m.type = "erase" /\ m.targets
    BY <1>3 DEF LocalOK
  <2>2. n \in Locals /\ LocalOK(n)
    BY <2>1, AtOK, Zenon
  <2>3. n.msg = l.msg /\ n.pc = "ack" /\ n.phase = "none" /\ n.out = "done"
    BY DEF At
  <2> QED
    BY <1>3, <2>2, <2>3, Zenon DEF Follows
<1>4. CASE Become(p, Idle)
  <2>1. Idle.pc = "idle" /\ Idle.phase = "none"
    BY DEF Idle, At
  <2> QED
    BY <1>4, <2>1, IdleOK DEF Follows
<1>5. CASE l.phase = "org" /\ TombstoneNext(p, l, l.todo)
  <2>1. m.type = "erase" /\ m.targets /\ l.todo \in SUBSET m.orgs
    BY <1>5 DEF LocalOK
  <2>2. PICK n : Become(p, n) /\ Tombstones(l, l.todo, n)
    BY <1>5, <2>1, TombstoneOK
  <2> QED
    BY <1>5, <2>2 DEF Follows, Tombstones
<1>6. CASE l.phase = "sub" /\ Become(p, [At(m, "ack") EXCEPT !.out = "done"])
  <2> DEFINE n == [At(m, "ack") EXCEPT !.out = "done"]
  <2>1. m.type = "erase" /\ m.targets
    BY <1>6 DEF LocalOK
  <2>2. n \in Locals /\ LocalOK(n)
    BY <2>1, AtOK, Zenon
  <2>3. n.msg = l.msg /\ n.pc = "ack" /\ n.phase = "none" /\ n.out = "done"
    BY DEF At
  <2> QED
    BY <1>6, <2>2, <2>3, Zenon DEF Follows
<1> QED
  BY <1>1, <1>2, <1>3, <1>4, <1>5, <1>6 DEF Returned

\* The calls of one put keep everything else of handle's state.
SamePhase(l, n) == /\ n.msg = l.msg /\ n.phase = l.phase /\ n.key = l.key
                   /\ n.todo = l.todo /\ n.under = l.under

\* A consumer that read cur and will write next.
LEMMA PutOK ==
    ASSUME NEW l \in Locals, LocalOK(l), l.pc = "get", NEW c \in RecordOrNone,
           NEW x \in Record,
           IF l.phase = "relink"
           THEN Relinks(c, l.msg) /\ x = Reopened(c, l.msg.seq)
           ELSE Accepts(c, Applied(l)) /\ x = Outcome(c, Applied(l))
    PROVE  /\ Putting(l, c, x) \in Locals /\ LocalOK(Putting(l, c, x))
           /\ SamePhase(l, Putting(l, c, x)) /\ Putting(l, c, x).pc = "put"
           /\ Putting(l, c, x).cur = c /\ Putting(l, c, x).next = x
<1> DEFINE n == Putting(l, c, x)
<1>1. n \in Locals
  BY Zenon DEF Locals, Putting
<1>2. SamePhase(l, n) /\ n.pc = "put" /\ n.cur = c /\ n.next = x
  BY DEF Locals, SamePhase, Putting
<1> HIDE DEF n
<1>3. Applied(n) = Applied(l)
  BY <1>2 DEF SamePhase, Applied
<1>4. Computed(n)
  BY <1>2, <1>3 DEF SamePhase, Computed
<1>5. LocalOK(n)
  BY <1>2, <1>4 DEF SamePhase, LocalOK
<1> QED
  BY <1>1, <1>2, <1>5 DEF n

\* A consumer whose put came back with an outcome.
LEMMA SettleOK ==
    ASSUME NEW l \in Locals, LocalOK(l), l.pc = "put", l.msg \in Message,
           NEW o \in {"ok", "failed", "err"}
    PROVE  LET n == [l EXCEPT !.pc = "settle", !.out = o]
           IN  /\ n \in Locals /\ LocalOK(n) /\ SamePhase(l, n)
               /\ n.pc = "settle" /\ n.out = o /\ n.cur = l.cur /\ n.next = l.next
<1> DEFINE n == [l EXCEPT !.pc = "settle", !.out = o]
<1>1. n \in Locals
  BY Zenon DEF Locals
<1>2. SamePhase(l, n) /\ n.pc = "settle" /\ n.out = o /\ n.cur = l.cur /\ n.next = l.next
  BY DEF Locals, SamePhase
<1>3. Applied(n) = Applied(l)
  BY <1>2 DEF SamePhase, Applied
<1>4. Computed(l) /\ l.cur \in RecordOrNone /\ l.next \in RecordOrNone
  BY DEF LocalOK, Locals
<1>5. l.phase # "relink" =>
        /\ l.next \in Record /\ l.next.seq >= l.msg.seq /\ l.next.req = l.msg.req
        /\ l.next.state = StateFor(Applied(l).type)
  BY <1>4, OutcomeType, AppliedType DEF Computed
<1>6. l.phase = "relink" => l.next \in Record
  <2> SUFFICES ASSUME l.phase = "relink" PROVE l.next \in Record
    OBVIOUS
  <2>1. l.cur \in Record /\ l.msg.seq \in Nat
    BY <1>4 DEF Computed, Relinks, Message
  <2> QED
    BY <1>4, <2>1, ReopenedType DEF Computed
<1>7. l.next # None
  BY <1>5, <1>6, StateAssumption
<1>8. LocalOK(n)
  BY <1>2, <1>3, <1>5, <1>7 DEF SamePhase, LocalOK
<1> QED
  BY <1>1, <1>2, <1>8

\* A consumer that tries ApplyChanged again.
LEMMA RetryOK ==
    ASSUME NEW l \in Locals, LocalOK(l), l.pc = "settle", l.phase # "relink",
           l.tries + 1 < Attempts
    PROVE  LET n == [l EXCEPT !.pc = "get", !.tries = @ + 1, !.cur = None,
                              !.next = None, !.out = "none"]
           IN  n \in Locals /\ LocalOK(n) /\ SamePhase(l, n) /\ n.pc = "get"
<1> DEFINE n == [l EXCEPT !.pc = "get", !.tries = @ + 1, !.cur = None,
                          !.next = None, !.out = "none"]
<1>1. l.tries + 1 \in 0..(Attempts - 1)
  BY DEF Locals, Attempts
<1>2. n \in Locals
  BY <1>1, Zenon DEF Locals
<1>3. SamePhase(l, n) /\ n.pc = "get"
  BY DEF Locals, SamePhase
<1>4. LocalOK(n)
  BY <1>3 DEF SamePhase, LocalOK
<1> QED
  BY <1>2, <1>3, <1>4

-----------------------------------------------------------------------------
(* What each action of a consumer does to its local variables.             *)

\* A consumer that handles a message holds one, in a consistent state.
LEMMA Holding ==
    ASSUME TypeOK, Shapes, NEW p \in Procs
    PROVE  /\ cons[p] \in Locals /\ LocalOK(cons[p])
           /\ cons[p].pc # "idle" => cons[p].msg \in Message /\ cons[p].msg \in sent
           /\ cons[p].key \in Keys /\ table[cons[p].key] \in RecordOrNone
<1>1. cons[p] \in Locals /\ LocalOK(cons[p])
  BY DEF TypeOK, Shapes
<1>2. cons[p].pc # "idle" => cons[p].msg \in sent
  BY <1>1, Zenon DEF Shapes, LocalOK
<1>3. sent \subseteq Message
  BY DEF TypeOK
<1>4. cons[p].key \in Keys
  BY <1>1 DEF Locals
<1>5. table[cons[p].key] \in RecordOrNone
  BY <1>4 DEF TypeOK
<1> QED
  BY <1>1, <1>2, <1>3, <1>4, <1>5

\* After a read, a consumer is about to put what it computed, or goes on.
AfterRead(p, l, n) ==
    /\ n \in Locals /\ LocalOK(n)
    /\ \/ /\ SamePhase(l, n) /\ n.pc = "put" /\ n.cur = table[l.key]
          /\ n.next \in Record
       \/ /\ l.phase # "relink" /\ ~Accepts(table[l.key], Applied(l))
          /\ Follows(l, Prev(table[l.key]), n)
       \/ n.pc = "delete" /\ n.phase = "none" /\ n.msg = l.msg

\* apply's starting point is a state and a sequence number, record or no record.
LEMMA PrevType ==
    ASSUME NEW rec \in RecordOrNone
    PROVE  Prev(rec).state \in States /\ Prev(rec).seq \in Nat
BY DEF Prev, Record, States

\* The read of ApplyChanged leads to a put it computed, or back to handle.
LEMMA GetStep ==
    ASSUME TypeOK, Shapes, NEW p \in Procs, Get(p)
    PROVE  \E n : Become(p, n) /\ AfterRead(p, cons[p], n)
<1> DEFINE l == cons[p]
           rec == table[l.key]
<1>1. l.pc = "get" /\ l.phase # "relink" /\ l.phase # "none"
  BY Holding, Zenon DEF Get, LocalOK
<1>2. l \in Locals /\ LocalOK(l) /\ l.msg \in Message /\ rec \in RecordOrNone
  BY <1>1, Holding
<1>3. CASE /\ Accepts(rec, Applied(l))
           /\ Become(p, Putting(l, rec, Outcome(rec, Applied(l))))
  <2>1. Outcome(rec, Applied(l)) \in Record
    BY <1>2, <1>3, AppliedType, OutcomeType
  <2> DEFINE n == Putting(l, rec, Outcome(rec, Applied(l)))
  <2>2. /\ n \in Locals /\ LocalOK(n) /\ SamePhase(l, n)
        /\ n.pc = "put" /\ n.cur = rec /\ n.next = Outcome(rec, Applied(l))
    <3>1. l.pc = "get" /\ l.phase # "relink" /\ Accepts(rec, Applied(l))
      BY <1>1, <1>3
    <3> HIDE DEF l, rec
    <3> QED
      BY <1>2, <2>1, <3>1, PutOK
  <2>3. Become(p, n)
    BY <1>3
  <2> HIDE DEF n
  <2> QED
    BY <2>1, <2>2, <2>3 DEF AfterRead
<1>4. CASE ~Accepts(rec, Applied(l)) /\ Returned(p, l, Prev(rec))
  <2>1. PICK n : Become(p, n) /\ Follows(l, Prev(rec), n)
    BY <1>1, <1>2, <1>4, PrevType, ReturnedOK, Zenon
  <2> QED
    BY <1>1, <1>4, <2>1, Zenon DEF AfterRead, Follows
<1> QED
  BY <1>3, <1>4 DEF Get

\* The read of Relink leads to a put it computed, or to the end of handle.
LEMMA RelinkGetStep ==
    ASSUME TypeOK, Shapes, NEW p \in Procs, RelinkGet(p)
    PROVE  \E n : Become(p, n) /\ AfterRead(p, cons[p], n)
<1> DEFINE l == cons[p]
           rec == table[l.key]
<1>1. l.pc = "get" /\ l.phase = "relink"
  BY DEF RelinkGet
<1>2. l \in Locals /\ LocalOK(l) /\ l.msg \in Message /\ rec \in RecordOrNone
  BY <1>1, Holding
<1>3. CASE /\ Relinks(rec, l.msg)
           /\ Become(p, Putting(l, rec, Reopened(rec, l.msg.seq)))
  <2>1. rec \in Record /\ l.msg.seq \in Nat
    BY <1>2, <1>3, Zenon DEF Relinks, Message
  <2>2. Reopened(rec, l.msg.seq) \in Record
    BY <2>1, ReopenedType
  <2> DEFINE n == Putting(l, rec, Reopened(rec, l.msg.seq))
  <2>3. /\ n \in Locals /\ LocalOK(n) /\ SamePhase(l, n)
        /\ n.pc = "put" /\ n.cur = rec /\ n.next = Reopened(rec, l.msg.seq)
    <3>1. l.pc = "get" /\ l.phase = "relink" /\ Relinks(rec, l.msg)
      BY <1>1, <1>3
    <3> HIDE DEF l, rec
    <3> QED
      BY <1>2, <2>2, <3>1, PutOK
  <2>4. Become(p, n)
    BY <1>3
  <2> HIDE DEF n
  <2> QED
    BY <2>2, <2>3, <2>4, Zenon DEF AfterRead
<1>4. CASE Become(p, At(l.msg, "delete"))
  <2>1. At(l.msg, "delete") \in Locals /\ LocalOK(At(l.msg, "delete"))
    BY <1>2, AtOK, Zenon
  <2>2. /\ At(l.msg, "delete").pc = "delete" /\ At(l.msg, "delete").phase = "none"
        /\ At(l.msg, "delete").msg = l.msg
    BY DEF At
  <2> QED
    BY <1>4, <2>1, <2>2, Zenon DEF AfterRead
<1> QED
  BY <1>3, <1>4, Zenon DEF RelinkGet

\* After a put, landed or not, a consumer settles it.
AfterPut(l, n) ==
    /\ n \in Locals /\ LocalOK(n) /\ SamePhase(l, n)
    /\ n.pc = "settle" /\ n.cur = l.cur /\ n.next = l.next

\* A put lands or leaves the table alone, and only a landed put reports success.
LEMMA PutStep ==
    ASSUME TypeOK, Shapes, NEW p \in Procs, Put(p) \/ PutFault(p)
    PROVE  \E n : /\ Become(p, n) /\ AfterPut(cons[p], n)
                  /\ \/ Write(cons[p].key, cons[p].cur, cons[p].next)
                     \/ UNCHANGED store /\ n.out # "ok"
<1> DEFINE l == cons[p]
           Out(o) == [l EXCEPT !.pc = "settle", !.out = o]
<1>1. l.pc = "put"
  BY DEF Put, PutFault
<1>2. l \in Locals /\ LocalOK(l) /\ l.msg \in Message
  BY <1>1, Holding
<1>3. PICK o \in {"ok", "failed", "err"} :
        /\ Become(p, Out(o))
        /\ Write(l.key, l.cur, l.next) \/ (UNCHANGED store /\ o # "ok")
  BY DEF Put, PutFault
<1>4. AfterPut(l, Out(o)) /\ Out(o).out = o
  BY <1>1, <1>2, SettleOK, Zenon DEF AfterPut
<1> QED
  BY <1>3, <1>4, Zenon

\* After settling, a consumer goes on, tries again or gives the message up.
AfterSettle(l, n) ==
    /\ n \in Locals /\ LocalOK(n)
    /\ \/ n.pc \in {"idle", "delete"} /\ n.phase = "none" /\ (n = Idle \/ n.msg = l.msg)
       \/ SamePhase(l, n) /\ n.pc = "get" /\ l.phase # "relink"
       \/ l.out = "ok" /\ Follows(l, l.next, n)

\* After a put the consumer returns, retries or gives up, as AfterSettle lists.
LEMMA SettleStep ==
    ASSUME TypeOK, Shapes, NEW p \in Procs, Settle(p)
    PROVE  \E n : Become(p, n) /\ AfterSettle(cons[p], n)
<1> DEFINE l == cons[p]
<1>1. l.pc = "settle" /\ l.phase # "none"
  BY Holding, Zenon DEF Settle, LocalOK
<1>2. l \in Locals /\ LocalOK(l) /\ l.msg \in Message /\ l.next \in Record
  BY <1>1, Holding, Zenon DEF LocalOK, Locals
<1>3. CASE l.out = "ok" /\ Returned(p, l, l.next)
  <2>1. l.next.state \in States
    BY <1>2 DEF Record
  <2>2. PICK n : Become(p, n) /\ Follows(l, l.next, n)
    BY <1>1, <1>2, <1>3, <2>1, ReturnedOK
  <2> QED
    BY <1>3, <2>2, Zenon DEF AfterSettle, Follows
<1>4. CASE Become(p, At(l.msg, "delete"))
  <2>1. At(l.msg, "delete") \in Locals /\ LocalOK(At(l.msg, "delete"))
    BY <1>2, AtOK, Zenon
  <2>2. /\ At(l.msg, "delete").pc = "delete" /\ At(l.msg, "delete").phase = "none"
        /\ At(l.msg, "delete").msg = l.msg
    BY DEF At
  <2> QED
    BY <1>4, <2>1, <2>2 DEF AfterSettle
<1>5. CASE /\ l.phase # "relink" /\ l.tries + 1 < Attempts
           /\ Become(p, [l EXCEPT !.pc = "get", !.tries = @ + 1, !.cur = None,
                                  !.next = None, !.out = "none"])
  BY <1>1, <1>2, <1>5, RetryOK, Zenon DEF AfterSettle
<1>6. CASE Become(p, Idle)
  <2>1. Idle.pc = "idle" /\ Idle.phase = "none"
    BY DEF Idle, At
  <2> QED
    BY <1>6, <2>1, IdleOK DEF AfterSettle
<1> QED
  BY <1>3, <1>4, <1>5, <1>6 DEF Settle

\* After a done purge an erase tombstones; otherwise it reports blocked.
LEMMA PurgeStep ==
    ASSUME TypeOK, Shapes, NEW p \in Procs, Purge(p)
    PROVE  \E n : /\ Become(p, n) /\ n \in Locals /\ LocalOK(n) /\ n.msg = cons[p].msg
                  /\ \/ /\ purged' = purged \cup {cons[p].msg.req}
                        /\ Tombstones(cons[p], cons[p].msg.orgs, n)
                     \/ /\ purged' = purged
                        /\ n.pc = "ack" /\ n.out = "blocked" /\ n.phase = "none"
<1> DEFINE l == cons[p]
           n == [At(l.msg, "ack") EXCEPT !.out = "blocked"]
<1>1. l.pc = "purge"
  BY DEF Purge
<1>2. l \in Locals /\ l.msg \in Message /\ l.msg.type = "erase" /\ l.msg.targets
  BY <1>1, Holding, Zenon DEF LocalOK
<1>3. CASE /\ purged' = purged \cup {l.msg.req}
           /\ TombstoneNext(p, l, l.msg.orgs)
  BY <1>2, <1>3, TombstoneOK DEF Tombstones
<1>4. CASE Become(p, n) /\ UNCHANGED purged
  <2>1. n \in Locals /\ LocalOK(n)
    BY <1>2, AtOK, Zenon
  <2>2. n.msg = l.msg /\ n.pc = "ack" /\ n.out = "blocked" /\ n.phase = "none"
    BY DEF At
  <2> QED
    BY <1>4, <2>1, <2>2, Zenon
<1> QED
  BY <1>3, <1>4 DEF Purge

\* After an ack, a delete, a failure or a crash a consumer deletes or is idle.
AfterAck(l, n) ==
    /\ n \in Locals /\ LocalOK(n) /\ n.phase = "none"
    /\ \/ n.pc = "delete" /\ n.msg = l.msg
       \/ n.pc = "idle" /\ n.msg = None

\* The ack, the delete, a failure and a crash end the handling of a message or
\* keep it at the delete.
LEMMA AckStep ==
    ASSUME TypeOK, Shapes, NEW p \in Procs,
           Ack(p) \/ AckLost(p) \/ Delete(p) \/ Fail(p) \/ Crash(p)
    PROVE  \E n : Become(p, n) /\ AfterAck(cons[p], n)
<1> DEFINE l == cons[p]
           n == At(l.msg, "delete")
<1>1. CASE Become(p, Idle)
  <2>1. Idle.pc = "idle" /\ Idle.phase = "none" /\ Idle.msg = None
    BY DEF Idle, At
  <2> QED
    BY <1>1, <2>1, IdleOK, Zenon DEF AfterAck
<1>2. CASE l.pc = "ack" /\ Become(p, n)
  <2>1. n \in Locals /\ LocalOK(n)
    BY <1>2, Holding, AtOK, Zenon
  <2>2. n.msg = l.msg /\ n.pc = "delete" /\ n.phase = "none"
    BY DEF At
  <2> QED
    BY <1>2, <2>1, <2>2 DEF AfterAck
<1> QED
  BY <1>1, <1>2, Zenon DEF Ack, AckLost, Delete, Fail, Crash

\* A received message is deleted, or its record is read.
LEMMA ReceiveStep ==
    ASSUME TypeOK, Shapes, NEW p \in Procs, NEW m \in queue, Receive(p, m)
    PROVE  \E n : /\ Become(p, n) /\ n \in Locals /\ LocalOK(n) /\ n.msg = m
                  /\ \/ n.pc = "delete" /\ n.phase = "none"
                     \/ n.pc = "get" /\ n.phase \in {"plain", "relink", "lock"}
<1>1. m \in Message
  BY DEF TypeOK
<1>2. CASE Become(p, At(m, "delete"))
  <2> DEFINE n == At(m, "delete")
  <2>1. n \in Locals /\ LocalOK(n)
    BY <1>1, AtOK, Zenon
  <2>2. n.msg = m /\ n.pc = "delete" /\ n.phase = "none"
    BY DEF At
  <2> QED
    BY <1>2, <2>1, <2>2
<1>3. ASSUME NEW ph \in {"plain", "relink", "lock"}, m.targets,
             Become(p, Reading(m, ph, Sub, {}, "none")),
             ph = "plain" => m.type \in {"locked", "unlocked"},
             ph = "relink" => m.type = "relinked",
             ph = "lock" => m.type = "erase"
      PROVE  \E n : /\ Become(p, n) /\ n \in Locals /\ LocalOK(n) /\ n.msg = m
                    /\ n.pc = "get" /\ n.phase \in {"plain", "relink", "lock"}
  <2> DEFINE n == Reading(m, ph, Sub, {}, "none")
  <2>1. n \in Locals /\ LocalOK(n)
    BY <1>1, <1>3, AtReadOK
  <2>2. n.msg = m /\ n.pc = "get" /\ n.phase = ph
    BY DEF Reading
  <2> QED
    BY <1>3, <2>1, <2>2
<1> QED
  BY <1>2, <1>3, Zenon DEF Receive

-----------------------------------------------------------------------------
(* Types and shapes.                                                       *)

ConsOK == /\ cons \in [Procs -> Locals]
          /\ \A p \in Procs : LocalOK(cons[p])
          /\ \A p \in Procs : cons[p].msg # None => cons[p].msg \in sent

ServeOK == /\ serve \in [Procs -> Request]
           /\ \A p \in Procs : RequestOK(serve[p], clock)

StoreOK == table \in [Keys -> RecordOrNone] /\ locks \in Nat

OthersOK == /\ clock \in 0..MaxSeq /\ sent \in SUBSET Message /\ queue \in SUBSET sent
            /\ blocked \in [Procs -> {"unset", "yes", "no"}]
            /\ purged \in SUBSET Requests /\ hooks \in Nat
            /\ acks \in SUBSET [req: Requests, result: {"done", "blocked"}]
            /\ faults \in 0..MaxFaults

\* Types and shapes, sorted by the variables they speak of.
LEMMA Parts == TypeOK /\ Shapes <=> ConsOK /\ ServeOK /\ StoreOK /\ OthersOK
BY Zenon DEF TypeOK, Shapes, ConsOK, ServeOK, StoreOK, OthersOK

\* The same, for the next state.
LEMMA PartsNext == ConsOK' /\ ServeOK' /\ StoreOK' /\ OthersOK' => TypeOK' /\ Shapes'
BY DEF TypeOK, Shapes, ConsOK, ServeOK, StoreOK, OthersOK

\* What Send posts is an ack.
LEMMA AckType ==
    ASSUME NEW m \in Message, NEW o \in {"done", "blocked"}
    PROVE  [req |-> m.req, result |-> o] \in [req: Requests, result: {"done", "blocked"}]
BY DEF Message

\* Only one consumer moves in a step.
LEMMA ConsFrame ==
    ASSUME ConsOK, NEW p \in Procs, NEW n \in Locals, LocalOK(n), Become(p, n),
           n.msg # None => n.msg \in sent, sent \subseteq sent'
    PROVE  ConsOK'
<1>1. cons' \in [Procs -> Locals]
  BY DEF ConsOK, Become
<1>2. \A q \in Procs : cons'[q] = IF q = p THEN n ELSE cons[q]
  BY DEF ConsOK, Become
<1>3. \A q \in Procs : LocalOK(cons'[q])
  BY <1>2 DEF ConsOK
<1>4. \A q \in Procs : cons'[q].msg # None => cons'[q].msg \in sent'
  BY <1>2 DEF ConsOK
<1> QED
  BY <1>1, <1>3, <1>4 DEF ConsOK

\* A step that leaves the consumers alone keeps them well formed.
LEMMA ConsSame ==
    ASSUME ConsOK, cons' = cons, sent \subseteq sent'
    PROVE  ConsOK'
BY DEF ConsOK

\* A step that leaves the requests alone keeps them well formed: time only grows.
LEMMA ServeSame ==
    ASSUME ServeOK, OthersOK, serve' = serve, clock' \in Nat, clock <= clock'
    PROVE  ServeOK'
<1>1. ASSUME NEW r, RequestOK(r, clock) PROVE RequestOK(r, clock')
  <2> SUFFICES ASSUME r.pc = "clear" PROVE RequestOK(r, clock')
    BY DEF RequestOK
  <2>1. PICK now \in 0..clock : r.next = Reopened(r.cur, MaxOf(r.cur.seq, now))
    BY <1>1 DEF RequestOK
  <2>2. now \in 0..clock'
    BY DEF OthersOK
  <2> QED
    BY <1>1, <2>1, <2>2 DEF RequestOK
<1> QED
  BY <1>1 DEF ServeOK

\* The record a consumer or Clear writes keeps the table well-typed.
LEMMA WriteOK ==
    ASSUME StoreOK, NEW k \in Keys, NEW cur \in RecordOrNone, NEW next \in Record,
           Write(k, cur, next)
    PROVE  StoreOK'
<1>1. table' \in [Keys -> RecordOrNone]
  BY DEF StoreOK, Write
<1>2. locks' \in Nat
  BY DEF StoreOK, Write
<1> QED
  BY <1>1, <1>2 DEF StoreOK

\* The initial state is well formed.
LEMMA TypeInit == Init => TypeOK /\ Shapes
<1> SUFFICES ASSUME Init PROVE ConsOK /\ ServeOK /\ StoreOK /\ OthersOK
  BY Parts
<1>1. ConsOK
  <2>1. Idle.msg = None
    BY DEF Idle, At
  <2> QED
    BY <2>1, IdleOK DEF Init, ConsOK
<1>2. ServeOK
  BY DEF Init, ServeOK, NoRequest, Request, RequestOK
<1>3. StoreOK
  BY DEF Init, StoreOK
<1>4. OthersOK
  BY ErasureAssumption DEF Init, OthersOK
<1> QED
  BY <1>1, <1>2, <1>3, <1>4

\* A consumer's message was sent, whatever its next state.
LEMMA FollowsMsg ==
    ASSUME TypeOK, Shapes, NEW p \in Procs, cons[p].pc # "idle", NEW n,
           \/ AfterRead(p, cons[p], n) \/ AfterPut(cons[p], n)
           \/ AfterSettle(cons[p], n) \/ AfterAck(cons[p], n)
    PROVE  n \in Locals /\ LocalOK(n) /\ (n.msg # None => n.msg = cons[p].msg)
<1>1. Idle.msg = None
  BY Zenon DEF Idle, At
<1> QED
  BY <1>1, Zenon DEF AfterRead, AfterPut, AfterSettle, AfterAck, Follows, SamePhase

\* Types and shapes through a step of a consumer.
LEMMA ConsumeTypes ==
    ASSUME TypeOK, Shapes, NEW p \in Procs, Consume(p)
    PROVE  TypeOK' /\ Shapes'
<1> SUFFICES ConsOK' /\ ServeOK' /\ StoreOK' /\ OthersOK'
  BY PartsNext
<1>0. ConsOK /\ ServeOK /\ StoreOK /\ OthersOK
  BY Parts
<1>1. CASE Get(p) \/ RelinkGet(p)
  <2>1. PICK n : Become(p, n) /\ AfterRead(p, cons[p], n)
    BY <1>1, GetStep, RelinkGetStep
  <2>2. cons[p].pc # "idle"
    BY <1>1, Zenon DEF Get, RelinkGet
  <2>3. n \in Locals /\ LocalOK(n) /\ (n.msg # None => n.msg \in sent)
    BY <2>1, <2>2, FollowsMsg, Holding, Zenon
  <2>4. UNCHANGED <<store, transport, effects, blocked, serve, faults>>
    BY <1>1, Zenon DEF Get, RelinkGet
  <2>5. ConsOK'
    BY <1>0, <2>1, <2>3, <2>4, ConsFrame DEF transport
  <2> QED
    BY <1>0, <2>4, <2>5, ServeSame DEF store, transport, effects, StoreOK, OthersOK
<1>2. CASE Put(p)
  <2>1. PICK n : /\ Become(p, n) /\ AfterPut(cons[p], n)
                 /\ \/ Write(cons[p].key, cons[p].cur, cons[p].next)
                    \/ UNCHANGED store /\ n.out # "ok"
    BY <1>2, PutStep
  <2>2. cons[p].pc = "put"
    BY <1>2 DEF Put
  <2>3. n \in Locals /\ LocalOK(n) /\ (n.msg # None => n.msg \in sent)
    BY <2>1, <2>2, FollowsMsg, Holding, Zenon
  <2>4. UNCHANGED <<transport, effects, blocked, serve, faults>>
    BY <1>2 DEF Put
  <2>5. ConsOK'
    BY <1>0, <2>1, <2>3, <2>4, ConsFrame DEF transport
  <2>6. cons[p].cur \in RecordOrNone /\ cons[p].next \in RecordOrNone /\ cons[p].key \in Keys
    BY Holding, Zenon DEF Locals
  <2>7. cons[p].next \in Record
    BY <2>1, <2>6, Zenon DEF AfterPut, LocalOK
  <2>8. StoreOK'
    BY <1>0, <2>1, <2>6, <2>7, WriteOK, Zenon DEF store, StoreOK
  <2> QED
    BY <1>0, <2>4, <2>5, <2>8, ServeSame DEF transport, effects, OthersOK
<1>3. CASE Settle(p)
  <2>1. PICK n : Become(p, n) /\ AfterSettle(cons[p], n)
    BY <1>3, SettleStep
  <2>2. cons[p].pc # "idle"
    BY <1>3 DEF Settle
  <2>3. n \in Locals /\ LocalOK(n) /\ (n.msg # None => n.msg \in sent)
    BY <2>1, <2>2, FollowsMsg, Holding, Zenon
  <2>4. /\ UNCHANGED <<store, transport, purged, acks, serve, faults>>
        /\ blocked' \in [Procs -> {"unset", "yes", "no"}]
        /\ hooks' \in {hooks, hooks + 1}
    BY <1>0, <1>3 DEF Settle, OthersOK
  <2>5. ConsOK'
    BY <1>0, <2>1, <2>3, <2>4, ConsFrame DEF transport
  <2> QED
    BY <1>0, <2>4, <2>5, ServeSame DEF store, transport, StoreOK, OthersOK
<1>4. CASE Purge(p)
  <2>1. PICK n : /\ Become(p, n) /\ n \in Locals /\ LocalOK(n) /\ n.msg = cons[p].msg
                 /\ purged' \in {purged, purged \cup {cons[p].msg.req}}
    BY <1>4, PurgeStep, Zenon
  <2>2. cons[p].msg \in Message /\ cons[p].msg \in sent
    BY <1>4, Holding DEF Purge
  <2>3. UNCHANGED <<store, transport, acks, hooks, blocked, serve, faults>>
    BY <1>4 DEF Purge
  <2>4. ConsOK'
    BY <1>0, <2>1, <2>2, <2>3, ConsFrame DEF transport
  <2>5. purged' \in SUBSET Requests
    BY <1>0, <2>1, <2>2, Zenon DEF OthersOK, Message
  <2> QED
    BY <1>0, <2>3, <2>4, <2>5, ServeSame DEF store, transport, StoreOK, OthersOK
<1>5. CASE Ack(p)
  <2>1. PICK n : Become(p, n) /\ AfterAck(cons[p], n)
    BY <1>5, AckStep
  <2>2. cons[p].pc = "ack" /\ cons[p].msg \in Message /\ cons[p].out \in {"done", "blocked"}
    BY <1>5, Holding, Zenon DEF Ack, LocalOK
  <2>3. n \in Locals /\ LocalOK(n) /\ (n.msg # None => n.msg \in sent)
    BY <2>1, <2>2, FollowsMsg, Holding, Zenon
  <2>4. /\ UNCHANGED <<store, transport, purged, hooks, blocked, serve, faults>>
        /\ acks' = acks \cup {[req |-> cons[p].msg.req, result |-> cons[p].out]}
    BY <1>5, Zenon DEF Ack
  <2>5. ConsOK'
    BY <1>0, <2>1, <2>3, <2>4, ConsFrame DEF transport
  <2>6. acks' \in SUBSET [req: Requests, result: {"done", "blocked"}]
    BY <1>0, <2>2, <2>4, AckType, Zenon DEF OthersOK
  <2> QED
    BY <1>0, <2>4, <2>5, <2>6, ServeSame DEF store, transport, StoreOK, OthersOK
<1>6. CASE Delete(p)
  <2>1. PICK n : Become(p, n) /\ AfterAck(cons[p], n)
    BY <1>6, AckStep
  <2>2. cons[p].pc # "idle"
    BY <1>6 DEF Delete
  <2>3. n \in Locals /\ LocalOK(n) /\ (n.msg # None => n.msg \in sent)
    BY <2>1, <2>2, FollowsMsg, Holding, Zenon
  <2>4. /\ UNCHANGED <<store, effects, clock, sent, blocked, serve, faults>>
        /\ queue' \subseteq queue
    BY <1>6 DEF Delete
  <2>5. ConsOK'
    BY <1>0, <2>1, <2>3, <2>4, ConsFrame
  <2> QED
    BY <1>0, <2>4, <2>5, ServeSame DEF store, effects, StoreOK, OthersOK
<1> QED
  BY <1>1, <1>2, <1>3, <1>4, <1>5, <1>6 DEF Consume

\* Types and shapes through a failure.
LEMMA BreakTypes ==
    ASSUME TypeOK, Shapes, NEW p \in Procs, Break(p)
    PROVE  TypeOK' /\ Shapes'
<1> SUFFICES ConsOK' /\ ServeOK' /\ StoreOK' /\ OthersOK'
  BY PartsNext
<1>0. ConsOK /\ ServeOK /\ StoreOK /\ OthersOK
  BY Parts
<1>f. ASSUME Fault PROVE faults' \in 0..MaxFaults
  BY <1>0, <1>f, ErasureAssumption DEF Fault, OthersOK
<1>1. CASE PutFault(p)
  <2>1. PICK n : /\ Become(p, n) /\ AfterPut(cons[p], n)
                 /\ \/ Write(cons[p].key, cons[p].cur, cons[p].next)
                    \/ UNCHANGED store /\ n.out # "ok"
    BY <1>1, PutStep
  <2>2. cons[p].pc = "put" /\ Fault
    BY <1>1 DEF PutFault
  <2>3. n \in Locals /\ LocalOK(n) /\ (n.msg # None => n.msg \in sent)
    BY <2>1, <2>2, FollowsMsg, Holding, Zenon
  <2>4. UNCHANGED <<transport, effects, blocked, serve>>
    BY <1>1 DEF PutFault
  <2>5. ConsOK'
    BY <1>0, <2>1, <2>3, <2>4, ConsFrame DEF transport
  <2>6. cons[p].cur \in RecordOrNone /\ cons[p].next \in RecordOrNone /\ cons[p].key \in Keys
    BY Holding DEF Locals
  <2>7. cons[p].next \in Record
    BY <2>1, <2>6 DEF AfterPut, LocalOK
  <2>8. StoreOK'
    BY <1>0, <2>1, <2>6, <2>7, WriteOK DEF store, StoreOK
  <2> QED
    BY <1>0, <1>f, <2>2, <2>4, <2>5, <2>8, ServeSame DEF transport, effects, OthersOK
<1>2. CASE AckLost(p)
  <2>1. PICK n : Become(p, n) /\ AfterAck(cons[p], n)
    BY <1>2, AckStep
  <2>2. /\ cons[p].pc = "ack" /\ cons[p].msg \in Message
        /\ cons[p].out \in {"done", "blocked"} /\ Fault
    BY <1>2, Holding, Zenon DEF AckLost, LocalOK
  <2>3. n \in Locals /\ LocalOK(n) /\ (n.msg # None => n.msg \in sent)
    BY <2>1, <2>2, FollowsMsg, Holding, Zenon
  <2>4. /\ UNCHANGED <<store, transport, purged, hooks, blocked, serve>>
        /\ acks' = acks \cup {[req |-> cons[p].msg.req, result |-> cons[p].out]}
    BY <1>2, Zenon DEF AckLost
  <2>5. ConsOK'
    BY <1>0, <2>1, <2>3, <2>4, ConsFrame DEF transport
  <2>6. acks' \in SUBSET [req: Requests, result: {"done", "blocked"}]
    BY <1>0, <2>2, <2>4, AckType, Zenon DEF OthersOK
  <2>7. ServeOK'
    BY <1>0, <2>4, ServeSame DEF transport, OthersOK
  <2>8. faults' \in 0..MaxFaults
    BY <1>f, <2>2
  <2> QED
    BY <1>0, <2>4, <2>5, <2>6, <2>7, <2>8 DEF store, transport, StoreOK, OthersOK
<1>3. CASE Fail(p)
  <2>1. PICK n : Become(p, n) /\ AfterAck(cons[p], n)
    BY <1>3, AckStep
  <2>2. cons[p].pc # "idle" /\ Fault
    BY <1>3 DEF Fail
  <2>3. n \in Locals /\ LocalOK(n) /\ (n.msg # None => n.msg \in sent)
    BY <2>1, <2>2, FollowsMsg, Holding, Zenon
  <2>4. UNCHANGED <<store, transport, effects, blocked, serve>>
    BY <1>3, Zenon DEF Fail
  <2>5. ConsOK'
    BY <1>0, <2>1, <2>3, <2>4, ConsFrame DEF transport
  <2> QED
    BY <1>0, <1>f, <2>2, <2>4, <2>5, ServeSame DEF store, transport, effects, StoreOK, OthersOK
<1>4. CASE ClearFault(p)
  <2>1. /\ UNCHANGED <<store, transport, effects, cons, blocked>> /\ Fault
        /\ serve' = [serve EXCEPT ![p] = [@ EXCEPT !.pc = "settle"]]
    BY <1>4 DEF ClearFault
  <2>2. ServeOK'
    BY <1>0, <2>1 DEF ServeOK, Request, RequestOK, transport
  <2> QED
    BY <1>0, <1>f, <2>1, <2>2, ConsSame DEF store, transport, effects, StoreOK, OthersOK
<1>5. CASE Crash(p)
  <2>1. /\ Become(p, Idle) /\ Fault
        /\ UNCHANGED <<store, transport, effects>>
        /\ blocked' = [blocked EXCEPT ![p] = "unset"]
        /\ serve' = [serve EXCEPT ![p] = NoRequest]
    BY <1>5 DEF Crash
  <2>2. Idle.msg = None
    BY DEF Idle, At
  <2>3. ConsOK'
    BY <1>0, <2>1, <2>2, IdleOK, ConsFrame DEF transport
  <2>4. ServeOK'
    BY <1>0, <2>1 DEF ServeOK, Request, RequestOK, NoRequest, transport
  <2> QED
    BY <1>0, <1>f, <2>1, <2>3, <2>4 DEF store, transport, effects, StoreOK, OthersOK
<1> QED
  BY <1>1, <1>2, <1>3, <1>4, <1>5 DEF Break

\* Types and shapes through a user's request.
LEMMA ServeTypes ==
    ASSUME TypeOK, Shapes, NEW p \in Servers, Serve(p)
    PROVE  TypeOK' /\ Shapes'
<1> SUFFICES ConsOK' /\ ServeOK' /\ StoreOK' /\ OthersOK'
  BY PartsNext
<1>0. ConsOK /\ ServeOK /\ StoreOK /\ OthersOK
  BY Parts
<1>s. Sub \in Keys /\ p \in Procs /\ table[Sub] \in RecordOrNone /\ serve[p] \in Request
  BY <1>0, ErasureAssumption DEF Keys, StoreOK, ServeOK
<1>1. CASE BlockedRead(p)
  <2>1. ServeOK'
    BY <1>0, <1>1, <1>s, Zenon DEF BlockedRead, ServeOK, Request, RequestOK, transport
  <2> QED
    BY <1>0, <1>1, <2>1, ConsSame, Zenon
       DEF BlockedRead, store, transport, effects, StoreOK, OthersOK
<1>2. CASE BlockedSet(p) \/ Forget(p) \/ ClearSettle(p)
  <2>1. serve' \in {serve, [serve EXCEPT ![p] = NoRequest]}
    BY <1>2 DEF BlockedSet, Forget, ClearSettle
  <2>2. UNCHANGED <<store, transport, effects, cons, faults>>
    BY <1>2 DEF BlockedSet, Forget, ClearSettle
  <2>3. blocked' \in [Procs -> {"unset", "yes", "no"}]
    BY <1>0, <1>2, <1>s DEF BlockedSet, Forget, ClearSettle, OthersOK
  <2>4. ServeOK'
    BY <1>0, <2>1, <2>2 DEF ServeOK, Request, RequestOK, NoRequest, transport
  <2> QED
    BY <1>0, <2>2, <2>3, <2>4, ConsSame DEF store, transport, effects, StoreOK, OthersOK
<1>3. CASE ClearRead(p)
  <2> DEFINE rec == table[Sub]
             r == [pc |-> "clear", cur |-> rec,
                   next |-> Reopened(rec, MaxOf(rec.seq, clock))]
  <2>1. /\ rec # None /\ rec.state = "erased" /\ serve' = [serve EXCEPT ![p] = r]
        /\ UNCHANGED <<store, transport, effects, cons, blocked, faults>>
    BY <1>3, Zenon DEF ClearRead
  <2>2. clock \in 0..clock /\ MaxOf(rec.seq, clock) \in Nat
    BY <1>0, <1>s, <2>1 DEF OthersOK, MaxOf, Record
  <2>3. Reopened(rec, MaxOf(rec.seq, clock)) \in Record
    BY <1>s, <2>1, <2>2, ReopenedType, Zenon
  <2>4. r \in Request
    BY <1>s, <2>3, Zenon DEF Request
  <2>5. RequestOK(r, clock)
    BY <2>1, <2>2, Zenon DEF RequestOK
  <2>6. ServeOK'
    BY <1>0, <2>1, <2>4, <2>5, Zenon DEF ServeOK, transport
  <2> QED
    BY <1>0, <2>1, <2>6, ConsSame, Zenon DEF store, transport, effects, StoreOK, OthersOK
<1>4. CASE ClearPut(p)
  <2>1. /\ serve[p].pc = "clear"
        /\ Write(Sub, serve[p].cur, serve[p].next) \/ UNCHANGED store
        /\ serve' = [serve EXCEPT ![p] = [@ EXCEPT !.pc = "settle"]]
        /\ UNCHANGED <<transport, effects, cons, blocked, faults>>
    BY <1>4 DEF ClearPut
  <2>2. serve[p].cur \in Record
    BY <1>0, <1>s, <2>1 DEF ServeOK, RequestOK, Request
  <2>3. PICK now \in 0..clock :
           serve[p].next = Reopened(serve[p].cur, MaxOf(serve[p].cur.seq, now))
    BY <1>0, <1>s, <2>1 DEF ServeOK, RequestOK
  <2>4. MaxOf(serve[p].cur.seq, now) \in Nat
    BY <2>2 DEF MaxOf, Record
  <2>5. serve[p].next \in Record
    BY <2>2, <2>3, <2>4, ReopenedType
  <2>6. StoreOK'
    BY <1>0, <1>s, <2>1, <2>2, <2>5, WriteOK DEF store, StoreOK
  <2>7. ServeOK'
    BY <1>0, <2>1, Zenon DEF ServeOK, Request, RequestOK, transport
  <2> QED
    BY <1>0, <2>1, <2>6, <2>7, ConsSame DEF transport, effects, OthersOK
<1> QED
  BY <1>1, <1>2, <1>3, <1>4 DEF Serve

\* ctech-account publishes a well-formed message.
LEMMA PublishTypes ==
    ASSUME TypeOK, Shapes, NEW s \in Sends, Publish(s)
    PROVE  TypeOK' /\ Shapes'
<1> SUFFICES ConsOK' /\ ServeOK' /\ StoreOK' /\ OthersOK'
  BY PartsNext
<1>0. ConsOK /\ ServeOK /\ StoreOK /\ OthersOK
  BY Parts
<1> DEFINE m == [type |-> s.type, req |-> s.req, orgs |-> s.orgs,
                 targets |-> s.targets, seq |-> clock + 1]
<1>1. /\ clock < MaxSeq /\ clock' = clock + 1
      /\ queue' = queue \cup {m} /\ sent' = sent \cup {m}
      /\ UNCHANGED <<store, effects, cons, blocked, serve, faults>>
  BY DEF Publish
<1>2. m \in Message
  BY <1>0, ErasureAssumption DEF OthersOK, Message, Payload
<1>3. clock' \in 0..MaxSeq /\ clock <= clock' /\ clock' \in Nat
  BY <1>0, <1>1, ErasureAssumption DEF OthersOK
<1>4. OthersOK'
  <2> HIDE DEF m
  <2> QED BY <1>0, <1>1, <1>2, <1>3 DEF OthersOK, effects
<1>5. ConsOK'
  BY <1>0, <1>1, ConsSame
<1>6. ServeOK'
  BY <1>0, <1>1, <1>3, ServeSame
<1> QED
  BY <1>0, <1>1, <1>4, <1>5, <1>6 DEF store, StoreOK

\* A receive keeps the state well formed.
LEMMA ReceiveTypes ==
    ASSUME TypeOK, Shapes, NEW p \in Procs, NEW m \in queue, Receive(p, m)
    PROVE  TypeOK' /\ Shapes'
<1> SUFFICES ConsOK' /\ ServeOK' /\ StoreOK' /\ OthersOK'
  BY PartsNext
<1>0. ConsOK /\ ServeOK /\ StoreOK /\ OthersOK
  BY Parts
<1>1. PICK n : Become(p, n) /\ n \in Locals /\ LocalOK(n) /\ n.msg = m
  BY ReceiveStep
<1>2. m \in sent
  BY <1>0 DEF OthersOK
<1>3. UNCHANGED <<store, transport, effects, blocked, serve, faults>>
  BY Zenon DEF Receive
<1>4. ConsOK'
  BY <1>0, <1>1, <1>2, <1>3, ConsFrame DEF transport
<1> QED
  BY <1>0, <1>3, <1>4, ServeSame DEF store, transport, effects, StoreOK, OthersOK

\* A TTL deletion keeps the state well formed.
LEMMA ExpireTypes ==
    ASSUME TypeOK, Shapes, NEW k \in Keys, Expire(k)
    PROVE  TypeOK' /\ Shapes'
<1> SUFFICES ConsOK' /\ ServeOK' /\ StoreOK' /\ OthersOK'
  BY PartsNext
<1>0. ConsOK /\ ServeOK /\ StoreOK /\ OthersOK
  BY Parts
<1>1. /\ table' = [table EXCEPT ![k] = None]
      /\ UNCHANGED <<transport, effects, locks, cons, blocked, serve, faults>>
  BY Zenon DEF Expire
<1> QED
  BY <1>0, <1>1, ConsSame, ServeSame DEF transport, effects, StoreOK, OthersOK

\* So does a step that changes nothing.
LEMMA StutterTypes ==
    ASSUME TypeOK, Shapes, UNCHANGED vars
    PROVE  TypeOK' /\ Shapes'
BY Zenon DEF TypeOK, Shapes, vars, store, transport, effects

\* Every step keeps the state well formed.
LEMMA TypeStep == TypeOK /\ Shapes /\ [Next]_vars => TypeOK' /\ Shapes'
<1> SUFFICES ASSUME TypeOK, Shapes, [Next]_vars PROVE TypeOK' /\ Shapes'
  OBVIOUS
<1> QED
  BY PublishTypes, ReceiveTypes, ConsumeTypes, ServeTypes, BreakTypes, ExpireTypes,
     StutterTypes DEF Next

\* In every behaviour of the participant, whatever is delivered, lost, repeated
\* or crashes, the stored records, the messages and the local variables of
\* handle, ApplyChanged and Clear keep their shapes.
THEOREM TypeCorrect == Spec => [](TypeOK /\ Shapes)
<1>1. Init => TypeOK /\ Shapes
  BY TypeInit
<1>2. TypeOK /\ Shapes /\ [Next]_vars => TypeOK' /\ Shapes'
  BY TypeStep
<1> QED
  BY <1>1, <1>2, PTL DEF Spec

=============================================================================

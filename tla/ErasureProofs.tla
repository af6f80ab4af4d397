---------------------------- MODULE ErasureProofs ----------------------------
(***************************************************************************)
(* The safety properties of Erasure for every number of processes,         *)
(* messages, organizations and failures, and that Erasure implements       *)
(* ErasureTable.  Each section proves one layer of IInv from the layers    *)
(* before it; ErasureTypeProofs has the first, types and shapes.           *)
(***************************************************************************)
EXTENDS ErasureTypeProofs, FiniteSetTheorems

USE DEF RecordOrNone

-----------------------------------------------------------------------------
(* Versions: put's condition identifies the record it replaces.            *)

\* Newer compares natural numbers.
LEMMA NewerType ==
    ASSUME NEW a \in Record, NEW b \in Record
    PROVE  Rank(a.state) \in 0..2 /\ a.seq \in Nat /\ b.seq \in Nat
BY DEF Record, States, Rank

\* The order of versions is transitive.
LEMMA NewerTransitive ==
    ASSUME NEW a \in Record, NEW b \in Record, NEW c \in Record,
           Newer(a, b), Newer(b, c)
    PROVE  Newer(a, c)
BY NewerType DEF Newer

\* A newer record has no smaller sequence number.
LEMMA NewerSeq ==
    ASSUME NEW a \in Record, NEW b \in Record, Newer(a, b)
    PROVE  a.seq >= b.seq
BY DEF Newer, Record

\* A newer record has another version.
LEMMA NewerVersion ==
    ASSUME NEW a \in Record, NEW b \in Record, Newer(a, b)
    PROVE  ~SameVersion(b, a)
<1>1. b # None
  BY StateAssumption
<1>2. ~(a.seq = b.seq /\ a.state = b.state)
  BY NewerType DEF Newer
<1> QED
  BY <1>1, <1>2 DEF SameVersion

\* apply makes a record newer.
LEMMA OutcomeNewer ==
    ASSUME NEW cur \in Record, NEW m \in Message, Accepts(cur, m)
    PROVE  Newer(Outcome(cur, m), cur)
<1>1. cur # None /\ Prev(cur) = cur
  BY StateAssumption, Zenon DEF Prev
<1>2. cur.seq \in Nat /\ m.seq \in Nat /\ cur.state \in {"active", "locked"}
  BY <1>1 DEF Record, Message, States, Accepts
<1>3. /\ Outcome(cur, m).seq = MaxOf(cur.seq, m.seq)
      /\ Outcome(cur, m).state = StateFor(m.type)
  BY <1>1, Zenon DEF Outcome
<1>4. CASE m.seq > cur.seq
  BY <1>2, <1>3, <1>4 DEF MaxOf, Newer
<1>5. CASE m.seq <= cur.seq
  <2>1. m.type = "erase" /\ cur.state = "locked"
    BY <1>1, <1>2, <1>5 DEF Accepts
  <2>2. Outcome(cur, m).state = "erased" /\ Outcome(cur, m).seq = cur.seq
    BY <1>2, <1>3, <1>5, <2>1 DEF StateFor, MaxOf
  <2> QED
    BY <1>2, <2>1, <2>2 DEF Newer, Rank
<1> QED
  BY <1>2, <1>4, <1>5

\* Coming back makes a tombstone newer.
LEMMA ReopenedNewer ==
    ASSUME NEW cur \in Record, cur.state = "erased", NEW n \in Nat, n >= cur.seq
    PROVE  Newer(Reopened(cur, n), cur)
BY DEF Record, Reopened, Newer, Rank

\* What a consumer writes is newer than what it read.
LEMMA ComputedNewer ==
    ASSUME NEW l \in Locals, l.msg \in Message, Computed(l)
    PROVE  /\ l.next \in Record
           /\ l.cur # None => Newer(l.next, l.cur)
           /\ l.cur = None => l.next.seq >= l.msg.seq
           /\ \A n \in Nat : l.msg.seq <= n /\ (l.cur # None => l.cur.seq <= n)
                                => l.next.seq <= n
<1>1. l.cur \in RecordOrNone
  BY DEF Locals
<1>2. CASE l.phase = "relink"
  <2>1. l.cur \in Record /\ l.cur.state = "erased" /\ l.msg.seq > l.cur.seq
    BY <1>1, <1>2 DEF Computed, Relinks
  <2>2. l.msg.seq \in Nat /\ l.cur.seq \in Nat /\ l.next = Reopened(l.cur, l.msg.seq)
    BY <1>2, <2>1, Zenon DEF Computed, Message, Record
  <2>3. l.next \in Record /\ Newer(l.next, l.cur) /\ l.next.seq = l.msg.seq
    BY <2>1, <2>2, ReopenedType, ReopenedNewer DEF Reopened
  <2> QED
    BY <2>1, <2>3, StateAssumption, Zenon
<1>3. CASE l.phase # "relink"
  <2> DEFINE m == Applied(l)
  <2>1. m \in Message /\ m.seq = l.msg.seq
    BY AppliedType, Zenon
  <2>2. Accepts(l.cur, m) /\ l.next = Outcome(l.cur, m)
    BY <1>3 DEF Computed
  <2>3. l.next \in Record /\ l.next.seq >= m.seq
    BY <1>1, <2>1, <2>2, OutcomeType, Zenon
  <2>4. l.cur # None => Newer(l.next, l.cur)
    BY <1>1, <2>1, <2>2, OutcomeNewer
  <2>5. l.next.seq = MaxOf(Prev(l.cur).seq, m.seq)
    BY <2>2 DEF Outcome
  <2>6. \A n \in Nat : l.msg.seq <= n /\ (l.cur # None => l.cur.seq <= n) => l.next.seq <= n
    BY <1>1, <2>1, <2>5 DEF MaxOf, Prev, Record, Message
  <2> QED
    BY <2>1, <2>3, <2>4, <2>6, Zenon
<1> QED
  BY <1>2, <1>3, Zenon

\* A landed put replaces the very record that was read.
LEMMA Landing ==
    ASSUME NEW cur \in RecordOrNone, NEW stored \in RecordOrNone, NEW live, NEW t,
           Behind(cur, stored, live, t), SameVersion(cur, stored)
    PROVE  cur = stored
<1>1. CASE cur = None
  BY <1>1 DEF SameVersion
<1>2. CASE cur # None
  <2>1. stored # None
    BY <1>2 DEF SameVersion
  <2> QED
    BY <1>2, <2>1, NewerVersion DEF Behind
<1> QED
  BY <1>1, <1>2

\* A record read earlier stays behind when another write lands.
LEMMA BehindWrite ==
    ASSUME NEW c \in RecordOrNone, NEW stored \in RecordOrNone, NEW next \in Record,
           NEW live \in SUBSET Message, NEW live2 \in SUBSET live, NEW t \in Nat,
           Behind(c, stored, live, t),
           stored # None => Newer(next, stored),
           stored = None => \E m \in live : next.seq >= m.seq
    PROVE  Behind(c, next, live2, t)
<1> SUFFICES ASSUME c # None PROVE Behind(c, next, live2, t)
  BY DEF Behind
<1>1. next # None
  BY StateAssumption
<1>2. CASE stored # None
  BY <1>1, <1>2, NewerTransitive DEF Behind
<1>3. CASE stored = None
  <2>1. PICK m \in live : next.seq >= m.seq
    BY <1>3
  <2>2. m.seq > c.seq
    BY <1>3 DEF Behind
  <2>3. next.seq > c.seq
    BY <2>1, <2>2 DEF Message, Record
  <2> QED
    BY <1>1, <2>3, Zenon DEF Behind, Newer
<1> QED
  BY <1>2, <1>3

\* It stays behind as time passes, when only newer messages become live.
LEMMA BehindLive ==
    ASSUME NEW c \in RecordOrNone, NEW stored \in RecordOrNone, NEW live, NEW live2,
           NEW t \in Nat, NEW t2 \in Nat, t <= t2, Behind(c, stored, live, t),
           \A m \in live2 : m \in live \/ (m \in Message /\ m.seq > t)
    PROVE  Behind(c, stored, live2, t2)
BY DEF Behind, Record, Message

\* It stays behind when DynamoDB deletes the record: what is live is newer.
LEMMA BehindExpire ==
    ASSUME NEW c \in RecordOrNone, NEW stored \in Record,
           NEW live \in SUBSET Message, NEW live2 \in SUBSET live, NEW t,
           Behind(c, stored, live, t), \A m \in live : m.seq > stored.seq
    PROVE  Behind(c, None, live2, t)
<1> SUFFICES ASSUME c # None PROVE Behind(c, None, live2, t)
  BY DEF Behind
<1>1. c.seq <= stored.seq
  BY NewerSeq, StateAssumption DEF Behind, Record
<1>2. \A m \in live2 : m.seq > c.seq
  BY <1>1 DEF Message, Record
<1> QED
  BY <1>2 DEF Behind

\* A record just read is the stored one.
LEMMA BehindRead ==
    ASSUME NEW c, NEW live, NEW t, c # None => c.seq <= t
    PROVE  Behind(c, c, live, t)
BY DEF Behind

\* Messages that may still be handled were sent.
LEMMA LiveType ==
    ASSUME TypeOK, Shapes
    PROVE  Live \subseteq sent /\ Live \in SUBSET Message
BY Zenon DEF TypeOK, Shapes, Live

\* A consumer that drops its message or keeps a live one revives none.
LEMMA LiveStep ==
    ASSUME TypeOK, NEW p \in Procs, NEW n, Become(p, n), queue' \subseteq queue,
           n.msg = None \/ n.msg \in Live
    PROVE  Live' \subseteq Live
<1>1. \A q \in Procs : cons'[q] = IF q = p THEN n ELSE cons[q]
  BY DEF TypeOK, Become
<1> QED
  BY <1>1, Zenon DEF Live

\* The clock is a number, before and after.
LEMMA ClockType == (TypeOK => clock \in Nat) /\ (TypeOK' => clock' \in Nat)
BY DEF TypeOK

\* Versions through a step that leaves the table alone.
LEMMA VersionsRead ==
    ASSUME TypeOK, Shapes, TypeOK', Versions, table' = table, clock <= clock',
           \A m \in sent' : m \in sent \/ m.seq <= clock',
           \A m \in Live' : m \in Live \/ (m \in Message /\ m.seq > clock),
           \A q \in Procs : cons'[q].pc = "put" =>
              \/ cons'[q] = cons[q]
              \/ cons'[q].cur = table[cons'[q].key],
           \A q \in Procs : serve'[q].pc = "clear" =>
              \/ serve'[q] = serve[q]
              \/ serve'[q].cur = table[Sub]
    PROVE  Versions'
<1>0. clock \in Nat /\ clock' \in Nat
  BY ClockType
<1>s. /\ \A m \in sent : m.seq <= clock /\ m.seq \in Nat
      /\ \A k \in Keys : table[k] # None => table[k].seq <= clock /\ table[k].seq \in Nat
  BY Zenon DEF Versions, TypeOK, Message, Record
<1>1. \A m \in sent' : m.seq <= clock'
  BY <1>0, <1>s
<1>2. \A k \in Keys : table'[k] # None => table'[k].seq <= clock'
  BY <1>0, <1>s
<1>3. ASSUME NEW q \in Procs, cons'[q].pc = "put"
      PROVE  Behind(cons'[q].cur, table'[cons'[q].key], Live', clock')
  <2>1. cons'[q].key \in Keys /\ cons'[q].cur \in RecordOrNone
    BY Zenon DEF TypeOK, Locals
  <2>2. table[cons'[q].key] \in RecordOrNone
    BY <2>1, Zenon DEF TypeOK
  <2>3. Behind(cons'[q].cur, table[cons'[q].key], Live, clock)
    BY <1>3, <2>1, BehindRead, Zenon DEF Versions
  <2> QED
    BY <1>0, <2>1, <2>2, <2>3, BehindLive, Zenon
<1>4. ASSUME NEW q \in Procs, serve'[q].pc = "clear"
      PROVE  Behind(serve'[q].cur, table'[Sub], Live', clock')
  <2>1. Sub \in Keys /\ serve'[q].cur \in RecordOrNone
    BY Zenon DEF TypeOK, Request, Keys
  <2>2. table[Sub] \in RecordOrNone
    BY <2>1, Zenon DEF TypeOK
  <2>3. Behind(serve'[q].cur, table[Sub], Live, clock)
    BY <1>4, <2>1, BehindRead, Zenon DEF Versions
  <2> QED
    BY <1>0, <2>1, <2>2, <2>3, BehindLive
<1> QED
  BY <1>1, <1>2, <1>3, <1>4, Zenon DEF Versions

\* Versions through a step that also publishes nothing.
LEMMA VersionsFrame ==
    ASSUME TypeOK, Shapes, TypeOK', Versions, UNCHANGED <<table, clock, sent>>,
           Live' \subseteq Live,
           \A q \in Procs : cons'[q].pc = "put" =>
              \/ cons'[q] = cons[q]
              \/ cons'[q].cur = table[cons'[q].key],
           \A q \in Procs : serve'[q].pc = "clear" =>
              \/ serve'[q] = serve[q]
              \/ serve'[q].cur = table[Sub]
    PROVE  Versions'
<1>1. clock <= clock'
  BY ClockType
<1>2. \A m \in sent' : m \in sent \/ m.seq <= clock'
  OBVIOUS
<1>3. \A m \in Live' : m \in Live \/ (m \in Message /\ m.seq > clock)
  OBVIOUS
<1> QED
  BY <1>1, <1>2, <1>3, VersionsRead, Zenon

\* Versions through a step that changes one record.
LEMMA VersionsWrite ==
    ASSUME TypeOK, Shapes, TypeOK', Versions, NEW k \in Keys, NEW next \in RecordOrNone,
           table' = [table EXCEPT ![k] = next], clock' = clock, sent' = sent,
           next # None => next.seq <= clock,
           Live' \subseteq Live,
           \A c \in RecordOrNone : Behind(c, table[k], Live, clock)
                                  => Behind(c, next, Live', clock),
           \A q \in Procs : cons'[q].pc = "put" => cons'[q] = cons[q],
           \A q \in Procs : serve'[q].pc = "clear" => serve'[q] = serve[q]
    PROVE  Versions'
<1>0. clock \in Nat
  BY ClockType
<1>t. \A j \in Keys : /\ table[j] \in RecordOrNone
                      /\ table'[j] = IF j = k THEN next ELSE table[j]
  BY Zenon DEF TypeOK
<1>1. \A m \in sent' : m.seq <= clock'
  BY Zenon DEF Versions
<1>2. \A j \in Keys : table'[j] # None => table'[j].seq <= clock'
  BY <1>t DEF Versions
<1>b. ASSUME NEW c \in RecordOrNone, NEW j \in Keys, Behind(c, table[j], Live, clock)
      PROVE  Behind(c, table'[j], Live', clock')
  <2>1. CASE j = k
    BY <1>b, <1>t, <2>1, Zenon
  <2>2. CASE j # k
    BY <1>0, <1>b, <1>t, <2>2, BehindLive
  <2> QED
    BY <2>1, <2>2, Zenon
<1>3. ASSUME NEW q \in Procs, cons'[q].pc = "put"
      PROVE  Behind(cons'[q].cur, table'[cons'[q].key], Live', clock')
  <2>1. cons'[q] = cons[q] /\ cons[q].key \in Keys /\ cons[q].cur \in RecordOrNone
    BY <1>3, Zenon DEF TypeOK, Locals
  <2>2. Behind(cons[q].cur, table[cons[q].key], Live, clock)
    BY <1>3, <2>1, Zenon DEF Versions
  <2> QED
    BY <1>b, <2>1, <2>2, Zenon
<1>4. ASSUME NEW q \in Procs, serve'[q].pc = "clear"
      PROVE  Behind(serve'[q].cur, table'[Sub], Live', clock')
  <2>1. serve'[q] = serve[q] /\ Sub \in Keys /\ serve[q].cur \in RecordOrNone
    BY <1>4, Zenon DEF TypeOK, Request, Keys
  <2>2. Behind(serve[q].cur, table[Sub], Live, clock)
    BY <1>4, <2>1, Zenon DEF Versions
  <2> QED
    BY <1>b, <2>1, <2>2, Zenon
<1> QED
  BY <1>1, <1>2, <1>3, <1>4, Zenon DEF Versions

\* What Clear writes is newer than the tombstone it read, and not from the future.
LEMMA ClearNewer ==
    ASSUME TypeOK, Shapes, Versions, NEW p \in Procs, serve[p].pc = "clear"
    PROVE  /\ serve[p].cur \in Record /\ serve[p].next \in Record
           /\ serve[p].cur.state = "erased" /\ serve[p].next.state = "active"
           /\ serve[p].next.req = serve[p].cur.req
           /\ Newer(serve[p].next, serve[p].cur) /\ serve[p].next.seq <= clock
<1> DEFINE r == serve[p]
<1>1. r.cur \in Record /\ r.cur.state = "erased"
  BY Zenon DEF TypeOK, Shapes, RequestOK, Request
<1>2. PICK now \in 0..clock : r.next = Reopened(r.cur, MaxOf(r.cur.seq, now))
  BY Zenon DEF Shapes, RequestOK
<1>3. r.cur.seq <= clock /\ r.cur.seq \in Nat /\ clock \in Nat
  BY <1>1, StateAssumption DEF Versions, Behind, TypeOK, Record
<1>4. /\ MaxOf(r.cur.seq, now) \in Nat /\ MaxOf(r.cur.seq, now) >= r.cur.seq
      /\ MaxOf(r.cur.seq, now) <= clock
  BY <1>3 DEF MaxOf
<1>5. r.next \in Record /\ Newer(r.next, r.cur)
  BY <1>1, <1>2, <1>4, ReopenedType, ReopenedNewer, Zenon
<1>6. /\ r.next.seq = MaxOf(r.cur.seq, now) /\ r.next.state = "active"
      /\ r.next.req = r.cur.req
  BY <1>2 DEF Reopened
<1> QED
  BY <1>1, <1>4, <1>5, <1>6, Zenon

\* A consumer's landed put replaces what it read by something newer.
LEMMA ConsumerWrite ==
    ASSUME TypeOK, Shapes, Versions, NEW p \in Procs, cons[p].pc = "put",
           Write(cons[p].key, cons[p].cur, cons[p].next)
    PROVE  /\ cons[p].key \in Keys /\ cons[p].next \in Record /\ Computed(cons[p])
           /\ cons[p].cur = table[cons[p].key]
           /\ table' = [table EXCEPT ![cons[p].key] = cons[p].next]
           /\ cons[p].next.seq <= clock
           /\ table[cons[p].key] # None => Newer(cons[p].next, table[cons[p].key])
           /\ table[cons[p].key] = None => cons[p].next.seq >= cons[p].msg.seq
           /\ cons[p].msg \in Live
<1> DEFINE l == cons[p]
<1>1. /\ l \in Locals /\ LocalOK(l) /\ l.msg \in Message /\ l.msg \in sent
      /\ l.key \in Keys /\ table[l.key] \in RecordOrNone /\ l.cur \in RecordOrNone
  BY Holding, Zenon DEF Locals
<1>2. Computed(l)
  BY <1>1, Zenon DEF LocalOK
<1>3. SameVersion(l.cur, table[l.key]) /\ table' = [table EXCEPT ![l.key] = l.next]
  BY Zenon DEF Write
<1>4. l.cur = table[l.key]
  BY <1>1, <1>3, Landing, Zenon DEF Versions
<1>5. l.msg.seq <= clock /\ clock \in Nat /\ (l.cur # None => l.cur.seq <= clock)
  BY <1>1, <1>4, ClockType, Zenon DEF Versions
<1>6. /\ l.next \in Record /\ (l.cur # None => Newer(l.next, l.cur))
      /\ (l.cur = None => l.next.seq >= l.msg.seq) /\ l.next.seq <= clock
  BY <1>1, <1>2, <1>5, ComputedNewer, Zenon
<1>7. l.msg \in Live
  BY <1>1, ErasureAssumption, Zenon DEF Live
<1> QED
  BY <1>1, <1>2, <1>3, <1>4, <1>6, <1>7, Zenon

\* Clear's landed put likewise.
LEMMA ClearWrite ==
    ASSUME TypeOK, Shapes, Versions, NEW p \in Procs, serve[p].pc = "clear",
           Write(Sub, serve[p].cur, serve[p].next)
    PROVE  /\ serve[p].cur = table[Sub]
           /\ table' = [table EXCEPT ![Sub] = serve[p].next]
<1>1. Sub \in Keys /\ table[Sub] \in RecordOrNone /\ serve[p].cur \in RecordOrNone
  BY Zenon DEF TypeOK, Keys, Request
<1> QED
  BY <1>1, Landing, Zenon DEF Versions, Write

\* Only a read makes a consumer about to put, and then of what it just read.
LEMMA OnlyReadsPut ==
    ASSUME NEW p, NEW l, NEW n
    PROVE  /\ \A rec : Follows(l, rec, n) => n.pc # "put"
           /\ AfterRead(p, l, n) /\ n.pc = "put" => n.cur = table[n.key]
<1>1. \A rec : Follows(l, rec, n) => n.pc # "put"
  BY Zenon DEF Follows, Tombstones
<1> QED
  BY <1>1 DEF AfterRead, SamePhase

\* A consumer that goes on keeps its message.
LEMMA FollowsSame ==
    ASSUME NEW l, NEW rec, NEW n, Follows(l, rec, n), n.pc # "idle"
    PROVE  n.msg = l.msg
<1>1. Idle.pc = "idle"
  BY DEF Idle, At
<1> QED
  BY <1>1 DEF Follows

\* A step of one consumer, seen from all.
LEMMA ConsAt ==
    ASSUME TypeOK, NEW p \in Procs, NEW n, Become(p, n)
    PROVE  \A q \in Procs : cons'[q] = IF q = p THEN n ELSE cons[q]
BY Zenon DEF TypeOK, Become

\* The calls of a consumer keep records read earlier behind the stored ones.
LEMMA ConsumeVersions ==
    ASSUME TypeOK, Shapes, TypeOK', Versions, NEW p \in Procs,
           Consume(p) \/ PutFault(p) \/ AckLost(p) \/ Fail(p)
    PROVE  Versions'
<1> DEFINE l == cons[p]
<1>0. clock \in Nat
  BY ClockType
<1>i. Idle.msg = None
  BY Zenon DEF Idle, At
<1>1. CASE Get(p) \/ RelinkGet(p)
  <2>1. PICK n : Become(p, n) /\ AfterRead(p, l, n)
    BY <1>1, GetStep, RelinkGetStep
  <2>2. l.pc # "idle" /\ UNCHANGED <<store, transport, effects, blocked, serve, faults>>
    BY <1>1, Zenon DEF Get, RelinkGet
  <2>3. n.msg = None \/ n.msg \in Live
    BY <2>1, <2>2, FollowsMsg, Zenon DEF Live
  <2>4. Live' \subseteq Live
    BY <2>1, <2>2, <2>3, LiveStep, Zenon DEF transport
  <2>5. n.pc = "put" => n.cur = table[n.key]
    BY <2>1, OnlyReadsPut, Zenon
  <2>6. ASSUME NEW q \in Procs, cons'[q].pc = "put"
        PROVE  cons'[q] = cons[q] \/ cons'[q].cur = table[cons'[q].key]
    <3>1. CASE q = p
      <4>1. cons'[q] = n
        BY <2>1, <3>1, ConsAt, Zenon
      <4> QED
        BY <2>5, <2>6, <4>1, Zenon
    <3>2. CASE q # p
      BY <2>1, <3>2, ConsAt, Zenon
    <3> QED
      BY <3>1, <3>2
  <2> QED
    BY <2>2, <2>4, <2>6, VersionsFrame, Zenon DEF store, transport
<1>2. CASE Put(p) \/ PutFault(p)
  <2>1. PICK n : /\ Become(p, n) /\ AfterPut(l, n)
                 /\ Write(l.key, l.cur, l.next) \/ UNCHANGED store
    BY <1>2, PutStep
  <2>2. l.pc = "put" /\ UNCHANGED <<transport, effects, blocked, serve>>
    BY <1>2 DEF Put, PutFault
  <2>3. n.msg = None \/ n.msg \in Live
    BY <2>1, <2>2, FollowsMsg, Zenon DEF Live
  <2>4. Live' \subseteq Live
    BY <2>1, <2>2, <2>3, LiveStep, Zenon DEF transport
  <2>5. \A q \in Procs : cons'[q].pc = "put" => cons'[q] = cons[q]
    BY <2>1, ConsAt, Zenon DEF AfterPut
  <2>6. CASE UNCHANGED store
    BY <2>2, <2>4, <2>5, <2>6, VersionsFrame, Zenon DEF store, transport
  <2>7. CASE Write(l.key, l.cur, l.next)
    <3>1. /\ l.key \in Keys /\ l.next \in Record /\ l.next.seq <= clock
          /\ table' = [table EXCEPT ![l.key] = l.next]
          /\ table[l.key] # None => Newer(l.next, table[l.key])
          /\ table[l.key] = None => \E m \in Live : l.next.seq >= m.seq
      BY <2>2, <2>7, ConsumerWrite, Zenon
    <3>2. Live \in SUBSET Message /\ table[l.key] \in RecordOrNone
      BY <3>1, LiveType, Zenon DEF TypeOK
    <3>3. \A c \in RecordOrNone : Behind(c, table[l.key], Live, clock)
                                  => Behind(c, l.next, Live', clock)
      BY <1>0, <2>4, <3>1, <3>2, BehindWrite, ZenonT(60)
    <3> QED
      BY <2>2, <2>4, <2>5, <3>1, <3>3, VersionsWrite, Zenon DEF transport
  <2> QED
    BY <2>1, <2>6, <2>7
<1>3. CASE Settle(p)
  <2>1. PICK n : Become(p, n) /\ AfterSettle(l, n)
    BY <1>3, SettleStep
  <2>2. l.pc # "idle" /\ UNCHANGED <<transport, table, serve>>
    BY <1>3 DEF Settle, store
  <2>3. n.msg = None \/ n.msg \in Live
    BY <2>1, <2>2, FollowsMsg, Zenon DEF Live
  <2>4. Live' \subseteq Live
    BY <2>1, <2>2, <2>3, LiveStep, Zenon DEF transport
  <2>5. n.pc # "put"
    BY <2>1, Zenon DEF AfterSettle, Follows, Tombstones
  <2>6. \A q \in Procs : cons'[q].pc = "put" => cons'[q] = cons[q]
    BY <2>1, <2>5, ConsAt, Zenon
  <2> QED
    BY <2>2, <2>4, <2>6, VersionsFrame, Zenon DEF transport
<1>4. CASE Purge(p)
  <2>1. PICK n : Become(p, n) /\ n.msg = l.msg /\ n.pc # "put"
    BY <1>4, PurgeStep, Zenon DEF Tombstones
  <2>2. l.pc # "idle" /\ UNCHANGED <<store, transport, serve>>
    BY <1>4 DEF Purge
  <2>3. n.msg = None \/ n.msg \in Live
    BY <2>1, Zenon DEF Live
  <2>4. Live' \subseteq Live
    BY <2>1, <2>2, <2>3, LiveStep, Zenon DEF transport
  <2>5. \A q \in Procs : cons'[q].pc = "put" => cons'[q] = cons[q]
    BY <2>1, ConsAt, Zenon
  <2> QED
    BY <2>2, <2>4, <2>5, VersionsFrame, Zenon DEF store, transport
<1>5. CASE Ack(p) \/ AckLost(p) \/ Delete(p) \/ Fail(p)
  <2>1. PICK n : Become(p, n) /\ AfterAck(l, n)
    BY <1>5, AckStep
  <2>2. /\ l.pc # "idle" /\ UNCHANGED <<store, serve>>
        /\ clock' = clock /\ sent' = sent /\ queue' \subseteq queue
    BY <1>5, Zenon DEF Ack, AckLost, Delete, Fail, transport
  <2>3. n.msg = None \/ n.msg \in Live
    BY <2>1, <2>2, FollowsMsg, Zenon DEF Live
  <2>4. Live' \subseteq Live
    BY <2>1, <2>2, <2>3, LiveStep, Zenon
  <2>5. \A q \in Procs : cons'[q].pc = "put" => cons'[q] = cons[q]
    BY <2>1, ConsAt, Zenon DEF AfterAck
  <2> QED
    BY <2>2, <2>4, <2>5, VersionsFrame, Zenon DEF store
<1> QED
  BY <1>1, <1>2, <1>3, <1>4, <1>5 DEF Consume

\* So do the requests, the failures and the environment.
LEMMA OtherVersions ==
    ASSUME TypeOK, Shapes, TypeOK', Versions,
           \/ \E s \in Sends : Publish(s)
           \/ \E p \in Procs, m \in queue : Receive(p, m)
           \/ \E p \in Servers : Serve(p)
           \/ \E p \in Procs : ClearFault(p) \/ Crash(p)
           \/ \E k \in Keys : Expire(k)
           \/ UNCHANGED vars
    PROVE  Versions'
<1>0. clock \in Nat /\ Live \in SUBSET Message
  BY LiveType, ClockType, Zenon
<1>1. CASE \E s \in Sends : Publish(s)
  <2>1. PICK s \in Sends : Publish(s)
    BY <1>1
  <2> DEFINE m == [type |-> s.type, req |-> s.req, orgs |-> s.orgs,
                   targets |-> s.targets, seq |-> clock + 1]
  <2>2. /\ clock' = clock + 1 /\ queue' = queue \cup {m} /\ sent' = sent \cup {m}
        /\ UNCHANGED <<store, cons, serve>>
    BY <2>1, Zenon DEF Publish
  <2>3. m \in Message /\ m.seq = clock + 1
    BY <1>0, <2>2, ErasureAssumption DEF Message, Payload
  <2> HIDE DEF m
  <2>4. \A x \in Live' : x \in Live \/ x = m
    BY <2>2, Zenon DEF Live
  <2> QED
    BY <1>0, <2>2, <2>3, <2>4, VersionsRead DEF store
<1>2. CASE \E p \in Procs, m \in queue : Receive(p, m)
  <2>1. PICK p \in Procs, m \in queue : Receive(p, m)
    BY <1>2
  <2>2. PICK n : Become(p, n) /\ n.msg = m /\ n.pc # "put"
    BY <2>1, ReceiveStep
  <2>3. UNCHANGED <<store, transport, serve>>
    BY <2>1, Zenon DEF Receive
  <2>4. Live' \subseteq Live
    BY <2>2, <2>3, LiveStep, Zenon DEF transport, Live
  <2>5. \A q \in Procs : cons'[q].pc = "put" => cons'[q] = cons[q]
    BY <2>2, ConsAt, Zenon
  <2> QED
    BY <2>3, <2>4, <2>5, VersionsFrame, Zenon DEF store, transport
<1>3. CASE \E p \in Servers : Serve(p)
  <2>1. PICK p \in Servers : Serve(p)
    BY <1>3
  <2>2. p \in Procs /\ Sub \in Keys /\ table[Sub] \in RecordOrNone
    BY ErasureAssumption, Zenon DEF TypeOK, Keys
  <2>3. UNCHANGED <<transport, cons>>
    BY <2>1, Zenon DEF Serve, BlockedRead, BlockedSet, Forget, ClearRead, ClearPut, ClearSettle
  <2>4. Live' = Live
    BY <2>3, Zenon DEF Live, transport
  <2>5. ASSUME UNCHANGED table,
               \A q \in Procs : serve'[q].pc = "clear" =>
                  serve'[q] = serve[q] \/ serve'[q].cur = table[Sub]
        PROVE  Versions'
    BY <2>3, <2>4, <2>5, VersionsFrame, Zenon DEF transport
  <2>6. CASE BlockedRead(p) \/ BlockedSet(p) \/ Forget(p) \/ ClearSettle(p)
    <3>1. \A q \in Procs : serve'[q].pc = "clear" => serve'[q] = serve[q]
      BY <2>2, <2>6 DEF BlockedRead, BlockedSet, Forget, ClearSettle, NoRequest, TypeOK
    <3>2. UNCHANGED table
      BY <2>6, Zenon DEF BlockedRead, BlockedSet, Forget, ClearSettle, store
    <3> QED
      BY <2>5, <3>1, <3>2, Zenon
  <2>7. CASE ClearRead(p)
    BY <2>2, <2>5, <2>7, Zenon DEF ClearRead, store, TypeOK
  <2>8. CASE ClearPut(p)
    <3>1. /\ serve[p].pc = "clear"
          /\ Write(Sub, serve[p].cur, serve[p].next) \/ UNCHANGED store
          /\ serve' = [serve EXCEPT ![p] = [@ EXCEPT !.pc = "settle"]]
      BY <2>8 DEF ClearPut
    <3>2. \A q \in Procs : serve'[q].pc = "clear" => serve'[q] = serve[q]
      BY <2>2, <3>1 DEF TypeOK, Request
    <3>3. CASE UNCHANGED store
      BY <2>5, <3>2, <3>3, Zenon DEF store
    <3>4. CASE Write(Sub, serve[p].cur, serve[p].next)
      <4>1. /\ serve[p].cur = table[Sub] /\ table' = [table EXCEPT ![Sub] = serve[p].next]
            /\ serve[p].next \in Record /\ serve[p].cur \in Record
            /\ Newer(serve[p].next, table[Sub]) /\ serve[p].next.seq <= clock
        BY <2>2, <3>1, <3>4, ClearWrite, ClearNewer
      <4>2. \A c \in RecordOrNone : Behind(c, table[Sub], Live, clock)
                                    => Behind(c, serve[p].next, Live', clock)
        BY <1>0, <2>2, <2>4, <4>1, BehindWrite, StateAssumption, Zenon
      <4>3. \A q \in Procs : cons'[q].pc = "put" => cons'[q] = cons[q]
        BY <2>3, Zenon
      <4> QED
        BY <2>2, <2>3, <2>4, <3>2, <4>1, <4>2, <4>3, VersionsWrite, Zenon DEF transport
    <3> QED
      BY <3>1, <3>3, <3>4
  <2> QED
    BY <2>1, <2>6, <2>7, <2>8, Zenon DEF Serve
<1>4. CASE \E p \in Procs : ClearFault(p)
  <2>1. PICK p \in Procs : ClearFault(p)
    BY <1>4
  <2>2. /\ UNCHANGED <<store, transport, cons>>
        /\ serve' = [serve EXCEPT ![p] = [@ EXCEPT !.pc = "settle"]]
    BY <2>1 DEF ClearFault
  <2>3. Live' = Live
    BY <2>2 DEF Live, transport
  <2>4. \A q \in Procs : serve'[q].pc = "clear" => serve'[q] = serve[q]
    BY <2>2 DEF TypeOK, Request
  <2> QED
    BY <2>2, <2>3, <2>4, VersionsFrame, Zenon DEF store, transport
<1>5. CASE \E p \in Procs : Crash(p)
  <2>1. PICK p \in Procs : Crash(p)
    BY <1>5
  <2>2. /\ Become(p, Idle) /\ UNCHANGED <<transport, table>>
        /\ serve' = [serve EXCEPT ![p] = NoRequest]
    BY <2>1, Zenon DEF Crash, store
  <2>3. Idle.msg = None /\ Idle.pc # "put"
    BY Zenon DEF Idle, At
  <2>4. Live' \subseteq Live
    BY <2>2, <2>3, LiveStep, Zenon DEF transport
  <2>5. \A q \in Procs : cons'[q].pc = "put" => cons'[q] = cons[q]
    BY <2>2, <2>3, ConsAt, Zenon
  <2>6. \A q \in Procs : serve'[q].pc = "clear" => serve'[q] = serve[q]
    BY <2>2, Zenon DEF TypeOK, NoRequest
  <2> QED
    BY <2>2, <2>4, <2>5, <2>6, VersionsFrame, Zenon DEF transport
<1>6. CASE \E k \in Keys : Expire(k)
  <2>1. PICK k \in Keys : Expire(k)
    BY <1>6
  <2>2. /\ table[k] # None /\ table' = [table EXCEPT ![k] = None]
        /\ \A m \in queue : m.seq > table[k].seq
        /\ \A p \in Procs : cons[p].msg # None => cons[p].msg.seq > table[k].seq
        /\ UNCHANGED <<transport, cons, serve>>
    BY <2>1, Zenon DEF Expire
  <2>3. table[k] \in Record
    BY <2>2, Zenon DEF TypeOK
  <2>4. \A m \in Live : m.seq > table[k].seq
    BY <2>2, Zenon DEF Live
  <2>5. Live' = Live
    BY <2>2, Zenon DEF Live, transport
  <2>6. \A c \in RecordOrNone : Behind(c, table[k], Live, clock)
                                => Behind(c, None, Live', clock)
    BY <1>0, <2>3, <2>4, <2>5, BehindExpire, Zenon
  <2> QED
    BY <2>2, <2>5, <2>6, VersionsWrite, Zenon DEF transport
<1>7. CASE UNCHANGED vars
  <2>1. UNCHANGED <<table, transport, cons, serve>>
    BY <1>7 DEF vars, store
  <2>2. Live' = Live
    BY <2>1, Zenon DEF Live, transport
  <2> QED
    BY <2>1, <2>2, VersionsFrame, Zenon DEF transport
<1> QED
  BY <1>1, <1>2, <1>3, <1>4, <1>5, <1>6, <1>7

\* Every step keeps records read earlier behind the stored ones.
LEMMA VersionsStep ==
    TypeOK /\ Shapes /\ TypeOK' /\ Versions /\ [Next]_vars => Versions'
BY ConsumeVersions, OtherVersions, Zenon DEF Next, Break

\* Versions hold in every reachable state.
THEOREM VersionsCorrect == Spec => []Versions
<1>1. Init => Versions
  <2>1. Init => \A p \in Procs : cons[p].pc = "idle" /\ serve[p].pc = "none"
    BY DEF Init, Idle, At, NoRequest
  <2> QED
    BY <2>1 DEF Init, Versions
<1> QED
  BY <1>1, VersionsStep, TypeCorrect, PTL DEF Spec

\* put's condition on seq_ns and erasure_state alone is enough, for any number
\* of processes, messages and failures: a read whose version is still the
\* stored one is the stored record.
THEOREM VersionSufficient == Spec => []VersionIdentifies
<1>1. TypeOK /\ Versions => VersionIdentifies
  <2> SUFFICES ASSUME TypeOK, Versions PROVE VersionIdentifies
    OBVIOUS
  <2>1. ASSUME NEW p \in Procs, cons[p].pc = "put",
               SameVersion(cons[p].cur, table[cons[p].key])
        PROVE  cons[p].cur = table[cons[p].key]
    <3>1. cons[p].cur \in RecordOrNone /\ table[cons[p].key] \in RecordOrNone
      BY Zenon DEF TypeOK, Locals
    <3> QED
      BY <2>1, <3>1, Landing, Zenon DEF Versions
  <2>2. ASSUME NEW p \in Procs, serve[p].pc = "clear",
               SameVersion(serve[p].cur, table[Sub])
        PROVE  serve[p].cur = table[Sub]
    <3>1. serve[p].cur \in RecordOrNone /\ table[Sub] \in RecordOrNone
      BY Zenon DEF TypeOK, Request, Keys
    <3> QED
      BY <2>2, <3>1, Landing, Zenon DEF Versions
  <2> QED
    BY <2>1, <2>2, Zenon DEF VersionIdentifies
<1> QED
  BY <1>1, TypeCorrect, VersionsCorrect, PTL

-----------------------------------------------------------------------------
(* What a step can do to the table.                                        *)

\* The table moves only by a landed put of a consumer or of Clear, or by a TTL.
LEMMA TableMoves ==
    ASSUME [Next]_vars
    PROVE  \/ UNCHANGED table
           \/ /\ UNCHANGED <<clock, sent>>
              /\ \/ \E p \in Procs : /\ cons[p].pc = "put"
                                      /\ Write(cons[p].key, cons[p].cur, cons[p].next)
                 \/ \E p \in Procs : /\ serve[p].pc = "clear"
                                      /\ Write(Sub, serve[p].cur, serve[p].next)
                 \/ \E k \in Keys : Expire(k)
<1>1. CASE \E s \in Sends : Publish(s)
  BY <1>1, Zenon DEF Publish, store
<1>2. CASE \E p \in Procs, m \in queue : Receive(p, m)
  BY <1>2, Zenon DEF Receive, store
<1>3. CASE \E p \in Procs : Consume(p)
  <2>1. PICK p \in Procs : Consume(p)
    BY <1>3
  <2>2. CASE Put(p)
    BY <2>2, Zenon DEF Put, store, transport
  <2>3. CASE ~Put(p)
    BY <2>1, <2>3, Zenon
       DEF Consume, Get, RelinkGet, Settle, Purge, Ack, Delete, store
  <2> QED
    BY <2>2, <2>3
<1>4. CASE \E p \in Servers : Serve(p)
  <2>1. PICK p \in Servers : Serve(p)
    BY <1>4
  <2>2. CASE ClearPut(p)
    BY <2>2, ErasureAssumption, Zenon DEF ClearPut, store, transport
  <2>3. CASE ~ClearPut(p)
    BY <2>1, <2>3, Zenon
       DEF Serve, BlockedRead, BlockedSet, Forget, ClearRead, ClearSettle, store
  <2> QED
    BY <2>2, <2>3
<1>5. CASE \E p \in Procs : Break(p)
  <2>1. PICK p \in Procs : Break(p)
    BY <1>5
  <2>2. CASE PutFault(p)
    BY <2>2, Zenon DEF PutFault, store, transport
  <2>3. CASE ~PutFault(p)
    BY <2>1, <2>3, Zenon DEF Break, AckLost, Fail, ClearFault, Crash, store
  <2> QED
    BY <2>2, <2>3
<1>6. CASE \E k \in Keys : Expire(k)
  BY <1>6, Zenon DEF Expire, transport
<1>7. CASE UNCHANGED vars
  BY <1>7, Zenon DEF vars, store
<1> QED
  BY <1>1, <1>2, <1>3, <1>4, <1>5, <1>6, <1>7, Zenon DEF Next

\* A step that changes a record makes it newer.
LEMMA AgeStep ==
    ASSUME TypeOK, Shapes, Versions, [Next]_vars
    PROVE  RecordsAge
<1>t. table \in [Keys -> RecordOrNone]
  BY DEF TypeOK
<1>1. ASSUME NEW p \in Procs, cons[p].pc = "put",
             Write(cons[p].key, cons[p].cur, cons[p].next)
      PROVE  RecordsAge
  <2>1. /\ table' = [table EXCEPT ![cons[p].key] = cons[p].next]
        /\ table[cons[p].key] # None => Newer(cons[p].next, table[cons[p].key])
    BY <1>1, ConsumerWrite, Zenon
  <2> QED
    BY <1>t, <2>1, Zenon DEF RecordsAge
<1>2. ASSUME NEW p \in Procs, serve[p].pc = "clear",
             Write(Sub, serve[p].cur, serve[p].next)
      PROVE  RecordsAge
  <2>1. /\ table' = [table EXCEPT ![Sub] = serve[p].next]
        /\ Newer(serve[p].next, table[Sub])
    BY <1>2, ClearWrite, ClearNewer, Zenon
  <2> QED
    BY <1>t, <2>1, Zenon DEF RecordsAge
<1>3. ASSUME NEW k \in Keys, Expire(k) PROVE RecordsAge
  BY <1>t, <1>3, Zenon DEF Expire, RecordsAge
<1>4. CASE UNCHANGED table
  BY <1>4, Zenon DEF RecordsAge
<1> QED
  BY <1>1, <1>2, <1>3, <1>4, TableMoves, Zenon

\* No delivery order, duplicate, retry or concurrent Clear takes a record back.
THEOREM OnlyNewerAlways == Spec => OnlyNewer
<1>1. TypeOK /\ Shapes /\ Versions /\ [Next]_vars => RecordsAge
  BY AgeStep
<1> QED
  BY <1>1, TypeCorrect, VersionsCorrect, PTL DEF Spec, OnlyNewer

\* A step that changes a tombstone is its TTL or the user coming back.
LEMMA TombstoneStep ==
    ASSUME TypeOK, Shapes, Versions, [Next]_vars
    PROVE  TombstonesHold
<1>t. table \in [Keys -> RecordOrNone] /\ Sub \in Keys
  BY DEF TypeOK, Keys
<1>1. ASSUME NEW p \in Procs, cons[p].pc = "put",
             Write(cons[p].key, cons[p].cur, cons[p].next)
      PROVE  TombstonesHold
  <2> DEFINE l == cons[p]
  <2>1. /\ table' = [table EXCEPT ![l.key] = l.next] /\ l.cur = table[l.key]
        /\ l.next \in Record /\ Computed(l)
    BY <1>1, ConsumerWrite, Zenon
  <2>2. l.phase = "relink" => l.key = Sub
    BY Holding, Zenon DEF LocalOK
  <2>3. CASE table[l.key] # None /\ table[l.key].state = "erased"
    <3>1. l.phase = "relink" /\ l.next = Reopened(l.cur, l.msg.seq)
      BY <2>1, <2>3, Zenon DEF Computed, Accepts, Prev
    <3>2. l.next # None /\ l.next.state = "active" /\ l.next.req = table[l.key].req
      BY <2>1, <3>1, StateAssumption DEF Reopened
    <3> QED
      BY <1>t, <2>1, <2>2, <3>1, <3>2, Zenon DEF TombstonesHold
  <2>4. CASE ~(table[l.key] # None /\ table[l.key].state = "erased")
    BY <1>t, <2>1, <2>4, Zenon DEF TombstonesHold
  <2> QED
    BY <2>3, <2>4
<1>2. ASSUME NEW p \in Procs, serve[p].pc = "clear",
             Write(Sub, serve[p].cur, serve[p].next)
      PROVE  TombstonesHold
  <2>1. /\ table' = [table EXCEPT ![Sub] = serve[p].next]
        /\ serve[p].next # None /\ serve[p].next.state = "active"
        /\ serve[p].next.req = table[Sub].req
    BY <1>2, ClearWrite, ClearNewer, StateAssumption, Zenon
  <2> QED
    BY <1>t, <2>1, Zenon DEF TombstonesHold
<1>3. ASSUME NEW k \in Keys, Expire(k) PROVE TombstonesHold
  <2>1. table' = [table EXCEPT ![k] = None] /\ HasTTL(table[k])
    BY <1>3 DEF Expire
  <2>2. table[k].state = "erased" => ErasedExpires
    BY <2>1 DEF HasTTL
  <2> QED
    BY <1>t, <2>1, <2>2, Zenon DEF TombstonesHold
<1>4. CASE UNCHANGED table
  BY <1>4, Zenon DEF TombstonesHold
<1> QED
  BY <1>1, <1>2, <1>3, <1>4, TableMoves, Zenon

\* A tombstone ends by its TTL or by the user coming back with the same request.
THEOREM TombstoneAlwaysStays == Spec => TombstoneStays
<1>1. TypeOK /\ Shapes /\ Versions /\ [Next]_vars => TombstonesHold
  BY TombstoneStep
<1> QED
  BY <1>1, TypeCorrect, VersionsCorrect, PTL DEF Spec, TombstoneStays

-----------------------------------------------------------------------------
(* What a step can do to a consumer.                                       *)

\* The moves of a consumer, from l to n.
Reads(p, l, n) == l.pc = "get" /\ AfterRead(p, l, n) /\ UNCHANGED table

Puts(l, n) ==
    /\ l.pc = "put" /\ AfterPut(l, n)
    /\ Write(l.key, l.cur, l.next) \/ n.out # "ok"

Settles(l, n) == l.pc = "settle" /\ AfterSettle(l, n) /\ UNCHANGED table

Purges(l, n) ==
    /\ l.pc = "purge" /\ n.msg = l.msg /\ UNCHANGED table
    /\ \/ l.msg.req \in purged' /\ Tombstones(l, l.msg.orgs, n)
       \/ n.pc = "ack" /\ n.out = "blocked" /\ n.phase = "none"

Starts(n) == \/ n.pc \in {"idle", "delete"} /\ n.phase = "none"
             \/ n.pc = "get" /\ n.phase \in {"plain", "relink", "lock"}

\* Every step moves a consumer in one of these ways, or not at all.
LEMMA ConsMoves ==
    ASSUME TypeOK, Shapes, [Next]_vars, NEW p \in Procs
    PROVE  \/ cons'[p] = cons[p]
           \/ Reads(p, cons[p], cons'[p]) \/ Puts(cons[p], cons'[p])
           \/ Settles(cons[p], cons'[p]) \/ Purges(cons[p], cons'[p])
           \/ Starts(cons'[p])
<1> DEFINE Goal == \/ cons'[p] = cons[p]
                   \/ Reads(p, cons[p], cons'[p]) \/ Puts(cons[p], cons'[p])
                   \/ Settles(cons[p], cons'[p]) \/ Purges(cons[p], cons'[p])
                   \/ Starts(cons'[p])
<1>1. ASSUME NEW q \in Procs, NEW n, Become(q, n),
             \/ Reads(q, cons[q], n) \/ Puts(cons[q], n)
             \/ Settles(cons[q], n) \/ Purges(cons[q], n) \/ Starts(n)
      PROVE  Goal
  <2>1. cons'[p] = IF p = q THEN n ELSE cons[p]
    BY <1>1, ConsAt, Zenon
  <2> QED
    BY <1>1, <2>1, Zenon
<1> HIDE DEF Goal
<1>2. ASSUME NEW s \in Sends, Publish(s) PROVE cons' = cons
  BY <1>2 DEF Publish
<1>3. ASSUME NEW q \in Procs, NEW m \in queue, Receive(q, m) PROVE Goal
  <2>1. PICK n : /\ Become(q, n)
                 /\ \/ n.pc = "delete" /\ n.phase = "none"
                    \/ n.pc = "get" /\ n.phase \in {"plain", "relink", "lock"}
    BY <1>3, ReceiveStep, Zenon
  <2>2. Starts(n)
    BY <2>1, Zenon DEF Starts
  <2> QED
    BY <1>1, <2>1, <2>2, Zenon
<1>4. ASSUME NEW q \in Procs, Consume(q) \/ Break(q) PROVE Goal \/ cons' = cons
  <2>1. CASE Get(q) \/ RelinkGet(q)
    <3>1. PICK n : Become(q, n) /\ AfterRead(q, cons[q], n)
      BY <2>1, GetStep, RelinkGetStep, Zenon
    <3>2. Reads(q, cons[q], n)
      BY <2>1, <3>1, Zenon DEF Get, RelinkGet, Reads, store
    <3> QED
      BY <1>1, <3>1, <3>2, Zenon
  <2>2. CASE Put(q) \/ PutFault(q)
    <3>1. PICK n : /\ Become(q, n) /\ AfterPut(cons[q], n)
                   /\ Write(cons[q].key, cons[q].cur, cons[q].next) \/ n.out # "ok"
      BY <2>2, PutStep, Zenon
    <3>2. Puts(cons[q], n)
      BY <2>2, <3>1, Zenon DEF Put, PutFault, Puts
    <3> QED
      BY <1>1, <3>1, <3>2, Zenon
  <2>3. CASE Settle(q)
    <3>1. PICK n : Become(q, n) /\ AfterSettle(cons[q], n)
      BY <2>3, SettleStep, Zenon
    <3>2. Settles(cons[q], n)
      BY <2>3, <3>1, Zenon DEF Settle, Settles, store
    <3> QED
      BY <1>1, <3>1, <3>2, Zenon
  <2>4. CASE Purge(q)
    <3>1. PICK n : /\ Become(q, n) /\ n.msg = cons[q].msg
                   /\ \/ /\ purged' = purged \cup {cons[q].msg.req}
                         /\ Tombstones(cons[q], cons[q].msg.orgs, n)
                      \/ n.pc = "ack" /\ n.out = "blocked" /\ n.phase = "none"
      BY <2>4, PurgeStep, Zenon
    <3>2. cons[q].pc = "purge" /\ UNCHANGED table
      BY <2>4, Zenon DEF Purge, store
    <3>3. Purges(cons[q], n)
      BY <3>1, <3>2, Zenon DEF Purges
    <3> QED
      BY <1>1, <3>1, <3>3, Zenon
  <2>5. CASE Ack(q) \/ AckLost(q) \/ Delete(q) \/ Fail(q) \/ Crash(q)
    <3>1. PICK n : Become(q, n) /\ AfterAck(cons[q], n)
      BY <2>5, AckStep, Zenon
    <3>2. Starts(n)
      BY <3>1, Zenon DEF AfterAck, Starts
    <3> QED
      BY <1>1, <3>1, <3>2, Zenon
  <2>6. CASE ClearFault(q)
    BY <2>6 DEF ClearFault
  <2> QED
    BY <1>4, <2>1, <2>2, <2>3, <2>4, <2>5, <2>6, Zenon DEF Consume, Break
<1>5. ASSUME NEW q \in Servers, Serve(q) PROVE cons' = cons
  BY <1>5, Zenon
     DEF Serve, BlockedRead, BlockedSet, Forget, ClearRead, ClearPut, ClearSettle
<1>6. ASSUME NEW k \in Keys, Expire(k) PROVE cons' = cons
  BY <1>6, Zenon DEF Expire
<1>7. ASSUME UNCHANGED vars PROVE cons' = cons
  BY <1>7 DEF vars
<1>8. Goal \/ cons' = cons
  BY <1>2, <1>3, <1>4, <1>5, <1>6, <1>7, Zenon DEF Next
<1> QED
  BY <1>8, Zenon DEF Goal

-----------------------------------------------------------------------------
(* The lock an erase was given holds until its tombstones are written.     *)

\* While a consumer holds the lock no step takes the record below its seq.
LEMMA LockKept ==
    ASSUME TypeOK, Shapes, Versions, LockHeld, TypeOK', [Next]_vars,
           NEW p \in Procs, HoldsLock(cons[p])
    PROVE  table'[Sub] # None /\ table'[Sub].seq >= cons[p].msg.seq
<1> DEFINE l == cons[p]
<1>1. table[Sub] # None /\ table[Sub].seq >= l.msg.seq
  BY Zenon DEF LockHeld
<1>2. l.pc # "idle" /\ l.msg # None /\ l.msg.seq \in Nat
  <2>1. l.pc # "idle"
    BY Holding, Zenon DEF HoldsLock, Erasing, LocalOK
  <2> QED
    BY <2>1, Holding, ErasureAssumption, Zenon DEF Message
<1>3. Sub \in Keys /\ table[Sub] \in Record /\ table'[Sub] \in RecordOrNone
  BY <1>1, Zenon DEF Keys, TypeOK
<1>t. \A k \in Keys : \A x : table' = [table EXCEPT ![k] = x]
                             => table'[Sub] = IF k = Sub THEN x ELSE table[Sub]
  BY <1>3, Zenon DEF TypeOK
<1>4. table'[Sub] # None
  <2>1. CASE UNCHANGED table
    BY <1>1, <2>1
  <2>2. ASSUME NEW q \in Procs, cons[q].pc = "put",
               Write(cons[q].key, cons[q].cur, cons[q].next)
        PROVE  table'[Sub] # None
    <3>1. table' = [table EXCEPT ![cons[q].key] = cons[q].next] /\ cons[q].next \in Record
      BY <2>2, ConsumerWrite, Zenon
    <3>2. cons[q].key \in Keys
      BY Holding, Zenon
    <3> QED
      BY <1>1, <1>t, <3>1, <3>2, StateAssumption, Zenon
  <2>3. ASSUME NEW q \in Procs, serve[q].pc = "clear",
               Write(Sub, serve[q].cur, serve[q].next)
        PROVE  table'[Sub] # None
    <3>1. table' = [table EXCEPT ![Sub] = serve[q].next] /\ serve[q].next \in Record
      BY <2>3, ClearWrite, ClearNewer, Zenon
    <3> QED
      BY <1>3, <1>t, <3>1, StateAssumption, Zenon
  <2>4. ASSUME NEW k \in Keys, Expire(k) PROVE table'[Sub] # None
    <3>1. /\ table' = [table EXCEPT ![k] = None]
          /\ l.msg # None => l.msg.seq > table[k].seq
      BY <2>4, Zenon DEF Expire
    <3>2. k # Sub
      <4> SUFFICES ASSUME k = Sub PROVE FALSE
        OBVIOUS
      <4>1. table[Sub].seq \in Nat
        BY <1>3 DEF Record
      <4> QED
        BY <1>1, <1>2, <3>1, <4>1
    <3> QED
      BY <1>1, <1>t, <3>1, <3>2, Zenon
  <2> QED
    BY <2>1, <2>2, <2>3, <2>4, TableMoves, Zenon
<1>5. table'[Sub].seq >= table[Sub].seq
  <2>1. CASE table'[Sub] = table[Sub]
    BY <1>3, <2>1 DEF Record
  <2>2. CASE table'[Sub] # table[Sub]
    <3>1. Newer(table'[Sub], table[Sub])
      BY <1>1, <1>3, <1>4, <2>2, AgeStep, Zenon DEF RecordsAge
    <3> QED
      BY <1>3, <1>4, <3>1, NewerSeq
  <2> QED
    BY <2>1, <2>2
<1> QED
  BY <1>1, <1>2, <1>3, <1>4, <1>5 DEF Record

\* A consumer comes to hold the lock only by being given it.
LEMMA LockGiven ==
    ASSUME TypeOK, Shapes, TypeOK', Shapes', Versions, [Next]_vars, NEW p \in Procs,
           HoldsLock(cons'[p])
    PROVE  \/ HoldsLock(cons[p]) /\ cons'[p].msg = cons[p].msg
           \/ table'[Sub] # None /\ table'[Sub].seq >= cons'[p].msg.seq
<1> DEFINE l == cons[p]
           n == cons'[p]
           Goal == \/ HoldsLock(l) /\ n.msg = l.msg
                   \/ table'[Sub] # None /\ table'[Sub].seq >= n.msg.seq
<1>1. ASSUME Tombstones(l, l.todo, n), l.phase = "org" PROVE Goal
  BY <1>1, Zenon DEF Tombstones, HoldsLock, Erasing
<1>2. ASSUME SamePhase(l, n), n.pc \in {"get", "put", "settle"},
             ~(n.pc = "settle" /\ n.phase = "lock" /\ n.out = "ok")
      PROVE  Goal
  BY <1>2 DEF SamePhase, HoldsLock, Erasing
<1>3. CASE Reads(p, l, n)
  <2>1. CASE SamePhase(l, n) /\ n.pc = "put"
    BY <1>2, <2>1
  <2>2. CASE /\ ~Accepts(table[l.key], Applied(l))
             /\ Follows(l, Prev(table[l.key]), n)
    <3>1. CASE /\ l.phase = "lock" /\ n.pc = "purge" /\ n.phase = "none"
               /\ n.under = Prev(table[l.key]).state
      <4>1. n.under = "locked" /\ n.msg = l.msg
        BY <2>2, <3>1, FollowsSame DEF HoldsLock, Erasing
      <4>2. l.key = Sub /\ table[Sub] # None /\ table[Sub].state = "locked"
        BY <3>1, <4>1, Holding, Zenon DEF LocalOK, Prev
      <4>3. l.msg \in Message /\ table[Sub] \in Record
        BY <1>3, <4>2, Holding DEF Reads
      <4>4. Applied(l).type = "locked" /\ Applied(l).seq = l.msg.seq
        BY <3>1, <4>3 DEF Applied, Message
      <4>5. ~(l.msg.seq > table[Sub].seq)
        BY <2>2, <4>2, <4>4, Zenon DEF Accepts, Prev
      <4>6. table[Sub].seq >= l.msg.seq
        BY <4>3, <4>5 DEF Message, Record
      <4> QED
        BY <1>3, <4>1, <4>2, <4>6, Zenon DEF Reads
    <3>2. CASE n.phase = "none" /\ n.pc # "purge"
      BY <3>2 DEF HoldsLock, Erasing
    <3>3. CASE l.phase = "org" /\ Tombstones(l, l.todo, n)
      BY <1>1, <3>3
    <3> QED
      BY <2>2, <3>1, <3>2, <3>3, Zenon DEF Follows
  <2>3. CASE n.pc = "delete" /\ n.phase = "none"
    BY <2>3 DEF HoldsLock, Erasing
  <2> QED
    BY <1>3, <2>1, <2>2, <2>3, Zenon DEF Reads, AfterRead
<1>4. CASE Puts(l, n)
  <2>1. SamePhase(l, n) /\ n.pc = "settle" /\ n.next = l.next
    BY <1>4, Zenon DEF Puts, AfterPut
  <2>2. CASE n.phase = "lock" /\ n.out = "ok"
    <3>1. l.key = Sub /\ Write(Sub, l.cur, l.next)
      <4>1. l.phase = "lock"
        BY <2>1, <2>2 DEF SamePhase
      <4>2. l.key = Sub
        BY <4>1, Holding, Zenon DEF LocalOK
      <4> QED
        BY <1>4, <2>2, <4>2 DEF Puts
    <3>2. table'[Sub] = l.next /\ l.next # None /\ l.next.seq >= n.msg.seq
      <4>1. table' = [table EXCEPT ![Sub] = l.next] /\ Sub \in Keys
        BY <3>1 DEF Write, Keys
      <4>2. LocalOK(n)
        BY Zenon DEF Shapes
      <4>3. n.next # None /\ n.next.seq >= n.msg.seq
        BY <2>1, <2>2, <4>2, Zenon DEF LocalOK
      <4> QED
        BY <2>1, <4>1, <4>3, Zenon DEF TypeOK
    <3> QED
      BY <3>2
  <2>3. CASE ~(n.phase = "lock" /\ n.out = "ok")
    BY <1>2, <2>1, <2>3
  <2> QED
    BY <2>2, <2>3
<1>5. CASE Settles(l, n)
  <2>1. CASE n.pc \in {"idle", "delete"} /\ n.phase = "none"
    BY <2>1 DEF HoldsLock, Erasing
  <2>2. CASE SamePhase(l, n) /\ n.pc = "get"
    BY <1>2, <2>2
  <2>3. CASE l.out = "ok" /\ Follows(l, l.next, n)
    <3>1. CASE l.phase = "lock" /\ n.pc = "purge"
      BY <1>5, <2>3, <3>1, FollowsSame DEF Settles, HoldsLock
    <3>2. CASE n.phase = "none" /\ n.pc # "purge"
      BY <3>2 DEF HoldsLock, Erasing
    <3>3. CASE l.phase = "org" /\ Tombstones(l, l.todo, n)
      BY <1>1, <3>3
    <3> QED
      BY <2>3, <3>1, <3>2, <3>3, Zenon DEF Follows
  <2> QED
    BY <1>5, <2>1, <2>2, <2>3, Zenon DEF Settles, AfterSettle
<1>6. CASE Purges(l, n)
  BY <1>6, Zenon DEF Purges, Tombstones, HoldsLock, Erasing
<1>7. CASE Starts(n)
  BY <1>7 DEF Starts, HoldsLock, Erasing
<1> HIDE DEF Goal
<1>8. CASE n = l
  BY <1>8 DEF Goal
<1> QED
  BY <1>3, <1>4, <1>5, <1>6, <1>7, <1>8, ConsMoves, Zenon DEF Goal

\* LockHeld holds in every reachable state.
THEOREM LockAlwaysHeld == Spec => []LockHeld
<1>1. Init => LockHeld
  <2>1. Init => \A p \in Procs : cons[p] = Idle
    BY DEF Init
  <2>2. ~HoldsLock(Idle)
    BY DEF HoldsLock, Erasing, Idle, At
  <2> QED
    BY <2>1, <2>2, Zenon DEF LockHeld
<1>2. TypeOK /\ Shapes /\ TypeOK' /\ Shapes' /\ Versions /\ LockHeld /\ [Next]_vars
      => LockHeld'
  BY LockKept, LockGiven, Zenon DEF LockHeld
<1> QED
  BY <1>1, <1>2, TypeCorrect, VersionsCorrect, PTL DEF Spec

\* An erase that was given the lock purges and tombstones under it: the record
\* is neither gone nor active, except by something newer than the erase.
THEOREM PurgeAlwaysUnderLock == Spec => []PurgeUnderLock
<1>1. LockHeld => PurgeUnderLock
  BY Zenon DEF LockHeld, HoldsLock, PurgeUnderLock
<1> QED
  BY <1>1, LockAlwaysHeld, PTL

-----------------------------------------------------------------------------
(* Done is claimed only for a reason.                                      *)

\* Purges and sent messages are never taken back.
LEMMA Grows ==
    ASSUME [Next]_vars
    PROVE  purged \subseteq purged' /\ sent \subseteq sent'
<1>1. CASE \E s \in Sends : Publish(s)
  BY <1>1, Zenon DEF Publish, effects
<1>2. CASE \E p \in Procs, m \in queue : Receive(p, m)
  BY <1>2, Zenon DEF Receive, effects, transport
<1>3. CASE \E p \in Procs : Consume(p)
  BY <1>3, Zenon
     DEF Consume, Get, RelinkGet, Put, Settle, Purge, Ack, Delete, effects, transport
<1>4. CASE \E p \in Servers : Serve(p)
  BY <1>4, Zenon DEF Serve, BlockedRead, BlockedSet, Forget, ClearRead, ClearPut,
                     ClearSettle, effects, transport
<1>5. CASE \E p \in Procs : Break(p)
  BY <1>5, Zenon DEF Break, PutFault, AckLost, Fail, ClearFault, Crash, effects, transport
<1>6. CASE \E k \in Keys : Expire(k)
  BY <1>6, Zenon DEF Expire, effects, transport
<1>7. CASE UNCHANGED vars
  BY <1>7, Zenon DEF vars, effects, transport
<1> QED
  BY <1>1, <1>2, <1>3, <1>4, <1>5, <1>6, <1>7 DEF Next

\* More purges and more messages explain no less.
LEMMA BackedGrows ==
    ASSUME NEW done, NEW done2, done \subseteq done2, NEW msgs, NEW msgs2,
           msgs \subseteq msgs2
    PROVE  /\ \A r : Explained(r, done, msgs) => Explained(r, done2, msgs2)
           /\ \A rec : Backed(rec, done, msgs) => Backed(rec, done2, msgs2)
           /\ \A l : Earned(l, done, msgs) => Earned(l, done2, msgs2)
<1>1. \A r : Explained(r, done, msgs) => Explained(r, done2, msgs2)
  BY Zenon DEF Explained
<1>2. \A rec : Backed(rec, done, msgs) => Backed(rec, done2, msgs2)
  BY <1>1, Zenon DEF Backed
<1>3. \A l : Earned(l, done, msgs) => Earned(l, done2, msgs2)
  BY <1>1, <1>2 DEF Earned
<1> QED
  BY <1>1, <1>2, <1>3

\* What a consumer computes from a backed record is backed.
LEMMA ComputedBacked ==
    ASSUME NEW l \in Locals, LocalOK(l), l.pc = "put", NEW done, NEW msgs,
           l.msg \in Message, l.msg \in msgs,
           l.phase \in {"org", "sub"} => l.msg.req \in done,
           l.cur # None => Backed(l.cur, done, msgs)
    PROVE  Backed(l.next, done, msgs)
<1>1. Computed(l) /\ l.phase \in {"plain", "relink", "lock", "org", "sub"}
  BY Zenon DEF LocalOK, Locals, Phases
<1>2. CASE l.phase = "relink"
  <2>1. /\ l.cur # None /\ l.cur.state = "erased"
        /\ l.next = Reopened(l.cur, l.msg.seq)
    BY <1>1, <1>2, Zenon DEF Computed, Relinks
  <2>2. l.next.state = "active" /\ l.next.req = l.cur.req
    BY <2>1 DEF Reopened
  <2> QED
    BY <2>1, <2>2 DEF Backed, Explained
<1>3. CASE l.phase # "relink"
  <2>1. l.next = Outcome(l.cur, Applied(l))
    BY <1>1, <1>3, Zenon DEF Computed
  <2>2. l.next.state = StateFor(Applied(l).type) /\ l.next.req = Applied(l).req
    BY <2>1 DEF Outcome
  <2>3. CASE l.phase = "lock"
    <3>1. Applied(l).type = "locked"
      BY <2>3 DEF Applied, Message
    <3>2. l.next.state = "locked"
      BY <2>2, <3>1 DEF StateFor
    <3> QED
      BY <3>2 DEF Backed
  <2>4. CASE l.phase = "plain"
    <3>1. Applied(l) = l.msg /\ l.msg.type \in {"locked", "unlocked"}
      BY <2>4, Zenon DEF Applied, LocalOK
    <3>2. \/ l.next.state = "locked"
          \/ l.next.state = "active" /\ l.msg.type = "unlocked"
      BY <2>2, <3>1 DEF StateFor
    <3> QED
      BY <2>2, <3>1, <3>2 DEF Backed, Explained
  <2>5. CASE l.phase \in {"org", "sub"}
    <3>1. Applied(l) = l.msg /\ l.msg.type = "erase"
      BY <2>5, Zenon DEF Applied, LocalOK
    <3>2. l.next.state = "erased"
      BY <2>2, <3>1 DEF StateFor
    <3> QED
      BY <2>2, <2>5, <3>1, <3>2 DEF Backed
  <2> QED
    BY <1>1, <1>3, <2>3, <2>4, <2>5
<1> QED
  BY <1>2, <1>3

\* A step of a consumer keeps what it has earned.
LEMMA EarnedStep ==
    ASSUME TypeOK, Shapes, TypeOK', Shapes', Evidence, [Next]_vars, NEW p \in Procs
    PROVE  Earned(cons'[p], purged', sent')
<1> DEFINE l == cons[p]
           n == cons'[p]
           Goal == Earned(n, purged', sent')
<1>g. purged \subseteq purged' /\ sent \subseteq sent'
  BY Grows
<1>e. Earned(l, purged', sent')
  BY <1>g, BackedGrows, Zenon DEF Evidence
<1>p. l.phase \in {"org", "sub"} => l.msg.req \in purged'
  BY <1>e, Zenon DEF Earned
<1>t. \A k \in Keys : table[k] # None => Backed(table[k], purged', sent')
  BY <1>g, BackedGrows, Zenon DEF Evidence
<1>n. n \in Locals /\ LocalOK(n) /\ (n.msg # None => n.msg \in sent' /\ n.msg \in Message)
  BY Zenon DEF TypeOK, Shapes
<1>1. ASSUME SamePhase(l, n), n.pc \notin {"put", "ack"} PROVE Goal
  BY <1>1, <1>p, Zenon DEF SamePhase, Earned
<1>2. ASSUME n.phase = "none", n.pc \notin {"put", "ack"} PROVE Goal
  BY <1>2 DEF Earned
<1>3. ASSUME NEW todo, Tombstones(l, todo, n), l.msg.req \in purged' PROVE Goal
  <2>1. n.msg = l.msg /\ n.pc = "get"
    BY <1>3, Zenon DEF Tombstones
  <2> QED
    BY <1>3, <2>1, Zenon DEF Earned
<1>4. ASSUME n.pc = "ack", n.phase = "none", n.out = "done", n.msg = l.msg,
             Explained(l.msg.req, purged', sent')
      PROVE  Goal
  BY <1>4 DEF Earned
<1>5. ASSUME NEW rec, Follows(l, rec, n), l.phase # "none",
             /\ l.phase = "lock" /\ rec.state = "active" /\ rec.req = l.msg.req
             => Explained(l.msg.req, purged', sent')
      PROVE  Goal
  <2>1. CASE n.pc \in {"idle", "delete", "purge"} /\ n.phase = "none"
    BY <1>2, <2>1
  <2>2. CASE /\ l.phase = "lock" /\ rec.state = "active" /\ rec.req = l.msg.req
             /\ n.pc = "ack" /\ n.phase = "none" /\ n.out = "done"
    <3>1. n.msg = l.msg
      BY <1>5, <2>2, FollowsSame
    <3> QED
      BY <1>4, <1>5, <2>2, <3>1, Zenon
  <2>3. CASE l.phase = "org" /\ Tombstones(l, l.todo, n)
    BY <1>3, <1>p, <2>3
  <2>4. CASE l.phase = "sub" /\ n.pc = "ack" /\ n.phase = "none" /\ n.out = "done"
    <3>1. n.msg = l.msg
      BY <1>5, <2>4, FollowsSame
    <3>2. Explained(l.msg.req, purged', sent')
      BY <1>p, <2>4, Zenon DEF Explained
    <3> QED
      BY <1>4, <2>4, <3>1, <3>2, Zenon
  <2> QED
    BY <1>5, <2>1, <2>2, <2>3, <2>4, Zenon DEF Follows
<1>6. CASE Reads(p, l, n)
  <2>0. l \in Locals /\ LocalOK(l) /\ l.msg \in Message /\ l.key \in Keys /\ l.phase # "none"
    BY <1>6, Holding, Zenon DEF Reads, LocalOK
  <2>1. CASE SamePhase(l, n) /\ n.pc = "put" /\ n.cur = table[l.key]
    <3>1. n.phase \in {"org", "sub"} => n.msg.req \in purged'
      BY <1>p, <2>1 DEF SamePhase
    <3>2. n.cur # None => Backed(n.cur, purged', sent')
      BY <1>t, <2>0, <2>1, Zenon
    <3>3. n.msg \in sent' /\ n.msg \in Message
      BY <1>n, <2>0, <2>1, ErasureAssumption, Zenon DEF SamePhase
    <3>4. Backed(n.next, purged', sent')
      BY <1>n, <2>1, <3>1, <3>2, <3>3, ComputedBacked, Zenon
    <3> QED
      BY <2>1, <3>1, <3>2, <3>4, Zenon DEF Earned
  <2>2. CASE Follows(l, Prev(table[l.key]), n)
    <3> DEFINE rec == Prev(table[l.key])
    <3>1. /\ l.phase = "lock" /\ rec.state = "active" /\ rec.req = l.msg.req
          => Explained(l.msg.req, purged', sent')
      <4> SUFFICES ASSUME rec.state = "active", rec.req = l.msg.req
                   PROVE  Explained(l.msg.req, purged', sent')
        OBVIOUS
      <4>1. table[l.key] # None
        BY <2>0, StateAssumption, Zenon DEF Prev, Message
      <4>2. rec = table[l.key] /\ Backed(table[l.key], purged', sent')
        BY <1>t, <2>0, <4>1, Zenon DEF Prev
      <4> QED
        BY <4>2, Zenon DEF Backed
    <3> QED
      BY <1>5, <2>0, <2>2, <3>1, Zenon
  <2>3. CASE n.pc = "delete" /\ n.phase = "none"
    BY <1>2, <2>3
  <2> QED
    BY <1>6, <2>1, <2>2, <2>3, Zenon DEF Reads, AfterRead
<1>7. CASE Puts(l, n)
  BY <1>1, <1>7, Zenon DEF Puts, AfterPut
<1>8. CASE Settles(l, n)
  <2>0. LocalOK(l) /\ l.msg \in Message /\ l.phase # "none" /\ l.pc = "settle"
    BY <1>8, Holding, Zenon DEF Settles, LocalOK
  <2>1. CASE n.pc \in {"idle", "delete"} /\ n.phase = "none"
    BY <1>2, <2>1
  <2>2. CASE SamePhase(l, n) /\ n.pc = "get"
    BY <1>1, <2>2
  <2>3. CASE Follows(l, l.next, n)
    <3>1. l.phase = "lock" => l.next.state = "locked"
      <4> SUFFICES ASSUME l.phase = "lock" PROVE l.next.state = "locked"
        OBVIOUS
      <4>1. l.next.state = StateFor(Applied(l).type)
        BY <2>0, Zenon DEF LocalOK
      <4>2. Applied(l).type = "locked"
        BY <2>0 DEF Applied, Message
      <4> QED
        BY <4>1, <4>2 DEF StateFor
    <3> QED
      BY <1>5, <2>0, <2>3, <3>1, Zenon
  <2> QED
    BY <1>8, <2>1, <2>2, <2>3, Zenon DEF Settles, AfterSettle
<1>9. CASE Purges(l, n)
  <2>1. CASE l.msg.req \in purged' /\ Tombstones(l, l.msg.orgs, n)
    BY <1>3, <2>1, Zenon
  <2>2. CASE n.pc = "ack" /\ n.out = "blocked" /\ n.phase = "none"
    BY <2>2, Zenon DEF Earned
  <2> QED
    BY <1>9, <2>1, <2>2, Zenon DEF Purges
<1>10. CASE Starts(n)
  BY <1>10, Zenon DEF Starts, Earned
<1>11. CASE n = l
  BY <1>e, <1>11, Zenon
<1> QED
  BY <1>6, <1>7, <1>8, <1>9, <1>10, <1>11, ConsMoves, Zenon

\* A request inside Clear has read a tombstone and keeps its request.
LEMMA ServeMoves ==
    ASSUME TypeOK, [Next]_vars, NEW p \in Procs, serve'[p].pc = "clear"
    PROVE  \/ serve'[p] = serve[p]
           \/ /\ table[Sub] # None /\ table[Sub].state = "erased"
              /\ serve'[p].next.state = "active"
              /\ serve'[p].next.req = table[Sub].req
<1>s. serve \in [Procs -> Request]
  BY DEF TypeOK
<1>1. CASE \E q \in Servers : Serve(q)
  <2>1. PICK q \in Servers : Serve(q)
    BY <1>1
  <2>2. q \in Procs
    BY ErasureAssumption
  <2>3. CASE BlockedRead(q) \/ BlockedSet(q) \/ ClearPut(q) \/ ClearSettle(q)
    <3>1. PICK r : serve' = [serve EXCEPT ![q] = r] /\ r.pc # "clear"
      BY <1>s, <2>2, <2>3
         DEF BlockedRead, BlockedSet, ClearPut, ClearSettle, NoRequest, Request
    <3> QED
      BY <1>s, <3>1
  <2>4. CASE Forget(q)
    BY <2>4 DEF Forget
  <2>5. CASE ClearRead(q)
    <3> DEFINE r == [pc |-> "clear", cur |-> table[Sub],
                     next |-> Reopened(table[Sub], MaxOf(table[Sub].seq, clock))]
    <3>1. /\ table[Sub] # None /\ table[Sub].state = "erased"
          /\ serve' = [serve EXCEPT ![q] = r]
      BY <2>5, Zenon DEF ClearRead
    <3>2. r.next.state = "active" /\ r.next.req = table[Sub].req
      BY Zenon DEF Reopened
    <3> HIDE DEF r
    <3> QED
      BY <1>s, <3>1, <3>2
  <2> QED
    BY <2>1, <2>3, <2>4, <2>5, Zenon DEF Serve
<1>2. CASE \E q \in Procs : Break(q)
  <2>1. PICK q \in Procs : Break(q)
    BY <1>2
  <2>2. CASE PutFault(q) \/ AckLost(q) \/ Fail(q)
    BY <2>2, Zenon DEF PutFault, AckLost, Fail
  <2>3. CASE ClearFault(q) \/ Crash(q)
    <3>1. PICK r : serve' = [serve EXCEPT ![q] = r] /\ r.pc # "clear"
      BY <1>s, <2>3 DEF ClearFault, Crash, NoRequest, Request
    <3> QED
      BY <1>s, <3>1
  <2> QED
    BY <2>1, <2>2, <2>3, Zenon DEF Break
<1>3. CASE \E q \in Procs : Consume(q)
  BY <1>3, Zenon DEF Consume, Get, RelinkGet, Put, Settle, Purge, Ack, Delete
<1>4. CASE \/ \E s \in Sends : Publish(s)
           \/ \E q \in Procs, m \in queue : Receive(q, m)
           \/ \E k \in Keys : Expire(k)
           \/ UNCHANGED vars
  BY <1>4, Zenon DEF Publish, Receive, Expire, vars
<1> QED
  BY <1>1, <1>2, <1>3, <1>4, Zenon DEF Next

\* Acks come from consumers about to ack.
LEMMA AckMoves ==
    ASSUME [Next]_vars, NEW a \in acks'
    PROVE  \/ a \in acks
           \/ \E p \in Procs : /\ cons[p].pc = "ack"
                               /\ a = [req |-> cons[p].msg.req, result |-> cons[p].out]
<1>1. CASE \E q \in Servers : Serve(q)
  BY <1>1, Zenon DEF Serve, BlockedRead, BlockedSet, Forget, ClearRead, ClearPut,
                     ClearSettle, effects
<1>2. CASE \E q \in Procs : Break(q)
  BY <1>2, Zenon DEF Break, PutFault, AckLost, Fail, ClearFault, Crash, effects
<1>3. CASE \E q \in Procs : Consume(q)
  BY <1>3, Zenon DEF Consume, Get, RelinkGet, Put, Settle, Purge, Ack, Delete, effects
<1>4. CASE \/ \E s \in Sends : Publish(s)
           \/ \E q \in Procs, m \in queue : Receive(q, m)
           \/ \E k \in Keys : Expire(k)
           \/ UNCHANGED vars
  BY <1>4, Zenon DEF Publish, Receive, Expire, vars, effects
<1> QED
  BY <1>1, <1>2, <1>3, <1>4, Zenon DEF Next

\* Evidence through every step.
LEMMA EvidenceStep ==
    ASSUME TypeOK, Shapes, TypeOK', Shapes', Versions, Evidence, [Next]_vars
    PROVE  Evidence'
<1>g. purged \subseteq purged' /\ sent \subseteq sent'
  BY Grows
<1>t. table \in [Keys -> RecordOrNone] /\ Sub \in Keys
  BY DEF TypeOK, Keys
<1>b. \A k \in Keys : table[k] # None => Backed(table[k], purged', sent')
  BY <1>g, BackedGrows, Zenon DEF Evidence
<1>c. \A p \in Procs : serve[p].pc = "clear" => Backed(serve[p].next, purged', sent')
  <2>1. \A p \in Procs : serve[p].pc = "clear" => Backed(serve[p].next, purged, sent)
    BY Zenon DEF Evidence
  <2>2. \A rec : Backed(rec, purged, sent) => Backed(rec, purged', sent')
    BY <1>g, BackedGrows, Zenon
  <2> QED
    BY <2>1, <2>2, Zenon
<1>1. \A k \in Keys : table'[k] # None => Backed(table'[k], purged', sent')
  <2>1. ASSUME NEW k \in Keys, NEW x, table' = [table EXCEPT ![k] = x],
               x # None => Backed(x, purged', sent')
        PROVE  \A j \in Keys : table'[j] # None => Backed(table'[j], purged', sent')
    BY <1>b, <1>t, <2>1, Zenon
  <2>2. ASSUME NEW p \in Procs, cons[p].pc = "put",
               Write(cons[p].key, cons[p].cur, cons[p].next)
        PROVE  \A j \in Keys : table'[j] # None => Backed(table'[j], purged', sent')
    <3>1. /\ cons[p].key \in Keys
          /\ table' = [table EXCEPT ![cons[p].key] = cons[p].next]
      BY <2>2, ConsumerWrite, Zenon
    <3>2. Backed(cons[p].next, purged', sent')
      BY <1>g, <2>2, BackedGrows, Zenon DEF Evidence, Earned
    <3> QED
      BY <2>1, <3>1, <3>2, Zenon
  <2>3. ASSUME NEW p \in Procs, serve[p].pc = "clear",
               Write(Sub, serve[p].cur, serve[p].next)
        PROVE  \A j \in Keys : table'[j] # None => Backed(table'[j], purged', sent')
    <3>1. table' = [table EXCEPT ![Sub] = serve[p].next]
      BY <2>3, ClearWrite, Zenon
    <3>2. Backed(serve[p].next, purged', sent')
      BY <1>c, <2>3
    <3> QED
      BY <1>t, <2>1, <3>1, <3>2, Zenon
  <2>4. ASSUME NEW k \in Keys, Expire(k)
        PROVE  \A j \in Keys : table'[j] # None => Backed(table'[j], purged', sent')
    BY <2>1, <2>4, Zenon DEF Expire
  <2>5. CASE UNCHANGED table
    BY <1>b, <2>5, Zenon
  <2> QED
    BY <2>2, <2>3, <2>4, <2>5, TableMoves, Zenon
<1>2. \A p \in Procs : Earned(cons'[p], purged', sent')
  BY EarnedStep
<1>3. ASSUME NEW p \in Procs, serve'[p].pc = "clear"
      PROVE  Backed(serve'[p].next, purged', sent')
  <2>1. CASE serve'[p] = serve[p]
    BY <1>3, <1>c, <2>1
  <2>2. CASE /\ table[Sub] # None /\ table[Sub].state = "erased"
             /\ serve'[p].next.state = "active"
             /\ serve'[p].next.req = table[Sub].req
    <3>1. table[Sub].req \in purged'
      BY <1>b, <1>t, <2>2, Zenon DEF Backed
    <3> QED
      BY <2>2, <3>1, Zenon DEF Backed, Explained
  <2> QED
    BY <1>3, <2>1, <2>2, ServeMoves, Zenon
<1>4. DoneIsExplained'
  <2> SUFFICES ASSUME NEW r \in Requests, [req |-> r, result |-> "done"] \in acks'
               PROVE  Explained(r, purged', sent')
    BY DEF DoneIsExplained, Explained
  <2>1. CASE [req |-> r, result |-> "done"] \in acks
    <3>1. Explained(r, purged, sent)
      BY <2>1, Zenon DEF Evidence, DoneIsExplained, Explained
    <3> QED
      BY <1>g, <3>1, BackedGrows, Zenon
  <2>2. ASSUME NEW p \in Procs, cons[p].pc = "ack",
               [req |-> r, result |-> "done"] = [req |-> cons[p].msg.req, result |-> cons[p].out]
        PROVE  Explained(r, purged', sent')
    <3>1. r = cons[p].msg.req /\ cons[p].out = "done"
      BY <2>2, Zenon
    <3>2. Explained(r, purged, sent)
      BY <2>2, <3>1, Zenon DEF Evidence, Earned
    <3> QED
      BY <1>g, <3>2, BackedGrows, Zenon
  <2> QED
    BY <2>1, <2>2, AckMoves, Zenon
<1> QED
  BY <1>1, <1>2, <1>3, <1>4, Zenon DEF Evidence

\* Evidence holds in every reachable state.
THEOREM EvidenceCorrect == Spec => []Evidence
<1>1. Init => Evidence
  <2> SUFFICES ASSUME Init PROVE Evidence
    OBVIOUS
  <2>1. \A p \in Procs : Earned(cons[p], purged, sent)
    <3>1. Earned(Idle, purged, sent)
      BY DEF Earned, Idle, At
    <3> QED
      BY <3>1 DEF Init
  <2>2. \A p \in Procs : serve[p].pc # "clear"
    BY DEF Init, NoRequest
  <2> QED
    BY <2>1, <2>2 DEF Init, Evidence, DoneIsExplained
<1>2. TypeOK /\ Shapes /\ TypeOK' /\ Shapes' /\ Versions /\ Evidence /\ [Next]_vars
      => Evidence'
  BY EvidenceStep
<1> QED
  BY <1>1, <1>2, TypeCorrect, VersionsCorrect, PTL DEF Spec

\* Every done ack names a request that was purged, or that an unlock called off.
THEOREM DoneAlwaysExplained == Spec => []DoneIsExplained
<1>1. Evidence => DoneIsExplained
  BY DEF Evidence
<1> QED
  BY <1>1, EvidenceCorrect, PTL

-----------------------------------------------------------------------------
(* Organizations are tombstoned before their user.                         *)

\* What a consumer's landed put writes, by its phase.
LEMMA WrittenState ==
    ASSUME NEW l \in Locals, LocalOK(l), l.pc = "put", l.msg \in Message
    PROVE  /\ l.phase = "org" => l.next.state = "erased"
           /\ l.next.state = "erased" => l.phase \in {"org", "sub"}
           /\ l.phase = "sub" => l.next.req = l.msg.req /\ l.msg.type = "erase"
<1>1. Computed(l) /\ l.phase \in {"plain", "relink", "lock", "org", "sub"}
  BY Zenon DEF LocalOK, Locals, Phases
<1>2. CASE l.phase = "relink"
  <2>1. l.next = Reopened(l.cur, l.msg.seq)
    BY <1>1, <1>2, Zenon DEF Computed
  <2>2. l.next.state = "active"
    BY <2>1 DEF Reopened
  <2> QED
    BY <1>2, <2>2, Zenon
<1>3. CASE l.phase # "relink"
  <2>1. l.next = Outcome(l.cur, Applied(l))
    BY <1>1, <1>3, Zenon DEF Computed
  <2>2. l.next.state = StateFor(Applied(l).type) /\ l.next.req = Applied(l).req
    BY <2>1 DEF Outcome
  <2>3. CASE l.phase = "lock"
    <3>1. Applied(l).type = "locked"
      BY <2>3 DEF Applied, Message
    <3> QED
      BY <2>2, <2>3, <3>1 DEF StateFor
  <2>4. CASE l.phase = "plain"
    <3>1. Applied(l) = l.msg /\ l.msg.type \in {"locked", "unlocked"}
      BY <2>4, Zenon DEF Applied, LocalOK
    <3> QED
      BY <2>2, <2>4, <3>1 DEF StateFor
  <2>5. CASE l.phase \in {"org", "sub"}
    <3>1. Applied(l) = l.msg /\ l.msg.type = "erase"
      BY <2>5, Zenon DEF Applied, LocalOK
    <3> QED
      BY <2>2, <2>5, <3>1 DEF StateFor
  <2> QED
    BY <1>1, <1>3, <2>3, <2>4, <2>5, Zenon
<1> QED
  BY <1>2, <1>3

\* With tombstones kept forever, an organization's tombstone stays.
LEMMA OrgStays ==
    ASSUME TypeOK, Shapes, Versions, [Next]_vars, ~ErasedExpires, NEW o \in Orgs,
           Erased(table, o)
    PROVE  Erased(table', o)
<1>1. o \in Keys /\ o # Sub
  BY ErasureAssumption DEF Keys
<1>2. table'[o] = table[o]
  BY <1>1, TombstoneStep, Zenon DEF TombstonesHold, Erased
<1> QED
  BY <1>2 DEF Erased

\* Organizations are never anything but tombstoned.
LEMMA OrgsOnlyErased ==
    ASSUME TypeOK, Shapes, Versions, [Next]_vars,
           \A o \in Orgs : table[o] # None => Erased(table, o)
    PROVE  \A o \in Orgs : table'[o] # None => Erased(table', o)
<1>t. table \in [Keys -> RecordOrNone] /\ (\A o \in Orgs : o \in Keys /\ o # Sub)
  BY ErasureAssumption, Zenon DEF TypeOK, Keys
<1>1. ASSUME NEW k \in Keys, NEW x, table' = [table EXCEPT ![k] = x],
             k # Sub /\ x # None => x.state = "erased"
      PROVE  \A o \in Orgs : table'[o] # None => Erased(table', o)
  BY <1>1, <1>t, Zenon DEF Erased
<1>2. ASSUME NEW p \in Procs, cons[p].pc = "put",
             Write(cons[p].key, cons[p].cur, cons[p].next)
      PROVE  \A o \in Orgs : table'[o] # None => Erased(table', o)
  <2>1. /\ cons[p].key \in Keys
        /\ table' = [table EXCEPT ![cons[p].key] = cons[p].next]
    BY <1>2, ConsumerWrite, Zenon
  <2>2. /\ cons[p] \in Locals /\ LocalOK(cons[p]) /\ cons[p].msg \in Message
        /\ cons[p].key # Sub => cons[p].phase = "org"
    BY <1>2, Holding, Zenon DEF LocalOK
  <2>3. cons[p].key # Sub => cons[p].next.state = "erased"
    BY <1>2, <2>2, WrittenState, Zenon
  <2> QED
    BY <1>1, <2>1, <2>3, Zenon
<1>3. ASSUME NEW p \in Procs, serve[p].pc = "clear",
             Write(Sub, serve[p].cur, serve[p].next)
      PROVE  \A o \in Orgs : table'[o] # None => Erased(table', o)
  <2>1. table' = [table EXCEPT ![Sub] = serve[p].next] /\ Sub \in Keys
    BY <1>3, ClearWrite, Zenon DEF Keys
  <2> QED
    BY <1>1, <2>1, Zenon
<1>4. ASSUME NEW k \in Keys, Expire(k)
      PROVE  \A o \in Orgs : table'[o] # None => Erased(table', o)
  BY <1>1, <1>4, Zenon DEF Expire
<1>5. CASE UNCHANGED table
  BY <1>5, Zenon DEF Erased
<1> QED
  BY <1>2, <1>3, <1>4, <1>5, TableMoves, Zenon

\* A step of a consumer keeps the tombstones its phase stands for.
LEMMA TombstonedStep ==
    ASSUME TypeOK, Shapes, TypeOK', Shapes', Versions, OrgsDone, ~ErasedExpires,
           [Next]_vars, NEW p \in Procs
    PROVE  Tombstoned(cons'[p], table')
<1> DEFINE l == cons[p]
           n == cons'[p]
<1>e. \A o \in Orgs : Erased(table, o) => Erased(table', o)
  BY OrgStays
<1>o. l.phase \in {"org", "sub"} \/ l.pc = "purge" =>
        /\ l.msg \in Message /\ l.msg.orgs \subseteq Orgs
        /\ l.phase = "org" => l.key \in Orgs
  <2>1. l.phase \in {"org", "sub"} \/ l.pc = "purge" => l.pc # "idle"
    BY Holding, Zenon DEF LocalOK
  <2> QED
    BY <2>1, Holding, Zenon DEF Message, LocalOK
<1>l. Tombstoned(l, table)
  BY Zenon DEF OrgsDone
<1>1. l.phase = "org" => \A o \in l.msg.orgs : o \in l.todo \/ o = l.key \/ Erased(table', o)
  BY <1>e, <1>l, <1>o, Zenon DEF Tombstoned
<1>2. l.phase = "sub" => \A o \in l.msg.orgs : Erased(table', o)
  BY <1>e, <1>l, <1>o, Zenon DEF Tombstoned
<1>3. ASSUME SamePhase(l, n), n.phase = "org" /\ n.pc = "settle" /\ n.out = "ok"
                              => Erased(table', n.key)
      PROVE  Tombstoned(n, table')
  BY <1>1, <1>2, <1>3, Zenon DEF SamePhase, Tombstoned
<1>4. ASSUME n.phase \notin {"org", "sub"} PROVE Tombstoned(n, table')
  BY <1>4, Zenon DEF Tombstoned
<1>5. ASSUME NEW todo, Tombstones(l, todo, n),
             \A o \in l.msg.orgs : o \in todo \/ Erased(table', o)
      PROVE  Tombstoned(n, table')
  <2>1. n.msg = l.msg /\ n.pc = "get"
    BY <1>5, Zenon DEF Tombstones
  <2>2. CASE n.phase = "sub" /\ todo = {}
    BY <1>5, <2>1, <2>2, Zenon DEF Tombstoned
  <2>3. CASE n.phase = "org" /\ n.key \in todo /\ n.todo = todo \ {n.key}
    BY <1>5, <2>1, <2>3, Zenon DEF Tombstoned
  <2> QED
    BY <1>5, <2>2, <2>3, Zenon DEF Tombstones
<1>6. ASSUME NEW rec, Follows(l, rec, n), l.phase = "org" => Erased(table', l.key)
      PROVE  Tombstoned(n, table')
  <2>1. CASE n.phase = "none"
    BY <1>4, <2>1
  <2>2. CASE l.phase = "org" /\ Tombstones(l, l.todo, n)
    <3>1. \A o \in l.msg.orgs : o \in l.todo \/ Erased(table', o)
      BY <1>1, <1>6, <2>2, Zenon
    <3> QED
      BY <1>5, <2>2, <3>1, Zenon
  <2> QED
    BY <1>6, <2>1, <2>2, Zenon DEF Follows
<1>7. CASE Reads(p, l, n)
  <2>1. CASE SamePhase(l, n) /\ n.pc = "put"
    BY <1>3, <2>1, Zenon
  <2>2. CASE /\ ~Accepts(table[l.key], Applied(l))
             /\ Follows(l, Prev(table[l.key]), n)
    <3>1. ASSUME l.phase = "org" PROVE Erased(table', l.key)
      <4>1. Applied(l) = l.msg /\ l.msg.type = "erase" /\ l.key \in Orgs
        BY <1>o, <3>1, Holding, Zenon DEF Applied, LocalOK
      <4>2. table[l.key] # None
        BY <2>2, <4>1, Zenon DEF Accepts, Prev
      <4> QED
        BY <1>e, <4>1, <4>2, Zenon DEF OrgsDone
    <3> QED
      BY <1>6, <2>2, <3>1, Zenon
  <2>3. CASE n.phase = "none"
    BY <1>4, <2>3, Zenon
  <2> QED
    BY <1>7, <2>1, <2>2, <2>3, Zenon DEF Reads, AfterRead
<1>8. CASE Puts(l, n)
  <2>1. SamePhase(l, n) /\ l.pc = "put" /\ (n.out = "ok" => Write(l.key, l.cur, l.next))
    BY <1>8, Zenon DEF Puts, AfterPut
  <2>2. ASSUME n.phase = "org", n.out = "ok" PROVE Erased(table', n.key)
    <3>1. /\ l.phase = "org" /\ n.key = l.key /\ l.next \in Record
          /\ table' = [table EXCEPT ![l.key] = l.next] /\ l.key \in Keys
      BY <2>1, <2>2, ConsumerWrite, Zenon DEF SamePhase
    <3>2. l.next.state = "erased" /\ l.next # None
      BY <2>1, <3>1, Holding, WrittenState, StateAssumption, Zenon
    <3>3. table'[l.key] = l.next
      BY <3>1, Zenon DEF TypeOK
    <3> QED
      BY <3>1, <3>2, <3>3 DEF Erased
  <2> QED
    BY <1>3, <2>1, <2>2, Zenon
<1>9. CASE Settles(l, n)
  <2>1. CASE n.phase = "none"
    BY <1>4, <2>1
  <2>2. CASE SamePhase(l, n) /\ n.pc = "get"
    BY <1>3, <2>2, Zenon
  <2>3. CASE l.out = "ok" /\ Follows(l, l.next, n)
    <3>1. l.phase = "org" => Erased(table', l.key)
      BY <1>9, <1>e, <1>l, <1>o, <2>3, Zenon DEF Settles, Tombstoned
    <3> QED
      BY <1>6, <2>3, <3>1, Zenon
  <2> QED
    BY <1>9, <2>1, <2>2, <2>3, Zenon DEF Settles, AfterSettle
<1>10. CASE Purges(l, n)
  <2>1. CASE Tombstones(l, l.msg.orgs, n)
    BY <1>5, <2>1, Zenon
  <2>2. CASE n.phase = "none"
    BY <1>4, <2>2
  <2> QED
    BY <1>10, <2>1, <2>2, Zenon DEF Purges
<1>11. CASE Starts(n)
  BY <1>11, Zenon DEF Starts, Tombstoned
<1>12. CASE n = l
  <2>1. l.phase = "org" /\ l.pc = "settle" /\ l.out = "ok" => Erased(table', l.key)
    BY <1>e, <1>l, <1>o, Zenon DEF Tombstoned
  <2> QED
    BY <1>1, <1>12, <1>2, <2>1, Zenon DEF Tombstoned
<1> QED
  BY <1>7, <1>8, <1>9, <1>10, <1>11, <1>12, ConsMoves, Zenon

\* A user's tombstone is written after those of its organizations.
LEMMA OrgsBeforeUserStep ==
    ASSUME TypeOK, Shapes, Versions, OrgsDone, ~ErasedExpires, [Next]_vars
    PROVE  OrgsBeforeUser'
<1> SUFFICES ASSUME table'[Sub] # None, table'[Sub].state = "erased"
             PROVE  \E m \in sent' : /\ m.type = "erase" /\ m.req = table'[Sub].req
                                    /\ \A o \in m.orgs : Erased(table', o)
  BY DEF OrgsBeforeUser, Erases, Erased
<1>e. \A o \in Orgs : Erased(table, o) => Erased(table', o)
  BY OrgStays
<1>t. table \in [Keys -> RecordOrNone] /\ Sub \in Keys
  BY Zenon DEF TypeOK, Keys
<1>m. \A m \in sent : m.orgs \subseteq Orgs
  BY Zenon DEF TypeOK, Message
<1>g. sent \subseteq sent'
  BY Grows
<1>1. CASE table'[Sub] = table[Sub]
  <2>1. PICK m \in sent : /\ m.type = "erase" /\ m.req = table[Sub].req
                         /\ \A o \in m.orgs : Erased(table, o)
    BY <1>1, Zenon DEF OrgsDone, OrgsBeforeUser, Erases, Erased
  <2> QED
    BY <1>1, <1>e, <1>g, <1>m, <2>1, Zenon
<1>2. CASE table'[Sub] # table[Sub]
  <2>1. ASSUME NEW p \in Procs, cons[p].pc = "put",
               Write(cons[p].key, cons[p].cur, cons[p].next)
        PROVE  \E m \in sent' : /\ m.type = "erase" /\ m.req = table'[Sub].req
                                /\ \A o \in m.orgs : Erased(table', o)
    <3> DEFINE l == cons[p]
    <3>1. table' = [table EXCEPT ![l.key] = l.next] /\ l.key \in Keys
      BY <2>1, ConsumerWrite, Zenon
    <3>2. l.key = Sub /\ table'[Sub] = l.next
      BY <1>2, <1>t, <3>1, Zenon
    <3>3. /\ l \in Locals /\ LocalOK(l) /\ l.msg \in Message /\ l.msg \in sent
          /\ l.phase # "org"
      BY <2>1, <3>2, Holding, ErasureAssumption, Zenon DEF LocalOK, Message
    <3>4. l.phase = "sub" /\ l.next.req = l.msg.req /\ l.msg.type = "erase"
      BY <2>1, <3>2, <3>3, WrittenState, Zenon
    <3>5. \A o \in l.msg.orgs : Erased(table', o)
      BY <1>e, <1>m, <3>3, <3>4, Zenon DEF OrgsDone, Tombstoned
    <3> QED
      BY <1>g, <3>2, <3>3, <3>4, <3>5, Zenon
  <2>2. ASSUME NEW p \in Procs, serve[p].pc = "clear",
               Write(Sub, serve[p].cur, serve[p].next)
        PROVE  FALSE
    <3>1. table' = [table EXCEPT ![Sub] = serve[p].next] /\ serve[p].next.state = "active"
      BY <2>2, ClearWrite, ClearNewer, Zenon
    <3> QED
      BY <1>t, <3>1, Zenon
  <2>3. ASSUME NEW k \in Keys, Expire(k) PROVE FALSE
    <3>1. table' = [table EXCEPT ![k] = None]
      BY <2>3, Zenon DEF Expire
    <3> QED
      BY <1>2, <1>t, <3>1
  <2> QED
    BY <1>2, <2>1, <2>2, <2>3, TableMoves, Zenon
<1> QED
  BY <1>1, <1>2, Zenon

\* OrgsDone holds in every reachable state.
THEOREM OrgsAlwaysDone == Spec => []OrgsDone
<1>1. Init => OrgsDone
  <2> SUFFICES ASSUME Init PROVE OrgsDone
    OBVIOUS
  <2>1. \A k \in Keys : table[k] = None
    BY DEF Init
  <2>2. Sub \in Keys /\ Orgs \subseteq Keys
    BY DEF Keys
  <2>3. \A p \in Procs : Tombstoned(cons[p], table)
    <3>1. Tombstoned(Idle, table)
      BY Zenon DEF Tombstoned, Idle, At
    <3> QED
      BY <3>1 DEF Init
  <2> QED
    BY <2>1, <2>2, <2>3, Zenon DEF OrgsDone, OrgsBeforeUser
<1>2. TypeOK /\ Shapes /\ TypeOK' /\ Shapes' /\ Versions /\ OrgsDone /\ [Next]_vars
      => OrgsDone'
  <2> SUFFICES ASSUME TypeOK, Shapes, TypeOK', Shapes', Versions, OrgsDone, [Next]_vars,
                      ~ErasedExpires
               PROVE  /\ \A o \in Orgs : table'[o] # None => Erased(table', o)
                      /\ \A p \in Procs : Tombstoned(cons'[p], table')
                      /\ OrgsBeforeUser'
    BY Zenon DEF OrgsDone
  <2>1. \A o \in Orgs : table'[o] # None => Erased(table', o)
    BY OrgsOnlyErased, Zenon DEF OrgsDone
  <2>2. \A p \in Procs : Tombstoned(cons'[p], table')
    BY TombstonedStep, Zenon
  <2>3. OrgsBeforeUser'
    BY OrgsBeforeUserStep, Zenon
  <2> QED
    BY <2>1, <2>2, <2>3
<1> QED
  BY <1>1, <1>2, TypeCorrect, VersionsCorrect, PTL DEF Spec

\* Whoever sees the user's tombstone finds those of the organizations.
THEOREM OrgsAlwaysBeforeUser == Spec => []OrgsBeforeUser
<1>1. OrgsDone => OrgsBeforeUser
  BY Zenon DEF OrgsDone, OrgsBeforeUser
<1> QED
  BY <1>1, OrgsAlwaysDone, PTL

-----------------------------------------------------------------------------
(* The table looks as if each message were applied at once.                *)

\* The instance's copies of the state machine are the module's own.
LEMMA SameMachine ==
    /\ \A cur, m : Table!Accepts(cur, m) = Accepts(cur, m)
    /\ \A cur, m : Table!Outcome(cur, m) = Outcome(cur, m)
    /\ \A cur, m : Table!Relinks(cur, m) = Relinks(cur, m)
    /\ \A cur, x : Table!Reopened(cur, x) = Reopened(cur, x)
    /\ \A a, b : Table!MaxOf(a, b) = MaxOf(a, b)
    /\ \A rec : Table!HasTTL(rec) = HasTTL(rec)
<1>1. /\ \A cur : Table!Prev(cur) = Prev(cur)
      /\ \A a, b : Table!MaxOf(a, b) = MaxOf(a, b)
      /\ \A type : Table!StateFor(type) = StateFor(type)
  BY DEF Table!Prev, Prev, Table!MaxOf, MaxOf, Table!StateFor, StateFor
<1>2. \A cur, m : Table!Accepts(cur, m) = Accepts(cur, m)
  BY <1>1 DEF Table!Accepts, Accepts
<1>3. \A cur, m : Table!Outcome(cur, m) = Outcome(cur, m)
  BY <1>1 DEF Table!Outcome, Outcome
<1>4. /\ \A cur, m : Table!Relinks(cur, m) = Relinks(cur, m)
      /\ \A cur, x : Table!Reopened(cur, x) = Reopened(cur, x)
      /\ \A rec : Table!HasTTL(rec) = HasTTL(rec)
  BY DEF Table!Relinks, Relinks, Table!Reopened, Reopened, Table!HasTTL, HasTTL
<1> QED
  BY <1>1, <1>2, <1>3, <1>4, Zenon

\* The clock and the sent messages move only by Publish.
LEMMA ClockMoves ==
    ASSUME [Next]_vars
    PROVE  (\E s \in Sends : Publish(s)) \/ UNCHANGED <<clock, sent>>
<1>1. CASE \E q \in Servers : Serve(q)
  BY <1>1, Zenon DEF Serve, BlockedRead, BlockedSet, Forget, ClearRead, ClearPut,
                     ClearSettle, transport
<1>2. CASE \E q \in Procs : Break(q)
  BY <1>2, Zenon DEF Break, PutFault, AckLost, Fail, ClearFault, Crash, transport
<1>3. CASE \E q \in Procs : Consume(q)
  BY <1>3, Zenon DEF Consume, Get, RelinkGet, Put, Settle, Purge, Ack, Delete, transport
<1>4. CASE \/ \E q \in Procs, m \in queue : Receive(q, m)
           \/ \E k \in Keys : Expire(k)
           \/ UNCHANGED vars
  BY <1>4, Zenon DEF Receive, Expire, vars, transport
<1> QED
  BY <1>1, <1>2, <1>3, <1>4, Zenon DEF Next

\* A consumer's landed put is the application of its message to the record.
LEMMA WriteApplies ==
    ASSUME TypeOK, Shapes, Versions, NEW p \in Procs, cons[p].pc = "put",
           Write(cons[p].key, cons[p].cur, cons[p].next), UNCHANGED <<clock, sent>>
    PROVE  Table!Apply
<1> DEFINE l == cons[p]
           m == l.msg
<1>1. /\ l.key \in Keys /\ Computed(l) /\ l.cur = table[l.key]
      /\ table' = [table EXCEPT ![l.key] = l.next]
  BY ConsumerWrite, Zenon
<1>2. l \in Locals /\ LocalOK(l) /\ m \in Message /\ m \in sent
  BY Holding, Zenon
<1>3. m.targets /\ l.phase \in {"plain", "relink", "lock", "org", "sub"}
  BY <1>2, Zenon DEF LocalOK, Locals, Phases
<1>4. ASSUME NEW t, t \in {m.type, "locked"}, t = m.type \/ m.type = "erase",
             m.type # "relinked", l.key = Sub, Applied(l) = [m EXCEPT !.type = t],
             Accepts(l.cur, Applied(l)), l.next = Outcome(l.cur, Applied(l))
      PROVE  Table!Apply
  <2>1. Table!ApplyUser(m)
    BY <1>1, <1>4, SameMachine, Zenon DEF Table!ApplyUser, Table!Set
  <2> QED
    BY <1>2, <1>3, <2>1, Zenon DEF Table!Apply
<1>s. [m EXCEPT !.type = m.type] = m
  BY <1>2 DEF Message
<1>5. CASE l.phase = "relink"
  <2>1. l.key = Sub /\ m.type = "relinked"
    BY <1>2, <1>5, Zenon DEF LocalOK
  <2>2. Relinks(table[Sub], m) /\ l.next = Reopened(table[Sub], m.seq)
    BY <1>1, <1>5, <2>1, Zenon DEF Computed
  <2>3. Table!Relink(m)
    BY <1>1, <2>1, <2>2, SameMachine, Zenon DEF Table!Relink, Table!Set
  <2> QED
    BY <1>2, <1>3, <2>3, Zenon DEF Table!Apply
<1>6. CASE l.phase \in {"plain", "sub"}
  <2>1. l.key = Sub /\ m.type # "relinked" /\ Applied(l) = m
    BY <1>2, <1>6, Zenon DEF LocalOK, Applied
  <2>2. Accepts(l.cur, Applied(l)) /\ l.next = Outcome(l.cur, Applied(l))
    BY <1>1, <1>6, Zenon DEF Computed
  <2> QED
    BY <1>4, <1>s, <2>1, <2>2
<1>7. CASE l.phase = "lock"
  <2>1. l.key = Sub /\ m.type = "erase" /\ Applied(l) = [m EXCEPT !.type = "locked"]
    BY <1>2, <1>7 DEF LocalOK, Applied
  <2>2. Accepts(l.cur, Applied(l)) /\ l.next = Outcome(l.cur, Applied(l))
    BY <1>1, <1>7, Zenon DEF Computed
  <2> QED
    BY <1>4, <2>1, <2>2
<1>8. CASE l.phase = "org"
  <2>1. l.key \in m.orgs /\ l.key \in Orgs /\ m.type = "erase" /\ Applied(l) = m
    BY <1>2, <1>8 DEF LocalOK, Applied, Message
  <2>2. Accepts(l.cur, m) /\ l.next = Outcome(l.cur, m)
    BY <1>1, <1>8, <2>1, Zenon DEF Computed
  <2>3. Table!ApplyOrg(m, l.key)
    BY <1>1, <2>1, <2>2, SameMachine, Zenon DEF Table!ApplyOrg, Table!Set
  <2> QED
    BY <1>2, <1>3, <2>1, <2>3, Zenon DEF Table!Apply
<1> QED
  BY <1>3, <1>5, <1>6, <1>7, <1>8, Zenon

\* The consumers, their reads, conditional puts, retries, crashes and lost
\* responses, and Clear and the TTL, implement the atomic table.
THEOREM TableImplemented == Spec => ImplementsTable
<1>1. Init => Table!TInit
  BY DEF Init, Table!TInit, Keys
<1>2. TypeOK /\ Shapes /\ Versions /\ [Next]_vars => [Table!TNext]_(Table!tvars)
  <2> SUFFICES ASSUME TypeOK, Shapes, Versions, [Next]_vars
               PROVE  Table!TNext \/ UNCHANGED <<table, clock, sent>>
    BY DEF Table!tvars
  <2>1. CASE \E s \in Sends : Publish(s)
    <3>1. PICK s \in Sends : Publish(s)
      BY <2>1
    <3>2. Table!Publish(s)
      BY <3>1, Zenon DEF Publish, Table!Publish, store
    <3> QED
      BY <3>2 DEF Table!TNext
  <2>2. CASE UNCHANGED <<clock, sent>>
    <3>1. ASSUME NEW p \in Procs, cons[p].pc = "put",
                 Write(cons[p].key, cons[p].cur, cons[p].next)
          PROVE  Table!TNext
      BY <2>2, <3>1, WriteApplies, Zenon DEF Table!TNext
    <3>2. ASSUME NEW p \in Procs, serve[p].pc = "clear",
                 Write(Sub, serve[p].cur, serve[p].next)
          PROVE  Table!TNext
      <4>1. /\ table' = [table EXCEPT ![Sub] = serve[p].next]
            /\ serve[p].cur = table[Sub]
        BY <3>2, ClearWrite, Zenon
      <4>2. PICK now \in 0..clock : serve[p].next = Reopened(table[Sub], MaxOf(table[Sub].seq, now))
        BY <3>2, <4>1, Zenon DEF Shapes, RequestOK
      <4>3. table[Sub] # None /\ table[Sub].state = "erased"
        BY <3>2, <4>1, Zenon DEF Shapes, RequestOK
      <4>4. Table!Clear(now)
        BY <4>1, <4>2, <4>3, SameMachine, Zenon DEF Table!Clear, Table!Set
      <4> QED
        BY <2>2, <4>4 DEF Table!TNext, Table!Apply
    <3>3. ASSUME NEW k \in Keys, Expire(k) PROVE Table!TNext
      <4>1. Table!Expire(k)
        BY <3>3, SameMachine, Zenon DEF Expire, Table!Expire, Table!Set
      <4> QED
        BY <2>2, <4>1 DEF Table!TNext, Table!Apply, Keys
    <3> QED
      BY <2>2, <3>1, <3>2, <3>3, TableMoves, Zenon
  <2> QED
    BY <2>1, <2>2, ClockMoves, Zenon
<1> QED
  BY <1>1, <1>2, TypeCorrect, VersionsCorrect, PTL
     DEF Spec, ImplementsTable, Table!TSpec

-----------------------------------------------------------------------------
(* OnLock runs at most once per move to locked: a hook still to come counts *)
(* as run.                                                                  *)

Pends(l) == l.pc = "settle" /\ l.out = "ok" /\ LocksUser(l.cur, l.next)

\* The consumers whose put moved the user to locked and has not returned.
Pending == {p \in Procs : Pends(cons[p])}

HookInv == hooks + Cardinality(Pending) <= locks

\* A step of one consumer adds or removes that consumer at most.
LEMMA PendingMoves ==
    ASSUME TypeOK, NEW p \in Procs, NEW n, Become(p, n)
    PROVE  /\ Pending' \subseteq Pending \cup {p}
           /\ ~Pends(n) => Pending' \subseteq Pending \ {p}
<1>1. \A q \in Procs : cons'[q] = IF q = p THEN n ELSE cons[q]
  BY ConsAt
<1>2. Pending' = {q \in Procs : Pends(cons'[q])}
  BY Zenon DEF Pending, Pends, LocksUser, Prev
<1> HIDE DEF Pends
<1> QED
  BY <1>1, <1>2 DEF Pending

\* What a landed write does to the number of locks.
LEMMA WriteLocks ==
    ASSUME TypeOK, NEW k, NEW cur, NEW next, Write(k, cur, next)
    PROVE  locks' = IF LocksUser(cur, next) THEN locks + 1 ELSE locks
BY DEF Write, LocksUser, Prev

\* Every step leaves the account alone, counts a lock, or runs a pending hook.
LEMMA HookMoves ==
    ASSUME TypeOK, Shapes, [Next]_vars
    PROVE  \/ hooks' = hooks /\ locks' \in {locks, locks + 1} /\ Pending' \subseteq Pending
           \/ \E p \in Procs : /\ hooks' = hooks /\ locks' = locks + 1
                               /\ Pending' \subseteq Pending \cup {p}
           \/ \E p \in Pending : /\ hooks' = hooks + 1 /\ locks' = locks
                                 /\ Pending' \subseteq Pending \ {p}
<1> DEFINE Same == hooks' = hooks /\ locks' \in {locks, locks + 1} /\ Pending' \subseteq Pending
           Adds == \E p \in Procs : /\ hooks' = hooks /\ locks' = locks + 1
                                    /\ Pending' \subseteq Pending \cup {p}
           Runs == \E p \in Pending : /\ hooks' = hooks + 1 /\ locks' = locks
                                      /\ Pending' \subseteq Pending \ {p}
<1>1. ASSUME cons' = cons, hooks' = hooks, locks' \in {locks, locks + 1} PROVE Same
  BY <1>1, Zenon DEF Pending, Pends, LocksUser, Prev
<1>2. ASSUME NEW p \in Procs, NEW n, Become(p, n), n.pc # "settle", hooks' = hooks, locks' = locks
      PROVE  Same
  <2>1. ~Pends(n)
    BY <1>2, Zenon DEF Pends
  <2> QED
    BY <1>2, <2>1, PendingMoves
<1> HIDE DEF Same
<1>3. ASSUME NEW s \in Sends, Publish(s) PROVE Same
  BY <1>1, <1>3 DEF Publish, store, effects
<1>4. ASSUME NEW p \in Procs, NEW m \in queue, Receive(p, m) PROVE Same
  <2>1. PICK n : /\ Become(p, n)
                 /\ \/ n.pc = "delete" /\ n.phase = "none"
                    \/ n.pc = "get" /\ n.phase \in {"plain", "relink", "lock"}
    BY <1>4, ReceiveStep, Zenon
  <2>2. hooks' = hooks /\ locks' = locks
    BY <1>4, Zenon DEF Receive, store, effects
  <2> QED
    BY <1>2, <2>1, <2>2
<1>5. ASSUME NEW p \in Procs, Get(p) \/ RelinkGet(p) PROVE Same
  <2>1. PICK n : Become(p, n) /\ AfterRead(p, cons[p], n)
    BY <1>5, GetStep, RelinkGetStep, Zenon
  <2>2. n.pc # "settle"
    BY <2>1 DEF AfterRead, Follows, Tombstones
  <2>3. hooks' = hooks /\ locks' = locks
    BY <1>5, Zenon DEF Get, RelinkGet, store, effects
  <2> QED
    BY <1>2, <2>1, <2>2, <2>3
<1>6. ASSUME NEW p \in Procs, Put(p) \/ PutFault(p) PROVE Same \/ Adds
  <2>1. PICK n : /\ Become(p, n) /\ AfterPut(cons[p], n)
                 /\ \/ Write(cons[p].key, cons[p].cur, cons[p].next)
                    \/ UNCHANGED store /\ n.out # "ok"
    BY <1>6, PutStep, Zenon
  <2>2. hooks' = hooks
    BY <1>6, Zenon DEF Put, PutFault, effects
  <2>3. Pends(n) => LocksUser(cons[p].cur, cons[p].next)
    BY <2>1 DEF AfterPut, Pends
  <2>4. CASE ~LocksUser(cons[p].cur, cons[p].next) \/ UNCHANGED store
    <3>1. ~Pends(n)
      <4>1. CASE UNCHANGED store /\ n.out # "ok"
        BY <4>1 DEF Pends
      <4>2. CASE ~LocksUser(cons[p].cur, cons[p].next)
        BY <2>3, <4>2
      <4>3. CASE UNCHANGED store /\ Write(cons[p].key, cons[p].cur, cons[p].next)
        <5>1. locks' = locks /\ locks \in Nat
          BY <4>3 DEF store, TypeOK
        <5>2. ~LocksUser(cons[p].cur, cons[p].next)
          BY <4>3, <5>1, WriteLocks
        <5> QED BY <2>3, <5>2
      <4> QED BY <2>1, <2>4, <4>1, <4>2, <4>3
    <3>2. locks' = locks
      BY <2>1, <2>4, WriteLocks DEF store
    <3>3. Pending' \subseteq Pending \ {p}
      BY <2>1, <3>1, PendingMoves
    <3> QED
      BY <2>2, <3>2, <3>3 DEF Same
  <2>5. CASE LocksUser(cons[p].cur, cons[p].next) /\ Write(cons[p].key, cons[p].cur, cons[p].next)
    <3>1. locks' = locks + 1
      BY <2>5, WriteLocks
    <3>2. Pending' \subseteq Pending \cup {p}
      BY <2>1, PendingMoves
    <3> QED
      BY <2>2, <3>1, <3>2
  <2> QED
    BY <2>1, <2>4, <2>5
<1>7. ASSUME NEW p \in Procs, Settle(p) PROVE Same \/ Runs
  <2>1. PICK n : Become(p, n) /\ AfterSettle(cons[p], n)
    BY <1>7, SettleStep, Zenon
  <2>2. n.pc # "settle"
    BY <2>1 DEF AfterSettle, Follows, Tombstones
  <2>3. ~Pends(n)
    BY <2>2, Zenon DEF Pends
  <2>4. Pending' \subseteq Pending \ {p}
    BY <2>1, <2>3, PendingMoves
  <2>5. /\ locks' = locks
        /\ hooks' = IF cons[p].out = "ok" /\ LocksUser(cons[p].cur, cons[p].next) THEN hooks + 1 ELSE hooks
        /\ cons[p].pc = "settle"
    BY <1>7, Zenon DEF Settle, store
  <2>6. CASE Pends(cons[p])
    <3>1. p \in Pending /\ hooks' = hooks + 1
      BY <2>5, <2>6 DEF Pending, Pends
    <3> QED
      BY <2>4, <2>5, <3>1
  <2>7. CASE ~Pends(cons[p])
    <3>1. hooks' = hooks
      BY <2>5, <2>7 DEF Pends
    <3> QED
      BY <2>4, <2>5, <3>1 DEF Same
  <2> QED
    BY <2>6, <2>7
<1>8. ASSUME NEW p \in Procs, Purge(p) PROVE Same
  <2>1. PICK n : Become(p, n) /\ n.pc # "settle"
    BY <1>8, PurgeStep DEF Tombstones
  <2>2. hooks' = hooks /\ locks' = locks
    BY <1>8, Zenon DEF Purge, store
  <2> QED
    BY <1>2, <2>1, <2>2
<1>9. ASSUME NEW p \in Procs, Ack(p) \/ AckLost(p) \/ Delete(p) \/ Fail(p) \/ Crash(p) PROVE Same
  <2>1. PICK n : Become(p, n) /\ AfterAck(cons[p], n)
    BY <1>9, AckStep, Zenon
  <2>2. n.pc # "settle"
    BY <2>1 DEF AfterAck
  <2>3. hooks' = hooks /\ locks' = locks
    BY <1>9, Zenon DEF Ack, AckLost, Delete, Fail, Crash, store, effects
  <2> QED
    BY <1>2, <2>1, <2>2, <2>3
<1>10. ASSUME NEW p \in Procs, ClearFault(p) PROVE Same
  BY <1>1, <1>10 DEF ClearFault, store, effects
<1>11. ASSUME NEW p \in Servers, Serve(p) PROVE Same
  <2>1. cons' = cons /\ hooks' = hooks
    BY <1>11, Zenon
       DEF Serve, BlockedRead, BlockedSet, Forget, ClearRead, ClearPut, ClearSettle, effects
  <2>2. locks' \in {locks, locks + 1}
    <3>1. CASE ClearPut(p)
      BY <3>1 DEF ClearPut, Write, store
    <3>2. CASE ~ClearPut(p)
      BY <1>11, <3>2, Zenon DEF Serve, BlockedRead, BlockedSet, Forget, ClearRead, ClearSettle, store
    <3> QED
      BY <3>1, <3>2
  <2> QED
    BY <1>1, <2>1, <2>2
<1>12. ASSUME NEW k \in Keys, Expire(k) PROVE Same
  BY <1>1, <1>12 DEF Expire, effects
<1>13. ASSUME UNCHANGED vars PROVE Same
  BY <1>1, <1>13 DEF vars, store, effects
<1>14. Same \/ Adds \/ Runs
  BY <1>3, <1>4, <1>5, <1>6, <1>7, <1>8, <1>9, <1>10, <1>11, <1>12, <1>13, Zenon
     DEF Next, Consume, Break
<1> QED
  BY <1>14 DEF Same

\* With finitely many processes, OnLock runs at most once per move of the user
\* to locked, whatever is redelivered, repeated or lost.
THEOREM HookAlwaysPerLock == IsFiniteSet(Procs) => (Spec => []HookPerLock)
<1> SUFFICES ASSUME IsFiniteSet(Procs) PROVE Spec => []HookPerLock
  OBVIOUS
<1>0. IsFiniteSet(Pending) /\ Cardinality(Pending) \in Nat
  BY FS_Subset, FS_CardinalityType DEF Pending
<1>1. Init => HookInv
  <2> SUFFICES ASSUME Init PROVE HookInv
    OBVIOUS
  <2>1. Pending = {}
    BY DEF Init, Pending, Pends, Idle, At
  <2> QED
    BY <2>1, FS_EmptySet DEF Init, HookInv
<1>2. TypeOK /\ Shapes /\ HookInv /\ [Next]_vars => HookInv'
  <2> SUFFICES ASSUME TypeOK, Shapes, HookInv, [Next]_vars PROVE HookInv'
    OBVIOUS
  <2>1. ASSUME NEW S \in SUBSET Procs PROVE IsFiniteSet(S) /\ Cardinality(S) \in Nat
    BY <2>1, FS_Subset, FS_CardinalityType
  <2>2. ASSUME NEW S \in SUBSET Procs, NEW R \in SUBSET S PROVE Cardinality(R) <= Cardinality(S)
    BY <2>1, FS_Subset
  <2>3. Pending \in SUBSET Procs /\ Pending' \in SUBSET Procs
    BY DEF Pending
  <2>4. hooks \in Nat /\ locks \in Nat
    BY DEF TypeOK
  <2>c. Cardinality(Pending) \in Nat /\ Cardinality(Pending') \in Nat
    BY <2>1, <2>3
  <2>5. CASE hooks' = hooks /\ locks' \in {locks, locks + 1} /\ Pending' \subseteq Pending
    <3>1. Cardinality(Pending') <= Cardinality(Pending)
      BY <2>2, <2>3, <2>5
    <3> QED
      BY <2>4, <2>5, <2>c, <3>1 DEF HookInv
  <2>6. ASSUME NEW p \in Procs, hooks' = hooks, locks' = locks + 1, Pending' \subseteq Pending \cup {p}
        PROVE  HookInv'
    <3>1. Cardinality(Pending \cup {p}) <= Cardinality(Pending) + 1
      BY <2>1, <2>3, <2>c, FS_AddElement
    <3>2. Cardinality(Pending') <= Cardinality(Pending \cup {p}) /\ Cardinality(Pending \cup {p}) \in Nat
      BY <2>1, <2>2, <2>3, <2>6
    <3> QED
      BY <2>4, <2>6, <2>c, <3>1, <3>2 DEF HookInv
  <2>7. ASSUME NEW p \in Pending, hooks' = hooks + 1, locks' = locks, Pending' \subseteq Pending \ {p}
        PROVE  HookInv'
    <3>1. Cardinality(Pending \ {p}) = Cardinality(Pending) - 1
      BY <2>1, <2>3, <2>7, FS_RemoveElement
    <3>2. Cardinality(Pending') <= Cardinality(Pending \ {p}) /\ Cardinality(Pending \ {p}) \in Nat
      BY <2>1, <2>2, <2>3, <2>7
    <3> QED
      BY <2>4, <2>7, <2>c, <3>1, <3>2 DEF HookInv
  <2> QED
    BY <2>5, <2>6, <2>7, HookMoves
<1>3. TypeOK /\ HookInv => HookPerLock
  BY <1>0 DEF TypeOK, HookInv, HookPerLock
<1> QED
  BY <1>1, <1>2, <1>3, TypeCorrect, PTL DEF Spec

\* The whole inductive invariant of the participant, layer upon layer.
THEOREM InvariantAlways == Spec => []IInv
BY TypeCorrect, VersionsCorrect, LockAlwaysHeld, EvidenceCorrect, OrgsAlwaysDone, PTL DEF IInv

=============================================================================

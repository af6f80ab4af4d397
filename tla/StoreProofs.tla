---------------------------- MODULE StoreProofs -----------------------------
(***************************************************************************)
(* What is asked of a store, for every value of the constants: paged       *)
(* listings and the cache backends.                                        *)
(***************************************************************************)
EXTENDS Pages, Backend, FiniteSetTheorems, SequenceTheorems, TLAPS

-----------------------------------------------------------------------------
(* EachListedOnce and BackIsPageBefore for any partition, filter, limit    *)
(* and page cap. What a client has, with the page being gathered, is       *)
(* everything that matches up to the key it will go on from, and nothing   *)
(* beyond; without that page it is everything up to the key of the cursor  *)
(* that was asked for, so a call that failed can be made again; and the    *)
(* cursors on screen are those of the trail.                               *)

Cursors == [key : Nat, prev : Nat]

QueryPcs == {"call", "done", "idle", "noschema", "failed"}

PagesTypeOK ==
    /\ here \subseteq Positions
    /\ match \subseteq Positions
    /\ stayed \subseteq here
    /\ page \in [next : Cursors, back : Cursors, hasPrevious : BOOLEAN]
    /\ query \in [pc : QueryPcs, cursor : Cursors, start : Nat, items : Seq(Nat), calls : Nat]
    /\ listed \in Seq(Nat)
    /\ trail \in Seq(Nat)

\* What the client has, with the page being gathered.
Known == Range(listed) \cup Range(query.items)

Wanted == stayed \cap match

\* The listing has come as far as k, and no further.
Covers(k) ==
    /\ \A p \in Known : p <= k
    /\ \A p \in Wanted : p <= k => p \in Known

\* As far as a cursor, or to the end when there is none.
Reached(k) == IF k = 0 THEN Wanted \subseteq Known ELSE Covers(k)

InOrder ==
    /\ Ordered(listed)
    /\ Ordered(query.items)
    /\ \A p \in Range(listed), q \in Range(query.items) : p < q

Progress ==
    /\ query.pc # "noschema"
    /\ query.pc = "call" =>
         /\ Covers(query.start)
         /\ Len(query.items) < Limit
         /\ query.calls = 0 => query.items = <<>>
    /\ query.pc = "done" => Reached(query.start)
    /\ query.pc = "idle" =>
         /\ query.items = <<>>
         /\ page.next = None => Wanted \subseteq Known
         /\ page.next # None => page.next.key # 0 /\ Covers(page.next.key)

ListInv == PagesTypeOK /\ InOrder /\ Progress

\* The pages before the one being gathered end where its cursor starts.
FromInv ==
    query.pc \in {"call", "failed"} =>
      /\ \A p \in Range(listed) : p <= query.cursor.key
      /\ \A p \in Wanted : p <= query.cursor.key => p \in Range(listed)

\* The cursors of the page on screen, and of the one on its way, are those of
\* the trail.
TrailInv ==
    /\ trail # <<>>
    /\ query.pc \in {"call", "done", "failed"} =>
         /\ query.cursor.key = trail[Len(trail)]
         /\ query.cursor.prev # 0 => Len(trail) > 1 /\ query.cursor.prev = trail[Len(trail) - 1]
    /\ query.pc = "idle" =>
         /\ page.next # None => page.next.prev = trail[Len(trail)]
         /\ page.back # None =>
              page.back.prev = 0 /\ Len(trail) > 1 /\ page.back.key = trail[Len(trail) - 1]

-----------------------------------------------------------------------------

LEMMA CursorIs ==
  ASSUME NEW k \in Nat, NEW p \in Nat
  PROVE  /\ Cursor(k, p) \in Cursors
         /\ Cursor(k, p).key = k
         /\ Cursor(k, p).prev = p
         /\ Cursor(k, p) = None <=> k = 0 /\ p = 0
BY DEF Cursor, Cursors, None

LEMMA NoneIs == None \in Cursors /\ None.key = 0 /\ None.prev = 0
BY DEF None, Cursor, Cursors

LEMMA CallingIs ==
  ASSUME NEW pc \in QueryPcs, NEW c \in Cursors, NEW start \in Nat, NEW its \in Seq(Nat), NEW n \in Nat
  PROVE  /\ Calling(pc, c, start, its, n)
               \in [pc : QueryPcs, cursor : Cursors, start : Nat, items : Seq(Nat), calls : Nat]
         /\ Calling(pc, c, start, its, n).pc = pc
         /\ Calling(pc, c, start, its, n).cursor = c
         /\ Calling(pc, c, start, its, n).start = start
         /\ Calling(pc, c, start, its, n).items = its
         /\ Calling(pc, c, start, its, n).calls = n
BY DEF Calling

LEMMA QueryIs ==
  ASSUME PagesTypeOK
  PROVE  /\ query.pc \in QueryPcs /\ query.cursor \in Cursors /\ query.start \in Nat
         /\ query.items \in Seq(Nat) /\ query.calls \in Nat
         /\ query.cursor.key \in Nat /\ query.cursor.prev \in Nat
BY DEF PagesTypeOK, Cursors

\* Sequences.

LEMMA EmptySeqIs == <<>> \in Seq(Nat) /\ Range(<<>>) = {} /\ Ordered(<<>>) /\ Len(<<>>) = 0
BY DEF Range, Ordered

LEMMA RangeIs ==
  ASSUME NEW s \in Seq(Nat)
  PROVE  /\ Len(s) \in Nat /\ DOMAIN s = 1..Len(s)
         /\ \A i \in 1..Len(s) : s[i] \in Nat /\ s[i] \in Range(s)
         /\ \A p \in Range(s) : p \in Nat /\ \E i \in 1..Len(s) : p = s[i]
BY LenProperties DEF Range

LEMMA JoinedIs ==
  ASSUME NEW s \in Seq(Nat), NEW t \in Seq(Nat)
  PROVE  /\ s \o t \in Seq(Nat)
         /\ Len(s \o t) = Len(s) + Len(t)
         /\ Range(s \o t) = Range(s) \cup Range(t)
         /\ Len(t) > 0 => (s \o t)[Len(s \o t)] = t[Len(t)]
<1>1. /\ s \o t \in Seq(Nat) /\ Len(s \o t) = Len(s) + Len(t)
      /\ \A i \in 1..Len(s) + Len(t) : (s \o t)[i] = IF i <= Len(s) THEN s[i] ELSE t[i - Len(s)]
  BY ConcatProperties
<1>2. Len(s) \in Nat /\ Len(t) \in Nat
  BY RangeIs
<1>3. Range(s \o t) \subseteq Range(s) \cup Range(t)
  <2> SUFFICES ASSUME NEW p \in Range(s \o t) PROVE p \in Range(s) \cup Range(t)
    OBVIOUS
  <2>1. PICK i \in 1..Len(s) + Len(t) : p = (s \o t)[i]
    BY <1>1, RangeIs, Zenon
  <2>2. CASE i <= Len(s)
    <3>1. i \in 1..Len(s) /\ p = s[i]
      BY <1>1, <1>2, <2>1, <2>2
    <3> QED BY <3>1, RangeIs
  <2>3. CASE i > Len(s)
    <3>1. i - Len(s) \in 1..Len(t) /\ p = t[i - Len(s)]
      BY <1>1, <1>2, <2>1, <2>3
    <3> QED BY <3>1, RangeIs
  <2> QED BY <1>2, <2>1, <2>2, <2>3
<1>4. Range(s) \subseteq Range(s \o t)
  <2> SUFFICES ASSUME NEW p \in Range(s) PROVE p \in Range(s \o t)
    OBVIOUS
  <2>1. PICK i \in 1..Len(s) : p = s[i]
    BY RangeIs
  <2>2. i \in 1..Len(s) + Len(t) /\ p = (s \o t)[i]
    BY <1>1, <1>2, <2>1
  <2> QED BY <1>1, <2>2, RangeIs, Zenon
<1>5. Range(t) \subseteq Range(s \o t)
  <2> SUFFICES ASSUME NEW p \in Range(t) PROVE p \in Range(s \o t)
    OBVIOUS
  <2>1. PICK i \in 1..Len(t) : p = t[i]
    BY RangeIs
  <2>2. i + Len(s) \in 1..Len(s) + Len(t) /\ p = (s \o t)[i + Len(s)]
    BY <1>1, <1>2, <2>1
  <2> QED BY <1>1, <2>2, RangeIs, Zenon
<1>6. Len(t) > 0 => (s \o t)[Len(s \o t)] = t[Len(t)]
  BY <1>1, <1>2
<1> QED BY <1>1, <1>3, <1>4, <1>5, <1>6

LEMMA JoinedOrdered ==
  ASSUME NEW s \in Seq(Nat), NEW t \in Seq(Nat), Ordered(s), Ordered(t),
         \A p \in Range(s), q \in Range(t) : p < q
  PROVE  Ordered(s \o t)
<1>1. /\ s \o t \in Seq(Nat) /\ Len(s \o t) = Len(s) + Len(t)
      /\ \A i \in 1..Len(s) + Len(t) : (s \o t)[i] = IF i <= Len(s) THEN s[i] ELSE t[i - Len(s)]
  BY ConcatProperties
<1>2. Len(s) \in Nat /\ Len(t) \in Nat /\ DOMAIN s = 1..Len(s) /\ DOMAIN t = 1..Len(t)
      /\ DOMAIN (s \o t) = 1..Len(s) + Len(t)
  BY <1>1, RangeIs
<1> SUFFICES ASSUME NEW i \in 1..Len(s) + Len(t), NEW j \in 1..Len(s) + Len(t), i < j
             PROVE  (s \o t)[i] < (s \o t)[j]
  BY <1>2 DEF Ordered
<1>3. CASE j <= Len(s)
  <2>1. i \in 1..Len(s) /\ j \in 1..Len(s) /\ (s \o t)[i] = s[i] /\ (s \o t)[j] = s[j]
    BY <1>1, <1>2, <1>3
  <2> QED BY <1>2, <2>1, Zenon DEF Ordered
<1>4. CASE i > Len(s)
  <2>1. /\ i - Len(s) \in 1..Len(t) /\ j - Len(s) \in 1..Len(t) /\ i - Len(s) < j - Len(s)
        /\ (s \o t)[i] = t[i - Len(s)] /\ (s \o t)[j] = t[j - Len(s)]
    BY <1>1, <1>2, <1>4
  <2> QED BY <1>2, <2>1, Zenon DEF Ordered
<1>5. CASE i <= Len(s) /\ j > Len(s)
  <2>1. /\ i \in 1..Len(s) /\ j - Len(s) \in 1..Len(t)
        /\ (s \o t)[i] = s[i] /\ (s \o t)[j] = t[j - Len(s)]
    BY <1>1, <1>2, <1>5
  <2>2. s[i] \in Range(s) /\ t[j - Len(s)] \in Range(t)
    BY <2>1, RangeIs
  <2> QED BY <2>1, <2>2
<1> QED BY <1>2, <1>3, <1>4, <1>5

\* The first n of a sequence in order are its least.
LEMMA TakeIs ==
  ASSUME NEW s \in Seq(Nat), Ordered(s), NEW n \in 0..Len(s)
  PROVE  /\ Take(s, n) \in Seq(Nat) /\ Len(Take(s, n)) = n
         /\ Ordered(Take(s, n)) /\ Range(Take(s, n)) \subseteq Range(s)
         /\ n > 0 => /\ Take(s, n)[n] = s[n]
                     /\ \A p \in Range(Take(s, n)) : p <= s[n]
                     /\ \A p \in Range(s) : p <= s[n] => p \in Range(Take(s, n))
         /\ n = Len(s) => Range(Take(s, n)) = Range(s)
<1>1. /\ Len(s) \in Nat /\ n \in Nat /\ n <= Len(s) /\ DOMAIN s = 1..Len(s)
      /\ \A i \in 1..Len(s) : s[i] \in Nat
  BY RangeIs
<1>2. /\ Take(s, n) \in Seq(Nat) /\ Len(Take(s, n)) = n
      /\ \A i \in 1..n : Take(s, n)[i] = s[i]
  <2>1. \A i \in 1..n : s[i] \in Nat
    BY <1>1
  <2>2. /\ SubSeq(s, 1, n) \in Seq(Nat) /\ Len(SubSeq(s, 1, n)) = IF 1 <= n THEN n - 1 + 1 ELSE 0
        /\ \A i \in 1..n - 1 + 1 : SubSeq(s, 1, n)[i] = s[1 + i - 1]
    BY <1>1, <2>1, SubSeqProperties
  <2>3. Len(SubSeq(s, 1, n)) = n
    BY <1>1, <2>2
  <2>4. \A i \in 1..n : SubSeq(s, 1, n)[i] = s[i]
    BY <1>1, <2>2
  <2> QED BY <2>2, <2>3, <2>4 DEF Take
<1> DEFINE t == Take(s, n)
<1> HIDE DEF t
<1>3. t \in Seq(Nat) /\ Len(t) = n /\ DOMAIN t = 1..n /\ \A i \in 1..n : t[i] = s[i] /\ i \in 1..Len(s)
  BY <1>1, <1>2, RangeIs DEF t
<1>4. Ordered(t)
  BY <1>1, <1>3 DEF Ordered
<1>5. Range(t) \subseteq Range(s)
  <2> SUFFICES ASSUME NEW p \in Range(t) PROVE p \in Range(s)
    OBVIOUS
  <2>1. PICK i \in 1..n : p = t[i]
    BY <1>3, RangeIs
  <2>2. i \in 1..Len(s) /\ p = s[i]
    BY <1>3, <2>1
  <2> QED BY <2>2, RangeIs
<1>6. ASSUME n > 0
      PROVE  /\ t[n] = s[n]
             /\ \A p \in Range(t) : p <= s[n]
             /\ \A p \in Range(s) : p <= s[n] => p \in Range(t)
  <2>1. n \in 1..n /\ n \in 1..Len(s)
    BY <1>1, <1>6
  <2>2. ASSUME NEW p \in Range(t) PROVE p <= s[n]
    <3>1. PICK i \in 1..n : p = t[i]
      BY <1>3, RangeIs
    <3>2. p = s[i] /\ (i = n \/ s[i] < s[n]) /\ i \in 1..Len(s)
      BY <1>1, <1>3, <2>1, <3>1, SMTT(20) DEF Ordered
    <3>3. s[i] \in Nat /\ s[n] \in Nat
      BY <1>1, <2>1, <3>2
    <3> QED BY <3>2, <3>3
  <2>3. ASSUME NEW p \in Range(s), p <= s[n] PROVE p \in Range(t)
    <3>1. PICK i \in 1..Len(s) : p = s[i]
      BY RangeIs
    <3>2. i > n => s[n] < s[i]
      BY <1>1, <2>1 DEF Ordered
    <3>3. i \in 1..n
      BY <1>1, <2>1, <2>3, <3>1, <3>2
    <3> QED BY <1>3, <3>1, <3>3, RangeIs, Zenon
  <2> QED BY <1>3, <2>1, <2>2, <2>3
<1>7. ASSUME n = Len(s) PROVE Range(t) = Range(s)
  <2>1. \A p \in Range(s) : p \in Range(t)
    BY <1>3, <1>7, RangeIs
  <2> QED BY <1>5, <2>1, Zenon
<1> QED BY <1>3, <1>4, <1>5, <1>6, <1>7 DEF t

\* What DynamoDB answers.
LEMMA EvaluatedIs ==
  ASSUME PagesTypeOK, NEW start \in Nat, NEW s \in Evaluated(start)
  PROVE  /\ s \in Seq(Nat) /\ Len(s) <= Limit /\ Ordered(s)
         /\ \A p \in Range(s) : p \in here /\ p > start
         /\ \A p \in After(start) \ Range(s), q \in Range(s) : q < p
         /\ Len(s) = 0 => After(start) = {}
<1>1. /\ s \in UNION {[1..n -> After(start)] : n \in 0..Limit} /\ Ordered(s)
      /\ \A p \in After(start) \ Range(s), q \in Range(s) : q < p
      /\ s = <<>> => After(start) = {}
  BY DEF Evaluated
<1>2. PICK m \in 0..Limit : s \in [1..m -> After(start)]
  BY <1>1
<1>3. m \in Nat /\ m <= Limit
  BY PagesAssumption
<1>4. After(start) \subseteq Nat
  BY PagesAssumption, Zenon DEF PagesTypeOK, After
<1>5. s \in [1..m -> Nat]
  BY <1>2, <1>4
<1>6. s \in Seq(Nat) /\ Len(s) = m
  BY <1>3, <1>5, IsASeq, LenProperties
<1>7. \A p \in Range(s) : p \in After(start)
  BY <1>2 DEF Range
<1>8. Len(s) = 0 => s = <<>>
  BY <1>6
<1> QED BY <1>1, <1>3, <1>6, <1>7, <1>8 DEF After

LEMMA FilteredIs ==
  ASSUME PagesTypeOK, NEW s \in Seq(Nat), Len(s) <= Limit, NEW found \in Filtered(Range(s))
  PROVE  /\ found \in Seq(Nat) /\ Len(found) \in Nat /\ Len(found) <= Limit
         /\ Ordered(found) /\ Range(found) = Range(s) \cap match
<1> DEFINE S == Range(s) \cap match
<1>1. Len(s) \in Nat /\ s \in [1..Len(s) -> Range(s)] /\ S \subseteq Range(s) /\ Limit \in Nat
  BY RangeIs, PagesAssumption DEF Range
<1>2. s \in Surjection(1..Len(s), Range(s))
  BY <1>1, RangeIs DEF Surjection
<1>3. IsFiniteSet(Range(s)) /\ Cardinality(Range(s)) <= Len(s) /\ Cardinality(Range(s)) \in Nat
  <2>1. IsFiniteSet(1..Len(s)) /\ Cardinality(1..Len(s)) = Len(s)
    <3>1. 1 \in Int /\ Len(s) \in Int
      BY <1>1
    <3>2. /\ IsFiniteSet(1..Len(s))
          /\ Cardinality(1..Len(s)) = IF 1 > Len(s) THEN 0 ELSE Len(s) - 1 + 1
      BY <3>1, FS_Interval, Zenon
    <3> QED BY <1>1, <3>2
  <2>2. IsFiniteSet(Range(s)) /\ Cardinality(Range(s)) <= Cardinality(1..Len(s))
    BY <1>2, <2>1, FS_Surjection
  <2> QED BY <2>1, <2>2, FS_CardinalityType
<1>4. Cardinality(S) \in Nat /\ Cardinality(S) <= Limit
  <2>1. IsFiniteSet(S) /\ Cardinality(S) <= Cardinality(Range(s))
    BY <1>1, <1>3, FS_Subset
  <2>2. Cardinality(S) \in Nat
    BY <2>1, FS_CardinalityType
  <2> QED BY <1>1, <1>3, <2>1, <2>2
<1>5. found \in [1..Cardinality(S) -> S] /\ Range(found) = S /\ Ordered(found)
  BY Zenon DEF Filtered
<1>6. S \subseteq Nat
  BY RangeIs
<1> HIDE DEF S
<1>7. found \in [1..Cardinality(S) -> Nat]
  BY <1>5, <1>6, Zenon
<1>8. found \in Seq(Nat) /\ Len(found) = Cardinality(S)
  BY <1>4, <1>7, IsASeq, LenProperties
<1> QED BY <1>4, <1>5, <1>8 DEF S

\* LastEvaluatedKey.
LEMMA LastKeyIs ==
  ASSUME PagesTypeOK, NEW start \in Nat, NEW s \in Evaluated(start)
  PROVE  /\ LastKey(start, s) \in Nat
         /\ LastKey(start, s) = 0 => After(start) \subseteq Range(s)
         /\ LastKey(start, s) # 0 =>
              /\ LastKey(start, s) > start
              /\ \A p \in Range(s) : p <= LastKey(start, s)
              /\ \A p \in After(start) : p <= LastKey(start, s) => p \in Range(s)
<1>1. /\ s \in Seq(Nat) /\ Len(s) <= Limit /\ Ordered(s) /\ Len(s) \in Nat
      /\ \A p \in Range(s) : p \in here /\ p > start /\ p \in Nat
      /\ \A p \in After(start) \ Range(s), q \in Range(s) : q < p
      /\ Len(s) = 0 => After(start) = {}
  BY EvaluatedIs, RangeIs
<1>2. Limit \in Nat /\ Limit > 0
  BY PagesAssumption
<1>3. CASE Len(s) < Limit /\ After(start) \subseteq Range(s)
  BY <1>3 DEF LastKey
<1>4. CASE ~(Len(s) < Limit /\ After(start) \subseteq Range(s))
  <2>1. LastKey(start, s) = s[Len(s)]
    BY <1>4 DEF LastKey
  <2>2. Len(s) > 0
    BY <1>1, <1>2, <1>4
  <2>3. Len(s) \in 1..Len(s) /\ Len(s) \in 0..Len(s)
    BY <1>1, <2>2
  <2>4. s[Len(s)] \in Range(s) /\ s[Len(s)] \in Nat /\ s[Len(s)] > start /\ s[Len(s)] # 0
    BY <1>1, <2>3, RangeIs
  <2>5. \A p \in Range(s) : p <= s[Len(s)]
    <3>1. Range(Take(s, Len(s))) = Range(s) /\ \A p \in Range(Take(s, Len(s))) : p <= s[Len(s)]
      BY <1>1, <2>2, <2>3, TakeIs
    <3> QED BY <3>1
  <2>6. \A p \in After(start) : p <= s[Len(s)] => p \in Range(s)
    <3> SUFFICES ASSUME NEW p \in After(start), p <= s[Len(s)], p \notin Range(s) PROVE FALSE
      OBVIOUS
    <3>1. s[Len(s)] < p /\ p \in Nat
      BY <1>1, <2>4, PagesAssumption DEF PagesTypeOK, After
    <3> QED BY <2>4, <3>1
  <2> QED BY <2>1, <2>4, <2>5, <2>6
<1> QED BY <1>3, <1>4

\* The items gathered so far, with the first m of a call's.
Gathered(found, m) == query.items \o Take(found, m)

LEMMA GatheredIs ==
  ASSUME ListInv, query.pc = "call", NEW s \in Evaluated(query.start),
         NEW found \in Filtered(Range(s)), NEW m \in 0..Len(found)
  PROVE  /\ Gathered(found, m) \in Seq(Nat)
         /\ Len(Gathered(found, m)) = Len(query.items) + m
         /\ Ordered(Gathered(found, m))
         /\ \A p \in Range(listed), q \in Range(Gathered(found, m)) : p < q
         /\ Range(Gathered(found, m)) = Range(query.items) \cup Range(Take(found, m))
         /\ m > 0 => Gathered(found, m)[Len(Gathered(found, m))] = found[m]
<1> DEFINE its == Gathered(found, m)
<1>1. PagesTypeOK /\ InOrder /\ Covers(query.start) /\ query.items \in Seq(Nat) /\ query.start \in Nat /\ listed \in Seq(Nat)
  BY QueryIs DEF ListInv, Progress, PagesTypeOK
<1>2. s \in Seq(Nat) /\ Len(s) <= Limit /\ \A p \in Range(s) : p > query.start
  BY <1>1, EvaluatedIs
<1>3. found \in Seq(Nat) /\ Ordered(found) /\ Range(found) \subseteq Range(s)
  BY <1>1, <1>2, FilteredIs
<1> DEFINE t == Take(found, m)
<1>4. t \in Seq(Nat) /\ Len(t) = m /\ Ordered(t) /\ Range(t) \subseteq Range(found) /\ (m > 0 => t[m] = found[m])
  BY <1>3, TakeIs
<1> HIDE DEF t
<1>5. \A q \in Range(t) : q > query.start /\ q \in Nat
  BY <1>2, <1>3, <1>4, RangeIs
<1>6. \A p \in Range(listed) \cup Range(query.items) : p <= query.start /\ p \in Nat
  BY <1>1, RangeIs DEF Covers, Known
<1>7. \A p \in Range(listed) \cup Range(query.items), q \in Range(t) : p < q
  BY <1>1, <1>5, <1>6
<1>8. /\ its \in Seq(Nat) /\ Len(its) = Len(query.items) + Len(t)
      /\ Range(its) = Range(query.items) \cup Range(t)
      /\ Len(t) > 0 => its[Len(its)] = t[Len(t)]
  BY <1>1, <1>4, JoinedIs, Zenon DEF t, Gathered
<1>9. Ordered(its)
  <2>1. Ordered(query.items)
    BY <1>1 DEF InOrder
  <2>2. Ordered(query.items \o t)
    BY <1>1, <1>4, <1>7, <2>1, JoinedOrdered
  <2> QED BY <2>2 DEF t, Gathered
<1>10. \A p \in Range(listed), q \in Range(its) : p < q
  BY <1>1, <1>7, <1>8 DEF InOrder
<1> QED BY <1>4, <1>8, <1>9, <1>10 DEF t

\* A page that is cut goes on after its last item.
LEMMA CutCovers ==
  ASSUME ListInv, query.pc = "call", NEW s \in Evaluated(query.start),
         NEW found \in Filtered(Range(s)), NEW m \in 1..Len(found)
  PROVE  /\ found[m] \in Nat /\ found[m] # 0
         /\ \A p \in Known \cup Range(Take(found, m)) : p <= found[m]
         /\ \A p \in Wanted : p <= found[m] => p \in Known \cup Range(Take(found, m))
<1>1. /\ PagesTypeOK /\ Covers(query.start) /\ query.start \in Nat /\ listed \in Seq(Nat) /\ query.items \in Seq(Nat)
  BY QueryIs DEF ListInv, Progress, PagesTypeOK
<1>2. /\ s \in Seq(Nat) /\ Len(s) <= Limit /\ \A p \in Range(s) : p > query.start
      /\ \A p \in After(query.start) \ Range(s), q \in Range(s) : q < p
  BY <1>1, EvaluatedIs
<1>3. found \in Seq(Nat) /\ Ordered(found) /\ Range(found) = Range(s) \cap match /\ Len(found) \in Nat
  BY <1>1, <1>2, FilteredIs
<1>4. m \in 0..Len(found) /\ m > 0
  BY <1>3
<1>5. /\ \A p \in Range(Take(found, m)) : p <= found[m]
      /\ \A p \in Range(found) : p <= found[m] => p \in Range(Take(found, m))
  BY <1>3, <1>4, TakeIs
<1>6. found[m] \in Nat /\ found[m] \in Range(found) /\ found[m] \in Range(s) /\ found[m] > query.start
  BY <1>2, <1>3, RangeIs
<1>7. \A p \in Known : p \in Nat /\ p <= query.start
  BY <1>1, RangeIs DEF Covers, Known
<1>8. \A p \in Known : p <= found[m]
  BY <1>1, <1>6, <1>7
<1>9. ASSUME NEW p \in Wanted, p <= found[m]
      PROVE  p \in Known \cup Range(Take(found, m))
  <2>1. p \in here /\ p \in match /\ p \in Nat
    BY PagesAssumption, <1>1 DEF Wanted, PagesTypeOK
  <2>2. CASE p <= query.start
    BY <1>1, <2>2 DEF Covers
  <2>3. CASE p > query.start
    <3>1. p \in After(query.start)
      BY <2>1, <2>3 DEF After
    <3>2. p \in Range(s)
      <4> SUFFICES ASSUME p \notin Range(s) PROVE FALSE
        OBVIOUS
      <4>1. found[m] < p
        BY <1>2, <1>6, <3>1
      <4> QED BY <1>6, <1>9, <2>1, <4>1
    <3> QED BY <1>3, <1>5, <1>9, <2>1, <3>2
  <2> QED BY <1>1, <2>1, <2>2, <2>3
<1> QED BY <1>1, <1>5, <1>6, <1>8, <1>9

\* A call that is taken whole goes on after the last key evaluated, or is the
\* end.
LEMMA WholeCovers ==
  ASSUME ListInv, query.pc = "call", NEW s \in Evaluated(query.start),
         NEW found \in Filtered(Range(s)), NEW last, last = LastKey(query.start, s)
  PROVE  /\ last \in Nat
         /\ last = 0 => Wanted \subseteq Known \cup Range(found)
         /\ last # 0 => /\ \A p \in Known \cup Range(found) : p <= last
                        /\ \A p \in Wanted : p <= last => p \in Known \cup Range(found)
<1>1. /\ PagesTypeOK /\ Covers(query.start) /\ query.start \in Nat /\ listed \in Seq(Nat) /\ query.items \in Seq(Nat)
  BY QueryIs DEF ListInv, Progress, PagesTypeOK
<1>2. s \in Seq(Nat) /\ Len(s) <= Limit
  BY <1>1, EvaluatedIs
<1>3. Range(found) = Range(s) \cap match
  BY <1>1, <1>2, FilteredIs
<1>4. /\ last \in Nat
      /\ last = 0 => After(query.start) \subseteq Range(s)
      /\ last # 0 => /\ last > query.start
                     /\ \A p \in Range(s) : p <= last
                     /\ \A p \in After(query.start) : p <= last => p \in Range(s)
  BY <1>1, LastKeyIs
<1>5. \A p \in Known : p \in Nat /\ p <= query.start
  BY <1>1, RangeIs DEF Covers, Known
<1>6. last # 0 => \A p \in Known \cup Range(found) : p <= last
  BY <1>1, <1>3, <1>4, <1>5
<1>7. ASSUME NEW p \in Wanted, last = 0 \/ p <= last
      PROVE  p \in Known \cup Range(found)
  <2>1. p \in here /\ p \in match /\ p \in Nat
    BY PagesAssumption, <1>1 DEF Wanted, PagesTypeOK
  <2>2. CASE p <= query.start
    BY <1>1, <2>2 DEF Covers
  <2>3. CASE p > query.start
    <3>1. p \in After(query.start)
      BY <2>1, <2>3 DEF After
    <3> QED BY <1>3, <1>4, <1>7, <2>1, <3>1
  <2> QED BY <1>1, <2>1, <2>2, <2>3
<1> QED BY <1>4, <1>6, <1>7

LEMMA QueryCallKeeps ==
  ASSUME ListInv, QueryCall
  PROVE  ListInv'
<1>1. PICK s \in Evaluated(query.start) : \E f \in Filtered(Range(s)) : query' = Round(s, f)
  BY DEF QueryCall
<1>2. PICK found \in Filtered(Range(s)) : query' = Round(s, found)
  BY <1>1
<1>3. /\ query.pc = "call" /\ here' = here /\ match' = match /\ stayed' = stayed /\ page' = page
      /\ listed' = listed /\ trail' = trail
  BY DEF QueryCall
<1>4. /\ PagesTypeOK /\ query.cursor \in Cursors /\ query.start \in Nat /\ query.items \in Seq(Nat)
      /\ query.calls \in Nat /\ Len(query.items) \in Nat /\ Len(query.items) < Limit /\ Limit \in Nat
      /\ (query.calls = 0 => query.items = <<>>) /\ Ordered(listed)
  BY <1>3, QueryIs, RangeIs, PagesAssumption DEF ListInv, Progress, InOrder
<1>5. s \in Seq(Nat) /\ Len(s) <= Limit
  BY <1>4, EvaluatedIs
<1>6. found \in Seq(Nat) /\ Len(found) \in Nat /\ Len(found) <= Limit /\ Ordered(found)
  BY <1>4, <1>5, FilteredIs
<1>6a. PICK want : want = Limit - Len(query.items)
  OBVIOUS
<1>6b. PICK m : m = IF Len(found) > want THEN want ELSE Len(found)
  OBVIOUS
<1>6c. PICK got : got = Gathered(found, m)
  OBVIOUS
<1>6d. PICK last : last = LastKey(query.start, s)
  OBVIOUS
<1>7. want \in Nat /\ want > 0 /\ m \in 0..Len(found)
  BY <1>4, <1>6, <1>6a, <1>6b
<1>8. /\ got \in Seq(Nat) /\ Len(got) = Len(query.items) + m /\ Ordered(got)
      /\ \A p \in Range(listed), q \in Range(got) : p < q
      /\ Range(got) = Range(query.items) \cup Range(Take(found, m))
      /\ m > 0 => got[Len(got)] = found[m]
  BY <1>3, <1>7, <1>6c, GatheredIs
<1>9. query' = IF Len(found) > want
               THEN IF query.calls = 0
                    THEN Calling("noschema", query.cursor, 0, <<>>, 0)
                    ELSE Calling("done", query.cursor, CursorFrom(got, last), got, 0)
               ELSE IF last = 0 \/ Len(got) = Limit \/ query.calls + 1 >= MaxPages \/ match = Positions
                    THEN Calling("done", query.cursor, last, got, 0)
                    ELSE Calling("call", query.cursor, last, got, query.calls + 1)
  BY <1>2, <1>6a, <1>6b, <1>6c, <1>6d DEF Round, Gathered
<1>10. ASSUME NEW pc \in QueryPcs, NEW start \in Nat, NEW n \in Nat,
              query' = Calling(pc, query.cursor, start, got, n)
       PROVE  /\ PagesTypeOK' /\ InOrder'
              /\ Known' = Known \cup Range(Take(found, m)) /\ Wanted' = Wanted
              /\ query'.pc = pc /\ query'.start = start /\ query'.items = got /\ query'.calls = n
  <2>1. /\ query' \in [pc : QueryPcs, cursor : Cursors, start : Nat, items : Seq(Nat), calls : Nat]
        /\ query'.pc = pc /\ query'.start = start /\ query'.items = got /\ query'.calls = n
    <3>1. got \in Seq(Nat) /\ query.cursor \in Cursors
      BY <1>4, <1>8
    <3> QED BY <1>10, <3>1 DEF Calling
  <2>2. PagesTypeOK'
    BY <1>3, <1>4, <2>1 DEF PagesTypeOK
  <2>3. InOrder'
    BY <1>3, <1>4, <1>8, <2>1 DEF InOrder
  <2>4. Known' = Known \cup Range(Take(found, m)) /\ Wanted' = Wanted
    BY <1>3, <1>8, <2>1 DEF Known, Wanted
  <2> QED BY <2>1, <2>2, <2>3, <2>4
<1>11. CASE Len(found) > want
  <2>1. query.calls # 0
    <3> SUFFICES ASSUME query.calls = 0 PROVE FALSE
      OBVIOUS
    <3>1. Len(query.items) = 0
      BY <1>4, EmptySeqIs
    <3> QED BY <1>6a, <1>4, <1>6, <1>11, <3>1
  <2>2. m = want /\ m \in 1..Len(found) /\ m > 0
    BY <1>6b, <1>7, <1>6, <1>11
  <2>3. CursorFrom(got, last) = found[m]
    BY <1>8, <2>2 DEF CursorFrom
  <2>4. query' = Calling("done", query.cursor, CursorFrom(got, last), got, 0)
    BY <1>9, <1>11, <2>1
  <2>5. query' = Calling("done", query.cursor, found[m], got, 0)
    BY <2>3, <2>4
  <2>6. /\ found[m] \in Nat /\ found[m] # 0
        /\ \A p \in Known \cup Range(Take(found, m)) : p <= found[m]
        /\ \A p \in Wanted : p <= found[m] => p \in Known \cup Range(Take(found, m))
    BY <1>3, <2>2, CutCovers
  <2>7. /\ PagesTypeOK' /\ InOrder' /\ Known' = Known \cup Range(Take(found, m)) /\ Wanted' = Wanted
        /\ query'.pc = "done" /\ query'.start = found[m]
    <3>1. "done" \in QueryPcs /\ 0 \in Nat
      BY DEF QueryPcs
    <3> QED BY <1>10, <2>5, <2>6, <3>1
  <2>8. Reached(query.start)'
    BY <2>6, <2>7 DEF Reached, Covers
  <2>9. Progress'
    BY <2>7, <2>8 DEF Progress
  <2> QED BY <2>7, <2>9 DEF ListInv
<1>12. CASE ~(Len(found) > want)
  <2>1. m = Len(found) /\ Len(got) <= Limit /\ Len(got) \in Nat
    <3>1. m = Len(found) /\ Len(found) <= want
      BY <1>6a, <1>6b, <1>4, <1>6, <1>12
    <3>2. Len(got) = Len(query.items) + Len(found)
      BY <1>8, <3>1
    <3> QED BY <1>6a, <1>4, <1>6, <3>1, <3>2
  <2>2. Range(Take(found, m)) = Range(found)
    BY <1>6, <1>7, <2>1, TakeIs
  <2>3. /\ last \in Nat
        /\ last = 0 => Wanted \subseteq Known \cup Range(found)
        /\ last # 0 => /\ \A p \in Known \cup Range(found) : p <= last
                       /\ \A p \in Wanted : p <= last => p \in Known \cup Range(found)
    BY <1>3, <1>6d, WholeCovers
  <2>4. \/ query' = Calling("done", query.cursor, last, got, 0)
        \/ /\ query' = Calling("call", query.cursor, last, got, query.calls + 1)
           /\ last # 0 /\ Len(got) # Limit
    BY <1>9, <1>12
  <2>5. CASE query' = Calling("done", query.cursor, last, got, 0)
    <3>1. "done" \in QueryPcs /\ 0 \in Nat
      BY DEF QueryPcs
    <3>2. /\ PagesTypeOK' /\ InOrder' /\ Known' = Known \cup Range(found) /\ Wanted' = Wanted
          /\ query'.pc = "done" /\ query'.start = last
      BY <1>10, <2>2, <2>3, <2>5, <3>1
    <3>3. Reached(query.start)'
      BY <2>3, <3>2 DEF Reached, Covers
    <3>4. Progress'
      BY <3>2, <3>3 DEF Progress
    <3> QED BY <3>2, <3>4 DEF ListInv
  <2>6. CASE /\ query' = Calling("call", query.cursor, last, got, query.calls + 1)
             /\ last # 0 /\ Len(got) # Limit
    <3>1. "call" \in QueryPcs /\ query.calls + 1 \in Nat /\ query.calls + 1 # 0
      BY <1>4 DEF QueryPcs
    <3>2. /\ PagesTypeOK' /\ InOrder' /\ Known' = Known \cup Range(found) /\ Wanted' = Wanted
          /\ query'.pc = "call" /\ query'.start = last /\ query'.items = got /\ query'.calls = query.calls + 1
      BY <1>10, <2>2, <2>3, <2>6, <3>1
    <3>3. Covers(query.start)'
      BY <2>3, <2>6, <3>2 DEF Covers
    <3>4. Len(got) < Limit
      BY <1>4, <2>1, <2>6
    <3>5. Progress'
      BY <3>1, <3>2, <3>3, <3>4 DEF Progress
    <3> QED BY <3>2, <3>5 DEF ListInv
  <2> QED BY <2>4, <2>5, <2>6
<1> QED BY <1>11, <1>12

LEMMA QueryAnswerKeeps ==
  ASSUME ListInv, QueryAnswer
  PROVE  ListInv'
<1>1. /\ query.pc = "done" /\ PagesTypeOK /\ InOrder /\ Reached(query.start)
      /\ query.start \in Nat /\ query.items \in Seq(Nat) /\ listed \in Seq(Nat)
      /\ query.cursor \in Cursors /\ query.cursor.key \in Nat /\ query.cursor.prev \in Nat
      /\ here' = here /\ match' = match /\ stayed' = stayed /\ trail' = trail
      /\ listed' = listed \o query.items /\ query' = NoQuery
  BY QueryIs DEF QueryAnswer, ListInv, Progress, PagesTypeOK
<1>2. /\ query' \in [pc : QueryPcs, cursor : Cursors, start : Nat, items : Seq(Nat), calls : Nat]
      /\ query'.pc = "idle" /\ query'.items = <<>>
  BY <1>1, NoneIs, EmptySeqIs DEF NoQuery, Calling, QueryPcs
<1>3. /\ listed' \in Seq(Nat) /\ Range(listed') = Known /\ Ordered(listed')
  BY <1>1, JoinedIs, JoinedOrdered DEF InOrder, Known
<1>4. Known' = Known /\ Wanted' = Wanted
  BY <1>1, <1>2, <1>3, EmptySeqIs DEF Known, Wanted
<1>5. InOrder'
  BY <1>2, <1>3, EmptySeqIs DEF InOrder
<1>6. PICK next \in Cursors, back \in Cursors, more \in BOOLEAN :
          /\ page' = Envelope(next, back, more)
          /\ query.start = 0 => next = None
          /\ query.start # 0 => next.key = query.start /\ next # None
  <2>1. Onward(query.start, query.cursor) \in Cursors /\ Onward(query.start, query.cursor).key = query.start
    BY <1>1, CursorIs DEF Onward
  <2>2. Cursor(query.cursor.prev, 0) \in Cursors
    BY <1>1, CursorIs
  <2>3. query.start # 0 => Onward(query.start, query.cursor) # None
    BY <2>1, NoneIs
  <2> QED BY <2>1, <2>2, <2>3, NoneIs, Zenon DEF QueryAnswer
<1>7. /\ page' \in [next : Cursors, back : Cursors, hasPrevious : BOOLEAN]
      /\ page'.next = next
  BY <1>6 DEF Envelope
<1>8. PagesTypeOK'
  BY <1>1, <1>2, <1>3, <1>7 DEF PagesTypeOK
<1>9. Progress'
  <2>1. CASE query.start = 0
    BY <1>1, <1>2, <1>4, <1>6, <1>7, <2>1 DEF Progress, Reached
  <2>2. CASE query.start # 0
    <3>1. page'.next # None /\ page'.next.key = query.start
      BY <1>6, <1>7, <2>2
    <3>2. Covers(query.start)
      BY <1>1, <2>2 DEF Reached
    <3>3. Covers(page.next.key)'
      BY <1>4, <3>1, <3>2 DEF Covers
    <3> QED BY <1>2, <2>2, <3>1, <3>3 DEF Progress
  <2> QED BY <2>1, <2>2
<1> QED BY <1>5, <1>8, <1>9 DEF ListInv

\* A listing that is asked for.
LEMMA AskIs ==
  ASSUME NEW c \in Cursors, Ask(c)
  PROVE  /\ query' \in [pc : QueryPcs, cursor : Cursors, start : Nat, items : Seq(Nat), calls : Nat]
         /\ query'.pc = "call" /\ query'.cursor = c /\ query'.start = c.key /\ query'.items = <<>>
         /\ query'.calls = 0
<1>1. c.key \in Nat
  BY DEF Cursors
<1> QED BY <1>1, EmptySeqIs DEF Ask, Calling, QueryPcs

LEMMA ForwardKeeps ==
  ASSUME ListInv, Forward
  PROVE  ListInv'
<1>1. /\ query.pc = "idle" /\ page.next # None /\ Ask(page.next) /\ page.next \in Cursors /\ PagesTypeOK /\ InOrder
      /\ here' = here /\ match' = match /\ stayed' = stayed /\ page' = page /\ listed' = listed
      /\ query.items = <<>> /\ Covers(page.next.key) /\ page.next.key \in Nat
  BY DEF Forward, ListInv, Progress, PagesTypeOK, Cursors
<1>2. trail' \in Seq(Nat)
  BY <1>1, AppendProperties DEF Forward, PagesTypeOK
<1>3. /\ query' \in [pc : QueryPcs, cursor : Cursors, start : Nat, items : Seq(Nat), calls : Nat]
      /\ query'.pc = "call" /\ query'.start = page.next.key /\ query'.items = <<>>
  BY <1>1, AskIs
<1>4. PagesTypeOK'
  BY <1>1, <1>2, <1>3 DEF PagesTypeOK
<1>5. InOrder' /\ Known' = Known /\ Wanted' = Wanted
  BY <1>1, <1>3 DEF InOrder, Known, Wanted
<1>6. Covers(query.start)'
  BY <1>1, <1>3, <1>5 DEF Covers
<1>7. Progress'
  <2>1. Len(query'.items) < Limit
    BY <1>3, EmptySeqIs, PagesAssumption
  <2> QED BY <1>3, <1>6, <2>1 DEF Progress
<1> QED BY <1>4, <1>5, <1>7 DEF ListInv

LEMMA ShorterIs ==
  ASSUME NEW s \in Seq(Nat), s # <<>>
  PROVE  /\ Len(s) \in Nat /\ Len(s) > 0
         /\ Take(s, Len(s) - 1) \in Seq(Nat) /\ Len(Take(s, Len(s) - 1)) = Len(s) - 1
         /\ \A i \in 1..Len(s) - 1 : Take(s, Len(s) - 1)[i] = s[i]
<1>1. Len(s) \in Nat /\ Len(s) > 0
  BY EmptySeqIs, LenProperties
<1>2. PICK n \in Int : n = Len(s) - 1
  BY <1>1
<1>3. \A i \in 1..n : s[i] \in Nat
  BY <1>1, <1>2, RangeIs
<1>4. /\ SubSeq(s, 1, n) \in Seq(Nat) /\ Len(SubSeq(s, 1, n)) = IF 1 <= n THEN n - 1 + 1 ELSE 0
      /\ \A i \in 1..n - 1 + 1 : SubSeq(s, 1, n)[i] = s[1 + i - 1]
  BY <1>3, SubSeqProperties
<1>5. Take(s, Len(s) - 1) = SubSeq(s, 1, n)
  BY <1>2 DEF Take
<1>6. Len(SubSeq(s, 1, n)) = Len(s) - 1
  BY <1>1, <1>2, <1>4
<1>7. \A i \in 1..Len(s) - 1 : SubSeq(s, 1, n)[i] = s[i]
  BY <1>1, <1>2, <1>4
<1> QED BY <1>1, <1>4, <1>5, <1>6, <1>7, Zenon

LEMMA BackKeeps ==
  ASSUME ListInv, trail # <<>>, Back
  PROVE  ListInv'
<1>1. /\ query.pc = "idle" /\ Ask(page.back) /\ page.back \in Cursors /\ PagesTypeOK
      /\ here' = here /\ match' = match /\ stayed' = {} /\ page' = page /\ listed' = <<>>
      /\ trail \in Seq(Nat) /\ page.back.key \in Nat
  BY DEF Back, ListInv, PagesTypeOK, Cursors
<1>2. trail' \in Seq(Nat)
  <2>1. CASE page.back = None
    <3>1. trail' = <<0>>
      BY <2>1 DEF Back
    <3> QED BY <3>1
  <2>2. CASE page.back # None
    <3>1. trail' = Take(trail, Len(trail) - 1)
      BY <2>2 DEF Back
    <3> QED BY <1>1, <3>1, ShorterIs
  <2> QED BY <2>1, <2>2
<1>3. /\ query' \in [pc : QueryPcs, cursor : Cursors, start : Nat, items : Seq(Nat), calls : Nat]
      /\ query'.pc = "call" /\ query'.start = page.back.key /\ query'.items = <<>>
  BY <1>1, AskIs
<1>4. PagesTypeOK'
  BY <1>1, <1>2, <1>3, EmptySeqIs DEF PagesTypeOK
<1>5. InOrder' /\ Known' = {} /\ Wanted' = {}
  BY <1>1, <1>3, EmptySeqIs DEF InOrder, Known, Wanted
<1>6. Covers(query.start)'
  BY <1>5 DEF Covers
<1>7. Progress'
  <2>1. Len(query'.items) < Limit
    BY <1>3, EmptySeqIs, PagesAssumption
  <2> QED BY <1>3, <1>6, <2>1 DEF Progress
<1> QED BY <1>4, <1>5, <1>7 DEF ListInv

LEMMA ChangesKeeps ==
  ASSUME ListInv, NEW x \in Positions, Changes(x)
  PROVE  ListInv'
<1>1. /\ match' = match /\ page' = page /\ query' = query /\ listed' = listed /\ trail' = trail
      /\ stayed' = stayed \ {x} /\ here' = IF x \in here THEN here \ {x} ELSE here \cup {x}
      /\ PagesTypeOK /\ InOrder /\ Progress
  BY DEF Changes, ListInv
<1>2. stayed' \subseteq here' /\ here' \subseteq Positions
  BY <1>1 DEF PagesTypeOK
<1>3. PagesTypeOK'
  BY <1>1, <1>2 DEF PagesTypeOK
<1>4. InOrder' /\ Known' = Known /\ Wanted' \subseteq Wanted
  BY <1>1 DEF InOrder, Known, Wanted
<1>5. /\ Covers(query.start) => Covers(query.start)'
      /\ Covers(page.next.key) => Covers(page.next.key)'
  BY <1>1, <1>4 DEF Covers
<1>6. Reached(query.start) => Reached(query.start)'
  BY <1>1, <1>4, <1>5 DEF Reached
<1>7. Progress'
  BY <1>1, <1>4, <1>5, <1>6 DEF Progress
<1> QED BY <1>3, <1>4, <1>7 DEF ListInv

LEMMA PagesStart ==
  ASSUME PagesInit
  PROVE  ListInv /\ FromInv /\ TrailInv
<1>1. /\ here \subseteq Positions /\ match \subseteq Positions /\ stayed = here
      /\ page = Envelope(None, None, FALSE) /\ query = Calling("call", None, 0, <<>>, 0)
      /\ listed = <<>> /\ trail = <<0>>
  BY DEF PagesInit
<1>2. page \in [next : Cursors, back : Cursors, hasPrevious : BOOLEAN]
  BY <1>1, NoneIs DEF Envelope
<1>3. /\ query \in [pc : QueryPcs, cursor : Cursors, start : Nat, items : Seq(Nat), calls : Nat]
      /\ query.pc = "call" /\ query.cursor = None /\ query.start = 0 /\ query.items = <<>>
  BY <1>1, NoneIs, EmptySeqIs DEF Calling, QueryPcs
<1>4. trail \in Seq(Nat) /\ Len(trail) = 1 /\ trail[1] = 0 /\ trail # <<>>
  BY <1>1
<1>5. PagesTypeOK
  BY <1>1, <1>2, <1>3, <1>4, EmptySeqIs, Zenon DEF PagesTypeOK
<1>6. InOrder /\ Known = {} /\ \A p \in Wanted : p \in Nat /\ p # 0
  <2>1. InOrder /\ Known = {}
    BY <1>1, <1>3, EmptySeqIs DEF InOrder, Known
  <2>2. \A p \in Wanted : p \in Nat /\ p # 0
    BY <1>1, PagesAssumption DEF Wanted
  <2> QED BY <2>1, <2>2
<1>7. Covers(query.start)
  BY <1>3, <1>6 DEF Covers
<1>8. Progress
  <2>1. Len(query.items) < Limit
    BY <1>3, EmptySeqIs, PagesAssumption
  <2> QED BY <1>3, <1>7, <2>1 DEF Progress
<1>9. TrailInv
  BY <1>3, <1>4, NoneIs DEF TrailInv
<1>10. FromInv
  BY <1>1, <1>3, <1>6, NoneIs, EmptySeqIs DEF FromInv
<1> QED BY <1>5, <1>6, <1>8, <1>9, <1>10 DEF ListInv

\* A call that failed leaves no part of its page, and is made again from the same
\* cursor.
LEMMA FailsKeeps ==
  ASSUME ListInv, FromInv, QueryFails \/ AskAgain
  PROVE  ListInv'
<1>1. /\ here' = here /\ match' = match /\ stayed' = stayed /\ page' = page /\ listed' = listed
      /\ trail' = trail /\ query.cursor \in Cursors /\ query.cursor.key \in Nat /\ PagesTypeOK /\ Ordered(listed)
  BY QueryIs DEF QueryFails, AskAgain, ListInv, InOrder
<1>2. /\ query' \in [pc : QueryPcs, cursor : Cursors, start : Nat, items : Seq(Nat), calls : Nat]
      /\ query'.items = <<>>
      /\ query'.pc = "failed" \/ (query.pc = "failed" /\ query'.pc = "call" /\ query'.start = query.cursor.key)
  <2>1. CASE QueryFails
    <3>1. PICK c \in Cursors : query' = Calling("failed", c, 0, <<>>, 0)
      BY <1>1, <2>1 DEF QueryFails
    <3> QED BY <3>1, EmptySeqIs DEF Calling, QueryPcs
  <2>2. CASE AskAgain
    BY <1>1, <2>2, AskIs DEF AskAgain
  <2> QED BY <2>1, <2>2
<1>3. PagesTypeOK'
  BY <1>1, <1>2 DEF PagesTypeOK
<1>4. InOrder' /\ Known' = Range(listed) /\ Wanted' = Wanted
  BY <1>1, <1>2, EmptySeqIs DEF InOrder, Known, Wanted
<1>5. CASE query'.pc = "failed"
  BY <1>3, <1>4, <1>5 DEF ListInv, Progress
<1>6. CASE query.pc = "failed" /\ query'.pc = "call" /\ query'.start = query.cursor.key
  <2>1. Covers(query.start)'
    BY <1>4, <1>6 DEF Covers, FromInv
  <2>2. Len(query'.items) < Limit
    BY <1>2, EmptySeqIs, PagesAssumption
  <2> QED BY <1>2, <1>3, <1>4, <1>6, <2>1, <2>2 DEF ListInv, Progress
<1> QED BY <1>2, <1>5, <1>6

\* One step keeps the cursor, what was listed and what is wanted, or starts anew.
LEMMA FromStep ==
  ASSUME ListInv, FromInv, [PagesNext]_pvars
  PROVE  FromInv'
<1>1. PagesTypeOK /\ query.cursor \in Cursors /\ page.next \in Cursors /\ page.back \in Cursors
  BY QueryIs DEF ListInv, PagesTypeOK
<1>2. CASE UNCHANGED pvars
  BY <1>2 DEF pvars, FromInv, Wanted
<1>3. ASSUME NEW x \in Positions, Changes(x) PROVE FromInv'
  BY <1>3 DEF Changes, FromInv, Wanted
<1>4. CASE QueryCall
  <2>1. query.pc = "call" /\ listed' = listed /\ Wanted' = Wanted
    BY <1>4 DEF QueryCall, Wanted
  <2>2. query'.cursor = query.cursor
    <3>1. PICK s \in Evaluated(query.start) : \E f \in Filtered(Range(s)) : query' = Round(s, f)
      BY <1>4 DEF QueryCall
    <3>2. PICK found \in Filtered(Range(s)) : query' = Round(s, found)
      BY <3>1
    <3> QED BY <3>2 DEF Round, Calling
  <2> QED BY <2>1, <2>2 DEF FromInv
<1>5. CASE QueryFails
  BY <1>5 DEF QueryFails, Calling, FromInv, Wanted
<1>6. CASE AskAgain
  BY <1>6 DEF AskAgain, Ask, Calling, FromInv, Wanted
<1>7. CASE QueryAnswer
  BY <1>7 DEF QueryAnswer, NoQuery, Calling, FromInv
<1>8. CASE Forward
  <2>1. /\ query.items = <<>> /\ Covers(page.next.key) /\ listed' = listed /\ Wanted' = Wanted
        /\ query'.cursor = page.next
    BY <1>1, <1>8, AskIs DEF Forward, ListInv, Progress, Wanted
  <2>2. Known = Range(listed)
    BY <2>1, EmptySeqIs DEF Known
  <2> QED BY <2>1, <2>2 DEF FromInv, Covers
<1>9. CASE Back
  BY <1>9, EmptySeqIs DEF Back, FromInv, Wanted
<1> QED BY <1>2, <1>3, <1>4, <1>5, <1>6, <1>7, <1>8, <1>9 DEF PagesNext

LEMMA ListStep ==
  ASSUME ListInv, FromInv, TrailInv, [PagesNext]_pvars
  PROVE  ListInv'
<1>1. CASE UNCHANGED pvars
  BY <1>1, Zenon DEF pvars, ListInv, PagesTypeOK, InOrder, Progress, Covers, Reached, Known, Wanted
<1>2. trail # <<>>
  BY DEF TrailInv
<1> QED BY <1>1, <1>2, QueryCallKeeps, FailsKeeps, QueryAnswerKeeps, ForwardKeeps, BackKeeps, ChangesKeeps DEF PagesNext

LEMMA TrailStep ==
  ASSUME ListInv, TrailInv, [PagesNext]_pvars
  PROVE  TrailInv'
<1>1. /\ PagesTypeOK /\ trail \in Seq(Nat) /\ trail # <<>> /\ Len(trail) \in Nat /\ Len(trail) > 0
      /\ query.cursor \in Cursors /\ query.cursor.key \in Nat /\ query.cursor.prev \in Nat /\ query.start \in Nat
      /\ page.next \in Cursors /\ page.back \in Cursors
  BY QueryIs, ShorterIs DEF ListInv, PagesTypeOK, TrailInv
<1>2. CASE UNCHANGED pvars
  BY <1>2 DEF pvars, TrailInv
<1>3. ASSUME NEW x \in Positions, Changes(x) PROVE TrailInv'
  BY <1>3 DEF Changes, TrailInv
<1>4. CASE QueryCall
  <2>1. query.pc = "call" /\ page' = page /\ trail' = trail
    BY <1>4 DEF QueryCall
  <2>2. query'.cursor = query.cursor /\ query'.pc \in {"call", "done", "noschema"}
    <3>1. PICK s \in Evaluated(query.start) : \E f \in Filtered(Range(s)) : query' = Round(s, f)
      BY <1>4 DEF QueryCall
    <3>2. PICK found \in Filtered(Range(s)) : query' = Round(s, found)
      BY <3>1
    <3>3. PICK pc \in {"call", "done", "noschema"} :
              \E k, its, n : query' = Calling(pc, query.cursor, k, its, n)
      BY <3>2 DEF Round
    <3> QED BY <3>3 DEF Calling
  <2> QED BY <2>1, <2>2 DEF TrailInv
<1>4a. CASE QueryFails
  BY <1>4a DEF QueryFails, Calling, TrailInv
<1>4b. CASE AskAgain
  BY <1>1, <1>4b, AskIs DEF AskAgain, TrailInv
<1>5. CASE QueryAnswer
  <2> DEFINE c == query.cursor
  <2>1. /\ query.pc = "done" /\ trail' = trail /\ query'.pc = "idle"
        /\ page' = Envelope(IF query.start = 0 THEN None ELSE Onward(query.start, c),
                            IF c.prev = 0 THEN None ELSE Cursor(c.prev, 0), c # None)
    BY <1>5 DEF QueryAnswer, NoQuery, Calling
  <2>2. /\ page'.next = IF query.start = 0 THEN None ELSE Onward(query.start, c)
        /\ page'.back = IF c.prev = 0 THEN None ELSE Cursor(c.prev, 0)
    BY <2>1 DEF Envelope
  <2>3. c.key = trail[Len(trail)] /\ (c.prev # 0 => Len(trail) > 1 /\ c.prev = trail[Len(trail) - 1])
    BY <2>1 DEF TrailInv
  <2>4. page'.next # None => page'.next.prev = trail[Len(trail)]
    <3>1. Onward(query.start, c).prev = c.key
      BY <1>1, CursorIs DEF Onward
    <3> QED BY <2>2, <2>3, <3>1
  <2>5. page'.back # None =>
          page'.back.prev = 0 /\ Len(trail) > 1 /\ page'.back.key = trail[Len(trail) - 1]
    <3>1. Cursor(c.prev, 0).key = c.prev /\ Cursor(c.prev, 0).prev = 0
      BY <1>1, CursorIs
    <3> QED BY <2>2, <2>3, <3>1
  <2> QED BY <1>1, <2>1, <2>4, <2>5, Zenon DEF TrailInv
<1>6. CASE Forward
  <2>1. /\ query.pc = "idle" /\ page.next # None /\ Ask(page.next) /\ page.next.key \in Nat
        /\ trail' = Append(trail, page.next.key)
    BY <1>1, <1>6 DEF Forward, Cursors
  <2>2. query'.pc = "call" /\ query'.cursor = page.next
    BY <1>1, <2>1, AskIs
  <2>3. /\ trail' # <<>> /\ Len(trail') = Len(trail) + 1
        /\ trail'[Len(trail) + 1] = page.next.key
        /\ \A i \in 1..Len(trail) : trail'[i] = trail[i]
    BY <1>1, <2>1, AppendProperties
  <2>4. Len(trail') > 1 /\ Len(trail') - 1 = Len(trail) /\ Len(trail) \in 1..Len(trail)
    BY <1>1, <2>3
  <2>5. trail'[Len(trail')] = page.next.key /\ trail'[Len(trail') - 1] = trail[Len(trail)]
    BY <2>3, <2>4
  <2>6. page.next.prev = trail[Len(trail)]
    BY <2>1 DEF TrailInv
  <2> QED BY <2>2, <2>3, <2>4, <2>5, <2>6 DEF TrailInv
<1>7. CASE Back
  <2>1. query.pc = "idle" /\ Ask(page.back)
    BY <1>7 DEF Back
  <2>2. query'.pc = "call" /\ query'.cursor = page.back
    BY <1>1, <2>1, AskIs
  <2>3. CASE page.back = None
    <3>1. trail' = <<0>>
      BY <1>7, <2>3 DEF Back
    <3>2. trail' # <<>> /\ Len(trail') = 1 /\ trail'[1] = 0
      BY <3>1
    <3> QED BY <2>2, <2>3, <3>2, NoneIs DEF TrailInv
  <2>4. CASE page.back # None
    <3>1. page.back.prev = 0 /\ Len(trail) > 1 /\ page.back.key = trail[Len(trail) - 1]
      BY <2>1, <2>4 DEF TrailInv
    <3>2. trail' = Take(trail, Len(trail) - 1)
      BY <1>7, <2>4 DEF Back
    <3>3. trail' \in Seq(Nat) /\ Len(trail') = Len(trail) - 1 /\ \A i \in 1..Len(trail) - 1 : trail'[i] = trail[i]
      BY <1>1, <3>2, ShorterIs, Zenon
    <3>4. Len(trail') > 0 /\ Len(trail') \in 1..Len(trail) - 1
      BY <1>1, <3>1, <3>3
    <3>5. trail'[Len(trail')] = trail[Len(trail) - 1] /\ trail' # <<>>
      BY <3>3, <3>4, EmptySeqIs
    <3> QED BY <2>2, <3>1, <3>5 DEF TrailInv
  <2> QED BY <2>3, <2>4
<1> QED BY <1>2, <1>3, <1>4, <1>4a, <1>4b, <1>5, <1>6, <1>7 DEF PagesNext

\* The inductive invariants of the listing and of the cursors.
THEOREM PagesInvariant == PagesSpec => [](ListInv /\ FromInv /\ TrailInv)
<1>1. PagesInit => ListInv /\ FromInv /\ TrailInv
  BY PagesStart
<1>2. ListInv /\ FromInv /\ TrailInv /\ [PagesNext]_pvars => (ListInv /\ FromInv /\ TrailInv)'
  BY ListStep, FromStep, TrailStep
<1> QED BY <1>1, <1>2, PTL DEF PagesSpec

\* Pages of a query follow each other and miss nothing, for every partition,
\* filter, limit and page cap.
THEOREM EachAlwaysListedOnce == PagesSpec => []EachListedOnce
<1>1. ListInv => EachListedOnce
  <2> SUFFICES ASSUME ListInv PROVE EachListedOnce
    OBVIOUS
  <2>1. Ordered(listed) /\ query.pc # "noschema"
    BY DEF ListInv, InOrder, Progress
  <2>2. query.pc = "idle" /\ page.next = None => stayed \cap match \subseteq Range(listed)
    BY EmptySeqIs DEF ListInv, Progress, Known, Wanted
  <2> QED BY <2>1, <2>2 DEF EachListedOnce
<1> QED BY <1>1, PagesInvariant, PTL

\* The previous cursor leads to the page before, for every listing.
THEOREM BackAlwaysPageBefore == PagesSpec => BackIsPageBefore
<1>1. ListInv /\ TrailInv /\ [PagesNext]_pvars
        => [Back /\ page.back # None => page.back.key = trail[Len(trail) - 1]]_pvars
  BY DEF Back, TrailInv
<1> QED BY <1>1, PagesInvariant, PTL DEF PagesSpec, BackIsPageBefore

-----------------------------------------------------------------------------
(* The memory backend keeps its cap, and the SCAN of DeletePrefix owes the *)
(* old keys of the slots it has not been to and of the page it found:      *)
(* CapHolds and PrefixGone for any keys, slots and size.                   *)

ScanInv ==
    /\ old \subseteq store \cap Prefixed /\ store \subseteq CKeys
    /\ scan.pc \in {"idle", "scan", "del", "done"}
    /\ scan.pc \in {"idle", "done"} => old = {}
    /\ scan.pc = "scan" => \A k \in old : SlotOf[k] \in scan.left
    /\ scan.pc = "del" => \A k \in old : k \in scan.found \/ SlotOf[k] \in scan.left

MemInv == IsFiniteSet(DOMAIN kept) /\ CapHolds

LEMMA ScanningIs ==
  ASSUME NEW pc, NEW left, NEW found
  PROVE  /\ Scanning(pc, left, found).pc = pc /\ Scanning(pc, left, found).left = left
         /\ Scanning(pc, left, found).found = found
BY DEF Scanning

\* What remains after a page, whether it had elements or not.
LEMMA AfterPageIs ==
  ASSUME NEW found, NEW left
  PROVE  /\ found # {} => AfterPage(found, left) = Scanning("del", left, found)
         /\ found = {} /\ left = {} => AfterPage(found, left) = Scanning("done", {}, {})
         /\ found = {} /\ left # {} => AfterPage(found, left) = Scanning("scan", left, {})
BY DEF AfterPage

LEMMA ScanPageKeeps ==
  ASSUME ScanInv, NEW s \in Slots, ScanPage(s)
  PROVE  ScanInv'
<1>1. /\ scan.pc = "scan" /\ scan' = AfterPage(Matches(s), scan.left \ {s})
      /\ store' = store /\ old' = old
  BY DEF ScanPage
<1>2. \A k \in old : k \in Matches(s) \/ SlotOf[k] \in scan.left \ {s}
  BY <1>1 DEF ScanInv, Matches
<1>3. CASE Matches(s) # {}
  <2> scan' = Scanning("del", scan.left \ {s}, Matches(s))
    BY <1>1, <1>3, AfterPageIs, Zenon
  <2>1. scan'.pc = "del" /\ scan'.left = scan.left \ {s} /\ scan'.found = Matches(s)
    BY DEF Scanning
  <2> QED BY <1>1, <1>2, <2>1 DEF ScanInv
<1>4. CASE Matches(s) = {} /\ scan.left \ {s} = {}
  <2> scan' = Scanning("done", {}, {})
    BY <1>1, <1>4, AfterPageIs, Zenon
  <2>1. scan'.pc = "done"
    BY DEF Scanning
  <2>2. old = {}
    BY <1>2, <1>4
  <2> QED BY <1>1, <2>1, <2>2 DEF ScanInv
<1>5. CASE Matches(s) = {} /\ scan.left \ {s} # {}
  <2> scan' = Scanning("scan", scan.left \ {s}, {})
    BY <1>1, <1>5, AfterPageIs, Zenon
  <2>1. scan'.pc = "scan" /\ scan'.left = scan.left \ {s}
    BY DEF Scanning
  <2> QED BY <1>1, <1>2, <1>5, <2>1 DEF ScanInv
<1> QED BY <1>3, <1>4, <1>5

LEMMA DelPageKeeps ==
  ASSUME ScanInv, DelPage
  PROVE  ScanInv'
<1>1. /\ scan.pc = "del" /\ store' = store \ scan.found /\ old' = old \ scan.found
      /\ scan' = IF scan.left = {} THEN Scanning("done", {}, {}) ELSE Scanning("scan", scan.left, {})
  BY Zenon DEF DelPage
<1>2. \A k \in old' : SlotOf[k] \in scan.left
  BY <1>1 DEF ScanInv
<1>3. CASE scan.left = {}
  <2>1. scan'.pc = "done" /\ old' = {}
    BY <1>1, <1>2, <1>3, ScanningIs
  <2> QED BY <1>1, <2>1 DEF ScanInv
<1>4. CASE scan.left # {}
  <2>1. scan'.pc = "scan" /\ scan'.left = scan.left
    BY <1>1, <1>4, ScanningIs
  <2> QED BY <1>1, <1>2, <2>1 DEF ScanInv
<1> QED BY <1>3, <1>4

LEMMA DeletePrefixKeeps ==
  ASSUME ScanInv, DeletePrefix
  PROVE  ScanInv'
<1>1. scan'.pc = "scan" /\ scan'.left = Slots /\ old' = store \cap Prefixed /\ store' = store
  BY ScanningIs DEF DeletePrefix
<1> QED BY <1>1, BackendAssumption DEF ScanInv

LEMMA ScanReturnsKeeps ==
  ASSUME ScanInv, NEW failed \in BOOLEAN, ScanReturns(failed)
  PROVE  ScanInv'
<1>1. scan'.pc = "idle" /\ old' = {} /\ store' = store
  BY ScanningIs DEF ScanReturns
<1> QED BY <1>1 DEF ScanInv

LEMMA RedisSetKeeps ==
  ASSUME ScanInv, NEW k \in CKeys, RedisSet(k)
  PROVE  ScanInv'
BY DEF ScanInv, RedisSet

LEMMA MemDropKeeps ==
  ASSUME MemInv, NEW ks, MemDrop(ks)
  PROVE  MemInv'
<1>1. DOMAIN kept' = DOMAIN kept \ ks
  BY DEF MemDrop, Restrict
<1>2. IsFiniteSet(DOMAIN kept \ ks) /\ Cardinality(DOMAIN kept \ ks) <= Cardinality(DOMAIN kept)
  <2>1. DOMAIN kept \ ks \in SUBSET DOMAIN kept
    OBVIOUS
  <2> QED BY <2>1, FS_Subset DEF MemInv
<1>3. Cardinality(DOMAIN kept) \in Nat /\ Cardinality(DOMAIN kept \ ks) \in Nat
  BY <1>2, FS_CardinalityType DEF MemInv
<1> QED BY <1>1, <1>2, <1>3, BackendAssumption DEF MemInv, CapHolds

\* evictOne finds an entry to remove whenever there is one.
LEMMA EvictedIs ==
  ASSUME NEW k
  PROVE  /\ Evicted(k) \subseteq DOMAIN kept
         /\ DOMAIN kept # {} => Evicted(k) # {}
BY DEF Evicted, Expired

LEMMA MemSetKeeps ==
  ASSUME MemInv, NEW k \in CKeys, NEW left, MemSet(k, left)
  PROVE  MemInv'
<1> DEFINE D == DOMAIN kept
<1>1. IsFiniteSet(D) /\ Cardinality(D) \in Nat /\ Cardinality(D) <= MaxSize /\ MaxSize \in Nat \ {0}
  BY FS_CardinalityType, BackendAssumption DEF MemInv, CapHolds
<1>2. PICK gone \in IF k \notin D /\ Cardinality(D) >= MaxSize /\ Evicted(k) # {}
                    THEN {{e} : e \in Evicted(k)} ELSE {{}} :
        kept' = [q \in (D \ gone) \cup {k} |-> IF q = k THEN left ELSE kept[q]]
  BY DEF MemSet
<1>3. DOMAIN kept' = (D \ gone) \cup {k}
  BY <1>2
<1> HIDE DEF D
<1>4. CASE k \in D
  <2>1. gone = {}
    BY <1>2, <1>4
  <2>2. (D \ gone) \cup {k} = D
    BY <1>4, <2>1
  <2> QED BY <1>1, <1>3, <2>2 DEF MemInv, CapHolds
<1>5. CASE k \notin D /\ Cardinality(D) < MaxSize
  <2>1. ~(Cardinality(D) >= MaxSize)
    BY <1>1, <1>5
  <2>2. gone = {}
    BY <1>2, <2>1
  <2>3. (D \ gone) \cup {k} = D \cup {k}
    BY <2>2
  <2>4. IsFiniteSet(D \cup {k}) /\ Cardinality(D \cup {k}) = Cardinality(D) + 1
    BY <1>1, <1>5, FS_AddElement
  <2>5. Cardinality(D) + 1 <= MaxSize
    BY <1>1, <1>5
  <2>6. DOMAIN kept' = D \cup {k}
    BY <1>3, <2>3
  <2>7. IsFiniteSet(DOMAIN kept') /\ Cardinality(DOMAIN kept') <= MaxSize
    BY <2>4, <2>5, <2>6
  <2> QED BY <2>7 DEF MemInv, CapHolds
<1>6. CASE k \notin D /\ Cardinality(D) >= MaxSize
  <2>1. D # {}
    <3>1. SUFFICES ASSUME D = {} PROVE FALSE
      OBVIOUS
    <3>2. Cardinality(D) = 0
      BY <3>1, FS_EmptySet
    <3> QED BY <1>1, <1>6, <3>2
  <2>2. Evicted(k) # {} /\ Evicted(k) \subseteq D
    BY <2>1, EvictedIs DEF D
  <2>3. PICK e \in D : gone = {e}
    BY <1>2, <1>6, <2>2
  <2>4. IsFiniteSet(D \ {e}) /\ Cardinality(D \ {e}) = Cardinality(D) - 1
    BY <1>1, FS_RemoveElement
  <2>5. IsFiniteSet((D \ {e}) \cup {k}) /\ Cardinality((D \ {e}) \cup {k}) = Cardinality(D \ {e}) + 1
    BY <1>6, <2>4, FS_AddElement, Zenon
  <2>6. Cardinality(D) - 1 + 1 <= MaxSize
    BY <1>1
  <2>7. DOMAIN kept' = (D \ {e}) \cup {k}
    BY <1>3, <2>3
  <2>8. IsFiniteSet(DOMAIN kept') /\ Cardinality(DOMAIN kept') <= MaxSize
    BY <2>4, <2>5, <2>6, <2>7
  <2> QED BY <2>8 DEF MemInv, CapHolds
<1> QED BY <1>1, <1>4, <1>5, <1>6

LEMMA BackendStart ==
  ASSUME BackendInit
  PROVE  MemInv /\ ScanInv
<1>1. DOMAIN kept = {}
  BY DEF BackendInit
<1>2. scan.pc = "idle"
  BY ScanningIs DEF BackendInit
<1>3. MemInv
  BY <1>1, FS_EmptySet, BackendAssumption DEF MemInv, CapHolds
<1> QED BY <1>2, <1>3 DEF BackendInit, ScanInv

LEMMA BackendStep ==
  ASSUME MemInv, ScanInv, [BackendNext]_cvars
  PROVE  MemInv' /\ ScanInv'
<1>1. ASSUME UNCHANGED kept PROVE MemInv'
  BY <1>1 DEF MemInv, CapHolds
<1>2. ASSUME UNCHANGED <<store, old, scan>> PROVE ScanInv'
  BY <1>2 DEF ScanInv
<1>3. CASE UNCHANGED cvars
  BY <1>1, <1>2, <1>3 DEF cvars
<1>4. ASSUME NEW ks, MemDrop(ks) PROVE MemInv' /\ ScanInv'
  BY <1>2, <1>4, MemDropKeeps DEF MemDrop
<1>5. ASSUME NEW k \in CKeys, MemGet(k) \/ MemDelete(k) PROVE MemInv' /\ ScanInv'
  BY <1>4, <1>5 DEF MemGet, MemDelete
<1>6. ASSUME NEW k \in CKeys, RedisSet(k) PROVE MemInv' /\ ScanInv'
  BY <1>1, <1>6, RedisSetKeeps DEF RedisSet
<1>7. ASSUME NEW k \in CKeys, NEW left, MemSet(k, left) PROVE MemInv' /\ ScanInv'
  BY <1>2, <1>7, MemSetKeeps DEF MemSet
<1>8. CASE MemDeletePrefix
  BY <1>4, <1>8 DEF MemDeletePrefix
<1>9. CASE MemTick
  <2>1. DOMAIN kept' = DOMAIN kept
    BY <1>9 DEF MemTick
  <2> QED BY <1>2, <1>9, <2>1 DEF MemTick, MemInv, CapHolds
<1>10. CASE DeletePrefix
  BY <1>1, <1>10, DeletePrefixKeeps DEF DeletePrefix
<1>11. CASE DelPage
  BY <1>1, <1>11, DelPageKeeps DEF DelPage
<1>12. ASSUME NEW s \in Slots, ScanPage(s) PROVE MemInv' /\ ScanInv'
  BY <1>1, <1>12, ScanPageKeeps DEF ScanPage
<1>13. ASSUME NEW failed \in BOOLEAN, ScanReturns(failed) PROVE MemInv' /\ ScanInv'
  BY <1>1, <1>13, ScanReturnsKeeps DEF ScanReturns
<1> QED BY <1>3, <1>5, <1>6, <1>7, <1>8, <1>9, <1>10, <1>11, <1>12, <1>13 DEF BackendNext

\* MemoryBackend never holds more than maxSize entries, whatever maxSize is.
THEOREM CapAlwaysHolds == BackendSpec => []CapHolds
<1>1. BackendInit => MemInv /\ ScanInv
  BY BackendStart
<1>2. (MemInv /\ ScanInv) /\ [BackendNext]_cvars => (MemInv /\ ScanInv)'
  BY BackendStep
<1>3. MemInv => CapHolds
  BY DEF MemInv
<1> QED BY <1>1, <1>2, <1>3, PTL DEF BackendSpec

\* RedisBackend.DeletePrefix that went through left no key it found there when
\* it began, in whatever order SCAN goes through whatever slots.
THEOREM PrefixAlwaysGone == BackendSpec => []PrefixGone
<1>1. BackendInit => MemInv /\ ScanInv
  BY BackendStart
<1>2. (MemInv /\ ScanInv) /\ [BackendNext]_cvars => (MemInv /\ ScanInv)'
  BY BackendStep
<1>3. ScanInv => PrefixGone
  BY DEF ScanInv, PrefixGone
<1> QED BY <1>1, <1>2, <1>3, PTL DEF BackendSpec

=============================================================================

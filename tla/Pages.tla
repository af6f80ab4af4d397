------------------------------- MODULE Pages -------------------------------
(***************************************************************************)
(* Paged listings of dynamo.Base: the queries, plain and filtered, and the *)
(* cursors that lead a client from page to page.  A partition is a set of  *)
(* positions, those of the items it holds; 0 is before the first.  Some of *)
(* them match the filter.  Items come and go while a client is paging.     *)
(***************************************************************************)
EXTENDS Naturals, FiniteSets, Sequences, Functions

CONSTANTS Positions, Limit, MaxPages,
          MaxChanges            \* bound: items put or deleted during a listing

ASSUME PagesAssumption ==
    /\ Positions \subseteq Nat \ {0}
    /\ Limit \in Nat \ {0}

VARIABLES here, match,          \* the items, and the positions that match
          stayed, changes,      \* history: items there since the listing began
          page,                 \* the page on screen
          query,                \* the call under way
          listed,               \* history: positions listed so far
          trail                 \* history: where the pages up to this one start

pvars == <<here, match, stayed, changes, page, query, listed, trail>>

\* A cursor: the key it starts after, and the one its own page started after.
Cursor(key, prev) == [key |-> key, prev |-> prev]

None == Cursor(0, 0)

\* The envelope: whether there was an incoming cursor, and where it leads.
Envelope(next, back, more) == [next |-> next, back |-> back, hasPrevious |-> more]

Calling(pc, cursor, start, items, calls) ==
    [pc |-> pc, cursor |-> cursor, start |-> start, items |-> items, calls |-> calls]

NoQuery == Calling("idle", None, 0, <<>>, 0)

Take(s, n) == SubSeq(s, 1, n)

\* In the order of the partition.
Ordered(s) == \A i, j \in DOMAIN s : i < j => s[i] < s[j]

-----------------------------------------------------------------------------
(* The queries.                                                            *)

After(start) == {p \in here : p > start}

\* DynamoDB (external): the items evaluated after start, at most Limit, fewer
\* when they are large.
Evaluated(start) ==
    {s \in UNION {[1..n -> After(start)] : n \in 0..Limit} :
        /\ Ordered(s)
        /\ \A p \in After(start) \ Range(s), q \in Range(s) : q < p
        /\ s = <<>> => After(start) = {}}

\* The filter (external): the items of S that match, in order.
Filtered(S) ==
    {s \in [1..Cardinality(S \cap match) -> S \cap match] : Range(s) = S \cap match /\ Ordered(s)}

\* LastEvaluatedKey: absent when the end was reached before the limit.
LastKey(start, s) ==
    IF Len(s) < Limit /\ After(start) \subseteq Range(s) THEN 0 ELSE s[Len(s)]

\* Variant with a fault: a page cut short goes on from the raw key.
RawCursor(items, last) == last

\* cursorFrom: the key of the last item that is returned.
CursorFrom(items, last) == items[Len(items)]

\* One call of queryFiltered.  Without a filter everything matches and one call
\* is all.
Round(s, found) ==
    LET want == Limit - Len(query.items)
        last == LastKey(query.start, s)
        items == query.items \o Take(found, IF Len(found) > want THEN want ELSE Len(found))
        ends == last = 0 \/ Len(items) = Limit \/ query.calls + 1 >= MaxPages \/ match = Positions
    IN  IF Len(found) > want
        THEN IF query.calls = 0
             THEN Calling("noschema", query.cursor, 0, <<>>, 0)
             ELSE Calling("done", query.cursor, CursorFrom(items, last), items, 0)
        ELSE IF ends
             THEN Calling("done", query.cursor, last, items, 0)
             ELSE Calling("call", query.cursor, last, items, query.calls + 1)

QueryCall ==
    /\ query.pc = "call"
    /\ \E s \in Evaluated(query.start) : \E found \in Filtered(Range(s)) : query' = Round(s, found)
    /\ UNCHANGED <<here, match, stayed, changes, page, listed, trail>>

\* The call fails: the client gets no page.
QueryFails ==
    /\ query.pc = "call"
    /\ query' = Calling("failed", query.cursor, 0, <<>>, 0)
    /\ UNCHANGED <<here, match, stayed, changes, page, listed, trail>>

\* Variant with a fault: the next cursor remembers its own key.
OnwardItself(start, c) == Cursor(start, start)

\* The next cursor remembers the key this page started from.
Onward(start, c) == Cursor(start, c.key)

\* NewPageWithPrevious.
QueryAnswer ==
    LET c == query.cursor
    IN  /\ query.pc = "done"
        /\ page' = Envelope(IF query.start = 0 THEN None ELSE Onward(query.start, c),
                            IF c.prev = 0 THEN None ELSE Cursor(c.prev, 0), c # None)
        /\ listed' = listed \o query.items
        /\ query' = NoQuery
        /\ UNCHANGED <<here, match, stayed, changes, trail>>

-----------------------------------------------------------------------------
(* The client.                                                             *)

Ask(c) == query' = Calling("call", c, c.key, <<>>, 0)

Forward ==
    /\ query.pc = "idle"
    /\ page.next # None
    /\ Ask(page.next)
    /\ trail' = Append(trail, page.next.key)
    /\ UNCHANGED <<here, match, stayed, changes, page, listed>>

\* It asks for the same page again.
AskAgain ==
    /\ query.pc = "failed"
    /\ Ask(query.cursor)
    /\ UNCHANGED <<here, match, stayed, changes, page, listed, trail>>

\* Back: the previous cursor or, without one, no cursor at all.  A listing that
\* turns back starts a new count.
Back ==
    /\ query.pc = "idle"
    /\ page.hasPrevious
    /\ Ask(page.back)
    /\ trail' = IF page.back = None THEN <<0>> ELSE Take(trail, Len(trail) - 1)
    /\ listed' = <<>>
    /\ stayed' = {}
    /\ UNCHANGED <<here, match, changes, page>>

\* Another writer puts or deletes an item.
Changes(p) ==
    /\ changes < MaxChanges
    /\ changes' = changes + 1
    /\ here' = IF p \in here THEN here \ {p} ELSE here \cup {p}
    /\ stayed' = stayed \ {p}
    /\ UNCHANGED <<match, page, query, listed, trail>>

PagesInit ==
    /\ here \in {S \in SUBSET Positions : Cardinality(S) + 1 >= Cardinality(Positions)}
    /\ match \in SUBSET Positions
    /\ stayed = here
    /\ changes = 0
    /\ page = Envelope(None, None, FALSE)
    /\ query = Calling("call", None, 0, <<>>, 0)
    /\ listed = <<>>
    /\ trail = <<0>>

PagesNext ==
    \/ QueryCall \/ QueryFails \/ QueryAnswer \/ AskAgain \/ Forward \/ Back
    \/ \E p \in Positions : Changes(p)

PagesSpec == PagesInit /\ [][PagesNext]_pvars

-----------------------------------------------------------------------------
(* Properties.                                                             *)

\* Pages follow each other: no item is listed twice and the order is that of
\* the partition, wherever the filter, the limit or the page cap cut a page; and
\* at the end of the list every matching item that was there all along has been
\* listed, also the ones a full page left over and those after an empty page.
\* No page is cut before the key schema is known.
EachListedOnce ==
    /\ Ordered(listed)
    /\ query.pc # "noschema"
    /\ query.pc = "idle" /\ page.next = None => stayed \cap match \subseteq Range(listed)

\* A previous cursor leads to the page the client came from, however often it
\* turned back and on again.
BackIsPageBefore ==
    [][Back /\ page.back # None => page.back.key = trail[Len(trail) - 1]]_pvars

\* "It is null on the first and second page" (NewPageWithPrevious): a page with
\* more than one before it has a previous cursor.
BackKnown == query.pc = "idle" /\ Len(trail) > 2 => page.back # None

=============================================================================

----------------------------- MODULE Versioned -----------------------------
(***************************************************************************)
(* Writes of dynamo.Base to one item: UpdateVersioned and the conditional  *)
(* update under it, against the other writers of the item.  An item is its *)
(* version (0 without one), the set of writers whose change it holds (what *)
(* mutate computes from the copy it read) and a counter of its own.  Reads *)
(* are eventually consistent: they may return the state before the last    *)
(* write.                                                                  *)
(***************************************************************************)
EXTENDS Naturals, FiniteSets

CONSTANTS Writers,
          MaxAttempts,          \* of UpdateVersioned and of ConditionalUpdate
          MaxIncrements, MaxDeletes

ASSUME VersionedAssumption == MaxAttempts \in Nat /\ MaxIncrements \in Nat /\ MaxDeletes \in Nat

VARIABLES item, before,         \* sets of at most one item
          writer,               \* each call of UpdateVersioned
          counted,              \* history: increments the item has taken
          deletes,              \* history: times the item was deleted
          applied,              \* history: writers whose change went in
          crossed,              \* history: one came from a copy of a deleted item
          resent                \* history: writers whose landed write was sent again

vvars == <<item, before, writer, counted, deletes, applied, crossed, resent>>

\* gen is history: which of the items that had this key.
Doc(gen, ver, val, cnt) == [gen |-> gen, ver |-> ver, val |-> val, cnt |-> cnt]

FreshItem == Doc(deletes, 0, {}, 0)

\* read: the copy; judged: what the table answered.
WriterCall(pc, attempt, try, read, judged) ==
    [pc |-> pc, attempt |-> attempt, try |-> try, read |-> read, judged |-> judged]

NoCopy == Doc(0, 0, {}, 0)

NotCalled == WriterCall("idle", 0, 0, NoCopy, "none")

WriterStep(w, c) == writer' = [writer EXCEPT ![w] = c]

Outcome(w, pc) == WriterStep(w, WriterCall(pc, 0, 0, NoCopy, writer[w].judged))

Same == UNCHANGED <<item, before, counted, deletes, applied, crossed, resent>>

Commit(new) == item' = new /\ before' = item

-----------------------------------------------------------------------------
(* UpdateVersioned.                                                        *)

Start(w) ==
    /\ writer[w].pc = "idle"
    /\ WriterStep(w, WriterCall("get", 1, 0, NoCopy, "none"))
    /\ Same

\* GetItem, then mutate: its error is returned, and no updates are a no-op.
Read(w) ==
    /\ writer[w].pc = "get"
    /\ \E copy \in {item, before} :
         IF copy = {} THEN Outcome(w, "notfound")
         ELSE \E i \in copy :
                \/ Outcome(w, "mutate")
                \/ IF w \in i.val THEN Outcome(w, "noop")
                   ELSE WriterStep(w, WriterCall("update", writer[w].attempt, 1, i, "none"))
    /\ Same

\* Variant with a fault: an item that still exists is taken for unchanged.
StillExists(i, read) == TRUE

\* The condition of the update: the version is the one read, or still absent.
Unchanged(i, read) == i.ver = read.ver

\* The update sets the attributes mutate returned and the version.
Written(w, i, read) == Doc(i.gen, read.ver + 1, read.val \cup {w}, i.cnt)

\* The table answers.
TableSays(w, err) ==
    LET c == writer[w] IN WriterStep(w, WriterCall("reply", c.attempt, c.try, c.read, err))

\* The outcomes of one UpdateItem.  A transaction on the same item, or throttling,
\* leaves it alone.  After a write the reply may be lost; the AWS client then
\* gives up, or sends the same request again.
UpdateItem(w) ==
    LET c == writer[w]
        holds == \E i \in item : Unchanged(i, c.read)
    IN  /\ c.pc = "update"
        /\ \/ /\ holds
              /\ Commit({Written(w, i, c.read) : i \in item})
              /\ applied' = applied \cup {w}
              /\ crossed' = (crossed \/ \E i \in item : i.gen # c.read.gen)
              /\ \/ (\E err \in {"none", "transport"} : TableSays(w, err)) /\ resent' = resent
                 \/ resent' = resent \cup {w} /\ UNCHANGED writer
              /\ UNCHANGED <<counted, deletes>>
           \/ /\ ~holds
              /\ TableSays(w, "condition")
              /\ Same
           \/ /\ \E err \in {"conflict", "transport"} : TableSays(w, err)
              /\ Same

IsConditionFailed(err) == err = "condition"

\* Variant with a fault: a failure of the transport is repeated too.
IsTransientAny(err) == err \in {"conflict", "transport"}

\* isTransient: the write never happened.
IsTransient(err) == err = "conflict"

\* ConditionalUpdate on the reply, and what UpdateVersioned makes of it.
Reply(w) ==
    LET c == writer[w]
    IN  /\ c.pc = "reply"
        /\ CASE c.judged = "none" -> Outcome(w, "done")
             [] IsConditionFailed(c.judged) -> WriterStep(w, WriterCall("lost", c.attempt, c.try, c.read, c.judged))
             [] IsTransient(c.judged) /\ ~IsConditionFailed(c.judged) /\ c.try < MaxAttempts ->
                  WriterStep(w, WriterCall("update", c.attempt, c.try + 1, c.read, c.judged))
             [] OTHER -> Outcome(w, "error")
        /\ Same

\* The condition was not met: another attempt reads again.
Lost(w) ==
    LET c == writer[w]
    IN  /\ c.pc = "lost"
        /\ IF c.attempt < MaxAttempts THEN WriterStep(w, WriterCall("get", c.attempt + 1, 0, NoCopy, "none"))
           ELSE Outcome(w, "versionconflict")
        /\ Same

\* ctx ends during a pause.
GivesUp(w) ==
    /\ writer[w].pc \in {"lost", "reply"}
    /\ writer[w].judged # "none"
    /\ Outcome(w, "error")
    /\ Same

-----------------------------------------------------------------------------
(* The other writers: UpsertAttrs and PutItem of an absent item,           *)
(* AtomicIncrement and DeleteItem, alone or in a TransactWrite.            *)

UpsertAttrs ==
    /\ item = {}
    /\ Commit({FreshItem})
    /\ UNCHANGED <<writer, counted, deletes, applied, crossed, resent>>

AtomicIncrement ==
    /\ counted < MaxIncrements
    /\ Commit({Doc(i.gen, i.ver, i.val, i.cnt + 1) : i \in IF item = {} THEN {FreshItem} ELSE item})
    /\ counted' = counted + 1
    /\ UNCHANGED <<writer, deletes, applied, crossed, resent>>

\* What had been written goes with the item.
DeleteItem ==
    /\ item # {}
    /\ deletes < MaxDeletes
    /\ Commit({})
    /\ counted' = 0
    /\ applied' = {}
    /\ deletes' = deletes + 1
    /\ crossed' = FALSE
    /\ UNCHANGED <<writer, resent>>

VersionedInit ==
    /\ item \in {{}, {NoCopy}}
    /\ before = item
    /\ writer = [w \in Writers |-> NotCalled]
    /\ counted = 0
    /\ deletes = 0
    /\ applied = {}
    /\ crossed = FALSE
    /\ resent = {}

VersionedNext ==
    \/ \E w \in Writers : Start(w) \/ Read(w) \/ UpdateItem(w) \/ Reply(w) \/ Lost(w) \/ GivesUp(w)
    \/ UpsertAttrs \/ AtomicIncrement \/ DeleteItem

VersionedSpec == VersionedInit /\ [][VersionedNext]_vvars

-----------------------------------------------------------------------------
(* Properties.                                                             *)

\* No update is lost: the item holds the change of every writer that wrote to
\* it, however stale the copies were that the others read, unless the item was
\* deleted and created anew under a version some writer had read before.
NoLostUpdate ==
    ~crossed => applied \subseteq UNION {i.val : i \in item}

\* A versioned write touches nothing but what mutate returned: no increment of
\* another attribute is undone, even by a write from a stale copy.
IncrementsKept == counted = 0 \/ \E i \in item : i.cnt = counted

\* "Nothing was written" (ErrVersionConflict): whoever is told that every attempt
\* lost the race has no change in the item, however the table answered on the
\* way, unless the AWS client sent a write again that had landed: the repetition
\* fails the condition it made itself.
ConflictWroteNothing ==
    \A w \in Writers :
        writer[w].pc = "versionconflict" /\ w \notin resent => w \notin applied

=============================================================================

---------------------------- MODULE ErasureState ----------------------------
(***************************************************************************)
(* The erasure state of one key (a user's SUB# or an organization's ORG#   *)
(* record) and the pure functions that move it: apply, the reopening done  *)
(* by Clear and Relink, and the version condition of a conditional put.    *)
(*                                                                         *)
(* A record keeps its state, the request that wrote it and seq, the        *)
(* issued_at of the newest message applied.  UpdatedAt is left out: nothing *)
(* reads it.  The TTL attribute is a function of the state (HasTTL).       *)
(***************************************************************************)
EXTENDS Integers

CONSTANTS Requests,      \* deletion requests of ctech-account
          None,          \* no record / no message
          ErasedExpires  \* erasedTTL > 0: tombstones carry a TTL

States == {"active", "locked", "erased"}

Types == {"locked", "unlocked", "erase", "relinked"}

Record == [state: States, req: Requests, seq: Nat]

ASSUME StateAssumption ==
    /\ None \notin Requests
    /\ None \notin Record
    /\ ErasedExpires \in BOOLEAN

MaxOf(a, b) == IF a >= b THEN a ELSE b

\* What an absent record counts as: active, with no message applied.
Prev(cur) == IF cur = None THEN [state |-> "active", req |-> None, seq |-> 0]
                           ELSE cur

\* The state a message type moves a record to.
StateFor(type) == CASE type = "erase"    -> "erased"
                    [] type = "locked"   -> "locked"
                    [] type = "unlocked" -> "active"

\* Variant with a fault: a tombstone that is not terminal.
AcceptsAfterErase(cur, m) ==
    \/ /\ m.type = "erase"
       /\ ~(cur # None /\ cur.state = "active" /\ m.seq <= cur.seq)
    \/ /\ m.type \in {"locked", "unlocked"}
       /\ m.seq > Prev(cur).seq

\* apply's verdict: does message m move the record read as cur?
Accepts(cur, m) ==
    /\ Prev(cur).state # "erased"
    /\ \/ /\ m.type = "erase"
          /\ ~(cur # None /\ cur.state = "active" /\ m.seq <= cur.seq)
       \/ /\ m.type \in {"locked", "unlocked"}
          /\ m.seq > Prev(cur).seq

\* The record apply writes for a message it accepts.
Outcome(cur, m) == [state |-> StateFor(m.type), req |-> m.req,
                    seq |-> MaxOf(Prev(cur).seq, m.seq)]

\* Relink reopens only a tombstone older than the relink.
Relinks(cur, m) == cur # None /\ cur.state = "erased" /\ m.seq > cur.seq

\* Clear and Relink keep the request: it proves which erase was done.
Reopened(cur, seq) == [state |-> "active", req |-> cur.req, seq |-> seq]

\* The condition put attaches to its write: request_id is not part of it.
SameVersion(cur, rec) ==
    IF cur = None THEN rec = None
                  ELSE rec # None /\ rec.seq = cur.seq /\ rec.state = cur.state

\* Records DynamoDB may delete by TTL: active ones after activeMemory,
\* tombstones after erasedTTL when one is configured, locked ones never.
HasTTL(rec) == rec.state = "active" \/ (rec.state = "erased" /\ ErasedExpires)

=============================================================================

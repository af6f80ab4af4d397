---------------------------- MODULE ErasureTable ----------------------------
(***************************************************************************)
(* What the erasure-state table promises: every change of a record is the  *)
(* atomic application of one published message (or of the user coming      *)
(* back, or of a TTL) to the record as it is at that moment.  There are no *)
(* reads, no versions, no retries and no processes here; Erasure has them  *)
(* all and implements this.                                                *)
(***************************************************************************)
EXTENDS ErasureState

CONSTANTS Sub,   \* the user's key
          Orgs,  \* keys of organizations
          Sends, \* what ctech-account may publish
          MaxSeq \* bound: messages published

VARIABLES table,  \* key -> Record or None
          clock,  \* issued_at of the newest message
          sent    \* every message published

tvars == <<table, clock, sent>>

Set(k, rec) == table' = [table EXCEPT ![k] = rec]

Publish(s) ==
    /\ clock < MaxSeq
    /\ clock' = clock + 1
    /\ sent' = sent \cup {[type |-> s.type, req |-> s.req, orgs |-> s.orgs,
                           targets |-> s.targets, seq |-> clock + 1]}
    /\ UNCHANGED table

\* A message locks, unlocks or erases the user.  An erase locks first.
ApplyUser(m) ==
    /\ m.type # "relinked"
    /\ \E t \in {m.type, "locked"} :
         LET step == [m EXCEPT !.type = t]
         IN  /\ t = m.type \/ m.type = "erase"
             /\ Accepts(table[Sub], step)
             /\ Set(Sub, Outcome(table[Sub], step))

\* An erase of the user's organization.
ApplyOrg(m, o) ==
    /\ m.type = "erase" /\ o \in m.orgs
    /\ Accepts(table[o], m)
    /\ Set(o, Outcome(table[o], m))

\* The user comes back by a relink message.
Relink(m) ==
    /\ m.type = "relinked"
    /\ Relinks(table[Sub], m)
    /\ Set(Sub, Reopened(table[Sub], m.seq))

\* The user comes back by consent, at a local time now.
Clear(now) ==
    /\ table[Sub] # None /\ table[Sub].state = "erased"
    /\ Set(Sub, Reopened(table[Sub], MaxOf(table[Sub].seq, now)))

Expire(k) ==
    /\ table[k] # None /\ HasTTL(table[k])
    /\ Set(k, None)

TInit ==
    /\ table = [k \in {Sub} \cup Orgs |-> None]
    /\ clock = 0
    /\ sent = {}

Apply ==
    /\ \/ \E m \in sent : /\ m.targets
                          /\ \/ ApplyUser(m)
                             \/ \E o \in Orgs : ApplyOrg(m, o)
                             \/ Relink(m)
       \/ \E now \in 0..clock : Clear(now)
       \/ \E k \in {Sub} \cup Orgs : Expire(k)
    /\ UNCHANGED <<clock, sent>>

TNext == (\E s \in Sends : Publish(s)) \/ Apply

TSpec == TInit /\ [][TNext]_tvars

=============================================================================

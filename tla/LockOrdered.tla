---------------------------- MODULE LockOrdered -----------------------------
(***************************************************************************)
(* Locker.AcquireOrdered: callers that take several keys at once, each in  *)
(* its own process, and try again when they did not get all of them.       *)
(***************************************************************************)
EXTENDS Lock, Sequences, SequencesExt

CONSTANTS Callers, Wants,   \* caller -> the keys it asks for, in any order
          MaxOrderedFaults  \* bound: failed store calls

VARIABLES opc, got, ofaults \* got: the tokens of the keys taken so far

orderedVars == <<opc, got, ofaults>>
ovars == <<lockVars, orderedVars>>

\* Variant with a fault: the keys are taken in the caller's order.
AsGiven(c) == Wants[c]

\* sort.Strings
Ids(c) == SortSeq(Wants[c], <)

FreshToken ==
    CHOOSE t \in Tokens : /\ \A k \in Keys : lease[k].tok # t
                          /\ \A c \in Callers : \A i \in DOMAIN got[c] : got[c][i] # t

OrderedFault ==
    /\ ofaults < MaxOrderedFaults
    /\ ofaults' = ofaults + 1

OGoto(c, l) == opc' = [opc EXCEPT ![c] = l]

Ask(c) ==
    /\ opc[c] = "idle"
    /\ OGoto(c, "taking")
    /\ UNCHANGED <<lease, got, ofaults>>

\* One Acquire of the loop: granted, refused, or an error before or after the
\* store carried it out.  The last two release what is held.
TakeNext(c) ==
    LET k == Ids(c)[Len(got[c]) + 1]
        t == FreshToken
    IN  /\ opc[c] = "taking"
        /\ Len(got[c]) < Len(Ids(c))
        /\ \/ /\ SetNX(k, t)
              /\ got' = [got EXCEPT ![c] = Append(@, t)]
              /\ UNCHANGED <<opc, ofaults>>
           \/ /\ lease[k].left > 0
              /\ OGoto(c, "undoing")
              /\ UNCHANGED <<lease, got, ofaults>>
           \/ /\ OrderedFault
              /\ UNCHANGED lease \/ SetNX(k, t)
              /\ OGoto(c, "undoing")
              /\ UNCHANGED got

Granted(c) ==
    /\ opc[c] = "taking"
    /\ Len(got[c]) = Len(Ids(c))
    /\ OGoto(c, "holding")
    /\ UNCHANGED <<lease, got, ofaults>>

\* The caller is done and calls releaseAll.
Finish(c) ==
    /\ opc[c] = "holding"
    /\ OGoto(c, "undoing")
    /\ UNCHANGED <<lease, got, ofaults>>

\* releaseAll, one key at a time and the last first; an error is dropped.
ReleaseAll(c) ==
    /\ opc[c] = "undoing"
    /\ \/ /\ got[c] = <<>>
          /\ OGoto(c, "idle")
          /\ UNCHANGED <<lease, got, ofaults>>
       \/ /\ got[c] # <<>>
          /\ \/ DelIfMatch(Ids(c)[Len(got[c])], Last(got[c])) /\ UNCHANGED ofaults
             \/ OrderedFault /\ UNCHANGED lease
          /\ got' = [got EXCEPT ![c] = Front(@)]
          /\ UNCHANGED opc

OrderedTick ==
    /\ \E k \in Keys : lease[k].left > 0
    /\ Age
    /\ UNCHANGED orderedVars

OrderedInit ==
    /\ LockInit
    /\ opc = [c \in Callers |-> "idle"]
    /\ got = [c \in Callers |-> <<>>]
    /\ ofaults = 0

OrderedCall(c) == Ask(c) \/ TakeNext(c) \/ Granted(c) \/ Finish(c) \/ ReleaseAll(c)

\* Nobody calls Renew for these keys, so the process's tokens are left out.
OrderedNext == ((\E c \in Callers : OrderedCall(c)) \/ OrderedTick) /\ UNCHANGED tokens

(* Fairness.  Callers keep calling, calls end and time passes.             *)
OrderedFairness == WF_lease(OrderedTick) /\ \A c \in Callers : WF_orderedVars(OrderedCall(c))

OrderedSpec == OrderedInit /\ [][OrderedNext]_ovars /\ OrderedFairness

-----------------------------------------------------------------------------
(* Properties.                                                             *)

\* The common order makes callers that want overlapping keys succeed: however
\* they interleave, one of them gets all of its keys.
SomeoneGetsAll ==
    \A c \in Callers : opc[c] = "taking" ~> \E d \in Callers : opc[d] = "holding"

=============================================================================

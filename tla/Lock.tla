-------------------------------- MODULE Lock --------------------------------
(***************************************************************************)
(* Package lock: one lease per key in the store that the processes share,  *)
(* and in every process the token of each key it believes to hold.  An     *)
(* operator here is one store command or one critical section of Locker.mu;*)
(* the modules that call the lock make steps of them.                      *)
(***************************************************************************)
EXTENDS Naturals

CONSTANTS Keys, Procs, Tokens,
          NoToken,      \* no token: a free key, or nothing remembered
          TTL           \* how many ticks a lease lasts

ASSUME LockAssumption == TTL \in Nat \ {0} /\ NoToken \notin Tokens

VARIABLES lease,        \* the store: key -> token and ticks left
          tokens        \* Locker.tokens of every process

lockVars == <<lease, tokens>>

Leases == [tok : Tokens \cup {NoToken}, left : 0..TTL]

Lease(t, n) == [tok |-> t, left |-> n]

Free == Lease(NoToken, 0)

LockTypeOK ==
    /\ lease \in [Keys -> Leases]
    /\ tokens \in [Procs -> [Keys -> Tokens \cup {NoToken}]]

LockInit ==
    /\ lease = [k \in Keys |-> Free]
    /\ tokens = [p \in Procs |-> [k \in Keys |-> NoToken]]

Owns(k, t) == lease[k].left > 0 /\ lease[k].tok = t

\* Variant with a fault: SET without NX.
SetAnyway(k, t) == lease' = [lease EXCEPT ![k] = Lease(t, TTL)]

\* SET NX EX: only on a key nobody holds.
SetNX(k, t) ==
    /\ lease[k].left = 0
    /\ lease' = [lease EXCEPT ![k] = Lease(t, TTL)]

\* The compare-and-expire script; a key past its lease matches no token.
RenewIfMatch(k, t) ==
    lease' = IF Owns(k, t) THEN [lease EXCEPT ![k] = Lease(t, TTL)] ELSE lease

\* The compare-and-delete script.
DelIfMatch(k, t) ==
    lease' = IF Owns(k, t) THEN [lease EXCEPT ![k] = Free] ELSE lease

Remember(p, k, t) == tokens' = [tokens EXCEPT ![p][k] = t]

\* One tick of the store's clock; a lease at its end is gone.
Aged(l) == IF l.left <= 1 THEN Free ELSE Lease(l.tok, l.left - 1)

Age == lease' = [k \in Keys |-> Aged(lease[k])]

=============================================================================

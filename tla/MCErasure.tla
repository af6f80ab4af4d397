----------------------------- MODULE MCErasure -----------------------------
(* Small instances of Erasure for TLC. *)
EXTENDS ErasureInvariant, TLC

CONSTANTS p1, p2, r1, r2, user, o1, o2

Say(type, req, orgs) == [type |-> type, req |-> req, orgs |-> orgs, targets |-> TRUE]

\* One request, cancelled or carried out, and the user coming back.  The erase
\* applies the lock itself.
OneRequest == {Say("erase", r1, {}), Say("unlocked", r1, {}), Say("relinked", r2, {})}

\* Two requests of an account with two organizations, the second one locked or
\* cancelled too, and a message for other services.
TwoRequests == {Say("erase", r1, {o1, o2}), Say("locked", r2, {}), Say("erase", r2, {o1}),
                Say("unlocked", r2, {}), Say("relinked", r2, {}),
                [Say("relinked", r2, {}) EXCEPT !.targets = FALSE]}

\* Processes are interchangeable.
Symmetric == Permutations(Procs)

=============================================================================

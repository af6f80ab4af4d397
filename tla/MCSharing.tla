----------------------------- MODULE MCSharing ------------------------------
(* Small instances for TLC of five components in which callers wait for     *)
(* each other.  They share no state: `part` says which of them a behaviour  *)
(* is about, and the fairness of each is that of its own module.            *)
EXTENDS AuthCache, LockOrdered, Registry, Export, Resilient

CONSTANTS c1, c2

VARIABLE part

Crossing == c1 :> <<1, 2>> @@ c2 :> <<2, 1>>

shvars == <<part, avars, ovars, gvars, xvars, hvars>>

SharingInit ==
    /\ part \in {"gets", "locks", "registry", "export", "circuit"}
    /\ Init /\ OrderedInit /\ RegistryInit /\ ExportInit /\ CircuitInit
    /\ part = "export" \/ asked = "part"

SharingNext ==
    \/ part = "gets" /\ Next /\ UNCHANGED <<part, ovars, gvars, xvars, hvars>>
    \/ part = "locks" /\ OrderedNext /\ UNCHANGED <<part, avars, gvars, xvars, hvars>>
    \/ part = "registry" /\ RegistryNext /\ UNCHANGED <<part, avars, ovars, xvars, hvars>>
    \/ part = "export" /\ ExportNext /\ UNCHANGED <<part, avars, ovars, gvars, hvars>>
    \/ part = "circuit" /\ CircuitNext /\ UNCHANGED <<part, avars, ovars, gvars, xvars>>

SharingFairness ==
    /\ WF_avars(part = "gets" /\ CacheTick)
    /\ \A l \in Loads : WF_avars(part = "gets" /\ Finishes(l))
    /\ \A r \in Requests : SF_avars(part = "gets" /\ Join(r))
    /\ WF_lease(part = "locks" /\ OrderedTick)
    /\ \A c \in Callers : WF_orderedVars(part = "locks" /\ OrderedCall(c))
    /\ WF_gvars(part = "registry" /\ Listen)
    /\ WF_xvars(part = "export" /\ Republish)
    /\ \A c \in Exporters : WF_xvars(part = "export" /\ Receives(c))
    /\ \A c \in Exporters : WF_xvars(part = "export" /\ Handles(c))
    /\ WF_hvars(part = "circuit" /\ Tick)
    /\ \A c \in Calls :
         /\ WF_hvars(part = "circuit" /\ Proceeds(c))
         /\ SF_hvars(part = "circuit" /\ \E o \in Outcomes \ {"cancelled"} : Report(c, o, FALSE))

SharingSpec == SharingInit /\ [][SharingNext]_shvars /\ SharingFairness
=============================================================================

------------------------------ MODULE Registry ------------------------------
(***************************************************************************)
(* The WebSocket registries of ws on one instance: the connections of one  *)
(* key (MemoryRegistry) and the subscription that feeds them from the      *)
(* other instances (RedisRegistry).  Every connection has an id of its     *)
(* own.  Messages are not told apart: a broadcast is one delivery.         *)
(***************************************************************************)
EXTENDS Naturals, FiniteSets

CONSTANTS Conns, Broadcasts

VARIABLES sock,                 \* each connection: "new", "late", "open", "broken", "closed"
          conns,                \* the registered ones
          draining,
          told,                 \* history: connections asked to reconnect
          stop,                 \* Stop: pc and the connections left to tell
          cast,                 \* each Broadcast: pc and the rest of its snapshot
          sub,                  \* listen: "off", "waiting", "on", "ended"
          ctx,                  \* its context: "none", "live", "done"
          closed                \* whether the valkey client was closed

gvars == <<sock, conns, draining, told, stop, cast, sub, ctx, closed>>

lsvars == <<sub, ctx, closed>>

Work(pc, left) == [pc |-> pc, left |-> left]

NoWork == Work("idle", {})

\* Register; a connection that comes too late is told after the unlock.
Register(c) ==
    /\ sock[c] = "new"
    /\ sock' = [sock EXCEPT ![c] = IF draining THEN "late" ELSE "open"]
    /\ conns' = IF draining THEN conns ELSE conns \cup {c}
    /\ UNCHANGED <<draining, told, stop, cast, lsvars>>

RegisterTells(c) ==
    /\ sock[c] = "late"
    /\ sock' = [sock EXCEPT ![c] = "open"]
    /\ told' = told \cup {c}
    /\ UNCHANGED <<conns, draining, stop, cast, lsvars>>

\* The client goes away; its handler calls Unregister.
Breaks(c) ==
    /\ sock[c] = "open"
    /\ sock' = [sock EXCEPT ![c] = "broken"]
    /\ UNCHANGED <<conns, draining, told, stop, cast, lsvars>>

Unregister(c) ==
    /\ sock[c] = "broken"
    /\ sock' = [sock EXCEPT ![c] = "closed"]
    /\ conns' = conns \ {c}
    /\ UNCHANGED <<draining, told, stop, cast, lsvars>>

\* Stop: under the lock, close the door and take the connections.
Stop ==
    /\ stop.pc = "idle"
    /\ draining' = TRUE
    /\ stop' = Work("tell", conns)
    /\ conns' = {}
    /\ UNCHANGED <<sock, told, cast, lsvars>>

\* Variant with a fault: the first connection that fails ends the round.
StopTellsFew(c) ==
    /\ stop.pc = "tell" /\ c \in stop.left
    /\ stop' = IF sock[c] = "open" THEN Work("tell", stop.left \ {c}) ELSE Work("tell", {})
    /\ told' = IF sock[c] = "open" THEN told \cup {c} ELSE told
    /\ UNCHANGED <<sock, conns, draining, cast, lsvars>>

StopTells(c) ==
    /\ stop.pc = "tell" /\ c \in stop.left
    /\ stop' = Work("tell", stop.left \ {c})
    /\ told' = IF sock[c] = "open" THEN told \cup {c} ELSE told
    /\ UNCHANGED <<sock, conns, draining, cast, lsvars>>

\* RedisRegistry.Stop ends by cancelling the context of listen, if there is one.
Cancel == ctx' = IF ctx = "live" THEN "done" ELSE ctx

\* Everyone was told, or Stop's own context ran out.
StopReturns(expired) ==
    /\ stop.pc = "tell"
    /\ expired \/ stop.left = {}
    /\ stop' = Work(IF stop.left = {} THEN "returned" ELSE "expired", {})
    /\ Cancel
    /\ UNCHANGED <<sock, conns, draining, told, cast, sub, closed>>

\* A second Stop finds the door closed, also while the first one is at work.
StopAgain ==
    /\ draining
    /\ Cancel
    /\ UNCHANGED <<sock, conns, draining, told, stop, cast, sub, closed>>

\* Broadcast, from Publish (refused while draining) or from the listener: a
\* snapshot under the lock, then a write to each; a failed one is unregistered.
Broadcast(b) ==
    /\ cast[b].pc = "idle"
    /\ conns # {}
    /\ cast' = [cast EXCEPT ![b] = Work("send", conns)]
    /\ UNCHANGED <<sock, conns, draining, told, stop, lsvars>>

CastSends(b, c) ==
    /\ cast[b].pc = "send" /\ c \in cast[b].left
    /\ cast' = [cast EXCEPT ![b] = Work("send", cast[b].left \ {c})]
    /\ conns' = IF sock[c] = "open" THEN conns ELSE conns \ {c}
    /\ UNCHANGED <<sock, draining, told, stop, lsvars>>

CastReturns(b) ==
    /\ cast[b].pc = "send" /\ cast[b].left = {}
    /\ cast' = [cast EXCEPT ![b] = NoWork]
    /\ UNCHANGED <<sock, conns, draining, told, stop, lsvars>>

-----------------------------------------------------------------------------
(* RedisRegistry.listen.                                                   *)

others == <<sock, conns, draining, told, stop, cast>>

\* Start: the loop gets a context of its own, whether Stop has run or not.
Start ==
    /\ sub = "off"
    /\ sub' = "waiting"
    /\ ctx' = "live"
    /\ UNCHANGED <<others, closed>>

\* The owner of the client closes it.
CloseClient ==
    /\ ~closed
    /\ closed' = TRUE
    /\ UNCHANGED <<others, sub, ctx>>

\* What ends the loop: ctx, or Receive returning ErrClosing.
Over == ctx = "done" \/ closed

\* The top of the loop: Receive subscribes, unless it is over.
Subscribe ==
    /\ sub = "waiting"
    /\ sub' = IF Over THEN "ended" ELSE "on"
    /\ UNCHANGED <<others, ctx, closed>>

\* Variant with a fault: a subscription the server ends is taken for a shutdown.
LosesForGood ==
    /\ sub = "on"
    /\ sub' = "ended"
    /\ UNCHANGED <<others, ctx, closed>>

\* Receive returns: the connection is lost or recycled, or it is over.
Loses ==
    /\ sub = "on"
    /\ sub' = IF Over THEN "ended" ELSE "waiting"
    /\ UNCHANGED <<others, ctx, closed>>

Listen == Subscribe \/ (Over /\ Loses)

RegistryInit ==
    /\ sock = [c \in Conns |-> "new"]
    /\ conns = {}
    /\ draining = FALSE
    /\ told = {}
    /\ stop = NoWork
    /\ cast = [b \in Broadcasts |-> NoWork]
    /\ sub = "off"
    /\ ctx = "none"
    /\ closed = FALSE

RegistryNext ==
    \/ \E c \in Conns :
         Register(c) \/ RegisterTells(c) \/ Breaks(c) \/ Unregister(c) \/ StopTells(c)
    \/ \E b \in Broadcasts : Broadcast(b) \/ CastReturns(b) \/ \E c \in Conns : CastSends(b, c)
    \/ Stop \/ StopAgain \/ \E x \in BOOLEAN : StopReturns(x)
    \/ Start \/ CloseClient \/ Subscribe \/ Loses

RegistrySpec == RegistryInit /\ [][RegistryNext]_gvars

\* The goroutine of listen runs, and Receive returns when it is over.
RegistryFairSpec == RegistrySpec /\ WF_gvars(Listen)

-----------------------------------------------------------------------------
(* Properties.                                                             *)

\* No open connection is lost.  Until the drain it stays registered: the failed
\* write of one broadcast never removes another.  When Stop has returned without
\* running out of time it was asked to reconnect, whether it registered before,
\* during or after the drain; none is left in a registry nobody reads.
EveryoneTold ==
    /\ ~draining => \A c \in Conns : sock[c] = "open" => c \in conns
    /\ stop.pc = "returned" => conns = {} /\ \A c \in Conns : sock[c] = "open" => c \in told

\* Once started the subscription comes back after every loss, whether Receive
\* failed or ended cleanly, also when it was started after a Stop; it ends when a
\* Stop came after the Start or the client was closed, and only then.
Listens == sub # "off" ~> sub = IF Over THEN "ended" ELSE "on"

=============================================================================

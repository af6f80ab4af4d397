----------------------------- MODULE Leadership -----------------------------
(***************************************************************************)
(* What the supervisor promises of the workers it runs as leaders: a       *)
(* worker begins to lead only when no other worker of its key does, and    *)
(* any of them may stop.  There is no store, no lease and no time here;    *)
(* Supervisor has them and implements this.                                *)
(***************************************************************************)
CONSTANTS Workers, Key

VARIABLE leaders

LInit == leaders = {}

Elect(w) ==
    /\ \A v \in leaders : Key[v] # Key[w] \/ v = w
    /\ leaders' = leaders \cup {w}

Resign == leaders' \in SUBSET leaders

LNext == Resign \/ \E w \in Workers : Elect(w)

LSpec == LInit /\ [][LNext]_leaders

=============================================================================

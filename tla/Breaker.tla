------------------------------ MODULE Breaker ------------------------------
(***************************************************************************)
(* hostBreaker, the circuit of one host: the three operations that run     *)
(* under its mutex, as functions from a breaker to the breaker they leave. *)
(*                                                                         *)
(* openUntil is kept as wait, the time left until it; admit reads it only  *)
(* to compare it with now.  OnChange is a notification and is left out.    *)
(***************************************************************************)
EXTENDS Integers

CONSTANTS Failures,    \* Config.Failures
          Cooldown,    \* Config.Cooldown
          MaxCooldown  \* Config.MaxCooldown

ASSUME BreakerAssumption ==
    /\ Failures \in Nat \ {0}
    /\ Cooldown \in Nat \ {0}
    /\ MaxCooldown \in Nat \ {0}

Min2(a, b) == IF a <= b THEN a ELSE b

Breakers == [state: {"closed", "open", "halfopen"}, failures: Nat, wait: Nat,
             probing: BOOLEAN, cooldown: Nat]

Fresh == [state |-> "closed", failures |-> 0, wait |-> 0, probing |-> FALSE,
          cooldown |-> Cooldown]

\* A call that goes now is a probe.
IsProbe(b) == b.state # "closed"

\* Variant with a fault: a half-open circuit lets everyone probe.
AdmitsAnyProbe(b) == b.state = "open" => b.wait = 0

\* admit lets a call go.
Admits(b) ==
    \/ b.state = "closed"
    \/ b.state = "open" /\ b.wait = 0
    \/ b.state = "halfopen" /\ ~b.probing

\* The breaker after admit let a call go.
Admitted(b) == IF b.state = "closed" THEN b
               ELSE [b EXCEPT !.state = "halfopen", !.probing = TRUE]

Opened(b, cooldown) ==
    [b EXCEPT !.state = "open", !.probing = FALSE, !.cooldown = cooldown,
              !.wait = cooldown]

\* A failed probe doubles the cooldown, up to its maximum.
ProbeFailed(b) == Opened(b, Min2(b.cooldown * 2, MaxCooldown))

ProbeSucceeded(b) ==
    [b EXCEPT !.state = "closed", !.probing = FALSE, !.failures = 0,
              !.cooldown = Cooldown]

\* A failure while closed; enough of them in a row open the circuit.
Counted(b) ==
    IF b.failures + 1 >= Failures
    THEN [b EXCEPT !.failures = @ + 1, !.state = "open", !.wait = b.cooldown]
    ELSE [b EXCEPT !.failures = @ + 1]

\* Variant with a fault: a call admitted before the circuit opened closes it.
RecordedLate(b, failed, probe) ==
    IF probe THEN IF failed THEN ProbeFailed(b) ELSE ProbeSucceeded(b)
    ELSE IF failed THEN (IF b.state = "closed" THEN Counted(b) ELSE b)
    ELSE [b EXCEPT !.failures = 0, !.state = "closed"]

\* record: a call that is no probe counts only while the circuit is closed.
Recorded(b, failed, probe) ==
    IF probe THEN IF failed THEN ProbeFailed(b) ELSE ProbeSucceeded(b)
    ELSE IF b.state # "closed" THEN b
    ELSE IF failed THEN Counted(b) ELSE [b EXCEPT !.failures = 0]

\* Variant with a fault: the slot of a cancelled probe is not given back.
AbandonedKept(b, probe) == b

\* abandon: a cancelled probe gives its slot back.
Abandoned(b, probe) == IF probe THEN [b EXCEPT !.probing = FALSE] ELSE b

\* A unit of the cooldown passes.
Elapsed(b) == [b EXCEPT !.wait = IF @ = 0 THEN 0 ELSE @ - 1]

=============================================================================

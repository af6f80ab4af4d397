----------------------------- MODULE Resilient -----------------------------
(***************************************************************************)
(* Concurrent calls to one host through retryTransport and                 *)
(* breakerTransport.  Between two steps of a call any number of other      *)
(* calls are admitted and report, so a report may find the circuit in      *)
(* another state than the one that admitted the call.                      *)
(***************************************************************************)
EXTENDS Breaker

CONSTANTS Calls,    \* callers of the client
          Attempts  \* options.attempts

ASSUME ResilientAssumption == Attempts \in Nat \ {0}

VARIABLES breaker, \* the host's hostBreaker
          call,    \* call[c]: where c is in RoundTrip
          host     \* whether the host is up

hvars == <<breaker, call, host>>

\* How the transport answers.  error500 stands for a 5xx of a host that is up,
\* unavailable for 502, 503 and 504, broken for a transport error or a timeout,
\* ok for every answer that is neither a failure nor retried.
Outcomes == {"ok", "error500", "unavailable", "broken", "cancelled"}

\* defaultIsFailure.
IsFailure(o) == o \in {"unavailable", "broken"}

\* retryableStatus, or a transport error other than the caller's cancellation.
Retryable(o) == o \in {"error500", "unavailable", "broken"}

CanAnswer(o) == \/ o = "cancelled"
                \/ host = "up" /\ o \in {"ok", "error500"}
                \/ host = "down" /\ o \in {"unavailable", "broken"}

\* RoundTrip's local state: canRetry, attempt, the probe flag of the attempt in
\* flight, and how often the request has been sent.
Local(pc, again, attempt, probe, sends) ==
    [pc |-> pc, again |-> again, attempt |-> attempt, probe |-> probe, sends |-> sends]

NotCalling == Local("idle", FALSE, 0, FALSE, 0)

\* breakerTransport.RoundTrip up to the transport: go, or fail with OpenError,
\* which ends the call whatever the retries left.
Attempt(c, again, attempt, sends) ==
    \/ /\ Admits(breaker)
       /\ breaker' = Admitted(breaker)
       /\ call' = [call EXCEPT ![c] =
                     Local("sent", again, attempt, IsProbe(breaker), sends + 1)]
    \/ /\ ~Admits(breaker)
       /\ call' = [call EXCEPT ![c] = NotCalling]
       /\ UNCHANGED breaker

\* A call starts.  again is canRetry: a safe method or a key, and a body that
\* can be replayed.
StartCall(c) ==
    /\ call[c].pc = "idle"
    /\ \E again \in BOOLEAN : Attempt(c, again, 0, 0)
    /\ UNCHANGED host

\* The conditions under which RoundTrip's loop goes round again.
TriesAgain(l, o) == l.again /\ l.attempt + 1 < Attempts /\ Retryable(o)

\* The transport answers c: the outcome is folded into the circuit, and the call
\* waits for its next attempt or returns.  It also returns when its context is
\* done or the server asks for a longer wait than the caller accepts (giveUp).
Report(c, o, giveUp) ==
    LET l == call[c]
    IN  /\ l.pc = "sent"
        /\ CanAnswer(o)
        /\ breaker' = IF o = "cancelled" THEN Abandoned(breaker, l.probe)
                      ELSE Recorded(breaker, IsFailure(o), l.probe)
        /\ call' = [call EXCEPT ![c] =
                      IF TriesAgain(l, o) /\ ~giveUp
                      THEN Local("sleep", l.again, l.attempt, FALSE, l.sends)
                      ELSE NotCalling]
        /\ UNCHANGED host

\* The backoff ends and the next attempt is made.
Wake(c) ==
    /\ call[c].pc = "sleep"
    /\ Attempt(c, call[c].again, call[c].attempt + 1, call[c].sends)
    /\ UNCHANGED host

\* The context ends during the backoff, or the body cannot be replayed after it.
Abort(c) ==
    /\ call[c].pc = "sleep"
    /\ call' = [call EXCEPT ![c] = NotCalling]
    /\ UNCHANGED <<breaker, host>>

Tick ==
    /\ breaker.wait > 0
    /\ breaker' = Elapsed(breaker)
    /\ UNCHANGED <<call, host>>

\* The host goes down or comes back.
Flip ==
    /\ host' = IF host = "up" THEN "down" ELSE "up"
    /\ UNCHANGED <<breaker, call>>

CircuitInit ==
    /\ breaker = Fresh
    /\ call = [c \in Calls |-> NotCalling]
    /\ host = "up"

Reports(c) == \E o \in Outcomes, giveUp \in BOOLEAN : Report(c, o, giveUp)

Proceeds(c) == StartCall(c) \/ Reports(c) \/ Wake(c)

CircuitNext ==
    \/ \E c \in Calls : StartCall(c) \/ Reports(c) \/ Wake(c) \/ Abort(c)
    \/ Tick
    \/ Flip

CircuitSpec == CircuitInit /\ [][CircuitNext]_hvars

(* Fairness.  Time passes; the client's timeout ends every call and every  *)
(* backoff; callers keep calling and do not cancel every probe.            *)
CircuitFairness ==
    /\ WF_hvars(Tick)
    /\ \A c \in Calls :
         /\ WF_hvars(Proceeds(c))
         /\ SF_hvars(\E o \in Outcomes \ {"cancelled"} : Report(c, o, FALSE))

CircuitFairSpec == CircuitSpec /\ CircuitFairness

-----------------------------------------------------------------------------
(* Properties.                                                             *)

\* The breaker and the calls keep their types.
CircuitTypeOK ==
    /\ breaker \in Breakers
    /\ call \in [Calls -> [pc: {"idle", "sent", "sleep"}, again: BOOLEAN,
                           attempt: 0..(Attempts - 1), probe: BOOLEAN, sends: Nat]]
    /\ host \in {"up", "down"}

Probing(c) == call[c].pc = "sent" /\ call[c].probe

\* The probe slot of a half-open circuit is taken exactly while one call holds
\* it: no two probes at once, and no slot that nobody will give back.
ProbeSlot ==
    /\ breaker.probing <=> \E c \in Calls : Probing(c)
    /\ \A c, d \in Calls : Probing(c) /\ Probing(d) => c = d
    /\ breaker.probing => breaker.state = "halfopen"

\* A closed circuit is one failure or more short of opening, whatever calls of
\* earlier closed periods report now.
ClosedHasRoom == breaker.state = "closed" => breaker.failures < Failures

\* Backoff of the circuit: between the configured bounds, and no call waits
\* longer than the current cooldown.
CooldownRange ==
    /\ breaker.wait <= breaker.cooldown
    /\ Cooldown <= MaxCooldown => breaker.cooldown \in Cooldown..MaxCooldown

\* A request is sent at most Attempts times, and only once if it must not be
\* repeated.
SendsBounded ==
    \A c \in Calls : call[c].sends <= IF call[c].again THEN Attempts ELSE 1

\* What each call has done so far follows from where it is.
CallsOK ==
    \A c \in Calls :
        /\ call[c].pc = "idle" => call[c] = NotCalling
        /\ call[c].pc # "idle" => call[c].sends = call[c].attempt + 1
        /\ call[c].pc = "sleep" => call[c].attempt + 1 < Attempts /\ call[c].again
        /\ ~call[c].again => call[c].attempt = 0

\* Only an open circuit has a cooldown to wait for.
WaitsWhileOpen == breaker.state # "open" => breaker.wait = 0

\* The inductive invariant.
IInv == CircuitTypeOK /\ CallsOK /\ ProbeSlot /\ ClosedHasRoom /\ CooldownRange /\ WaitsWhileOpen

CircuitMoves ==
    /\ breaker.state = "open" /\ breaker'.state # "open"
       => breaker.wait = 0 /\ breaker'.state = "halfopen"
    /\ breaker.state # "closed" /\ breaker'.state = "closed"
       => \E c \in Calls : Probing(c) /\ ~Probing(c)'

\* A cut-off host stays cut off for its whole cooldown, and only the answer of
\* its probe closes the circuit: never a late answer of a call admitted before
\* the circuit opened.
OnlyProbesClose == [][CircuitMoves]_hvars

\* A host that stays up is used again, and stays in use.
Recovers == <>[](host = "up") => <>[](breaker.state = "closed")

=============================================================================

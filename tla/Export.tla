------------------------------- MODULE Export -------------------------------
(***************************************************************************)
(* dataexport.Handler plugged into the consumers of one service, for one   *)
(* export request of a person.  ctech-account and S3 are external: account *)
(* publishes a message per attempt, with an upload URL that works for a    *)
(* while, and a new one when the URL died without an ack; S3 takes a part  *)
(* while the URL works.  A version stands for the person's data, of which  *)
(* the part is a copy; it may change between two builds.                   *)
(***************************************************************************)
EXTENDS Naturals

CONSTANTS Exporters,            \* the consumers of the service's queue
          MaxExpiries,          \* bound: URLs that die
          MaxEdits,             \* bound: changes of the data
          MaxExportFaults       \* bound: failed calls and crashes

VARIABLES asked,                \* what the messages ask for
          attempt, live,        \* the last message, and whether its URL works
          inbox,                \* the attempts in the queue
          hand,                 \* each consumer inside Handle
          data,
          stored, acked,        \* versions S3 took, and that account was told of
          xfaults

xvars == <<asked, attempt, live, inbox, hand, data, stored, acked, xfaults>>

Handling(pc, msg, part) == [pc |-> pc, msg |-> msg, part |-> part]

Away == Handling("away", 0, 0)

HandleStep(c, h) == hand' = [hand EXCEPT ![c] = h]

ExportFault ==
    /\ xfaults < MaxExportFaults
    /\ xfaults' = xfaults + 1

Works(m) == live /\ m = attempt

\* Handle up to build: another service's message, a dead URL and one outside S3
\* are dropped, not retried.
Accepts(m) == asked \notin {"other", "badurl"} /\ Works(m)

Receive(c, m) ==
    /\ hand[c].pc = "away"
    /\ HandleStep(c, Handling(IF Accepts(m) THEN "build" ELSE "delete", m, 0))
    /\ UNCHANGED <<asked, attempt, live, inbox, data, stored, acked, xfaults>>

\* An error of Handle leaves the message for another delivery.
Leave(c) == HandleStep(c, Away)

\* The part is built from the data there is now; one that outgrows the spool
\* file is an error every time.
Build(c) ==
    /\ hand[c].pc = "build"
    /\ IF asked = "toolarge" THEN Leave(c)
       ELSE HandleStep(c, Handling("put", hand[c].msg, data))
    /\ UNCHANGED <<asked, attempt, live, inbox, data, stored, acked, xfaults>>

\* send: only a 2xx is an upload.
Uploaded(m) == Works(m)

Put(c) ==
    /\ hand[c].pc = "put"
    /\ stored' = IF Works(hand[c].msg) THEN stored \cup {hand[c].part} ELSE stored
    /\ IF Uploaded(hand[c].msg) THEN HandleStep(c, Handling("ack", hand[c].msg, hand[c].part))
       ELSE Leave(c)
    /\ UNCHANGED <<asked, attempt, live, inbox, data, acked, xfaults>>

\* AckClient.Send; the message is then done with.
SendAck(c) ==
    /\ hand[c].pc = "ack"
    /\ acked' = acked \cup {hand[c].part}
    /\ HandleStep(c, Handling("delete", hand[c].msg, 0))
    /\ UNCHANGED <<asked, attempt, live, inbox, data, stored, xfaults>>

DeleteMessage(c) ==
    /\ hand[c].pc = "delete"
    /\ inbox' = inbox \ {hand[c].msg}
    /\ Leave(c)
    /\ UNCHANGED <<asked, attempt, live, data, stored, acked, xfaults>>

\* Variant with a fault: an ack that fails does not fail Handle.
BrokenIgnored(c) ==
    IF hand[c].pc = "ack" THEN HandleStep(c, Handling("delete", hand[c].msg, 0)) ELSE Leave(c)

\* What a failed call makes of Handle.
Broken(c) == Leave(c)

\* A call fails, before or after it took effect, or the process dies.
ExportFails(c) ==
    /\ hand[c].pc \in {"build", "put", "ack", "delete"}
    /\ ExportFault
    /\ stored' \in {stored, IF hand[c].pc = "put" /\ Works(hand[c].msg)
                            THEN stored \cup {hand[c].part} ELSE stored}
    /\ acked' \in {acked, IF hand[c].pc = "ack" THEN acked \cup {hand[c].part} ELSE acked}
    /\ Broken(c)
    /\ UNCHANGED <<asked, attempt, live, inbox, data>>

-----------------------------------------------------------------------------
(* Account, S3 and the person.                                             *)

UrlDies ==
    /\ live
    /\ attempt <= MaxExpiries
    /\ live' = FALSE
    /\ UNCHANGED <<asked, attempt, inbox, hand, data, stored, acked, xfaults>>

Republish ==
    /\ ~live
    /\ acked = {}
    /\ attempt' = attempt + 1
    /\ live' = TRUE
    /\ inbox' = inbox \cup {attempt + 1}
    /\ UNCHANGED <<asked, hand, data, stored, acked, xfaults>>

Edit ==
    /\ data <= MaxEdits
    /\ data' = data + 1
    /\ UNCHANGED <<asked, attempt, live, inbox, hand, stored, acked, xfaults>>

ExportInit ==
    /\ asked \in {"part", "toolarge", "badurl", "other"}
    /\ attempt = 1 /\ live = TRUE
    /\ inbox = {1}
    /\ hand = [c \in Exporters |-> Away]
    /\ data = 1
    /\ stored = {} /\ acked = {}
    /\ xfaults = 0

Handles(c) == Build(c) \/ Put(c) \/ SendAck(c) \/ DeleteMessage(c)

Receives(c) == \E m \in inbox : Receive(c, m)

ExportNext ==
    \/ \E c \in Exporters : Receives(c) \/ Handles(c) \/ ExportFails(c)
    \/ UrlDies \/ Republish \/ Edit

-----------------------------------------------------------------------------
(* Properties.                                                             *)

\* Every export that can be built and that a consumer took up ends in the ack of
\* a part that S3 has: after a failure at any step the message is delivered
\* again, after a dead URL account sends another, and account is never told of
\* a part that was not stored, after which it would send nothing more.
ExportAcked ==
    (asked = "part" /\ \E c \in Exporters : hand[c] # Away) ~> acked \cap stored # {}

=============================================================================

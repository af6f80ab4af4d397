------------------------------ MODULE BankLoops -----------------------------
(***************************************************************************)
(* The methods of inter/provider.go that call the bank in a loop: Connect  *)
(* (the ladder of scopes) and ListCallbacks (pages decoded into one reused *)
(* buffer).  A behaviour is one call of one of them, `task`.               *)
(***************************************************************************)
EXTENDS Naturals, Sequences, FiniteSets

CONSTANTS Optional,       \* products an integration may have beyond the two that bill
          Charges,        \* charges that callback records name
          PageSize,       \* records in a page of callbacks
          MaxListed       \* pages of callbacks

VARIABLES task,   \* "connect" or "list"
          conn,   \* Connect's local state and the integration at the bank
          listing    \* ListCallbacks' pages

lpvars == <<task, conn, listing>>

-----------------------------------------------------------------------------
(* Connect *)

Products == {"statement", "collection"} \cup Optional

(* scopesFor: the statement is only read, the others have scopes to read and
   to write *)
ScopesFor(p) == IF p = "statement" THEN {<<p, "read">>} ELSE {<<p, "read">>, <<p, "write">>}

Everything == UNION {ScopesFor(p) : p \in Products}

(* Connect's ladder of scopes: what it asks for, first to last *)
Ladder == <<Everything, ScopesFor("statement") \cup ScopesFor("collection"), ScopesFor("statement")>>

(* what a connection with these scopes can do *)
Capabilities(granted) == {p \in Products : ScopesFor(p) \subseteq granted}

(* The integration: the scopes ticked at the bank, and whether the secret is
   right.  Connect: the rung it asks for, what the token grants, its step.
   odd is history: an answer that statusErr has no name for. *)
Connection(ticked, secret, rung, granted, step, odd) ==
    [ticked |-> ticked, secret |-> secret, rung |-> rung, granted |-> granted, step |-> step, odd |-> odd]

Goes(rung, granted, step, odd) ==
    conn' = Connection(conn.ticked, conn.secret, rung, granted, step, odd)

(* statusErr: the class of an answer by its code *)
StatusErr(code) ==
    CASE code = 401 -> "ErrUnauthorized"
      [] code = 403 -> "ErrScopesRefused"
      [] code = 404 -> "ErrNotFound"
      [] code = 409 -> "ErrConcluded"
      [] code = 429 -> "ErrRateLimited"
      [] code >= 500 -> "ErrUnavailable"
      [] OTHER -> "ErrInvalidRequest"

(* FetchToken's error; 0 is no answer in time, or one without a token *)
TokenErr(code) ==
    CASE code = 0 -> "ErrUnavailable"
      [] code \in {400, 401, 403} -> "ErrCredentialsRefused"
      [] OTHER -> StatusErr(code)

(* Answers that say nothing of the secret or the scopes: none at all, a route
   that is gone, a timeout, a conflict, a rate limit, a failure *)
Inconclusive == {0, 404, 408, 409, 429, 500}

(* The bank (external) looks at the secret and at the scopes: it refuses the
   whole request, or grants it, or the part of it that is ticked *)
Serves(asked) == conn.secret /\ asked \cap conn.ticked # {}
Refuses(asked) == ~(conn.secret /\ asked \subseteq conn.ticked)

(* Variant with a fault: any failure of the token call steps down. *)
StepsDownAlways(err) == TRUE

(* Connect: which errors lead to the next rung *)
StepsDown(err) == err \in {"ErrCredentialsRefused", "ErrScopesRefused", "ErrInvalidRequest"}

(* CredentialsFrom and InspectPair: the certificate and its key *)
InspectPair ==
    /\ task = "connect" /\ conn.step = "pair"
    /\ \E step \in {"token", "badpair"} : Goes(1, {}, step, FALSE)
    /\ UNCHANGED <<task, listing>>

(* A token with the scopes of the rung, or those that are ticked; without the
   statement's there is no connection *)
FetchToken ==
    LET asked == Ladder[conn.rung]
        granted == asked \cap conn.ticked
    IN  /\ task = "connect" /\ conn.step = "token"
        /\ Serves(asked)
        /\ Goes(conn.rung, granted, IF "statement" \in Capabilities(granted) THEN "balance" ELSE "unread",
                conn.odd)
        /\ UNCHANGED <<task, listing>>

(* FetchToken fails: the next rung, or the error is returned *)
TokenFails ==
    /\ task = "connect" /\ conn.step = "token"
    /\ \E code \in Inconclusive \cup {400, 401, 403} :
          LET err == TokenErr(code)
              odd == conn.odd \/ err = "ErrInvalidRequest"
          IN  /\ code \in Inconclusive \/ Refuses(Ladder[conn.rung])
              /\ IF StepsDown(err) /\ conn.rung < Len(Ladder)
                 THEN Goes(conn.rung + 1, {}, "token", odd)
                 ELSE Goes(conn.rung, {}, err, odd)
    /\ UNCHANGED <<task, listing>>

(* GET /saldo proves the token and the account *)
CheckBalance ==
    /\ task = "connect" /\ conn.step = "balance"
    /\ \E step \in {"connected", "nobalance"} : Goes(conn.rung, conn.granted, step, conn.odd)
    /\ UNCHANGED <<task, listing>>

-----------------------------------------------------------------------------
(* ListCallbacks *)

(* `out` is declared before the loop, so every page is decoded into the slice
   the page before left: json.Unmarshal decodes into the elements that are
   there, and a RawMessage payload is copied into the bytes it already has
   when they are enough (payloads are taken to be of one length here).  The
   records appended to `all` share those bytes.
     bytes: what each payload buffer names now; cell: the buffer of each
     element of out.Data; all: the buffer of each record listed; sent: the
     charge the bank's record named *)
ListInit == [page |-> 0, bytes |-> <<>>, cell |-> 0, all |-> <<>>, sent |-> <<>>, step |-> "loop"]

(* elements 1 .. cell of out.Data are the buffers 1 .. cell: an element gets
   a buffer when the slice first grows to it and keeps it; an empty page
   replaces the slice *)
Decoded(l, recs) ==
    LET n == Len(recs)
        base == Len(l.bytes) - l.cell     \* buffers of slices given up before
    IN  [l EXCEPT !.bytes = [i \in 1 .. (base + IF n > l.cell THEN n ELSE l.cell) |->
                                IF i > base /\ i <= base + n THEN recs[i - base] ELSE l.bytes[i]],
                  !.cell = IF n = 0 THEN 0 ELSE IF n > l.cell THEN n ELSE l.cell,
                  !.all = @ \o [j \in 1 .. n |-> base + j],
                  !.sent = @ \o recs]

ListPage ==
    /\ task = "list" /\ listing.step = "loop" /\ listing.page < MaxListed
    /\ \E recs \in UNION {[1 .. n -> Charges] : n \in 0 .. PageSize}, end \in {"loop", "done", "failed"} :
          listing' = IF end = "failed" THEN [listing EXCEPT !.step = "failed"]
                  ELSE [Decoded(listing, recs) EXCEPT !.page = @ + 1, !.step = end]
    /\ UNCHANGED <<task, conn>>

-----------------------------------------------------------------------------
LoopsInit ==
    /\ \E ticked \in SUBSET Everything, secret \in BOOLEAN :
          conn = Connection(ticked, secret, 1, {}, "pair", FALSE)
    /\ listing = ListInit
    /\ \/ task = "connect"
       \/ task = "list" /\ conn.ticked = Everything /\ conn.secret

LoopsNext == InspectPair \/ FetchToken \/ TokenFails \/ CheckBalance \/ ListPage

LoopsSpec == LoopsInit /\ [][LoopsNext]_lpvars

-----------------------------------------------------------------------------
(* Properties *)

(* A connection has every rung of scopes that its integration has. *)
FullScopes == \A r \in DOMAIN Ladder : Ladder[r] \subseteq conn.ticked => Ladder[r] \subseteq conn.granted

(* One call of Connect stores an integration as what it is, wherever on the
   ladder the bank was unreachable, busy or failing: with every rung that is
   ticked (unless some answer was one statusErr has no name for), with nothing
   that is not ticked, and only with the right secret.  It reports refused
   credentials or scopes only when they are wrong. *)
NotDowngraded ==
    /\ conn.step = "connected" => /\ ~conn.odd => FullScopes
                                  /\ conn.secret /\ "statement" \in Capabilities(conn.granted)
                                  /\ conn.granted \subseteq conn.ticked
    /\ conn.step \in {"ErrCredentialsRefused", "unread"} => ~conn.secret \/ "statement" \notin Capabilities(conn.ticked)

(* "Only a refusal steps down: a transient failure (5xx, timeout, rate limit)
   must not store a fully-scoped integration as a smaller one" (Connect). *)
OnlyRefusalsStepDown == conn.step = "connected" => FullScopes

(* Every listed record names the charges of the payload it delivered
   (provider.go: "The record names its charges inside the payload it
   delivered"). *)
RecordsNameTheirCharges ==
    listing.step = "done" => \A i \in DOMAIN listing.all : listing.bytes[listing.all[i]] = listing.sent[i]
=============================================================================

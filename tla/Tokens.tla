------------------------------- MODULE Tokens -------------------------------
(***************************************************************************)
(* oauth2client.TokenManager on several replicas that share a cache.  Get  *)
(* holds the replica's mutex to its end, so each replica runs one at a     *)
(* time.  A token is how long it is still valid (left) and how long its    *)
(* manager will still use it (use); a tick is the unit of both.            *)
(***************************************************************************)
EXTENDS Naturals

CONSTANTS Replicas,
          Lifetimes,            \* expires_in of the tokens the endpoint issues
          Margin,               \* the 30 seconds taken off
          Delay,                \* bound: ticks a token's reply and its cache.Set take
          TokenAttempts

\* A reply and the Set after it take less than the margin, and the token outlives
\* them: nobody can use one that does not.
ASSUME TokensAssumption ==
    /\ Margin \in Nat /\ Delay \in Nat /\ Delay < Margin
    /\ Lifetimes \subseteq Nat /\ \A life \in Lifetimes : life > Delay

VARIABLES own, cached,          \* each replica's token, and the cached one
          get                   \* each replica's call of Get

tvars == <<own, cached, get>>

Tok(left, use) == [left |-> left, use |-> use]

NoTok == Tok(0, 0)

Call(pc, attempt, tok, late) == [pc |-> pc, attempt |-> attempt, tok |-> tok, late |-> late]

NoGet == Call("idle", 0, NoTok, 0)

Step(r, c) == get' = [get EXCEPT ![r] = c]

Stays == UNCHANGED <<own, cached>>

\* The replica's own copy, while it is in use.
GetToken(r) ==
    /\ get[r].pc = "idle"
    /\ Step(r, IF own[r].use > 0 THEN Call("returned", 0, own[r], 0) ELSE Call("cache", 0, NoTok, 0))
    /\ Stays

\* The shared copy; a failed read, and one that does not decode, are a miss.
ReadCache(r) ==
    /\ get[r].pc = "cache"
    /\ \/ /\ cached.use > 0
          /\ own' = [own EXCEPT ![r] = cached]
          /\ Step(r, Call("returned", 0, cached, 0))
          /\ UNCHANGED cached
       \/ Step(r, Call("post", 1, NoTok, 0)) /\ Stays

\* Variant with a fault: the token is used to its last moment.
UsedUp(life) == life

\* How long a token is used, counted from when its reply is read.
UsedFor(life) == IF life > Margin THEN life - Margin ELSE 0

\* fetch: the endpoint issues a token, whose reply is on its way.
Issue(r) ==
    /\ get[r].pc = "post"
    /\ \E life \in Lifetimes : Step(r, Call("reply", get[r].attempt, Tok(life, UsedFor(life)), 0))
    /\ Stays

\* A transport error, 429, 502, 503 or 504 is tried again after a pause, unless
\* ctx ends.
Transient(r) ==
    /\ get[r].pc \in {"post", "reply"}
    /\ Step(r, IF get[r].attempt < TokenAttempts THEN Call("post", get[r].attempt + 1, NoTok, 0)
               ELSE Call("failed", 0, NoTok, 0))
    /\ Stays

\* Any other status, an open circuit, the end of ctx or a body that does not
\* decode.
Refused(r) ==
    /\ get[r].pc \in {"post", "reply"}
    /\ Step(r, Call("failed", 0, NoTok, 0))
    /\ Stays

\* The reply is read: the token is this replica's.
Keep(r) ==
    /\ get[r].pc = "reply"
    /\ own' = [own EXCEPT ![r] = get[r].tok]
    /\ Step(r, Call("set", 0, get[r].tok, get[r].late))
    /\ UNCHANGED cached

\* cache.Set, with a TTL that Valkey refuses when it is not positive; a failed
\* Set is ignored.  Get returns what it fetched, however long the Set took.
SetCache(r) ==
    /\ get[r].pc = "set"
    /\ cached' \in {cached} \cup {t \in {own[r]} : get[r].tok.use > 0}
    /\ Step(r, Call("returned", 0, get[r].tok, 0))
    /\ UNCHANGED own

Returned(r) ==
    /\ get[r].pc \in {"returned", "failed"}
    /\ Step(r, NoGet)
    /\ Stays

Less(n) == IF n = 0 THEN 0 ELSE n - 1

\* A token on its way, and the one Get will return, lose life and not use.
Worn(t) == IF Less(t.use) = 0 /\ t.use > 0 THEN NoTok ELSE Tok(Less(t.left), Less(t.use))

TokensTick ==
    /\ \A r \in Replicas : get[r].pc \in {"idle", "cache", "post", "reply", "set"}
    /\ \A r \in Replicas : get[r].pc \in {"reply", "set"} => get[r].late < Delay
    /\ own' = [r \in Replicas |-> Worn(own[r])]
    /\ cached' = Worn(cached)
    /\ get' = [r \in Replicas |->
                 IF get[r].pc \in {"reply", "set"}
                 THEN Call(get[r].pc, get[r].attempt, Tok(Less(get[r].tok.left), get[r].tok.use), get[r].late + 1)
                 ELSE get[r]]

TokensInit ==
    /\ own = [r \in Replicas |-> NoTok]
    /\ cached = NoTok
    /\ get = [r \in Replicas |-> NoGet]

TokensNext ==
    \/ \E r \in Replicas :
         \/ GetToken(r) \/ ReadCache(r) \/ Issue(r) \/ Transient(r) \/ Refused(r)
         \/ Keep(r) \/ SetCache(r) \/ Returned(r)
    \/ TokensTick

TokensSpec == TokensInit /\ [][TokensNext]_tvars

-----------------------------------------------------------------------------
(* Properties.                                                             *)

\* A token that Get returns is still valid, from whichever copy it comes and
\* however short it lives, if its reply and the Set take less than the margin.
TokenStillValid ==
    \A r \in Replicas : get[r].pc = "returned" => get[r].tok.left > 0

=============================================================================

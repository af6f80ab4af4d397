----------------------------- MODULE Revocation -----------------------------
(***************************************************************************)
(* The revocation list of jwtverify and the checks made against it for one *)
(* user: VerifyClaims ("memory"), VerifyClaimsStrict ("strict") and the    *)
(* middleware of authguard, read-open and write-closed.  Time is in ticks; *)
(* no check lives through two of them.  must is history: the check began   *)
(* when its token had been revoked for long enough that it has to fail.    *)
(***************************************************************************)
EXTENDS Naturals

CONSTANTS Checks,
          Life,                 \* lifetime of an access token
          RevocationTTL, MemoryTTL,
          MaxTime               \* bound: ticks

ASSUME RevocationAssumption ==
    /\ Life \in Nat /\ MemoryTTL \in Nat \ {0} /\ MaxTime \in Nat
    /\ RevocationTTL \in Nat /\ Life < RevocationTTL

VARIABLES now,
          list,                 \* the user's entry
          cutoff,               \* history: the last Revoke that was not undone
          memory,               \* what this process remembers of it
          chk

rvars == <<now, list, cutoff, memory, chk>>

\* A set of at most one entry: the cutoff (none for "not revoked") and when it
\* expires.
Item(cut, exp) == [cut |-> cut, exp |-> exp]

Check(pc, kind, iat, at, must, cut, skipped) ==
    [pc |-> pc, kind |-> kind, iat |-> iat, at |-> at, must |-> must, cut |-> cut, skipped |-> skipped]

Unused == Check("idle", "none", 0, 0, FALSE, {}, FALSE)

CheckStep(r, c) == chk' = [chk EXCEPT ![r] = c]

\* Variant with a fault: a token issued at the cutoff is let through.
RevokesBefore(cut, iat) == \E c \in cut : iat < c

\* revocationEntry.verdict
Revokes(cut, iat) == \E c \in cut : iat <= c

Judge(kind, pc, must, skipped) == Check(pc, kind, 0, 0, must, {}, skipped)

Verdict(kind, iat, must, cut) == Judge(kind, IF Revokes(cut, iat) THEN "revoked" ELSE "passed", must, FALSE)

\* The token was revoked before this moment; a check that may use the memory
\* has to know it once what it remembered has expired.
Known(kind, iat) ==
    \E c \in cutoff : iat <= c /\ (kind = "memory" => now > c + MemoryTTL)

\* checkRevoked up to its memory; jwt.Parse has refused expired tokens.
Begin(r, kind, iat) ==
    /\ chk[r].pc = "idle"
    /\ now < iat + Life
    /\ \/ /\ kind = "memory" /\ memory # {}
          /\ \E e \in memory : CheckStep(r, Verdict(kind, iat, Known(kind, iat), e.cut))
       \/ /\ ~(kind = "memory" /\ memory # {})
          /\ CheckStep(r, Check("read", kind, iat, now, Known(kind, iat), {}, FALSE))
    /\ UNCHANGED <<now, list, cutoff, memory>>

Listed == UNION {e.cut : e \in list}

\* lookupRevocation, and below what each caller makes of a list it cannot read.
LookupRevocation(r) ==
    LET c == chk[r]
    IN  /\ c.pc = "read"
        /\ CheckStep(r, IF c.kind \in {"memory", "strict"}
                        THEN Check("remember", c.kind, c.iat, c.at, c.must, Listed, FALSE)
                        ELSE Verdict(c.kind, c.iat, c.must, Listed))
        /\ UNCHANGED <<now, list, cutoff, memory>>

LookupFails(r) ==
    LET c == chk[r]
    IN  /\ c.pc = "read"
        /\ CheckStep(r, Judge(c.kind, IF c.kind \in {"memory", "open"} THEN "passed" ELSE "unavailable", c.must, TRUE))
        /\ UNCHANGED <<now, list, cutoff, memory>>

\* checkRevoked remembers the answer and judges.
RememberAnswer(r) ==
    LET c == chk[r]
    IN  /\ c.pc = "remember"
        /\ memory' = {Item(c.cut, now + MemoryTTL)}
        /\ CheckStep(r, Verdict(c.kind, c.iat, c.must, c.cut))
        /\ UNCHANGED <<now, list, cutoff>>

Judged(r) ==
    /\ chk[r].pc \in {"passed", "revoked", "unavailable"}
    /\ CheckStep(r, Unused)
    /\ UNCHANGED <<now, list, cutoff, memory>>

Revoke ==
    /\ list' = {Item({now}, now + RevocationTTL)}
    /\ cutoff' = {now}
    /\ UNCHANGED <<now, memory, chk>>

Excused(c) == Check(c.pc, c.kind, c.iat, c.at, FALSE, c.cut, c.skipped)

\* Unrevoke; checks under way no longer have to refuse.
Unrevoke ==
    /\ list' = {}
    /\ cutoff' = {}
    /\ chk' = [r \in Checks |-> Excused(chk[r])]
    /\ UNCHANGED <<now, memory>>

Lasting(S) == {e \in S : now + 1 < e.exp}

RevocationTick ==
    /\ now < MaxTime
    /\ \A r \in Checks : chk[r].pc \in {"read", "remember"} => chk[r].at = now
    /\ now' = now + 1
    /\ list' = Lasting(list)
    /\ memory' = Lasting(memory)
    /\ UNCHANGED <<cutoff, chk>>

RevocationInit ==
    /\ now = 1
    /\ list = {}
    /\ cutoff = {}
    /\ memory = {}
    /\ chk = [r \in Checks |-> Unused]

RevocationNext ==
    \/ \E r \in Checks :
         \/ LookupRevocation(r) \/ LookupFails(r) \/ RememberAnswer(r) \/ Judged(r)
         \/ \E kind \in {"memory", "strict", "open", "closed"}, iat \in 1..now : Begin(r, kind, iat)
    \/ Revoke \/ Unrevoke \/ RevocationTick

RevocationSpec == RevocationInit /\ [][RevocationNext]_rvars

-----------------------------------------------------------------------------
(* Properties.                                                             *)

\* A revoked token is refused by every check that can read the list: at once by
\* the strict ones, and by VerifyClaims once what was remembered from before
\* has expired; and for the whole life of the token, because the entry outlives
\* it.  A list that cannot be read lets only reads and VerifyClaims pass.
RevokedIsRefused ==
    \A r \in Checks :
        chk[r].pc = "passed" =>
          IF chk[r].skipped THEN chk[r].kind \in {"memory", "open"} ELSE ~chk[r].must

=============================================================================

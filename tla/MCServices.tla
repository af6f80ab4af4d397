----------------------------- MODULE MCServices -----------------------------
(* Small instances for TLC of the components that share no state: `part`    *)
(* says which of them a behaviour is about, the others stay as they began.  *)
EXTENDS KeySet, Revocation, Limiter, Bucket, Tokens, Backend, Versioned, Pages, Banking, BankLoops, TLC

VARIABLE part

Parts == {"keys", "revocation", "limiter", "bucket", "tokens", "backend", "versioned", "pages",
          "banking", "loops"}

\* Redis' hash slots: the keys of a slot are returned by SCAN together.
SlotTable == [k \in CKeys |-> IF k = 3 THEN 1 ELSE k]

\* Requests are interchangeable.
Symmetric == Permutations(Reqs)

svars == <<part, kvars, rvars, lvars, bvars, tvars, cvars, vvars, pvars, bkvars, lpvars>>

ServicesInit ==
    /\ part \in Parts
    /\ KeyInit /\ RevocationInit /\ BucketInit /\ TokensInit /\ BackendInit
    /\ LimiterInit /\ (part # "limiter" => policy = "all" /\ closed)
    /\ VersionedInit /\ (part # "versioned" => item = {})
    /\ PagesInit /\ (part # "pages" => here = Positions /\ match = {})
    /\ BankingInit /\ (part # "banking" => kind = "charge")
    /\ LoopsInit /\ (part # "loops" => task = "list")

ServicesNext ==
    /\ part' = part
    /\ \/ part = "keys" /\ KeyNext
       \/ part # "keys" /\ UNCHANGED kvars
    /\ \/ part = "revocation" /\ RevocationNext
       \/ part # "revocation" /\ UNCHANGED rvars
    /\ \/ part = "limiter" /\ LimiterNext
       \/ part # "limiter" /\ UNCHANGED lvars
    /\ \/ part = "bucket" /\ BucketNext
       \/ part # "bucket" /\ UNCHANGED bvars
    /\ \/ part = "tokens" /\ TokensNext
       \/ part # "tokens" /\ UNCHANGED tvars
    /\ \/ part = "backend" /\ BackendNext
       \/ part # "backend" /\ UNCHANGED cvars
    /\ \/ part = "versioned" /\ VersionedNext
       \/ part # "versioned" /\ UNCHANGED vvars
    /\ \/ part = "pages" /\ PagesNext
       \/ part # "pages" /\ UNCHANGED pvars
    /\ \/ part = "banking" /\ BankingNext
       \/ part # "banking" /\ UNCHANGED bkvars
    /\ \/ part = "loops" /\ LoopsNext
       \/ part # "loops" /\ UNCHANGED lpvars

ServicesSpec == ServicesInit /\ [][ServicesNext]_svars
=============================================================================

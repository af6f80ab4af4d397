------------------------------ MODULE AuthCache -----------------------------
(***************************************************************************)
(* authguard.Cache in one process, over ttlcache: requests that call Get,  *)
(* the loads they share, and invalidations.  A version stands for the data *)
(* behind a key, which changes here or in another process.  Forget follows *)
(* a change, from Invalidate or from another instance's hook, or it never  *)
(* comes.  A load is current while gen is what it was when it started.     *)
(* forgot and floor are history: the version of the last Forget, and what  *)
(* it was when a request called Get.                                       *)
(***************************************************************************)
EXTENDS TTLCache

CONSTANTS AKeys, Requests,
          Volatile,             \* the keys whose data changes
          Loads,                \* bound: loads in flight
          CacheTTL,             \* ticks an entry is served
          MaxVersion,           \* bound: changes of the data behind a key
          None                  \* no load, no key

ASSUME AuthAssumption ==
    /\ Volatile \subseteq AKeys
    /\ CacheTTL \in Nat /\ MaxVersion \in Nat
    /\ None \notin Loads \cup AKeys

VARIABLES truth,                \* the data behind each key
          forgot,
          tc,                   \* the ttlcache
          calls,                \* Cache.calls
          load,                 \* the goroutines of run
          req                   \* the callers of Get

avars == <<truth, forgot, tc, calls, load, req>>

Versions == 0..MaxVersion

Load(s, k, v, c) == [state |-> s, key |-> k, v |-> v, current |-> c]

Req(s, k, f, l, v) == [state |-> s, key |-> k, floor |-> f, load |-> l, v |-> v]

NoCall == Load("free", None, 0, FALSE)

NoReq == Req("idle", None, 0, None, 0)

\* The data behind a key changes.
Change(k) ==
    /\ truth[k] < MaxVersion
    /\ truth' = [truth EXCEPT ![k] = @ + 1]
    /\ UNCHANGED <<forgot, tc, calls, load, req>>

\* Get, up to its look into the ttlcache: a hit returns.
Get(r, k) ==
    /\ req[r].state = "idle"
    /\ req' = [req EXCEPT ![r] =
                 IF Hit(tc, k) THEN Req("answered", k, forgot[k], None, tc[k].v)
                 ELSE Req("missed", k, forgot[k], None, 0)]
    /\ tc' = AfterGet(tc, k)
    /\ UNCHANGED <<truth, forgot, calls, load>>

\* Get under mu: join the load in flight or start one.
Join(r) ==
    LET k == req[r].key
    IN  /\ req[r].state = "missed"
        /\ \/ /\ calls[k] # None
              /\ req' = [req EXCEPT ![r] = Req("waiting", k, req[r].floor, calls[k], 0)]
              /\ UNCHANGED <<calls, load>>
           \/ /\ calls[k] = None
              /\ \E l \in Loads :
                   /\ load[l].state = "free"
                   /\ load' = [load EXCEPT ![l] = Load("started", k, 0, TRUE)]
                   /\ calls' = [calls EXCEPT ![k] = l]
                   /\ req' = [req EXCEPT ![r] = Req("waiting", k, req[r].floor, l, 0)]
        /\ UNCHANGED <<truth, forgot, tc>>

\* The loader reads the data.
Read(l) ==
    /\ load[l].state = "started"
    /\ load' = [load EXCEPT ![l] = Load("read", load[l].key, truth[load[l].key], load[l].current)]
    /\ UNCHANGED <<truth, forgot, tc, calls, req>>

\* Variants with a fault: what an old load brings is kept, and only who waits for
\* a current load is told that it ended.
KeepsAlways(l) == TRUE

JoinedCurrent(l) == {r \in Requests : req[r].state = "waiting" /\ req[r].load = l /\ load[l].current}

\* run keeps what it loaded only if nothing was forgotten meanwhile.
Keeps(l) == load[l].current

\* run leaves an entry of calls alone that is not its own.
Releases(l) == calls[load[l].key] = l

\* Who waits for done.
Joined(l) == {r \in Requests : req[r].state = "waiting" /\ req[r].load = l}

\* The end of run: the value or the loader's error goes to all who wait.
Answer(l, ok) ==
    LET k == load[l].key
    IN  /\ IF ok THEN load[l].state = "read" ELSE load[l].state \in {"started", "read"}
        /\ tc' = IF ok /\ Keeps(l) THEN AfterSet(tc, k, load[l].v, CacheTTL) ELSE tc
        /\ calls' = IF Releases(l) THEN [calls EXCEPT ![k] = None] ELSE calls
        /\ load' = [load EXCEPT ![l] = NoCall]
        /\ req' = [r \in Requests |->
                     IF r \in Joined(l)
                     THEN IF ok THEN Req("answered", k, req[r].floor, None, load[l].v)
                          ELSE NoReq
                     ELSE req[r]]
        /\ UNCHANGED <<truth, forgot>>

\* The answer is used, or the request's context ends while it waits.
Return(r) ==
    /\ req[r].state \in {"answered", "waiting"}
    /\ req' = [req EXCEPT ![r] = NoReq]
    /\ UNCHANGED <<truth, forgot, tc, calls, load>>

\* Forget, also as the first half of Invalidate: gen moves on, so no load that
\* is under way is kept, whatever its key.
Forget(k) ==
    /\ forgot' = [forgot EXCEPT ![k] = truth[k]]
    /\ load' = [l \in Loads |-> Load(load[l].state, load[l].key, load[l].v, FALSE)]
    /\ calls' = [calls EXCEPT ![k] = None]
    /\ tc' = Deleted(tc, k)
    /\ UNCHANGED <<truth, req>>

CacheTick ==
    /\ tc' = Elapse(tc)
    /\ UNCHANGED <<truth, forgot, calls, load, req>>

Init ==
    /\ truth = [k \in AKeys |-> 0]
    /\ forgot = [k \in AKeys |-> 0]
    /\ tc = EmptyCache
    /\ calls = [k \in AKeys |-> None]
    /\ load = [l \in Loads |-> NoCall]
    /\ req = [r \in Requests |-> NoReq]

Finishes(l) == Read(l) \/ \E ok \in BOOLEAN : Answer(l, ok)

Next ==
    \/ \E k \in Volatile : Change(k) \/ Forget(k)
    \/ \E r \in Requests : Join(r) \/ Return(r) \/ \E k \in AKeys : Get(r, k)
    \/ \E l \in Loads : Finishes(l)
    \/ CacheTick

Spec == Init /\ [][Next]_avars

(* Fairness.  Time passes, and the timeout of run ends every load.  Join   *)
(* is strongly fair because only the bound on loads ever disables it.      *)
Fairness ==
    /\ WF_avars(CacheTick)
    /\ \A l \in Loads : WF_avars(Finishes(l))
    /\ \A r \in Requests : SF_avars(Join(r))

FairSpec == Spec /\ Fairness

-----------------------------------------------------------------------------
(* Properties.                                                             *)

TypeOK ==
    /\ truth \in [AKeys -> Versions]
    /\ forgot \in [AKeys -> Versions]
    /\ DOMAIN tc \subseteq AKeys
    /\ \A k \in DOMAIN tc : tc[k] \in [v : Versions, left : 0..CacheTTL]
    /\ calls \in [AKeys -> Loads \cup {None}]
    /\ load \in [Loads -> [state : {"free", "started", "read"}, key : AKeys \cup {None},
                           v : Versions, current : BOOLEAN]]
    /\ req \in [Requests -> [state : {"idle", "missed", "waiting", "answered"}, key : AKeys \cup {None},
                             floor : Versions, load : Loads \cup {None}, v : Versions]]

\* No Get that starts after a Forget returns what was there before it: not from
\* the cache, and not from a load that was under way.
NothingForgotten ==
    \A r \in Requests : req[r].state = "answered" => req[r].v >= req[r].floor

\* At most one load per key that later requests may join, and it is alive: a
\* request never waits for a load that has ended.
WaitsForLive ==
    /\ \A k \in AKeys : calls[k] # None => 
                        load[calls[k]].state # "free" /\ load[calls[k]].key = k
    /\ \A r \in Requests : req[r].state = "waiting" => load[req[r].load].state # "free"

\* The cache never holds more than its limit.
CacheBounded == Cardinality(DOMAIN tc) <= CacheMax

\* Nobody waits for ever.
GetReturns ==
    \A r \in Requests :
        req[r].state \in {"missed", "waiting"} ~> req[r].state \in {"idle", "answered"}

=============================================================================

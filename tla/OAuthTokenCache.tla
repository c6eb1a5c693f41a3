-------------------------- MODULE OAuthTokenCache --------------------------
(***************************************************************************)
(* The cache of OAuth2 access tokens in Redis                              *)
(* (src/api/services/oauth2_token_cache.py), for one credential: callers   *)
(* of get_or_fetch_token read it, fetch a token when it has none and write *)
(* it back; invalidate_token, called when the credential changes or when a *)
(* service answers 401, stamps the credential and then deletes the token.  *)
(*                                                                         *)
(* Workers read the same clock.  A token is known by the instants at which *)
(* the call that fetched it began and at which the provider lets it expire.*)
(***************************************************************************)
EXTENDS Naturals

CONSTANTS
    Fetchers,       \* calls of get_or_fetch_token
    WorkerOf,       \* the process of each: locks are per process
    Invalidators,   \* calls of invalidate_token
    Lifetimes,      \* expires_in of the provider's answers
    Margin,         \* _EXPIRY_MARGIN
    StampTTL,       \* how long a stamp is kept
    MaxGet,         \* longest get_or_fetch_token, its wait for the lock included
    MaxFetch,       \* longest time from a request for a token to its SETEX
    RedisFaults,    \* may commands fail?
    TokenHorizon    \* BOUND: last instant

\* "a TTL that exceeds any reasonable fetch timeout"; _FETCH_TIMEOUT is 10 s.
ASSUME TokenTimesAssumption ==
    /\ Lifetimes \subseteq Nat /\ TokenHorizon \in Nat
    /\ Margin \in Nat /\ StampTTL \in Nat /\ MaxGet \in Nat /\ MaxFetch \in Nat
    /\ MaxGet <= StampTTL /\ MaxFetch <= Margin

VARIABLES
    now,        \* time.time()
    cached,     \* oauth2_token:<uuid>, a key that expires
    stamp,      \* oauth2_invalid:<uuid>, a key that expires
    fetcher,    \* where each call is, its local variables and its result
    inval,      \* where each invalidation is, and its local variables
    purged      \* history: every token fetched before it is gone for good

tokenVars == <<now, cached, stamp, fetcher, inval, purged>>

Token == [start : Nat, expires : Nat]

NoToken == [start |-> 0, expires |-> 0]

\* since: "purged" when the call began; got: when the fetch of the token it
\* returned began.
FetcherInfo == [pc : {"idle", "read", "lock", "recheck", "fetch", "write", "done"},
                force : BOOLEAN, start : Nat, since : Nat, born : Nat, life : Nat,
                got : Nat]

\* at: its reading of the clock; from: the oldest reading it overlapped with.
InvalInfo == [pc : {"idle", "stamp", "delete"}, at : Nat, from : Nat]

IdleFetcher == [pc |-> "idle", force |-> FALSE, start |-> 0, since |-> 0, born |-> 0,
                life |-> 0, got |-> 0]

IdleInval == [pc |-> "idle", at |-> 0, from |-> 0]

NoKey == [until |-> 0, token |-> NoToken]

Init ==
    /\ now = 0
    /\ cached = NoKey
    /\ stamp = [until |-> 0, at |-> 0]
    /\ fetcher = [f \in Fetchers |-> IdleFetcher]
    /\ inval = [i \in Invalidators |-> IdleInval]
    /\ purged = 0

Alive(key) == now < key.until

\* Where a coroutine of get_or_fetch_token that has entered goes.
Goto(f, pc) == fetcher' = [fetcher EXCEPT ![f].pc = pc]

\* It returns a token whose fetch began at start.
Return(f, start) ==
    fetcher' = [fetcher EXCEPT ![f] =
                  [IdleFetcher EXCEPT !.pc = "done", !.since = fetcher[f].since, !.got = start]]
-----------------------------------------------------------------------------
(* get_or_fetch_token.                                                      *)

\* fetch_start is read before the cache is.
Enter(f, force) ==
    /\ fetcher[f].pc = "idle"
    /\ fetcher' = [fetcher EXCEPT ![f] =
                     [IdleFetcher EXCEPT !.pc = IF force THEN "lock" ELSE "read",
                                         !.force = force, !.start = now, !.since = purged]]
    /\ UNCHANGED <<now, cached, stamp, inval, purged>>

\* GET, before the lock or under it; an error counts as a miss.
Look(f, pc, missed) ==
    /\ fetcher[f].pc = pc
    /\ \/ Alive(cached) /\ Return(f, cached.token.start)
       \/ (~Alive(cached) \/ RedisFaults) /\ missed
    /\ UNCHANGED <<now, cached, stamp, inval, purged>>

\* _fetch_token is called.
Request(f) == fetcher' = [fetcher EXCEPT ![f].pc = "fetch", ![f].born = now]

Read(f) == Look(f, "read", Goto(f, "lock"))

Recheck(f) == Look(f, "recheck", Request(f))

InLock(f) == fetcher[f].pc \in {"recheck", "fetch", "write"}

Lock(f) ==
    /\ fetcher[f].pc = "lock"
    /\ \A g \in Fetchers : WorkerOf[g] = WorkerOf[f] => ~InLock(g)
    /\ IF fetcher[f].force THEN Request(f) ELSE Goto(f, "recheck")
    /\ UNCHANGED <<now, cached, stamp, inval, purged>>

FetchedToken(f) == [start |-> fetcher[f].start, expires |-> fetcher[f].born + fetcher[f].life]

\* A token that lives no longer than the margin is not cached.
Answer(f, life) ==
    /\ fetcher[f].pc = "fetch"
    /\ IF life > Margin
         THEN fetcher' = [fetcher EXCEPT ![f].pc = "write", ![f].life = life]
         ELSE Return(f, fetcher[f].start)
    /\ UNCHANGED <<now, cached, stamp, inval, purged>>

\* _fetch_token raises, or the coroutine is cancelled.
Fail(f) ==
    /\ fetcher[f].pc \notin {"idle", "done"}
    /\ fetcher' = [fetcher EXCEPT ![f] = IdleFetcher]
    /\ UNCHANGED <<now, cached, stamp, inval, purged>>

\* Mutant: the script does not look at the stamp.
NeverStamped(f) == FALSE

Stamped(f) == Alive(stamp) /\ stamp.at > fetcher[f].start

\* Mutant: the token is kept until the provider lets it expire.
WholeLife(life) == life

CacheTTL(life) == life - Margin

\* The Lua script: SETEX unless the credential was invalidated after fetch_start.
\* A failing command has had its effect or has not.
Write(f) ==
    /\ fetcher[f].pc = "write"
    /\ \/ ~Stamped(f) /\ cached' = [until |-> now + CacheTTL(fetcher[f].life),
                                    token |-> FetchedToken(f)]
       \/ (Stamped(f) \/ RedisFaults) /\ UNCHANGED cached
    /\ Return(f, fetcher[f].start)
    /\ UNCHANGED <<now, stamp, inval, purged>>

\* The caller calls again.
Again(f) ==
    /\ fetcher[f].pc = "done"
    /\ fetcher' = [fetcher EXCEPT ![f] = IdleFetcher]
    /\ UNCHANGED <<now, cached, stamp, inval, purged>>
-----------------------------------------------------------------------------
(* invalidate_token.                                                        *)

\* The clock is read: the stamp may reach Redis after a later one.
Readings == {now} \cup {inval[j].at : j \in {j \in Invalidators : inval[j].pc = "stamp"}}

ReadClock(i) ==
    /\ inval[i].pc = "idle"
    /\ \E oldest \in Readings :
         /\ \A t \in Readings : oldest <= t
         /\ inval' = [inval EXCEPT ![i] = [pc |-> "stamp", at |-> now, from |-> oldest]]
    /\ UNCHANGED <<now, cached, stamp, fetcher, purged>>

SetStamp(i) == stamp' = [until |-> now + StampTTL, at |-> inval[i].at]

Stamp(i) ==
    /\ inval[i].pc = "stamp"
    /\ \/ SetStamp(i) /\ inval' = [inval EXCEPT ![i].pc = "delete"]
       \/ RedisFaults /\ (SetStamp(i) \/ UNCHANGED stamp)
                      /\ inval' = [inval EXCEPT ![i] = IdleInval]
    /\ UNCHANGED <<now, cached, fetcher, purged>>

Delete(i) ==
    /\ inval[i].pc = "delete"
    /\ inval' = [inval EXCEPT ![i] = IdleInval]
    /\ \/ cached' = NoKey /\ purged' = IF inval[i].from > purged THEN inval[i].from ELSE purged
       \/ RedisFaults /\ cached' \in {cached, NoKey} /\ UNCHANGED purged
    /\ UNCHANGED <<now, stamp, fetcher>>
-----------------------------------------------------------------------------
Tick ==
    /\ now < TokenHorizon
    /\ \A f \in Fetchers :
         /\ fetcher[f].pc \notin {"idle", "done"} => now < fetcher[f].start + MaxGet
         /\ fetcher[f].pc \in {"fetch", "write"} => now < fetcher[f].born + MaxFetch
    /\ now' = now + 1
    /\ UNCHANGED <<cached, stamp, fetcher, inval, purged>>

Next ==
    \/ \E f \in Fetchers :
         \/ \E force \in BOOLEAN : Enter(f, force)
         \/ Read(f) \/ Lock(f) \/ Recheck(f)
         \/ \E life \in Lifetimes : Answer(f, life)
         \/ Fail(f) \/ Write(f) \/ Again(f)
    \/ \E i \in Invalidators : ReadClock(i) \/ Stamp(i) \/ Delete(i)
    \/ Tick

Spec == Init /\ [][Next]_tokenVars
-----------------------------------------------------------------------------
TypeOK ==
    /\ now \in Nat /\ purged \in Nat
    /\ cached \in [until : Nat, token : Token]
    /\ stamp \in [until : Nat, at : Nat]
    /\ fetcher \in [Fetchers -> FetcherInfo]
    /\ inval \in [Invalidators -> InvalInfo]

\* invalidate_token: after an invalidation has finished, no call that begins is
\* given a token whose fetch began before the invalidation (before the oldest of
\* those it overlapped with, whose stamps may overwrite each other), however long
\* that fetch was under way and whichever worker made it.
NoTokenOutlivesInvalidation ==
    \A f \in Fetchers : fetcher[f].pc = "done" => fetcher[f].got >= fetcher[f].since

\* The margin: a token is never served from the cache once the provider has let
\* it expire, although its life is counted from the answer and its key's from
\* the write.
ServedTokensAreAlive ==
    Alive(cached) => now < cached.token.expires
-----------------------------------------------------------------------------
(* The inductive invariant.                                                 *)

InFlight(f) == fetcher[f].pc \notin {"idle", "done"}

\* No clock reading lies in the future, and a call is no older than its bounds.
ReadingsArePast ==
    /\ purged <= now
    /\ \A i \in Invalidators : inval[i].from <= inval[i].at /\ inval[i].at <= now
    /\ \A f \in Fetchers :
         /\ InFlight(f) => /\ fetcher[f].since <= fetcher[f].start
                           /\ fetcher[f].start <= now /\ now <= fetcher[f].start + MaxGet
         /\ fetcher[f].pc \in {"fetch", "write"} => now <= fetcher[f].born + MaxFetch
         /\ fetcher[f].pc = "write" => fetcher[f].life > Margin
         /\ fetcher[f].since <= purged

\* The stamp in Redis, and every stamp on its way there, is at least as late as
\* what has been purged or is about to be.
StampGuards(from) ==
    /\ from <= stamp.at
    /\ \A i \in Invalidators : inval[i].pc = "stamp" => from <= inval[i].at

StampsProtect ==
    /\ stamp.at = 0 \/ stamp.at + StampTTL <= stamp.until
    /\ StampGuards(purged)
    /\ \A i \in Invalidators :
         /\ inval[i].pc = "delete" => StampGuards(inval[i].from)
         /\ inval[i].pc = "stamp" =>
              \A j \in Invalidators : inval[j].pc = "stamp" => inval[i].from <= inval[j].at

CacheIsFresh == cached.until > 0 =>
    /\ cached.token.start >= purged
    /\ cached.until <= cached.token.expires

TokenInv ==
    /\ TypeOK /\ ReadingsArePast /\ StampsProtect /\ CacheIsFresh
    /\ NoTokenOutlivesInvalidation
=============================================================================

--------------------------- MODULE FromNumberPool ---------------------------
(***************************************************************************)
(* The caller ids of a telephony configuration                             *)
(* (rate_limiter.py, from_number_pool:<org>:<config>): a sorted set in     *)
(* which a number's score is 0 while it is free and the time of its        *)
(* acquisition while it is in use, and a hash run -> number that outlives  *)
(* the coroutine that dialled.                                             *)
(*                                                                         *)
(* A dispatcher is one campaign_call_dispatcher.process_batch, which asks  *)
(* for a number, creates a run and dials; a cleaner is one status callback *)
(* and releases the number of a run.  One action is one Redis command.     *)
(***************************************************************************)
EXTENDS Integers, FiniteSets

CONSTANTS
    Numbers,        \* provider.from_numbers
    NoNumber,
    Preferred,      \* caller ids of the original calls, which callback rows prefer
    Runs,           \* workflow run ids; every dispatch creates a new one
    NoRun,
    Dispatchers,
    Cleaners,
    StaleTimeout,   \* stale_call_timeout
    PoolTTL,        \* EXPIRE of the pool's key
    MappingTTL,     \* EXPIRE of workflow_from_number:<run>
    MaxBatch,       \* longest time a batch takes
    MaxUse,         \* longest time from acquiring a number to the end of its release
    Repeated,       \* may a status callback be repeated?
    RedisFaults,    \* may a Redis call fail?
    DbFaults,       \* may a database call fail?
    Crashes,        \* may a coroutine be cancelled, or its worker die?
    Horizon         \* BOUND: the clock stops here

ASSUME ConstantsAssumption ==
    /\ StaleTimeout \in Nat \ {0} /\ PoolTTL \in Nat \ {0} /\ MappingTTL \in Nat \ {0}
    /\ MaxBatch \in Nat /\ MaxUse \in Nat /\ Horizon \in Nat \ {0}
    /\ {Repeated, RedisFaults, DbFaults, Crashes} \subseteq BOOLEAN
    /\ Preferred \subseteq Numbers
    /\ NoNumber \notin Numbers /\ NoRun \notin Runs
    /\ Dispatchers \cap Cleaners = {}

VARIABLES
    clock,
    pool,       \* the sorted set: a function from the numbers in it to scores
    poolUntil,  \* when its key expires; 0: it does not, or there is no key
    mapping,    \* the hashes workflow_from_number:<run>
    proc,       \* where each coroutine is, and its local variables
    call,       \* history: the call of each run
    unrefreshed,    \* history: has a batch gone on without renewing the key's expiry?
    spoilt      \* history: the numbers that lost their score, or may be freed, under a user

vars == <<clock, pool, poolUntil, mapping, proc, call, unrefreshed, spoilt>>

Procs == Dispatchers \cup Cleaners

\* "refresh": the numbers are added, EXPIRE is next.  "batch": between two rows.
\* "ask", "last": about to run an acquire script, with time left or for the last
\* time.  "wait": turned down.  "held": has a number.  "dial": the run exists.
\* "get", "free", "unmap": the Redis commands of release_call_slot.
PCs == {"idle", "refresh", "batch", "ask", "last", "wait", "held", "dial",
        "get", "free", "unmap"}

ProcInfo == [pc : PCs, began : Nat, preferred : Numbers \cup {NoNumber}, at : Nat,
             number : Numbers \cup {NoNumber}, run : Runs \cup {NoRun}]

\* "failed", "stray": the provider never had the call, so no status callback comes;
\* of a stray call nobody releases the number either.
CallInfo == [state : {"new", "dialing", "live", "over", "failed", "stray"},
             number : Numbers \cup {NoNumber}, since : Nat, reported : BOOLEAN]

MapInfo == [number : Numbers \cup {NoNumber}, until : Nat]

NoMapping == [number |-> NoNumber, until |-> 0]

Idle == [pc |-> "idle", began |-> 0, preferred |-> NoNumber, at |-> 0,
         number |-> NoNumber, run |-> NoRun]

\* A dispatcher whose batch began at t and has no row in hand.
InBatch(pc, t) == [Idle EXCEPT !.pc = pc, !.began = t]

\* After a row the batch goes on, after its callback a cleaner is done.
Done(p) == IF p \in Dispatchers THEN InBatch("batch", proc[p].began) ELSE Idle

EmptyPool == [n \in {} |-> 0]

Init ==
    /\ clock = 1        \* a score of 0 means free, so no clock reads 0
    /\ pool = EmptyPool /\ poolUntil = 0
    /\ mapping = [r \in Runs |-> NoMapping]
    /\ proc = [p \in Procs |-> Idle]
    /\ call = [r \in Runs |-> [state |-> "new", number |-> NoNumber,
                               since |-> 0, reported |-> FALSE]]
    /\ unrefreshed = FALSE /\ spoilt = {}
-----------------------------------------------------------------------------
(* Acquisition.                                                             *)

\* Mutant: ZADD without NX.
OverwriteNumbers == [n \in Numbers |-> 0]

\* ZADD NX 0 of the configured numbers.
AddedNumbers == [n \in Numbers |-> IF n \in DOMAIN pool THEN pool[n] ELSE 0]

\* A batch begins with ZADD NX.  The batch goes on if this fails, or if the provider
\* cannot be looked up, without the EXPIRE that follows.  A new key has no expiry.
InitializePool(p) ==
    /\ p \in Dispatchers /\ proc[p].pc = "idle"
    /\ \/ /\ pool' = AddedNumbers
          /\ proc' = [proc EXCEPT ![p] = InBatch("refresh", clock)]
          /\ UNCHANGED unrefreshed
       \/ /\ \/ RedisFaults /\ pool' \in {pool, AddedNumbers}
             \/ DbFaults /\ UNCHANGED pool
          /\ proc' = [proc EXCEPT ![p] = InBatch("batch", clock)]
          /\ unrefreshed' = TRUE
    /\ UNCHANGED <<clock, poolUntil, mapping, call, spoilt>>

\* EXPIRE, which does nothing if the key has just expired; its failure is swallowed, too.
RefreshPool(p) ==
    /\ proc[p].pc = "refresh"
    /\ \/ /\ poolUntil' = IF DOMAIN pool = {} THEN 0 ELSE clock + PoolTTL
          /\ UNCHANGED unrefreshed
       \/ RedisFaults /\ unrefreshed' = TRUE /\ UNCHANGED poolUntil
    /\ proc' = [proc EXCEPT ![p].pc = "batch"]
    /\ UNCHANGED <<clock, pool, mapping, call, spoilt>>

EndBatch(p) ==
    /\ proc[p].pc = "batch"
    /\ proc' = [proc EXCEPT ![p] = Idle]
    /\ UNCHANGED <<clock, pool, poolUntil, mapping, call, unrefreshed, spoilt>>

\* A callback prefers the caller id of the original call.
Ask(p) ==
    /\ proc[p].pc = "batch"
    /\ \E n \in Preferred \cup {NoNumber} :
          proc' = [proc EXCEPT ![p].pc = "ask", ![p].preferred = n, ![p].at = clock]
    /\ UNCHANGED <<clock, pool, poolUntil, mapping, call, unrefreshed, spoilt>>

AskAgain(p) ==
    /\ proc[p].pc = "wait"
    /\ proc' = [proc EXCEPT ![p].pc = "ask", ![p].at = clock]
    /\ UNCHANGED <<clock, pool, poolUntil, mapping, call, unrefreshed, spoilt>>

\* The timeout is reached: any number will do for a callback, too.
Fallback(p) ==
    /\ proc[p].pc = "wait" /\ proc[p].preferred # NoNumber
    /\ proc' = [proc EXCEPT ![p].pc = "last", ![p].at = clock]
    /\ UNCHANGED <<clock, pool, poolUntil, mapping, call, unrefreshed, spoilt>>

TriesAgain(p) == [proc[p] EXCEPT !.pc = "wait", !.at = 0]

\* Mutant: what is in use is reset as if it were stale.
EverythingStale(p) == [n \in DOMAIN pool |-> 0]

\* Both acquire scripts start by resetting the stale numbers.
StaleReset(p) ==
    [n \in DOMAIN pool |-> IF pool[n] \in 1..(proc[p].at - StaleTimeout) THEN 0 ELSE pool[n]]

Wanted(p) ==
    {n \in DOMAIN pool : proc[p].pc = "ask" => proc[p].preferred \in {n, NoNumber}}

Available(p) == {n \in Wanted(p) : StaleReset(p)[n] = 0}

Acquire(p) ==
    /\ proc[p].pc \in {"ask", "last"}
    /\ \E n \in Available(p) :
          /\ pool' = [StaleReset(p) EXCEPT ![n] = proc[p].at]
          /\ \/ proc' = [proc EXCEPT ![p].pc = "held", ![p].preferred = NoNumber,
                                     ![p].number = n]
             \/ \* the answer is lost: nobody knows the number is taken
                RedisFaults /\ proc' = [proc EXCEPT ![p] = IF proc[p].pc = "last" THEN Idle
                                                           ELSE TriesAgain(p)]
    /\ UNCHANGED <<clock, poolUntil, mapping, call, unrefreshed, spoilt>>

\* None of the wanted numbers is free; after the last attempt the caller raises
\* PhoneNumberPoolExhaustedError.
TurnedDown(p) ==
    /\ proc[p].pc \in {"ask", "last"}
    /\ \/ Available(p) = {} /\ pool' = StaleReset(p)
       \/ RedisFaults /\ UNCHANGED pool
    /\ proc' = [proc EXCEPT ![p] = IF proc[p].pc = "last" THEN Idle
                                   ELSE TriesAgain(p)]
    /\ UNCHANGED <<clock, poolUntil, mapping, call, unrefreshed, spoilt>>

GiveUp(p) ==
    /\ proc[p].pc = "wait" /\ proc[p].preferred = NoNumber
    /\ proc' = [proc EXCEPT ![p] = Idle]
    /\ UNCHANGED <<clock, pool, poolUntil, mapping, call, unrefreshed, spoilt>>
-----------------------------------------------------------------------------
(* dispatch_call, once it has a number.                                     *)

\* Mutant: the except block raises without releasing the number.
AbandonKeepsNumber(p) ==
    /\ proc[p].pc = "held"
    /\ proc' = [proc EXCEPT ![p] = Done(p)]
    /\ UNCHANGED <<clock, pool, poolUntil, mapping, call, unrefreshed, spoilt>>

\* No run could be created or bound: the except block releases the number.
Abandon(p) ==
    /\ proc[p].pc = "held"
    /\ proc' = [proc EXCEPT ![p].pc = "free"]
    /\ UNCHANGED <<clock, pool, poolUntil, mapping, call, unrefreshed, spoilt>>

\* HSET, then EXPIRE; an error of either is swallowed and the call is dialled.
StoreMapping(p) ==
    /\ proc[p].pc = "held"
    /\ \E r \in Runs :
          /\ call[r].state = "new"
          /\ call' = [call EXCEPT ![r] = [state |-> "dialing", number |-> proc[p].number,
                                          since |-> proc[p].at, reported |-> FALSE]]
          /\ proc' = [proc EXCEPT ![p].pc = "dial", ![p].at = 0, ![p].run = r]
          /\ \/ mapping' = [mapping EXCEPT ![r] = [number |-> proc[p].number,
                                                   until |-> clock + MappingTTL]]
             \/ RedisFaults /\ mapping' = [mapping EXCEPT ![r] = [number |-> proc[p].number,
                                                                  until |-> Horizon + 1]]
             \/ RedisFaults /\ UNCHANGED mapping
    /\ UNCHANGED <<clock, pool, poolUntil, unrefreshed, spoilt>>

\* The provider has the call.  If its metadata cannot be stored, and in the except
\* block the failure neither, the batch goes on all the same.
Dial(p) ==
    /\ proc[p].pc = "dial"
    /\ call' = [call EXCEPT ![proc[p].run].state = "live"]
    /\ proc' = [proc EXCEPT ![p] = Done(p)]
    /\ UNCHANGED <<clock, pool, poolUntil, mapping, unrefreshed, spoilt>>

ToRelease(p) == [Idle EXCEPT !.pc = "get", !.began = proc[p].began, !.run = proc[p].run]

\* Mutant: the failed call's number is not released.
DialFailsKeepsNumber(p) ==
    /\ proc[p].pc = "dial"
    /\ call' = [call EXCEPT ![proc[p].run].state = "failed"]
    /\ proc' = [proc EXCEPT ![p] = Done(p)]
    /\ UNCHANGED <<clock, pool, poolUntil, mapping, unrefreshed, spoilt>>

\* No quota, or the provider refused the call: release_call_slot.
DialFails(p) ==
    /\ proc[p].pc = "dial"
    /\ call' = [call EXCEPT ![proc[p].run].state = "failed"]
    /\ proc' = [proc EXCEPT ![p] = ToRelease(p)]
    /\ UNCHANGED <<clock, pool, poolUntil, mapping, unrefreshed, spoilt>>

\* A database call before the dial raises outside every try block, or the one that
\* notes the refusal does, before release_call_slot.
DialForgotten(p) ==
    /\ DbFaults /\ proc[p].pc = "dial"
    /\ call' = [call EXCEPT ![proc[p].run].state = "stray"]
    /\ proc' = [proc EXCEPT ![p] = Done(p)]
    /\ UNCHANGED <<clock, pool, poolUntil, mapping, unrefreshed, spoilt>>

\* A number is about to be released although its run uses it, or has released it.
Spoils(r) == IF mapping[r] = NoMapping THEN {} ELSE {mapping[r].number}

\* The provider has the call, but its metadata cannot be stored: the same except
\* block releases the number of a call that goes on.
RecordFails(p) ==
    /\ DbFaults /\ proc[p].pc = "dial"
    /\ call' = [call EXCEPT ![proc[p].run].state = "live"]
    /\ proc' = [proc EXCEPT ![p] = ToRelease(p)]
    /\ spoilt' = spoilt \cup Spoils(proc[p].run)
    /\ UNCHANGED <<clock, pool, poolUntil, mapping, unrefreshed>>
-----------------------------------------------------------------------------
(* release_call_slot.                                                       *)

\* A terminal status callback of the provider.
StatusCallback(p, r) ==
    /\ p \in Cleaners /\ proc[p].pc = "idle"
    /\ call[r].state = "over" /\ (Repeated \/ ~call[r].reported)
    /\ proc' = [proc EXCEPT ![p] = [Idle EXCEPT !.pc = "get", !.run = r]]
    /\ call' = [call EXCEPT ![r].reported = TRUE]
    /\ spoilt' = IF call[r].reported THEN spoilt \cup Spoils(r) ELSE spoilt
    /\ UNCHANGED <<clock, pool, poolUntil, mapping, unrefreshed>>

\* Mutant: the missing mapping is not checked for.
GetMappingUnchecked(p) ==
    /\ proc[p].pc = "get"
    /\ proc' = [proc EXCEPT ![p].pc = "free", ![p].number = mapping[proc[p].run].number]
    /\ UNCHANGED <<clock, pool, poolUntil, mapping, call, unrefreshed, spoilt>>

GetMapping(p) ==
    /\ proc[p].pc = "get"
    /\ \/ /\ mapping[proc[p].run] # NoMapping
          /\ proc' = [proc EXCEPT ![p].pc = "free",
                                  ![p].number = mapping[proc[p].run].number]
       \/ /\ mapping[proc[p].run] = NoMapping \/ RedisFaults
          /\ proc' = [proc EXCEPT ![p] = Done(p)]
    /\ UNCHANGED <<clock, pool, poolUntil, mapping, call, unrefreshed, spoilt>>

\* release_from_number: whoever uses the number now, it becomes free.  It answers
\* False, and the mapping is kept, when the pool's key expired.
Release(p) ==
    /\ proc[p].pc = "free"
    /\ \/ /\ proc[p].number \in DOMAIN pool
          /\ pool' = [pool EXCEPT ![proc[p].number] = 0]
          /\ proc' = [proc EXCEPT ![p] = IF proc[p].run = NoRun THEN Done(p)
                                         ELSE [proc[p] EXCEPT !.pc = "unmap"]]
       \/ /\ proc[p].number \notin DOMAIN pool
          /\ proc' = [proc EXCEPT ![p] = Done(p)] /\ UNCHANGED pool
       \/ /\ RedisFaults
          /\ pool' \in {pool, [n \in DOMAIN pool |-> IF n = proc[p].number THEN 0 ELSE pool[n]]}
          /\ proc' = [proc EXCEPT ![p] = Done(p)]
    /\ UNCHANGED <<clock, poolUntil, mapping, call, unrefreshed, spoilt>>

Unmap(p) ==
    /\ proc[p].pc = "unmap"
    /\ \/ mapping' = [mapping EXCEPT ![proc[p].run] = NoMapping]
       \/ RedisFaults /\ UNCHANGED mapping
    /\ proc' = [proc EXCEPT ![p] = Done(p)]
    /\ UNCHANGED <<clock, pool, poolUntil, call, unrefreshed, spoilt>>
-----------------------------------------------------------------------------
(* The world around.                                                        *)

EndCall(r) ==
    /\ call[r].state = "live"
    /\ call' = [call EXCEPT ![r].state = "over"]
    /\ UNCHANGED <<clock, pool, poolUntil, mapping, proc, unrefreshed, spoilt>>

\* "except Exception" does not catch a cancellation: what was held is forgotten.
Crash(p) ==
    /\ Crashes /\ proc[p].pc # "idle"
    /\ proc' = [proc EXCEPT ![p] = Idle]
    /\ call' = IF proc[p].pc = "dial" THEN [call EXCEPT ![proc[p].run].state = "stray"]
               ELSE call
    /\ UNCHANGED <<clock, pool, poolUntil, mapping, unrefreshed, spoilt>>

HeldBy(p) == proc[p].pc \in {"held", "free"} /\ proc[p].run = NoRun

\* A run uses its number until the release it is due begins.
Using(r) ==
    \/ call[r].state \in {"dialing", "live"}
    \/ call[r].state = "over" /\ ~call[r].reported
    \/ \E p \in Procs : /\ proc[p].run = r
                       /\ \/ proc[p].pc = "free"
                          \/ proc[p].pc = "get" /\ mapping[r] # NoMapping

\* Time passes only while every number in use was acquired less than MaxUse ago, and
\* every batch began less than MaxBatch ago: its worker cancels it after job_timeout.
OnTime ==
    /\ \A r \in Runs : Using(r) => clock < call[r].since + MaxUse
    /\ \A p \in Procs : HeldBy(p) \/ proc[p].pc \in {"ask", "last"} => clock < proc[p].at + MaxUse
    /\ \A p \in Dispatchers : proc[p].pc # "idle" => clock < proc[p].began + MaxBatch

PoolExpires == poolUntil # 0 /\ poolUntil <= clock + 1

Tick ==
    /\ clock < Horizon /\ OnTime
    /\ clock' = clock + 1
    /\ IF PoolExpires
       THEN /\ pool' = EmptyPool /\ poolUntil' = 0
            /\ spoilt' = IF unrefreshed THEN spoilt \cup {n \in DOMAIN pool : pool[n] # 0}
                         ELSE spoilt
       ELSE UNCHANGED <<pool, poolUntil, spoilt>>
    /\ mapping' = [r \in Runs |-> IF mapping[r].until <= clock' THEN NoMapping ELSE mapping[r]]
    /\ UNCHANGED <<proc, call, unrefreshed>>
-----------------------------------------------------------------------------
Step(p) ==
    \/ InitializePool(p) \/ RefreshPool(p) \/ EndBatch(p)
    \/ Ask(p) \/ AskAgain(p) \/ Fallback(p) \/ Acquire(p) \/ TurnedDown(p) \/ GiveUp(p)
    \/ Abandon(p) \/ StoreMapping(p) \/ Dial(p) \/ DialFails(p) \/ DialForgotten(p)
    \/ RecordFails(p) \/ GetMapping(p) \/ Release(p) \/ Unmap(p)

Next ==
    \/ \E p \in Procs : Step(p) \/ Crash(p)
    \/ \E p \in Cleaners, r \in Runs : StatusCallback(p, r)
    \/ \E r \in Runs : EndCall(r)
    \/ Tick

Spec == Init /\ [][Next]_vars

\* Every call ends, the provider reports it at least once, and a coroutine goes on.
Fairness ==
    /\ \A r \in Runs : WF_vars(EndCall(r))
    /\ \A r \in Runs :
          SF_vars(~call[r].reported /\ \E p \in Cleaners : StatusCallback(p, r))
    /\ \A p \in Procs : WF_vars(\/ Abandon(p) \/ StoreMapping(p) \/ Dial(p) \/ DialFails(p)
                              \/ GetMapping(p) \/ Release(p) \/ Unmap(p))

FairSpec == Spec /\ Fairness
-----------------------------------------------------------------------------
(* Properties.                                                              *)

TypeOK ==
    /\ clock \in Nat /\ poolUntil \in Nat
    /\ DOMAIN pool \subseteq Numbers
    /\ \A n \in DOMAIN pool : pool[n] \in Nat
    /\ mapping \in [Runs -> MapInfo] /\ unrefreshed \in BOOLEAN /\ spoilt \subseteq Numbers
    /\ proc \in [Procs -> ProcInfo]
    /\ \A p \in Procs :
          /\ proc[p].pc \in {"held", "dial", "free", "unmap"} => proc[p].number \in Numbers
          /\ proc[p].pc \in {"dial", "get", "unmap"} => proc[p].run \in Runs
    /\ call \in [Runs -> CallInfo]

InProgress == {r \in Runs : call[r].state \in {"dialing", "live"}}

Stale(n) == pool[n] \in 1..(clock - StaleTimeout)
UsedBy(n) ==
    {p \in Dispatchers : proc[p].pc = "held" /\ proc[p].number = n} \cup
    {r \in InProgress : call[r].number = n}

\* "Acquire a unique from_number": two calls never show the same caller id at
\* the same time (acquire_from_number, release_from_number).
NumberExclusive == \A n \in Numbers : Cardinality(UsedBy(n)) <= 1

\* The same of every number but those that expired with the pool's key after a batch had
\* gone on without renewing its expiry, or that a repeated callback or an unrecorded
\* dial sets out to free (initialize_from_number_pool, release_call_slot).
ExclusiveUnlessSpoilt == \A n \in Numbers \ spoilt : Cardinality(UsedBy(n)) <= 1

\* Without Redis faults and crashes a number in use is never forgotten: a coroutine
\* holds or is releasing it, or the mapping of a run leads to it (for a stray call
\* nobody follows it, and its number is taken until it is stale).
NoNumberForgotten ==
    (~RedisFaults /\ ~Crashes) =>
        \A n \in DOMAIN pool :
            \/ pool[n] = 0 \/ Stale(n)
            \/ \E p \in Procs : proc[p].number = n
            \/ \E r \in Runs : mapping[r].number = n

TakenByStray(n) ==
    \E r \in Runs : call[r].state = "stray" /\ call[r].number = n /\ call[r].since = pool[n]

\* Without Redis faults and crashes the caller id of a call that ended, or that the
\* provider refused, becomes free again (release_call_slot), though a stray call may
\* take it next and keep it.
EndedCallsReturnNumbers ==
    \A r \in Runs, n \in Numbers :
        call[r].state \in {"over", "failed"} /\ mapping[r].number = n
            ~> (n \in DOMAIN pool => pool[n] = 0 \/ TakenByStray(n))
-----------------------------------------------------------------------------
(* The inductive invariant behind ExclusiveUnlessSpoilt: a number that is not *)
(* spoilt has one user at a time, who is a coroutine until a run is created,  *)
(* then the run, and its score is the time at which this user acquired it.    *)

ForRun(p) == proc[p].pc \in {"dial", "get", "free", "unmap"} /\ proc[p].run # NoRun

\* A coroutine that may still touch the number of its run.
Reaches(p) == /\ ForRun(p)
              /\ proc[p].pc = "get" => mapping[proc[p].run] # NoMapping

\* The pool's key does not expire before t.
LastsUntil(t) == poolUntil = 0 \/ t <= poolUntil

\* Nobody asks with a clock of the future or too late; a batch is in time, and the
\* key lasts as long after its beginning as the code wants.
AskedInTime ==
    /\ clock >= 1
    /\ \A p \in Procs :
          /\ proc[p].pc \in {"refresh", "batch", "ask", "last", "wait", "held"} =>
                proc[p].run = NoRun
          /\ proc[p].pc \in {"ask", "last", "held"} => 1 <= proc[p].at /\ proc[p].at <= clock
          /\ proc[p].pc \in {"ask", "last"} => clock <= proc[p].at + MaxUse
    /\ \A p \in Procs :
          /\ p \notin Dispatchers => proc[p].pc \in {"idle", "get", "free", "unmap"}
          /\ p \in Dispatchers /\ proc[p].pc # "idle" =>
                /\ proc[p].began <= clock /\ clock <= proc[p].began + MaxBatch
                /\ ~unrefreshed /\ proc[p].pc # "refresh"
                      => LastsUntil(proc[p].began + PoolTTL)

\* A coroutine that dials or cleans up for a run knows the run's number, and unless the
\* number is spoilt, at most one can still touch it.
RunsHandled ==
    /\ \A p \in Procs : ForRun(p) =>
          /\ proc[p].pc = "dial" => call[proc[p].run].state = "dialing"
          /\ proc[p].pc # "dial" => call[proc[p].run].state \in {"live", "over", "failed"}
          /\ proc[p].pc \in {"dial", "free"} => proc[p].number = call[proc[p].run].number
    /\ \A p \in Procs : Reaches(p) /\ call[proc[p].run].number \notin spoilt =>
          \/ proc[p].pc = "dial" \/ call[proc[p].run].state = "failed"
          \/ call[proc[p].run].state = "over" /\ call[proc[p].run].reported
    /\ \A p, q \in Procs :
          /\ Reaches(p) /\ Reaches(q) /\ proc[p].run = proc[q].run
          /\ proc[p].pc = "dial" \/ call[proc[p].run].number \notin spoilt
          => p = q
    /\ \A r \in Runs :
          \/ mapping[r] = NoMapping
          \/ call[r].state # "new" /\ mapping[r].number = call[r].number

\* The pool says since when n is used; the use is neither stale nor will the key
\* expire before it ends, unless some batch did not renew its expiry.
UsedSince(n, t) ==
    n \notin spoilt =>
       /\ n \in DOMAIN pool /\ pool[n] = t
       /\ 1 <= t /\ t <= clock /\ clock <= t + MaxUse
       /\ ~unrefreshed => LastsUntil(t + MaxUse + 1)

ScoresKnown ==
    /\ \A p \in Procs : HeldBy(p) => UsedSince(proc[p].number, proc[p].at)
    /\ \A r \in Runs : Using(r) => UsedSince(call[r].number, call[r].since)

OneUser ==
    /\ \A p, q \in Procs :
          /\ HeldBy(p) /\ HeldBy(q) /\ proc[p].number = proc[q].number
          /\ proc[p].number \notin spoilt
          => p = q
    /\ \A p \in Procs, r \in Runs :
          HeldBy(p) /\ Using(r) /\ proc[p].number \notin spoilt => proc[p].number # call[r].number
    /\ \A r, q \in Runs :
          /\ Using(r) /\ Using(q) /\ call[r].number = call[q].number
          /\ call[r].number \notin spoilt
          => r = q

PoolInv == TypeOK /\ AskedInTime /\ RunsHandled /\ ScoresKnown /\ OneUser
=============================================================================

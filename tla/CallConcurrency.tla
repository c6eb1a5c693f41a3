-------------------------- MODULE CallConcurrency --------------------------
(***************************************************************************)
(* The concurrent-call slots of an organization                            *)
(* (src/api/services/call_concurrency): rate_limiter.py keeps three sorted *)
(* sets and a run -> slot mapping in Redis, service.py strings the Redis   *)
(* calls together, and many coroutines of many workers run them at once.   *)
(*                                                                         *)
(* One action is one atomic Redis command (or Lua script); between two     *)
(* commands of a coroutine any other coroutine may run.  A starter asks    *)
(* for a slot and binds it to a workflow run; a cleaner is one execution   *)
(* of a cleanup path (status callback, StasisEnd, the pipeline's finally)  *)
(* and releases the slot of a run.                                         *)
(***************************************************************************)
EXTENDS Integers, FiniteSets

CONSTANTS
    Orgs,           \* organizations
    NoOrg,
    Scopes,         \* scope keys, "campaign:<id>" in the dispatcher
    NoScope,        \* an acquisition without a scope counter
    Runs,           \* workflow run ids
    NoRun,
    Slots,          \* slot ids; every acquisition attempt mints a new one
    NoSlot,
    Starters,       \* coroutines that start calls
    Cleaners,       \* executions of a cleanup path
    OrgLimits,      \* values get_org_concurrent_limit may return
    ScopeLimits,    \* values of a campaign's max_concurrency
    StaleTimeout,   \* stale_call_timeout
    KeyTTL,         \* EXPIRE of the sorted sets
    MappingTTL,     \* EXPIRE of workflow_slot_mapping:<run>
    MaxSetup,       \* longest time from asking for a slot to the pipeline's start
    MaxDuration,    \* longest call the pipeline allows
    RedisFaults,    \* may a Redis call fail?
    Crashes,        \* may a coroutine be cancelled, or its worker die?
    Horizon         \* BOUND: the clock stops here

ASSUME ConstantsAssumption ==
    /\ OrgLimits \in SUBSET Nat /\ OrgLimits # {}
    /\ ScopeLimits \in SUBSET Nat /\ ScopeLimits # {}
    /\ StaleTimeout \in Nat \ {0}
    /\ KeyTTL \in Nat /\ KeyTTL >= StaleTimeout
    /\ MappingTTL \in Nat /\ MappingTTL >= StaleTimeout
    /\ MaxSetup \in Nat /\ MaxDuration \in Nat /\ Horizon \in Nat
    /\ {RedisFaults, Crashes} \subseteq BOOLEAN
    /\ NoOrg \notin Orgs /\ NoScope \notin Scopes /\ NoRun \notin Runs /\ NoSlot \notin Slots
    /\ Starters \cap Cleaners = {}

VARIABLES
    clock,
    orgSet,     \* members of the sorted sets concurrent_calls:<org>
    scopeSet,   \* members of the sorted sets concurrent_calls:<scope_key>
    fleet,      \* members of concurrent_calls_fleet
    slot,       \* what each slot id stands for: the CallConcurrencySlot and its score
    mapping,    \* the hashes workflow_slot_mapping:<run>
    proc,       \* where each coroutine is, and its local variables
    call,       \* history: the call each slot was acquired for
    mistaken    \* history: the runs that a clean-up of an earlier call released or
                \* unmapped when they had been started again

vars == <<clock, orgSet, scopeSet, fleet, slot, mapping, proc, call, mistaken>>

Procs == Starters \cup Cleaners

\* A slot sits in the sorted set of its own organization, and of its own scope
\* if it has one, with the same score everywhere, so one set of slot ids stands
\* for the sets of all organizations, and one for those of all scopes.
SlotInfo == [org : Orgs \cup {NoOrg}, scope : Scopes \cup {NoScope},
             score : Nat, added : Nat]

\* "new": not minted.  "pending": minted, not bound.  "setup": bound to a run,
\* the phone is not answered yet.  "live": the pipeline runs.  "over": ended.
CallInfo == [state : {"new", "pending", "setup", "live", "over"},
             run : Runs \cup {NoRun}, start : Nat]

PCs == {"idle", "ask", "wait", "held", "zremOrg", "zremFleet", "zremScope", "unmap"}

ProcInfo == [pc : PCs, org : Orgs \cup {NoOrg}, scope : Scopes \cup {NoScope},
             limit : Nat, scopeLimit : Nat, at : Nat,
             slot : Slots \cup {NoSlot}, run : Runs \cup {NoRun}]

MapInfo == [slot : Slots \cup {NoSlot}, at : Nat]

NoMapping == [slot |-> NoSlot, at |-> 0]

Idle == [pc |-> "idle", org |-> NoOrg, scope |-> NoScope, limit |-> 0,
         scopeLimit |-> 0, at |-> 0, slot |-> NoSlot, run |-> NoRun]

Init ==
    /\ clock = 0
    /\ orgSet = {} /\ scopeSet = {} /\ fleet = {}
    /\ slot = [s \in Slots |-> [org |-> NoOrg, scope |-> NoScope, score |-> 0, added |-> 0]]
    /\ mapping = [r \in Runs |-> NoMapping]
    /\ proc = [p \in Procs |-> Idle]
    /\ call = [s \in Slots |-> [state |-> "new", run |-> NoRun, start |-> 0]]
    /\ mistaken = {}

-----------------------------------------------------------------------------
OfOrg(S, o) == {s \in S : slot[s].org = o}
OfScope(S, c) == {s \in S : slot[s].scope = c}

\* ZREMRANGEBYSCORE 0 (t - stale_call_timeout) removes exactly these.
StaleAt(S, t) == {s \in S : slot[s].score + StaleTimeout <= t}
Fresh(s) == slot[s].score + StaleTimeout > clock

Minted == {s \in Slots : call[s].state # "new"}
InProgress == {s \in Slots : call[s].state \in {"setup", "live"}}

-----------------------------------------------------------------------------
(* Acquisition: acquire_org_slot and try_acquire_concurrent_slot_details.   *)

\* acquire_org_slot reads the limit once, before its loop, and every turn of
\* the loop reads the clock before it evaluates the script.
Ask(p) ==
    /\ p \in Starters /\ proc[p].pc = "idle"
    /\ \E o \in Orgs, c \in Scopes \cup {NoScope}, l \in OrgLimits, m \in ScopeLimits :
          proc' = [proc EXCEPT ![p] =
                     [Idle EXCEPT !.pc = "ask", !.org = o, !.scope = c,
                                  !.limit = l, !.scopeLimit = m, !.at = clock]]
    /\ UNCHANGED <<clock, orgSet, scopeSet, fleet, slot, mapping, call, mistaken>>

AskAgain(p) ==
    /\ proc[p].pc = "wait"
    /\ proc' = [proc EXCEPT ![p].pc = "ask", ![p].at = clock]
    /\ UNCHANGED <<clock, orgSet, scopeSet, fleet, slot, mapping, call, mistaken>>

\* What the script finds in the sorted sets once it has pruned them.
OrgAfterPrune(p) == orgSet \ StaleAt(OfOrg(orgSet, proc[p].org), proc[p].at)
ScopeAfterPrune(p) == scopeSet \ StaleAt(OfScope(scopeSet, proc[p].scope), proc[p].at)
\* Mutant: the mirror is pruned up to now instead of the stale cutoff.
FleetPrunedUpToNow(p) == fleet \ StaleAt(fleet, proc[p].at + StaleTimeout)
FleetAfterPrune(p) == fleet \ StaleAt(fleet, proc[p].at)

\* Mutant: the limit itself is still allowed.
OrgFullOffByOne(p) ==
    Cardinality(OfOrg(OrgAfterPrune(p), proc[p].org)) > proc[p].limit
OrgFull(p) == Cardinality(OfOrg(OrgAfterPrune(p), proc[p].org)) >= proc[p].limit
ScopeFull(p) ==
    /\ proc[p].scope # NoScope
    /\ Cardinality(OfScope(ScopeAfterPrune(p), proc[p].scope)) >= proc[p].scopeLimit

\* Mutants: the scope's ZADD is forgotten; the slot id is not a fresh one.
AddSlotUnscoped(p, s) ==
    /\ orgSet' = OrgAfterPrune(p) \cup {s}
    /\ fleet' = FleetAfterPrune(p) \cup {s}
    /\ slot' = [slot EXCEPT ![s] = [org |-> proc[p].org, scope |-> proc[p].scope,
                                    score |-> proc[p].at, added |-> clock]]
    /\ call' = [call EXCEPT ![s].state = "pending"]
    /\ UNCHANGED scopeSet

AddSlotNotMinted(p, s) ==
    /\ orgSet' = OrgAfterPrune(p) \cup {s}
    /\ scopeSet' = IF proc[p].scope = NoScope THEN scopeSet
                   ELSE ScopeAfterPrune(p) \cup {s}
    /\ fleet' = FleetAfterPrune(p) \cup {s}
    /\ slot' = [slot EXCEPT ![s] = [org |-> proc[p].org, scope |-> proc[p].scope,
                                    score |-> proc[p].at, added |-> clock]]
    /\ UNCHANGED call

\* The script adds the minted slot s to every set at once.
AddSlot(p, s) ==
    /\ orgSet' = OrgAfterPrune(p) \cup {s}
    /\ scopeSet' = IF proc[p].scope = NoScope THEN scopeSet
                   ELSE ScopeAfterPrune(p) \cup {s}
    /\ fleet' = FleetAfterPrune(p) \cup {s}
    /\ slot' = [slot EXCEPT ![s] = [org |-> proc[p].org, scope |-> proc[p].scope,
                                    score |-> proc[p].at, added |-> clock]]
    /\ call' = [call EXCEPT ![s].state = "pending"]

\* The coroutine gets the slot; or the answer is lost after the script ran, the
\* exception handler returns None and nobody knows the slot exists.
Granted(p) ==
    /\ proc[p].pc = "ask" /\ ~OrgFull(p) /\ ~ScopeFull(p)
    /\ \E s \in Slots \ Minted :
          /\ AddSlot(p, s)
          /\ \/ proc' = [proc EXCEPT ![p] = [Idle EXCEPT !.pc = "held", !.slot = s]]
             \/ RedisFaults /\ proc' = [proc EXCEPT ![p].pc = "wait"]
    /\ UNCHANGED <<clock, mapping, mistaken>>

\* Redis keeps what a script pruned before it returned nil.
Denied(p) ==
    /\ proc[p].pc = "ask"
    /\ \/ /\ OrgFull(p)
          /\ orgSet' = OrgAfterPrune(p) /\ UNCHANGED scopeSet
       \/ /\ ~OrgFull(p) /\ ScopeFull(p)
          /\ orgSet' = OrgAfterPrune(p) /\ scopeSet' = ScopeAfterPrune(p)
       \/ RedisFaults /\ UNCHANGED <<orgSet, scopeSet>>
    /\ proc' = [proc EXCEPT ![p].pc = "wait"]
    /\ UNCHANGED <<clock, fleet, slot, mapping, call, mistaken>>

\* The timeout is reached: get_concurrent_count prunes the organization's set
\* once more (its errors are swallowed) and CallConcurrencyLimitError is raised.
GiveUp(p) ==
    /\ proc[p].pc = "wait"
    /\ \/ orgSet' = orgSet \ StaleAt(OfOrg(orgSet, proc[p].org), clock)
       \/ RedisFaults /\ UNCHANGED orgSet
    /\ proc' = [proc EXCEPT ![p] = Idle]
    /\ UNCHANGED <<clock, scopeSet, fleet, slot, mapping, call, mistaken>>

-----------------------------------------------------------------------------
(* bind_workflow_run and store_workflow_slot_mapping_if_absent.             *)

CallsOf(r) == {s \in Slots : call[s].run = r}
CleanupDue(r) == \E s \in CallsOf(r) : call[s].state = "over"

\* Mutant: the mapping is stored whether or not the run has one already.
BindUnconditionally(p) ==
    /\ proc[p].pc = "held"
    /\ \E r \in Runs :
          /\ mapping' = [mapping EXCEPT ![r] = [slot |-> proc[p].slot, at |-> clock]]
          /\ call' = [call EXCEPT ![proc[p].slot].state = "setup",
                                  ![proc[p].slot].run = r]
    /\ proc' = [proc EXCEPT ![p] = Idle]
    /\ UNCHANGED <<clock, orgSet, scopeSet, fleet, slot, mistaken>>

\* Two requests may start the same run (two browser offers, a repeated POST), also
\* when a call of the run is over.
Bind(p) ==
    /\ proc[p].pc = "held"
    /\ \E r \in Runs :
          /\ mapping[r] = NoMapping
          /\ mapping' = [mapping EXCEPT ![r] = [slot |-> proc[p].slot, at |-> clock]]
          /\ \/ /\ call' = [call EXCEPT ![proc[p].slot].state = "setup",
                                        ![proc[p].slot].run = r]
                /\ proc' = [proc EXCEPT ![p] = Idle]
             \/ \* stored, but the answer was lost: taken for "already bound"
                /\ RedisFaults
                /\ proc' = [proc EXCEPT ![p].pc = "zremOrg"]
                /\ UNCHANGED call
    /\ UNCHANGED <<clock, orgSet, scopeSet, fleet, slot, mistaken>>

\* The run is bound already (or Redis failed): release_slot, then
\* WorkflowRunSlotAlreadyBoundError.
BindRefused(p) ==
    /\ proc[p].pc = "held"
    /\ \/ \E r \in Runs : mapping[r] # NoMapping
       \/ RedisFaults
    /\ proc' = [proc EXCEPT ![p].pc = "zremOrg"]
    /\ UNCHANGED <<clock, orgSet, scopeSet, fleet, slot, mapping, call, mistaken>>

\* The caller fails between acquire and bind (no run could be created) and its
\* handler calls release_slot.
Abandon(p) ==
    /\ proc[p].pc = "held"
    /\ proc' = [proc EXCEPT ![p].pc = "zremOrg"]
    /\ UNCHANGED <<clock, orgSet, scopeSet, fleet, slot, mapping, call, mistaken>>

-----------------------------------------------------------------------------
(* release_workflow_run_slot, release_slot and release_concurrent_slot.     *)

\* A cleanup path of run r reads the mapping.  Every end of a call of r may
\* trigger it, any number of times and at any later moment: the mapping may be
\* that of a call the run was started for again.
BeginRelease(p, r) ==
    /\ p \in Cleaners /\ proc[p].pc = "idle"
    /\ CleanupDue(r) /\ mapping[r] # NoMapping
    /\ proc' = [proc EXCEPT ![p] = [Idle EXCEPT !.pc = "zremOrg", !.run = r,
                                                !.slot = mapping[r].slot]]
    /\ mistaken' = IF mapping[r].slot \in InProgress THEN mistaken \cup {r} ELSE mistaken
    /\ UNCHANGED <<clock, orgSet, scopeSet, fleet, slot, mapping, call>>

\* Mutant: None is taken for "already released" and the mapping is deleted.
FailsLikeReleased(p) ==
    RedisFaults /\ proc' = [proc EXCEPT ![p] = IF proc[p].run = NoRun THEN Idle
                                               ELSE [proc[p] EXCEPT !.pc = "unmap"]]

\* A failing command makes release_concurrent_slot return None: the mapping, if
\* any, is kept and the coroutine is done.  The command may have taken effect.
Fails(p) == RedisFaults /\ proc' = [proc EXCEPT ![p] = Idle]

ZremOrg(p) ==
    /\ proc[p].pc = "zremOrg"
    /\ \/ /\ orgSet' = orgSet \ {proc[p].slot}
          /\ proc' = [proc EXCEPT ![p].pc = "zremFleet"]
       \/ Fails(p) /\ orgSet' \in {orgSet, orgSet \ {proc[p].slot}}
    /\ UNCHANGED <<clock, scopeSet, fleet, slot, mapping, call, mistaken>>

AfterRelease(p) == IF proc[p].run = NoRun THEN Idle ELSE [proc[p] EXCEPT !.pc = "unmap"]

\* Mutant: scope_key is not passed on to release_concurrent_slot.
ZremFleetThenDone(p) ==
    /\ proc[p].pc = "zremFleet"
    /\ fleet' = fleet \ {proc[p].slot}
    /\ proc' = [proc EXCEPT ![p] = AfterRelease(p)]
    /\ UNCHANGED <<clock, orgSet, scopeSet, slot, mapping, call, mistaken>>

ZremFleet(p) ==
    /\ proc[p].pc = "zremFleet"
    /\ \/ /\ fleet' = fleet \ {proc[p].slot}
          /\ proc' = [proc EXCEPT ![p] = IF slot[proc[p].slot].scope = NoScope
                                         THEN AfterRelease(p)
                                         ELSE [proc[p] EXCEPT !.pc = "zremScope"]]
       \/ Fails(p) /\ fleet' \in {fleet, fleet \ {proc[p].slot}}
    /\ UNCHANGED <<clock, orgSet, scopeSet, slot, mapping, call, mistaken>>

ZremScope(p) ==
    /\ proc[p].pc = "zremScope"
    /\ \/ /\ scopeSet' = scopeSet \ {proc[p].slot}
          /\ proc' = [proc EXCEPT ![p] = AfterRelease(p)]
       \/ Fails(p) /\ scopeSet' \in {scopeSet, scopeSet \ {proc[p].slot}}
    /\ UNCHANGED <<clock, orgSet, fleet, slot, mapping, call, mistaken>>

\* delete_workflow_slot_mapping deletes by run id, whatever slot is mapped now.
Unmap(p) ==
    /\ proc[p].pc = "unmap"
    /\ \/ /\ mapping' = [mapping EXCEPT ![proc[p].run] = NoMapping]
          /\ mistaken' = IF mapping[proc[p].run].slot \in {proc[p].slot, NoSlot}
                         THEN mistaken ELSE mistaken \cup {proc[p].run}
       \/ RedisFaults /\ UNCHANGED <<mapping, mistaken>>
    /\ proc' = [proc EXCEPT ![p] = Idle]
    /\ UNCHANGED <<clock, orgSet, scopeSet, fleet, slot, call>>

-----------------------------------------------------------------------------
(* The world around: calls, the clock, and workers that die.                *)

\* The pipeline receives its StartFrame.
Connect(s) ==
    /\ call[s].state = "setup"
    /\ call' = [call EXCEPT ![s].state = "live", ![s].start = clock]
    /\ UNCHANGED <<clock, orgSet, scopeSet, fleet, slot, mapping, proc, mistaken>>

\* The call ends, or never comes about; when it began no longer matters.
EndCall(s) ==
    /\ call[s].state \in {"setup", "live"}
    /\ call' = [call EXCEPT ![s].state = "over", ![s].start = 0]
    /\ UNCHANGED <<clock, orgSet, scopeSet, fleet, slot, mapping, proc, mistaken>>

\* A cancelled coroutine is not caught by "except Exception": it stops between
\* two commands and forgets what it held.
Crash(p) ==
    /\ Crashes /\ proc[p].pc # "idle"
    /\ proc' = [proc EXCEPT ![p] = Idle]
    /\ UNCHANGED <<clock, orgSet, scopeSet, fleet, slot, mapping, call, mistaken>>

\* A sorted set is dropped KeyTTL after the last ZADD.
OrgKeyAlive(o, t) == \E s \in Minted : slot[s].org = o /\ slot[s].added + KeyTTL > t
ScopeKeyAlive(c, t) == \E s \in Minted : slot[s].scope = c /\ slot[s].added + KeyTTL > t
FleetKeyAlive(t) == \E s \in Minted : slot[s].added + KeyTTL > t

\* The pipeline checks the duration on every heartbeat, so time passes only while
\* no call is past MaxDuration, and set-up is bounded by MaxSetup.
\* Mutant: the pipeline does not check the duration of a call.
OnTimeWithoutCeiling ==
    /\ \A s \in Slots : call[s].state = "setup" => clock < slot[s].score + MaxSetup
    /\ \A p \in Procs : proc[p].pc = "ask" => clock < proc[p].at + MaxSetup
    /\ \A p \in Procs : proc[p].pc = "held" => clock < slot[proc[p].slot].score + MaxSetup

OnTime ==
    /\ \A s \in Slots : call[s].state = "live" => clock <= call[s].start + MaxDuration
    /\ \A s \in Slots : call[s].state = "setup" => clock < slot[s].score + MaxSetup
    /\ \A p \in Procs : proc[p].pc = "ask" => clock < proc[p].at + MaxSetup
    /\ \A p \in Procs : proc[p].pc = "held" => clock < slot[proc[p].slot].score + MaxSetup

Tick ==
    /\ clock < Horizon /\ OnTime
    /\ clock' = clock + 1
    /\ orgSet' = {s \in orgSet : OrgKeyAlive(slot[s].org, clock')}
    /\ scopeSet' = {s \in scopeSet : ScopeKeyAlive(slot[s].scope, clock')}
    /\ fleet' = {s \in fleet : FleetKeyAlive(clock')}
    /\ mapping' = [r \in Runs |-> IF mapping[r].at + MappingTTL <= clock'
                                  THEN NoMapping ELSE mapping[r]]
    /\ UNCHANGED <<slot, proc, call, mistaken>>

-----------------------------------------------------------------------------
Step(p) ==
    \/ Ask(p) \/ AskAgain(p) \/ Granted(p) \/ Denied(p) \/ GiveUp(p)
    \/ Bind(p) \/ BindRefused(p) \/ Abandon(p)
    \/ ZremOrg(p) \/ ZremFleet(p) \/ ZremScope(p) \/ Unmap(p)

Next ==
    \/ \E p \in Procs : Step(p) \/ Crash(p)
    \/ \E p \in Cleaners, r \in Runs : BeginRelease(p, r)
    \/ \E s \in Slots : Connect(s) \/ EndCall(s)
    \/ Tick

Spec == Init /\ [][Next]_vars

\* A cleanup path runs for every call that ends (the pipeline's finally is
\* always executed) and a coroutine that released part of a slot goes on.
Fairness ==
    /\ \A r \in Runs : WF_vars(\E p \in Cleaners : BeginRelease(p, r))
    /\ \A p \in Procs : WF_vars(ZremOrg(p) \/ ZremFleet(p) \/ ZremScope(p) \/ Unmap(p))

FairSpec == Spec /\ Fairness
-----------------------------------------------------------------------------
(* Properties.                                                              *)

TypeOK ==
    /\ clock \in Nat
    /\ orgSet \subseteq Minted /\ scopeSet \subseteq Minted /\ fleet \subseteq Minted
    /\ slot \in [Slots -> SlotInfo]
    /\ mapping \in [Runs -> MapInfo]
    /\ proc \in [Procs -> ProcInfo]
    /\ call \in [Slots -> CallInfo] /\ mistaken \subseteq Runs \cup {NoRun}

\* The sorted set of an organization never holds more slots than the largest
\* limit in force, whatever the interleaving of scripts, clocks read too early,
\* lost answers and crashes (try_acquire_concurrent_slot_details).
OrgWithinLimit ==
    \A o \in Orgs : \E l \in OrgLimits : Cardinality(OfOrg(orgSet, o)) <= l

\* The calls a campaign has in progress, counted in the organization's set,
\* never exceed its max_concurrency: although the scope counter is pruned,
\* released and expired by commands of its own, it never misses one of them.
ScopeCapsOrgEntries ==
    \A c \in Scopes : \E l \in ScopeLimits :
        Cardinality({s \in OfScope(orgSet, c) : Fresh(s)}) <= l

\* The autoscaling signal get_fleet_concurrent_count reads (ZCOUNT from the
\* stale cutoff on) never counts fewer calls than the organizations' sets hold:
\* a scrape between the ZREMs of a release, after one of them failed, or after
\* another organization's acquisition pruned the mirror, does not read low.
FleetCount == Cardinality({s \in fleet : slot[s].score >= clock - StaleTimeout})
FleetNeverUndercounts == Cardinality({s \in orgSet : Fresh(s)}) <= FleetCount

\* A clean-up acts by run id.  If it comes so late that the run has been started again,
\* it takes the new call for the one that ended; these runs are excepted below.
Regular == {s \in Slots : call[s].run \notin mistaken}

\* The calls in progress of an organization never exceed its limit: no call
\* loses its slot to a stale cutoff, to a duplicate cleanup or to a failed one.
CallsWithinLimit ==
    \A o \in Orgs : \E l \in OrgLimits :
        Cardinality(OfOrg(InProgress \cap Regular, o)) <= l

\* "The slot mapping survives a failed release, so a later cleanup path recovers
\* it": as long as any sorted set counts the slot of a bound run, the mapping of
\* the run still leads to it.
BoundSlotRecoverable ==
    \A s \in (orgSet \cup scopeSet \cup fleet) \cap Regular :
        Fresh(s) /\ call[s].run # NoRun => mapping[call[s].run].slot = s

\* Without faults no slot is forgotten: what a sorted set counts is held by the
\* coroutine that acquired it, being released, or mapped to its run.
NoSlotForgotten ==
    (~RedisFaults /\ ~Crashes) =>
        \A s \in (orgSet \cup scopeSet \cup fleet) \cap Regular :
            \/ ~Fresh(s)
            \/ \E p \in Procs : proc[p].slot = s
            \/ \E r \in Runs : mapping[r].slot = s

\* Of several starts of one run at most one has a call set up or in progress
\* (store_workflow_slot_mapping_if_absent, WorkflowRunSlotAlreadyBoundError).
OneCallPerRun ==
    \A s1, s2 \in InProgress \cap Regular : call[s1].run = call[s2].run => s1 = s2

\* Without faults the slot of a call that ended is given back: it leaves every
\* sorted set, or a stale cutoff no longer counts it.
EndedCallsFreeTheirSlots ==
    \A s \in Slots :
        call[s].state = "over" ~>
            s \notin (orgSet \cup scopeSet \cup fleet) \cap Regular \/ ~Fresh(s)

\* The component implements CallAdmission: a call is in progress from the moment
\* its slot is bound to its run until it ends.
Admission == INSTANCE CallAdmission WITH
    calls <- {<<call[s].run, slot[s].org>> : s \in InProgress \cap Regular}
ImplementsAdmission == Admission!Spec
-----------------------------------------------------------------------------
(* The inductive invariant behind the safety properties.                    *)

SetsFinite == IsFiniteSet(orgSet) /\ IsFiniteSet(scopeSet) /\ IsFiniteSet(fleet)

RequestsValid ==
    \A p \in Procs : proc[p].pc \in {"ask", "wait"} =>
        /\ proc[p].org \in Orgs /\ proc[p].limit \in OrgLimits
        /\ proc[p].scopeLimit \in ScopeLimits

\* Nobody works with a clock reading of the future.
ClocksBehind ==
    /\ \A p \in Procs : proc[p].at <= clock
    /\ \A s \in Minted : slot[s].score <= slot[s].added /\ slot[s].added <= clock

\* Coroutines and mappings only ever name slots that were minted.
SlotsKnown ==
    /\ \A p \in Procs : proc[p].slot \in Minted \cup {NoSlot}
    /\ \A r \in Runs : mapping[r].slot \in Minted \cup {NoSlot}

\* A coroutine that releases a slot has taken it out of the sets behind it: the
\* organization's first, so that the mirror and the scope outlast it.
ReleasedInOrder ==
    \A p \in Procs :
        /\ proc[p].pc \in {"zremFleet", "zremScope", "unmap"} => proc[p].slot \notin orgSet
        /\ proc[p].pc \in {"zremScope", "unmap"} => proc[p].slot \notin fleet
        /\ proc[p].pc = "unmap" => proc[p].slot \notin scopeSet

\* What the organization's set counts, the mirror and the scope count too.
OrgCovered ==
    \A s \in orgSet : Fresh(s) =>
        /\ s \in fleet
        /\ slot[s].scope # NoScope => s \in scopeSet

ScopeOnlyScoped == \A s \in scopeSet : slot[s].scope # NoScope

ScopeWithinLimit ==
    \A c \in Scopes : \E l \in ScopeLimits : Cardinality(OfScope(scopeSet, c)) <= l

CountInv ==
    /\ TypeOK /\ SetsFinite /\ RequestsValid /\ ClocksBehind /\ SlotsKnown
    /\ ReleasedInOrder /\ OrgCovered /\ ScopeOnlyScoped
    /\ OrgWithinLimit /\ ScopeWithinLimit

\* What makes the calls themselves countable: they are shorter than the stale timeout.
CallsAreShort == MaxSetup + MaxDuration + 1 < StaleTimeout

Releasing == {"zremOrg", "zremFleet", "zremScope", "unmap"}

InTime ==
    /\ \A p \in Procs : /\ proc[p].pc = "ask" => clock <= proc[p].at + MaxSetup
                        /\ proc[p].pc = "held" => clock <= slot[proc[p].slot].score + MaxSetup
    /\ \A s \in Slots : /\ call[s].state = "setup" => clock <= slot[s].score + MaxSetup
                        /\ call[s].state = "live" => /\ call[s].start <= slot[s].score + MaxSetup
                                                     /\ clock <= call[s].start + MaxDuration + 1

\* A slot has a run from the moment it is bound.
RunsBound ==
    /\ \A s \in Slots : call[s].run = NoRun <=> call[s].state \in {"new", "pending"}
    /\ \A s \in Minted : slot[s].org \in Orgs

\* Whoever holds a slot is the only one to know of it.
HeldAlone ==
    \A p \in Procs :
        /\ proc[p].pc \in {"idle", "ask", "wait"} => proc[p].slot = NoSlot
        /\ proc[p].pc = "held" =>
              /\ proc[p].slot \in orgSet /\ proc[p].run = NoRun
              /\ call[proc[p].slot].state = "pending"
              /\ \A q \in Procs : proc[q].slot = proc[p].slot => q = p
              /\ \A r \in Runs : mapping[r].slot # proc[p].slot

\* No slot is released while its call is in progress, but for the mistakes; and a slot
\* is released for no other run than its own.
ReleasesOver ==
    \A p \in Procs : proc[p].pc \in Releasing =>
        /\ proc[p].slot \in Slots
        /\ proc[p].run = NoRun => proc[p].pc # "unmap"
        /\ call[proc[p].slot].run \in {proc[p].run, NoRun}
        /\ proc[p].slot \in InProgress => proc[p].run \in mistaken

\* A mapping names a slot of its run, or one whose binding was never confirmed.
MappingsTrue ==
    \A r \in Runs :
        /\ mapping[r].slot = NoSlot => mapping[r] = NoMapping
        /\ mapping[r].slot # NoSlot => /\ slot[mapping[r].slot].score <= mapping[r].at
                                       /\ call[mapping[r].slot].run \in {r, NoRun}

\* A call in progress is counted, and its run's mapping is its own.
InProgressKept ==
    \A s \in InProgress \cap Regular : s \in orgSet /\ mapping[call[s].run].slot = s

\* Without faults an unbound slot that any set counts is in somebody's hands.
PendingHeld ==
    (~RedisFaults /\ ~Crashes) =>
        \A s \in orgSet \cup scopeSet \cup fleet :
            call[s].run = NoRun => \E p \in Procs : proc[p].slot = s

CallInv ==
    /\ CountInv /\ InTime /\ RunsBound /\ HeldAlone /\ ReleasesOver /\ MappingsTrue
    /\ InProgressKept /\ BoundSlotRecoverable /\ PendingHeld
=============================================================================

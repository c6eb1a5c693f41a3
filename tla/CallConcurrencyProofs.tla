----------------------- MODULE CallConcurrencyProofs -----------------------
(***************************************************************************)
(* Proofs about CallConcurrency, for every number of organizations, runs,  *)
(* slots and coroutines.                                                   *)
(***************************************************************************)
EXTENDS CallConcurrency, FiniteSetTheorems, TLAPS

USE DEF Procs

-----------------------------------------------------------------------------
(* Type correctness.                                                        *)

LEMMA IdleType == Idle \in ProcInfo
BY DEF Idle, ProcInfo, PCs

\* The absent mapping is one.
LEMMA NoMappingType == NoMapping \in MapInfo
BY DEF NoMapping, MapInfo

\* The initial state has the declared types.
LEMMA InitType == Init => TypeOK
<1> SUFFICES ASSUME Init PROVE TypeOK
    OBVIOUS
<1>1. slot \in [Slots -> SlotInfo]
    BY DEF Init, SlotInfo
<1>2. mapping \in [Runs -> MapInfo]
    BY NoMappingType DEF Init
<1>3. proc \in [Procs -> ProcInfo]
    BY IdleType DEF Init
<1>4. call \in [Slots -> CallInfo]
    BY DEF Init, CallInfo
<1> QED
    BY <1>1, <1>2, <1>3, <1>4 DEF Init, TypeOK

\* A step of a coroutine, of the world or of the clock preserves the types.
LEMMA StepType == TypeOK /\ [Next]_vars => TypeOK'
<1> SUFFICES ASSUME TypeOK, [Next]_vars PROVE TypeOK'
    OBVIOUS
<1> USE IdleType, NoMappingType DEF TypeOK, Minted
<1>1. ASSUME NEW p \in Procs, Ask(p) PROVE TypeOK'
    <2>1. PICK o \in Orgs, c \in Scopes \cup {NoScope}, l \in OrgLimits, m \in ScopeLimits :
             proc' = [proc EXCEPT ![p] =
                        [Idle EXCEPT !.pc = "ask", !.org = o, !.scope = c,
                                     !.limit = l, !.scopeLimit = m, !.at = clock]]
        BY <1>1 DEF Ask
    <2>2. [Idle EXCEPT !.pc = "ask", !.org = o, !.scope = c,
                       !.limit = l, !.scopeLimit = m, !.at = clock] \in ProcInfo
        BY ConstantsAssumption DEF Idle, ProcInfo, PCs
    <2> QED
        BY <1>1, <2>1, <2>2 DEF Ask
<1>2. ASSUME NEW p \in Procs, AskAgain(p) PROVE TypeOK'
    BY <1>2 DEF AskAgain, ProcInfo, PCs
<1>3. ASSUME NEW p \in Procs, Granted(p) PROVE TypeOK'
    <2>1. PICK s \in Slots \ Minted :
             /\ AddSlot(p, s)
             /\ \/ proc' = [proc EXCEPT ![p] = [Idle EXCEPT !.pc = "held", !.slot = s]]
                \/ proc' = [proc EXCEPT ![p].pc = "wait"]
        BY <1>3 DEF Granted
    <2>2. [Idle EXCEPT !.pc = "held", !.slot = s] \in ProcInfo
        BY DEF Idle, ProcInfo, PCs
    <2>3. proc' \in [Procs -> ProcInfo]
        <3>1. [proc EXCEPT ![p].pc = "wait"] \in [Procs -> ProcInfo]
            BY DEF ProcInfo, PCs
        <3> QED
            BY <2>1, <2>2, <3>1
    <2>4. call' \in [Slots -> CallInfo] /\ slot' \in [Slots -> SlotInfo]
        <3>1. call' = [call EXCEPT ![s].state = "pending"]
            BY <2>1 DEF AddSlot
        <3>2. [call[s] EXCEPT !.state = "pending"] \in CallInfo
            BY DEF CallInfo
        <3>3. call' \in [Slots -> CallInfo]
            BY <3>1, <3>2
        <3>4. [org |-> proc[p].org, scope |-> proc[p].scope, score |-> proc[p].at,
               added |-> clock] \in SlotInfo
            BY DEF SlotInfo, ProcInfo
        <3>5. slot' \in [Slots -> SlotInfo]
            BY <2>1, <3>4 DEF AddSlot
        <3> QED
            BY <3>3, <3>5
    <2>5. Minted \cup {s} \subseteq Minted'
        BY <2>1 DEF AddSlot, CallInfo
    <2>6. /\ orgSet' \subseteq orgSet \cup {s}
          /\ scopeSet' \subseteq scopeSet \cup {s}
          /\ fleet' \subseteq fleet \cup {s}
        BY <2>1 DEF AddSlot, OrgAfterPrune, ScopeAfterPrune, FleetAfterPrune
    <2> QED
        BY <1>3, <2>3, <2>4, <2>5, <2>6 DEF Granted
<1>4. ASSUME NEW p \in Procs, Denied(p) PROVE TypeOK'
    BY <1>4 DEF Denied, OrgAfterPrune, ScopeAfterPrune, ProcInfo, PCs
<1>5. ASSUME NEW p \in Procs, GiveUp(p) PROVE TypeOK'
    BY <1>5 DEF GiveUp
<1>6. ASSUME NEW p \in Procs, Bind(p) PROVE TypeOK'
    <2>1. PICK r \in Runs :
             /\ mapping' = [mapping EXCEPT ![r] = [slot |-> proc[p].slot, at |-> clock]]
             /\ \/ /\ call' = [call EXCEPT ![proc[p].slot].state = "setup",
                                           ![proc[p].slot].run = r]
                   /\ proc' = [proc EXCEPT ![p] = Idle]
                \/ /\ proc' = [proc EXCEPT ![p].pc = "zremOrg"]
                   /\ UNCHANGED call
        BY <1>6 DEF Bind
    <2>2. mapping' \in [Runs -> MapInfo]
        BY <2>1 DEF MapInfo, ProcInfo
    <2>3. proc' \in [Procs -> ProcInfo]
        BY <2>1 DEF ProcInfo, PCs
    <2>4. call' \in [Slots -> CallInfo]
        BY <2>1 DEF CallInfo
    <2>5. Minted \subseteq Minted'
        BY <2>1 DEF CallInfo
    <2> QED
        BY <1>6, <2>2, <2>3, <2>4, <2>5 DEF Bind
<1>7. ASSUME NEW p \in Procs, BindRefused(p) \/ Abandon(p) PROVE TypeOK'
    BY <1>7 DEF BindRefused, Abandon, ProcInfo, PCs
<1>8. ASSUME NEW p \in Procs, ZremOrg(p) PROVE TypeOK'
    BY <1>8 DEF ZremOrg, Fails, ProcInfo, PCs
<1>9. ASSUME NEW p \in Procs, ZremFleet(p) PROVE TypeOK'
    BY <1>9 DEF ZremFleet, Fails, AfterRelease, ProcInfo, PCs
<1>10. ASSUME NEW p \in Procs, ZremScope(p) PROVE TypeOK'
    BY <1>10 DEF ZremScope, Fails, AfterRelease, ProcInfo, PCs
<1>11. ASSUME NEW p \in Procs, Unmap(p) PROVE TypeOK'
    <2>1. mistaken' \subseteq Runs \cup {NoRun}
        BY <1>11 DEF Unmap, ProcInfo
    <2>2. mapping' \in [Runs -> MapInfo] /\ proc' \in [Procs -> ProcInfo]
        BY <1>11 DEF Unmap
    <2> QED
        BY <1>11, <2>1, <2>2 DEF Unmap
<1>12. ASSUME NEW p \in Procs, Crash(p) PROVE TypeOK'
    BY <1>12 DEF Crash
<1>13. ASSUME NEW p \in Cleaners, NEW r \in Runs, BeginRelease(p, r) PROVE TypeOK'
    <2>1. [Idle EXCEPT !.pc = "zremOrg", !.run = r, !.slot = mapping[r].slot] \in ProcInfo
        BY DEF Idle, ProcInfo, PCs, MapInfo
    <2> QED
        BY <1>13, <2>1 DEF BeginRelease
<1>14. ASSUME NEW s \in Slots, Connect(s) \/ EndCall(s) PROVE TypeOK'
    <2>1. CASE Connect(s)
        <3>1. call' \in [Slots -> CallInfo] /\ Minted \subseteq Minted'
            BY <2>1 DEF Connect, CallInfo
        <3> QED
            BY <2>1, <3>1 DEF Connect
    <2>2. CASE EndCall(s)
        <3>1. call' \in [Slots -> CallInfo] /\ Minted \subseteq Minted'
            BY <2>2 DEF EndCall, CallInfo
        <3> QED
            BY <2>2, <3>1 DEF EndCall
    <2> QED
        BY <1>14, <2>1, <2>2
<1>15. ASSUME Tick PROVE TypeOK'
    <2>1. mapping' \in [Runs -> MapInfo]
        BY <1>15 DEF Tick
    <2> QED
        BY <1>15, <2>1 DEF Tick
<1>16. CASE UNCHANGED vars
    BY <1>16 DEF vars
<1> QED
    BY <1>1, <1>2, <1>3, <1>4, <1>5, <1>6, <1>7, <1>8, <1>9, <1>10, <1>11, <1>12,
       <1>13, <1>14, <1>15, <1>16 DEF Next, Step

\* Every reachable state has the declared types, and a sorted set only ever
\* holds slot ids that an acquisition minted.
THEOREM TypeCorrect == Spec => []TypeOK
BY InitType, StepType, PTL DEF Spec

-----------------------------------------------------------------------------
(* How a step may change the sorted sets: an acquisition adds the slot it    *)
(* minted to what its script left, every other step only removes.            *)

Shrinks ==
    /\ orgSet' \subseteq orgSet /\ scopeSet' \subseteq scopeSet /\ fleet' \subseteq fleet
    /\ slot' = slot

Grows(p, s) == Granted(p) /\ AddSlot(p, s)

\* The steps that change the sorted sets add one slot or take some away.
LEMMA SetsStep ==
    ASSUME [Next]_vars
    PROVE  Shrinks \/ \E p \in Procs, s \in Slots \ Minted : Grows(p, s)
<1>1. ASSUME NEW p \in Procs, Granted(p)
      PROVE  \E s \in Slots \ Minted : Grows(p, s)
    BY <1>1 DEF Granted, Grows
<1>2. ASSUME NEW p \in Procs,
             \/ Ask(p) \/ AskAgain(p) \/ Bind(p) \/ BindRefused(p) \/ Abandon(p)
             \/ Unmap(p) \/ Crash(p)
      PROVE  Shrinks
    BY <1>2 DEF Ask, AskAgain, Bind, BindRefused, Abandon, Unmap, Crash, Shrinks
<1>3. ASSUME NEW p \in Procs,
             Denied(p) \/ GiveUp(p) \/ ZremOrg(p) \/ ZremFleet(p) \/ ZremScope(p)
      PROVE  Shrinks
    BY <1>3 DEF Denied, GiveUp, ZremOrg, ZremFleet, ZremScope, Shrinks, Fails,
                OrgAfterPrune, ScopeAfterPrune
<1>4. ASSUME NEW p \in Cleaners, NEW r \in Runs, BeginRelease(p, r) PROVE Shrinks
    BY <1>4 DEF BeginRelease, Shrinks
<1>5. ASSUME NEW s \in Slots, Connect(s) \/ EndCall(s) PROVE Shrinks
    BY <1>5 DEF Connect, EndCall, Shrinks
<1>6. ASSUME Tick PROVE Shrinks
    BY <1>6 DEF Tick, Shrinks
<1>7. CASE UNCHANGED vars
    BY <1>7 DEF vars, Shrinks
<1> QED
    BY <1>1, <1>2, <1>3, <1>4, <1>5, <1>6, <1>7 DEF Next, Step

\* The sets a subset of a finite set has are finite, and no larger.
LEMMA SmallerSubset ==
    ASSUME NEW S, NEW T, IsFiniteSet(T), S \subseteq T, NEW n \in Nat, Cardinality(T) <= n
    PROVE  IsFiniteSet(S) /\ Cardinality(S) <= n
BY FS_Subset, FS_CardinalityType

\* A set below its limit may grow by one.
LEMMA GrowByOne ==
    ASSUME NEW S, IsFiniteSet(S), NEW x, NEW n \in Nat, ~(Cardinality(S) >= n)
    PROVE  IsFiniteSet(S \cup {x}) /\ Cardinality(S \cup {x}) <= n
<1>1. /\ IsFiniteSet(S \cup {x})
      /\ \/ Cardinality(S \cup {x}) = Cardinality(S)
         \/ Cardinality(S \cup {x}) = Cardinality(S) + 1
    BY FS_AddElement
<1>2. Cardinality(S) \in Nat
    BY FS_CardinalityType
<1> QED
    BY <1>1, <1>2

\* The sorted sets stay finite.
LEMMA FiniteStep == TypeOK /\ SetsFinite /\ [Next]_vars => SetsFinite'
<1> SUFFICES ASSUME TypeOK, SetsFinite, [Next]_vars PROVE SetsFinite'
    OBVIOUS
<1>1. CASE Shrinks
    BY <1>1, FS_Subset DEF Shrinks, SetsFinite
<1>2. ASSUME NEW p \in Procs, NEW s \in Slots \ Minted, Grows(p, s) PROVE SetsFinite'
    <2>a. /\ OrgAfterPrune(p) \subseteq orgSet
          /\ ScopeAfterPrune(p) \subseteq scopeSet
          /\ FleetAfterPrune(p) \subseteq fleet
        BY DEF OrgAfterPrune, ScopeAfterPrune, FleetAfterPrune
    <2>b. /\ IsFiniteSet(OrgAfterPrune(p))
          /\ IsFiniteSet(ScopeAfterPrune(p))
          /\ IsFiniteSet(FleetAfterPrune(p))
        BY <2>a, FS_Subset DEF SetsFinite
    <2>1. /\ IsFiniteSet(OrgAfterPrune(p) \cup {s})
          /\ IsFiniteSet(ScopeAfterPrune(p) \cup {s})
          /\ IsFiniteSet(FleetAfterPrune(p) \cup {s})
        BY <2>b, FS_AddElement
    <2>2. orgSet' = OrgAfterPrune(p) \cup {s} /\ fleet' = FleetAfterPrune(p) \cup {s}
        BY <1>2 DEF Grows, AddSlot
    <2>3. scopeSet' = scopeSet \/ scopeSet' = ScopeAfterPrune(p) \cup {s}
        BY <1>2 DEF Grows, AddSlot
    <2> QED
        BY <2>1, <2>2, <2>3 DEF SetsFinite
<1> QED
    BY <1>1, <1>2, SetsStep

\* What a coroutine asks for stays what get_org_concurrent_limit returned.
LEMMA RequestsStep == TypeOK /\ RequestsValid /\ [Next]_vars => RequestsValid'
<1> SUFFICES ASSUME TypeOK, RequestsValid, [Next]_vars, NEW q \in Procs,
                    proc'[q].pc \in {"ask", "wait"}
             PROVE  /\ proc'[q].org \in Orgs /\ proc'[q].limit \in OrgLimits
                    /\ proc'[q].scopeLimit \in ScopeLimits
    BY DEF RequestsValid
<1> USE DEF TypeOK
<1>1. ASSUME NEW p \in Procs, Ask(p)
      PROVE  q # p => proc'[q] = proc[q]
    BY <1>1 DEF Ask
<1>2. ASSUME Ask(q)
      PROVE  /\ proc'[q].org \in Orgs /\ proc'[q].limit \in OrgLimits
             /\ proc'[q].scopeLimit \in ScopeLimits
    BY <1>2 DEF Ask, Idle
<1>3. ASSUME NEW p \in Procs, AskAgain(p) \/ Granted(p) \/ Denied(p)
      PROVE  \/ proc'[q] = proc[q]
             \/ /\ proc[q].pc \in {"ask", "wait"}
                /\ proc'[q].org = proc[q].org /\ proc'[q].limit = proc[q].limit
                /\ proc'[q].scopeLimit = proc[q].scopeLimit
    <2>1. CASE AskAgain(p) \/ Denied(p)
        BY <1>3, <2>1 DEF AskAgain, Denied, ProcInfo
    <2>2. CASE Granted(p)
        <3>1. PICK s \in Slots :
                 \/ proc' = [proc EXCEPT ![p] = [Idle EXCEPT !.pc = "held", !.slot = s]]
                 \/ proc' = [proc EXCEPT ![p].pc = "wait"]
            BY <2>2 DEF Granted
        <3>2. CASE proc' = [proc EXCEPT ![p] = [Idle EXCEPT !.pc = "held", !.slot = s]]
            BY <3>2 DEF Idle
        <3>3. CASE proc' = [proc EXCEPT ![p].pc = "wait"]
            BY <2>2, <3>3 DEF Granted, ProcInfo
        <3> QED
            BY <3>1, <3>2, <3>3
    <2> QED
        BY <1>3, <2>1, <2>2
<1>8. ASSUME NEW p \in Procs, GiveUp(p) \/ Bind(p) \/ BindRefused(p) \/ Abandon(p)
      PROVE  proc'[q] = proc[q]
    <2>1. CASE GiveUp(p)
        BY <2>1 DEF GiveUp, Idle
    <2>2. CASE Bind(p)
        BY <2>2 DEF Bind, Idle, ProcInfo
    <2>3. CASE BindRefused(p) \/ Abandon(p)
        BY <2>3 DEF BindRefused, Abandon, ProcInfo
    <2> QED
        BY <1>8, <2>1, <2>2, <2>3
<1>4. ASSUME NEW p \in Procs,
             ZremOrg(p) \/ ZremFleet(p) \/ ZremScope(p) \/ Unmap(p) \/ Crash(p)
      PROVE  proc'[q] = proc[q]
    BY <1>4 DEF ZremOrg, ZremFleet, ZremScope, Unmap, Crash, Fails, AfterRelease, Idle, ProcInfo
<1>5. ASSUME NEW p \in Cleaners, NEW r \in Runs, BeginRelease(p, r)
      PROVE  proc'[q] = proc[q]
    BY <1>5 DEF BeginRelease, Idle
<1>6. ASSUME NEW s \in Slots, Connect(s) \/ EndCall(s) PROVE proc'[q] = proc[q]
    BY <1>6 DEF Connect, EndCall
<1>7. ASSUME Tick \/ UNCHANGED vars PROVE proc'[q] = proc[q]
    BY <1>7 DEF Tick, vars
<1> QED
    BY <1>1, <1>2, <1>3, <1>4, <1>5, <1>6, <1>7, <1>8 DEF Next, Step, RequestsValid

\* Binding changes the call of the slot held, and no other.
LEMMA BindCalls ==
    ASSUME TypeOK, NEW p \in Procs, Bind(p), NEW s \in Slots
    PROVE  call'[s] = call[s] \/ (s = proc[p].slot /\ call'[s].state = "setup")
<1>1. call \in [Slots -> CallInfo]
    BY DEF TypeOK
<1>2. CASE call' = call
    BY <1>2
<1>3. ASSUME NEW r \in Runs,
             call' = [call EXCEPT ![proc[p].slot].state = "setup", ![proc[p].slot].run = r]
      PROVE  call'[s] = call[s] \/ (s = proc[p].slot /\ call'[s].state = "setup")
    <2>1. CASE s = proc[p].slot
        BY <1>1, <1>3, <2>1 DEF CallInfo
    <2>2. CASE s # proc[p].slot
        BY <1>1, <1>3, <2>2
    <2> QED
        BY <2>1, <2>2
<1> QED
    BY <1>2, <1>3 DEF Bind

\* Minted slots stay minted, and what a slot id stands for never changes again.
LEMMA MintedStep ==
    ASSUME TypeOK, [Next]_vars
    PROVE  /\ Minted \subseteq Minted'
           /\ \A s \in Minted : slot'[s] = slot[s]
<1> USE DEF TypeOK, Minted
<1>1. CASE Shrinks
    <2>1. \A s \in Minted : slot'[s] = slot[s]
        BY <1>1 DEF Shrinks
    <2>2. ASSUME NEW p \in Procs, Bind(p) PROVE Minted \subseteq Minted'
        BY <2>2, BindCalls
    <2>3. ASSUME NEW s \in Slots, Connect(s) \/ EndCall(s) PROVE Minted \subseteq Minted'
        BY <2>3 DEF Connect, EndCall, CallInfo
    <2>4. ASSUME NEW p \in Procs, Granted(p) PROVE Minted \subseteq Minted'
        BY <2>4 DEF Granted, AddSlot, CallInfo
    <2>5. ASSUME NEW p \in Procs, ~Bind(p), ~Granted(p), Step(p) \/ Crash(p)
          PROVE  call' = call
        BY <2>5 DEF Step, Ask, AskAgain, Denied, GiveUp, BindRefused, Abandon, ZremOrg,
                    ZremFleet, ZremScope, Unmap, Crash
    <2>6. ASSUME NEW p \in Cleaners, NEW r \in Runs, BeginRelease(p, r) PROVE call' = call
        BY <2>6 DEF BeginRelease
    <2>7. ASSUME Tick \/ UNCHANGED vars PROVE call' = call
        BY <2>7 DEF Tick, vars
    <2> QED
        BY <2>1, <2>2, <2>3, <2>4, <2>5, <2>6, <2>7 DEF Next
<1>2. ASSUME NEW p \in Procs, NEW s \in Slots \ Minted, Grows(p, s)
      PROVE  /\ Minted \subseteq Minted'
             /\ \A q \in Minted : slot'[q] = slot[q]
    BY <1>2 DEF Grows, AddSlot, CallInfo
<1> QED
    BY <1>1, <1>2, SetsStep

\* The clock never runs backwards.
LEMMA ClockStep ==
    ASSUME TypeOK, [Next]_vars
    PROVE  clock' \in Nat /\ clock <= clock'
<1>1. CASE Tick
    BY <1>1 DEF Tick, TypeOK
<1>2. CASE ~Tick
    <2>1. clock' = clock
        BY <1>2 DEF Next, Step, Ask, AskAgain, Granted, Denied, GiveUp, Bind, BindRefused,
                    Abandon, ZremOrg, ZremFleet, ZremScope, Unmap, Crash, BeginRelease,
                    Connect, EndCall, vars
    <2> QED
        BY <2>1 DEF TypeOK
<1> QED
    BY <1>1, <1>2

\* The local variables of a coroutine are its own.
LEMMA OthersStep ==
    ASSUME TypeOK, [Next]_vars, NEW q \in Procs, proc'[q] # proc[q]
    PROVE  Step(q) \/ Crash(q) \/ \E r \in Runs : q \in Cleaners /\ BeginRelease(q, r)
<1> USE DEF TypeOK
<1>1. ASSUME NEW p \in Procs, p # q, Step(p) \/ Crash(p) PROVE proc'[q] = proc[q]
    <2>1. CASE Ask(p) \/ AskAgain(p) \/ Denied(p) \/ GiveUp(p) \/ BindRefused(p) \/ Abandon(p)
        BY <1>1, <2>1 DEF Ask, AskAgain, Denied, GiveUp, BindRefused, Abandon
    <2>2. CASE Granted(p) \/ Bind(p)
        BY <1>1, <2>2 DEF Granted, Bind
    <2>3. CASE ZremOrg(p) \/ ZremFleet(p) \/ ZremScope(p) \/ Unmap(p) \/ Crash(p)
        BY <1>1, <2>3 DEF ZremOrg, ZremFleet, ZremScope, Unmap, Crash, Fails
    <2> QED
        BY <1>1, <2>1, <2>2, <2>3 DEF Step
<1>2. ASSUME NEW p \in Cleaners, NEW r \in Runs, p # q, BeginRelease(p, r)
      PROVE  proc'[q] = proc[q]
    BY <1>2 DEF BeginRelease
<1>3. ASSUME NEW s \in Slots, Connect(s) \/ EndCall(s) PROVE proc'[q] = proc[q]
    BY <1>3 DEF Connect, EndCall
<1>4. ASSUME Tick \/ UNCHANGED vars PROVE proc'[q] = proc[q]
    BY <1>4 DEF Tick, vars
<1> QED
    BY <1>1, <1>2, <1>3, <1>4 DEF Next

\* The local variables an acquisition starts with, and those it ends with.
LEMMA AskLocals ==
    ASSUME TypeOK, NEW q \in Procs, Ask(q)
    PROVE  /\ proc'[q].pc = "ask" /\ proc'[q].slot = NoSlot /\ proc'[q].run = NoRun
           /\ proc'[q].at = clock
BY DEF TypeOK, Ask, Idle

\* An acquisition leaves its coroutine with a slot and no run, or waiting.
LEMMA GrantedLocals ==
    ASSUME TypeOK, NEW q \in Procs, Granted(q)
    PROVE  /\ proc'[q].run \in {NoRun, proc[q].run} /\ proc'[q].at \in {0, proc[q].at}
           /\ proc'[q].pc \in {"held", "wait"}
           /\ proc'[q].pc = "held" => proc'[q].run = NoRun
<1>1. PICK s \in Slots :
         \/ proc' = [proc EXCEPT ![q] = [Idle EXCEPT !.pc = "held", !.slot = s]]
         \/ proc' = [proc EXCEPT ![q].pc = "wait"]
    BY DEF Granted
<1>2. CASE proc' = [proc EXCEPT ![q] = [Idle EXCEPT !.pc = "held", !.slot = s]]
    BY <1>2 DEF TypeOK, Idle
<1>3. CASE proc' = [proc EXCEPT ![q].pc = "wait"]
    BY <1>3 DEF TypeOK, ProcInfo
<1> QED
    BY <1>1, <1>2, <1>3

\* Coroutines and mappings only name slots that an acquisition minted.
LEMMA SlotsKnownStep == TypeOK /\ SlotsKnown /\ [Next]_vars => SlotsKnown'
<1> SUFFICES ASSUME TypeOK, SlotsKnown, [Next]_vars PROVE SlotsKnown'
    OBVIOUS
<1> DEFINE Known == Minted \cup {NoSlot}
<1>1. Known \subseteq Known'
    BY MintedStep
<1> USE DEF TypeOK
<1>2. ASSUME NEW q \in Procs PROVE proc'[q].slot \in Known'
    <2>1. proc[q].slot \in Known /\ \A r \in Runs : mapping[r].slot \in Known
        BY DEF SlotsKnown
    <2> USE DEF ProcInfo, Idle
    <2>2. CASE Granted(q)
        <3>1. PICK s \in Slots \ Minted :
                 /\ AddSlot(q, s)
                 /\ \/ proc' = [proc EXCEPT ![q] = [Idle EXCEPT !.pc = "held", !.slot = s]]
                    \/ proc' = [proc EXCEPT ![q].pc = "wait"]
            BY <2>2 DEF Granted
        <3>2. s \in Minted'
            BY <3>1 DEF AddSlot, Minted, CallInfo
        <3>3. proc'[q].slot \in {s, proc[q].slot}
            BY <3>1
        <3> QED
            BY <1>1, <2>1, <3>2, <3>3
    <2>3. ASSUME ~Granted(q), Step(q) \/ Crash(q)
          PROVE  proc'[q].slot \in {NoSlot, proc[q].slot}
        <3>1. CASE AskAgain(q) \/ GiveUp(q)
            BY <3>1 DEF AskAgain, GiveUp
        <3>6. CASE Ask(q)
            BY <3>6, AskLocals
        <3>2. CASE Denied(q) \/ BindRefused(q) \/ Abandon(q)
            BY <3>2 DEF Denied, BindRefused, Abandon
        <3>3. CASE Bind(q)
            BY <3>3 DEF Bind
        <3>4. CASE ZremOrg(q) \/ ZremFleet(q) \/ ZremScope(q)
            BY <3>4 DEF ZremOrg, ZremFleet, ZremScope, Fails, AfterRelease
        <3>5. CASE Unmap(q) \/ Crash(q)
            BY <3>5 DEF Unmap, Crash
        <3> QED
            BY <2>3, <3>1, <3>2, <3>3, <3>4, <3>5, <3>6 DEF Step
    <2>4. ASSUME NEW r \in Runs, BeginRelease(q, r) PROVE proc'[q].slot = mapping[r].slot
        BY <2>4 DEF BeginRelease
    <2> QED
        BY <1>1, <2>1, <2>2, <2>3, <2>4, OthersStep
<1>3. ASSUME NEW r \in Runs PROVE mapping'[r].slot \in Known'
    <2>1. mapping[r].slot \in Known /\ NoMapping.slot \in Known'
        BY DEF SlotsKnown, NoMapping
    <2>2. ASSUME NEW p \in Procs, Bind(p)
          PROVE  mapping'[r].slot \in {mapping[r].slot, proc[p].slot}
        BY <2>2 DEF Bind, MapInfo
    <2>3. ASSUME NEW p \in Procs, Unmap(p) PROVE mapping'[r] \in {mapping[r], NoMapping}
        BY <2>3 DEF Unmap
    <2>4. ASSUME Tick PROVE mapping'[r] \in {mapping[r], NoMapping}
        BY <2>4 DEF Tick
    <2>5. ASSUME ~Tick, \A p \in Procs : ~Bind(p) /\ ~Unmap(p) PROVE mapping' = mapping
        BY <2>5 DEF Next, Step, Ask, AskAgain, Granted, Denied, GiveUp, BindRefused, Abandon,
                    ZremOrg, ZremFleet, ZremScope, Crash, BeginRelease, Connect, EndCall, vars
    <2>6. \A p \in Procs : proc[p].slot \in Known'
        BY <1>1 DEF SlotsKnown
    <2> QED
        BY <1>1, <2>1, <2>2, <2>3, <2>4, <2>5, <2>6
<1> QED
    BY <1>2, <1>3 DEF SlotsKnown

\* Only an acquisition mints a slot.
LEMMA MintsStep ==
    ASSUME TypeOK, SlotsKnown, [Next]_vars
    PROVE  \/ Shrinks /\ Minted' = Minted
           \/ \E p \in Procs, s \in Slots \ Minted : Grows(p, s) /\ Minted' = Minted \cup {s}
<1> USE DEF TypeOK, Minted, CallInfo
<1>1. ASSUME NEW p \in Procs, NEW s \in Slots \ Minted, Grows(p, s)
      PROVE  Minted' = Minted \cup {s}
    BY <1>1 DEF Grows, AddSlot
<1>2. ASSUME \A p \in Procs : ~Granted(p) PROVE Minted' = Minted
    <2>1. ASSUME NEW p \in Procs, Bind(p) PROVE Minted' = Minted
        <3>1. proc[p].slot \in Minted \cup {NoSlot} /\ NoSlot \notin Slots
            BY ConstantsAssumption DEF SlotsKnown
        <3>2. proc[p].pc = "held"
            BY <2>1 DEF Bind
        <3> QED
            BY <2>1, <3>1, <3>2, BindCalls
    <2>2. ASSUME NEW s \in Slots, Connect(s) \/ EndCall(s) PROVE Minted' = Minted
        BY <2>2 DEF Connect, EndCall
    <2>3. ASSUME \A p \in Procs : ~Bind(p), \A s \in Slots : ~Connect(s) /\ ~EndCall(s)
          PROVE  call' = call
        BY <1>2, <2>3 DEF Next, Step, Ask, AskAgain, Denied, GiveUp, BindRefused, Abandon,
                    ZremOrg, ZremFleet, ZremScope, Unmap, Crash, BeginRelease, Tick, vars
    <2> QED
        BY <2>1, <2>2, <2>3
<1>3. ASSUME NEW p \in Procs, Granted(p) PROVE \E s \in Slots \ Minted : Grows(p, s)
    BY <1>3 DEF Granted, Grows
<1> QED
    BY <1>1, <1>2, <1>3, SetsStep

\* Clock readings and scores never run ahead of the clock.
LEMMA ClocksStep == TypeOK /\ SlotsKnown /\ ClocksBehind /\ [Next]_vars => ClocksBehind'
<1> SUFFICES ASSUME TypeOK, SlotsKnown, ClocksBehind, [Next]_vars PROVE ClocksBehind'
    OBVIOUS
<1>1. TypeOK' /\ clock' \in Nat /\ clock <= clock'
    BY StepType, ClockStep
<1>2. ASSUME NEW q \in Procs PROVE proc'[q].at <= clock'
    <2>1. proc[q].at \in Nat /\ proc[q].at <= clock /\ clock \in Nat
        BY DEF ClocksBehind, TypeOK, ProcInfo
    <2>2. CASE proc'[q] = proc[q]
        BY <1>1, <2>1, <2>2
    <2>3. CASE proc'[q] # proc[q]
        <3>1. proc'[q].at \in {0, proc[q].at, clock}
            <4> USE DEF TypeOK, ProcInfo, Idle
            <4>1. CASE AskAgain(q) \/ GiveUp(q)
                BY <4>1 DEF AskAgain, GiveUp
            <4>8. CASE Ask(q)
                BY <4>8, AskLocals
            <4>2. CASE Granted(q)
                BY <4>2, GrantedLocals
            <4>3. CASE Denied(q) \/ BindRefused(q) \/ Abandon(q)
                BY <4>3 DEF Denied, BindRefused, Abandon
            <4>4. CASE Bind(q)
                BY <4>4 DEF Bind
            <4>5. CASE ZremOrg(q) \/ ZremFleet(q) \/ ZremScope(q)
                BY <4>5 DEF ZremOrg, ZremFleet, ZremScope, Fails, AfterRelease
            <4>6. CASE Unmap(q) \/ Crash(q)
                BY <4>6 DEF Unmap, Crash
            <4>7. ASSUME NEW r \in Runs, BeginRelease(q, r)
                  PROVE  proc'[q].at \in {0, proc[q].at, clock}
                BY <4>7 DEF BeginRelease
            <4> QED
                BY <2>3, <4>1, <4>2, <4>3, <4>4, <4>5, <4>6, <4>7, <4>8, OthersStep DEF Step
        <3> QED
            BY <1>1, <2>1, <3>1
    <2> QED
        BY <2>2, <2>3
<1>3. ASSUME NEW s \in Minted'
      PROVE  slot'[s].score <= slot'[s].added /\ slot'[s].added <= clock'
    <2>1. ASSUME s \in Minted
          PROVE  slot'[s].score <= slot'[s].added /\ slot'[s].added <= clock'
        <3>1. /\ slot'[s] = slot[s] /\ slot[s].added \in Nat
              /\ slot[s].score <= slot[s].added /\ slot[s].added <= clock /\ clock \in Nat
            BY <2>1, MintedStep DEF ClocksBehind, TypeOK, SlotInfo, Minted
        <3> QED
            BY <1>1, <3>1
    <2>2. ASSUME NEW p \in Procs, NEW m \in Slots \ Minted, Grows(p, m),
                 Minted' = Minted \cup {m}, s \notin Minted
          PROVE  slot'[s].score <= slot'[s].added /\ slot'[s].added <= clock'
        <3>1. s = m
            BY <2>2
        <3>2. slot'[s].score = proc[p].at /\ slot'[s].added = clock
            BY <2>2, <3>1 DEF Grows, AddSlot, TypeOK
        <3>3. proc[p].at <= clock
            BY DEF ClocksBehind
        <3> QED
            BY <1>1, <3>2, <3>3
    <2> QED
        BY <2>1, <2>2, MintsStep
<1> QED
    BY <1>2, <1>3 DEF ClocksBehind

\* A slot that left a set does not come back: only new slots are added.
LEMMA NotReadded ==
    ASSUME TypeOK, SlotsKnown, [Next]_vars, NEW x \in Minted \cup {NoSlot}
    PROVE  /\ x \notin orgSet => x \notin orgSet'
           /\ x \notin fleet => x \notin fleet'
           /\ x \notin scopeSet => x \notin scopeSet'
<1>1. CASE Shrinks
    BY <1>1 DEF Shrinks
<1>2. ASSUME NEW p \in Procs, NEW s \in Slots \ Minted, Grows(p, s)
      PROVE  /\ orgSet' \subseteq orgSet \cup {s} /\ fleet' \subseteq fleet \cup {s}
             /\ scopeSet' \subseteq scopeSet \cup {s} /\ x # s
    <2>1. x # s
        BY ConstantsAssumption
    <2> QED
        BY <1>2, <2>1 DEF Grows, AddSlot, OrgAfterPrune, ScopeAfterPrune, FleetAfterPrune
<1> QED
    BY <1>1, <1>2, SetsStep

\* Every release takes the organization's entry first, then the mirror's, then the scope's.
LEMMA ReleasedStep ==
    TypeOK /\ SlotsKnown /\ ScopeOnlyScoped /\ ReleasedInOrder /\ [Next]_vars
        => ReleasedInOrder'
<1> SUFFICES ASSUME TypeOK, SlotsKnown, ScopeOnlyScoped, ReleasedInOrder, [Next]_vars,
                    NEW q \in Procs
             PROVE  /\ proc'[q].pc \in {"zremFleet", "zremScope", "unmap"}
                           => proc'[q].slot \notin orgSet'
                    /\ proc'[q].pc \in {"zremScope", "unmap"} => proc'[q].slot \notin fleet'
                    /\ proc'[q].pc = "unmap" => proc'[q].slot \notin scopeSet'
    BY DEF ReleasedInOrder
<1>1. proc[q].slot \in Minted \cup {NoSlot}
    BY DEF SlotsKnown
<1>2. CASE proc'[q] = proc[q]
    BY <1>1, <1>2, NotReadded DEF ReleasedInOrder
<1>3. ASSUME proc'[q] # proc[q],
             ~(ZremOrg(q) \/ ZremFleet(q) \/ ZremScope(q))
      PROVE  proc'[q].pc \notin {"zremFleet", "zremScope", "unmap"}
    <2> USE DEF TypeOK, ProcInfo, Idle
    <2>1. CASE Ask(q) \/ Granted(q)
        BY <2>1, AskLocals, GrantedLocals
    <2>2. CASE AskAgain(q) \/ Denied(q) \/ GiveUp(q)
        BY <2>2 DEF AskAgain, Denied, GiveUp
    <2>3. CASE Bind(q)
        BY <2>3 DEF Bind
    <2>4. CASE BindRefused(q) \/ Abandon(q)
        BY <2>4 DEF BindRefused, Abandon
    <2>5. CASE Unmap(q) \/ Crash(q)
        BY <2>5 DEF Unmap, Crash
    <2>6. ASSUME NEW r \in Runs, BeginRelease(q, r)
          PROVE  proc'[q].pc = "zremOrg"
        BY <2>6 DEF BeginRelease
    <2> QED
        BY <1>3, <2>1, <2>2, <2>3, <2>4, <2>5, <2>6, OthersStep DEF Step
<1>4. CASE ZremOrg(q)
    <2>1. CASE proc' = [proc EXCEPT ![q] = Idle]
        BY <2>1 DEF TypeOK, Idle
    <2>2. CASE orgSet' = orgSet \ {proc[q].slot} /\ proc' = [proc EXCEPT ![q].pc = "zremFleet"]
        BY <2>2 DEF TypeOK, ProcInfo
    <2> QED
        BY <1>4, <2>1, <2>2 DEF ZremOrg, Fails
<1>5. CASE ZremFleet(q)
    <2>1. CASE proc' = [proc EXCEPT ![q] = Idle]
        BY <2>1 DEF TypeOK, Idle
    <2>2. CASE /\ fleet' = fleet \ {proc[q].slot} /\ slot[proc[q].slot].scope = NoScope
               /\ proc' = [proc EXCEPT ![q] = [proc[q] EXCEPT !.pc = "unmap"]]
        <3>1. proc[q].slot \notin scopeSet
            BY <2>2 DEF ScopeOnlyScoped
        <3>2. proc[q].slot \notin orgSet
            BY <1>5 DEF ReleasedInOrder, ZremFleet
        <3>3. orgSet' = orgSet /\ scopeSet' = scopeSet
            BY <1>5 DEF ZremFleet
        <3> QED
            BY <2>2, <3>1, <3>2, <3>3 DEF TypeOK, ProcInfo
    <2>3. CASE /\ fleet' = fleet \ {proc[q].slot}
               /\ proc' = [proc EXCEPT ![q] = [proc[q] EXCEPT !.pc = "zremScope"]]
        <3>1. proc[q].slot \notin orgSet /\ orgSet' = orgSet
            BY <1>5 DEF ReleasedInOrder, ZremFleet
        <3> QED
            BY <2>3, <3>1 DEF TypeOK, ProcInfo
    <2> QED
        BY <1>5, <2>1, <2>2, <2>3 DEF ZremFleet, Fails, AfterRelease
<1>6. CASE ZremScope(q)
    <2>1. CASE proc' = [proc EXCEPT ![q] = Idle]
        BY <2>1 DEF TypeOK, Idle
    <2>2. CASE /\ scopeSet' = scopeSet \ {proc[q].slot}
               /\ proc' = [proc EXCEPT ![q] = [proc[q] EXCEPT !.pc = "unmap"]]
        <3>1. /\ proc[q].slot \notin orgSet /\ orgSet' = orgSet
              /\ proc[q].slot \notin fleet /\ fleet' = fleet
            BY <1>6 DEF ReleasedInOrder, ZremScope
        <3> QED
            BY <2>2, <3>1 DEF TypeOK, ProcInfo
    <2> QED
        BY <1>6, <2>1, <2>2 DEF ZremScope, Fails, AfterRelease
<1> QED
    BY <1>2, <1>3, <1>4, <1>5, <1>6

\* Only slots acquired for a scope enter its set.
LEMMA ScopedStep ==
    TypeOK /\ SlotsKnown /\ ScopeOnlyScoped /\ [Next]_vars => ScopeOnlyScoped'
<1> SUFFICES ASSUME TypeOK, SlotsKnown, ScopeOnlyScoped, [Next]_vars, NEW s \in scopeSet'
             PROVE  slot'[s].scope # NoScope
    BY DEF ScopeOnlyScoped
<1>1. CASE Shrinks
    BY <1>1 DEF Shrinks, ScopeOnlyScoped
<1>2. ASSUME NEW p \in Procs, NEW m \in Slots \ Minted, Grows(p, m)
      PROVE  slot'[s].scope # NoScope
    <2>1. CASE s \in scopeSet
        BY <1>2, <2>1 DEF Grows, AddSlot, TypeOK, ScopeOnlyScoped
    <2>2. CASE s \notin scopeSet
        BY <1>2, <2>2 DEF Grows, AddSlot, TypeOK, ScopeAfterPrune
    <2> QED
        BY <2>1, <2>2
<1> QED
    BY <1>1, <1>2, SetsStep

\* A slot of the organization's set that a stale cutoff of now would still count
\* is in the mirror, and in its scope's set, after every step.
LEMMA CoveredStep ==
    /\ TypeOK /\ SlotsKnown /\ ClocksBehind /\ ReleasedInOrder /\ OrgCovered
    /\ [Next]_vars
    => OrgCovered'
<1> SUFFICES ASSUME TypeOK, SlotsKnown, ClocksBehind, ReleasedInOrder, OrgCovered, [Next]_vars,
                    NEW s \in orgSet', Fresh(s)'
             PROVE  /\ s \in fleet'
                    /\ slot'[s].scope # NoScope => s \in scopeSet'
    BY DEF OrgCovered
<1>1. clock' \in Nat /\ clock \in Nat /\ clock <= clock'
    BY ClockStep DEF TypeOK
<1>2. ASSUME s \notin orgSet
      PROVE  s \in fleet' /\ (slot'[s].scope # NoScope => s \in scopeSet')
    <2>1. PICK p \in Procs : Grows(p, s)
        <3>1. CASE Shrinks
            BY <1>2, <3>1 DEF Shrinks
        <3>2. ASSUME NEW p \in Procs, NEW m \in Slots \ Minted, Grows(p, m)
              PROVE  m = s
            BY <1>2, <3>2 DEF Grows, AddSlot, OrgAfterPrune
        <3> QED
            BY <3>1, <3>2, SetsStep
    <2>2. s \in Slots
        BY StepType DEF TypeOK, Minted
    <2> QED
        BY <2>1, <2>2 DEF Grows, AddSlot, TypeOK
<1>3. ASSUME s \in orgSet
      PROVE  s \in fleet' /\ (slot'[s].scope # NoScope => s \in scopeSet')
    <2>1. s \in Minted /\ slot'[s] = slot[s] /\ slot[s] \in SlotInfo
        BY <1>3, MintedStep DEF TypeOK, Minted
    <2>2. slot[s].score \in Nat /\ slot[s].added \in Nat /\ StaleTimeout \in Nat
        BY <2>1, ConstantsAssumption DEF SlotInfo
    <2>3. slot[s].score + StaleTimeout > clock' /\ Fresh(s)
        BY <1>1, <2>1, <2>2 DEF Fresh
    <2>4. s \in fleet /\ (slot[s].scope # NoScope => s \in scopeSet)
        BY <1>3, <2>3 DEF OrgCovered
    <2>5. ASSUME NEW p \in Procs PROVE s \notin StaleAt(fleet, proc[p].at)
                                    /\ s \notin StaleAt(OfScope(scopeSet, proc[p].scope), proc[p].at)
        <3>1. proc[p].at \in Nat /\ proc[p].at <= clock
            BY DEF ClocksBehind, TypeOK, ProcInfo
        <3> QED
            BY <1>1, <2>2, <2>3, <3>1 DEF StaleAt
    <2>6. ASSUME NEW p \in Procs, Granted(p)
          PROVE  /\ s \in fleet'
                 /\ slot[s].scope # NoScope => s \in scopeSet'
        <3>1. FleetAfterPrune(p) \subseteq fleet'
            BY <2>6 DEF Granted, AddSlot
        <3>2. scopeSet' = scopeSet \/ ScopeAfterPrune(p) \subseteq scopeSet'
            BY <2>6 DEF Granted, AddSlot
        <3> QED
            BY <2>4, <2>5, <3>1, <3>2 DEF FleetAfterPrune, ScopeAfterPrune
    <2>7. ASSUME NEW p \in Procs, Denied(p)
          PROVE  /\ s \in fleet'
                 /\ slot[s].scope # NoScope => s \in scopeSet'
        BY <2>4, <2>5, <2>7 DEF Denied, ScopeAfterPrune
    <2>8. ASSUME NEW p \in Procs, ZremOrg(p)
          PROVE  s \in fleet' /\ (slot[s].scope # NoScope => s \in scopeSet')
        BY <2>4, <2>8 DEF ZremOrg
    <2>9. ASSUME NEW p \in Procs, ZremFleet(p) \/ ZremScope(p)
          PROVE  s \in fleet' /\ (slot[s].scope # NoScope => s \in scopeSet')
        <3>1. s # proc[p].slot
            BY <1>3, <2>9 DEF ZremFleet, ZremScope, ReleasedInOrder
        <3> QED
            BY <2>4, <2>9, <3>1 DEF ZremFleet, ZremScope
    <2>10. ASSUME Tick
           PROVE  s \in fleet' /\ (slot[s].scope # NoScope => s \in scopeSet')
        <3>1. slot[s].added + KeyTTL > clock'
            BY <1>1, <2>1, <2>2, <2>3, ConstantsAssumption DEF ClocksBehind
        <3>2. FleetKeyAlive(clock') /\ ScopeKeyAlive(slot[s].scope, clock')
            BY <2>1, <3>1 DEF FleetKeyAlive, ScopeKeyAlive
        <3> QED
            BY <2>4, <2>10, <3>2 DEF Tick
    <2>11. ASSUME ~Tick, \A p \in Procs : /\ ~Granted(p) /\ ~Denied(p) /\ ~ZremOrg(p)
                                          /\ ~ZremFleet(p) /\ ~ZremScope(p)
           PROVE  fleet' = fleet /\ scopeSet' = scopeSet
        BY <2>11 DEF Next, Step, Ask, AskAgain, GiveUp, Bind, BindRefused, Abandon, Unmap,
                     Crash, BeginRelease, Connect, EndCall, vars
    <2> QED
        BY <2>1, <2>4, <2>6, <2>7, <2>8, <2>9, <2>10, <2>11
<1> QED
    BY <1>2, <1>3

\* The limits: an acquisition adds to a set its script found below the limit.
LEMMA OrgLimitStep ==
    /\ TypeOK /\ SetsFinite /\ RequestsValid /\ OrgWithinLimit /\ [Next]_vars
    => OrgWithinLimit'
<1> SUFFICES ASSUME TypeOK, SetsFinite, RequestsValid, OrgWithinLimit, [Next]_vars,
                    NEW o \in Orgs
             PROVE  \E l \in OrgLimits : Cardinality(OfOrg(orgSet, o)') <= l
    BY DEF OrgWithinLimit
<1>1. PICK l \in OrgLimits : Cardinality(OfOrg(orgSet, o)) <= l
    BY DEF OrgWithinLimit
<1>2. l \in Nat /\ IsFiniteSet(OfOrg(orgSet, o))
    BY ConstantsAssumption, FS_Subset DEF OfOrg, SetsFinite
<1>3. CASE OfOrg(orgSet, o)' \subseteq OfOrg(orgSet, o)
    BY <1>1, <1>2, <1>3, SmallerSubset
<1>4. CASE Shrinks
    BY <1>3, <1>4 DEF Shrinks, OfOrg
<1>5. ASSUME NEW p \in Procs, NEW s \in Slots \ Minted, Grows(p, s)
      PROVE  \E k \in OrgLimits : Cardinality(OfOrg(orgSet, o)') <= k
    <2>1. /\ orgSet' = OrgAfterPrune(p) \cup {s}
          /\ slot'[s].org = proc[p].org
          /\ \A q \in orgSet : slot'[q] = slot[q]
        BY <1>5 DEF Grows, AddSlot, TypeOK, Minted
    <2>2. OrgAfterPrune(p) \subseteq orgSet
        BY DEF OrgAfterPrune
    <2>3. CASE proc[p].org # o
        <3>1. OfOrg(orgSet, o)' \subseteq OfOrg(orgSet, o)
            BY <2>1, <2>2, <2>3 DEF OfOrg
        <3> QED
            BY <1>3, <3>1
    <2>4. CASE proc[p].org = o
        <3> DEFINE kept == OfOrg(OrgAfterPrune(p), o)
        <3>1. OfOrg(orgSet, o)' \subseteq kept \cup {s}
            BY <2>1, <2>2 DEF OfOrg
        <3>2. IsFiniteSet(kept)
            BY <2>2, FS_Subset DEF OfOrg, SetsFinite
        <3>3. proc[p].limit \in OrgLimits /\ proc[p].limit \in Nat
            BY <1>5, ConstantsAssumption DEF Grows, Granted, RequestsValid
        <3>4. ~(Cardinality(kept) >= proc[p].limit)
            BY <1>5, <2>4 DEF Grows, Granted, OrgFull
        <3> HIDE DEF kept
        <3>5. IsFiniteSet(kept \cup {s}) /\ Cardinality(kept \cup {s}) <= proc[p].limit
            BY <3>2, <3>3, <3>4, GrowByOne
        <3>8. Cardinality(OfOrg(orgSet, o)') <= proc[p].limit
            BY <3>1, <3>3, <3>5, SmallerSubset
        <3> QED
            BY <3>3, <3>8
    <2> QED
        BY <2>3, <2>4
<1> QED
    BY <1>4, <1>5, SetsStep

\* The acquire script keeps every scope within one of its limits.
LEMMA ScopeLimitStep ==
    /\ TypeOK /\ SetsFinite /\ RequestsValid /\ ScopeWithinLimit /\ [Next]_vars
    => ScopeWithinLimit'
<1> SUFFICES ASSUME TypeOK, SetsFinite, RequestsValid, ScopeWithinLimit, [Next]_vars,
                    NEW c \in Scopes
             PROVE  \E l \in ScopeLimits : Cardinality(OfScope(scopeSet, c)') <= l
    BY DEF ScopeWithinLimit
<1>1. PICK l \in ScopeLimits : Cardinality(OfScope(scopeSet, c)) <= l
    BY DEF ScopeWithinLimit
<1>2. l \in Nat /\ IsFiniteSet(OfScope(scopeSet, c))
    BY ConstantsAssumption, FS_Subset DEF OfScope, SetsFinite
<1>3. CASE OfScope(scopeSet, c)' \subseteq OfScope(scopeSet, c)
    BY <1>1, <1>2, <1>3, SmallerSubset
<1>4. CASE Shrinks
    BY <1>3, <1>4 DEF Shrinks, OfScope
<1>5. ASSUME NEW p \in Procs, NEW s \in Slots \ Minted, Grows(p, s)
      PROVE  \E k \in ScopeLimits : Cardinality(OfScope(scopeSet, c)') <= k
    <2>1. /\ scopeSet' = scopeSet \/ scopeSet' = ScopeAfterPrune(p) \cup {s}
          /\ slot'[s].scope = proc[p].scope
          /\ proc[p].scope = NoScope => scopeSet' = scopeSet
          /\ \A q \in scopeSet : slot'[q] = slot[q]
        BY <1>5 DEF Grows, AddSlot, TypeOK, Minted
    <2>2. ScopeAfterPrune(p) \subseteq scopeSet
        BY DEF ScopeAfterPrune
    <2>3. CASE proc[p].scope # c
        <3>1. OfScope(scopeSet, c)' \subseteq OfScope(scopeSet, c)
            BY <2>1, <2>2, <2>3 DEF OfScope
        <3> QED
            BY <1>3, <3>1
    <2>4. CASE proc[p].scope = c
        <3> DEFINE kept == OfScope(ScopeAfterPrune(p), c)
        <3>1. \/ OfScope(scopeSet, c)' \subseteq kept \cup {s}
              \/ OfScope(scopeSet, c)' \subseteq OfScope(scopeSet, c)
            BY <2>1, <2>2 DEF OfScope
        <3>2. IsFiniteSet(kept)
            BY <2>2, FS_Subset DEF OfScope, SetsFinite
        <3>3. proc[p].scopeLimit \in ScopeLimits /\ proc[p].scopeLimit \in Nat
            BY <1>5, ConstantsAssumption DEF Grows, Granted, RequestsValid
        <3>4. ~(Cardinality(kept) >= proc[p].scopeLimit)
            BY <1>5, <2>4, ConstantsAssumption DEF Grows, Granted, ScopeFull
        <3> HIDE DEF kept
        <3>5. /\ IsFiniteSet(kept \cup {s})
              /\ Cardinality(kept \cup {s}) <= proc[p].scopeLimit
            BY <3>2, <3>3, <3>4, GrowByOne
        <3>6. CASE OfScope(scopeSet, c)' \subseteq kept \cup {s}
            BY <3>3, <3>5, <3>6, SmallerSubset
        <3> QED
            BY <1>3, <3>1, <3>6
    <2> QED
        BY <2>3, <2>4
<1> QED
    BY <1>4, <1>5, SetsStep

-----------------------------------------------------------------------------
(* The theorems about what the sorted sets count.                           *)

LEMMA CountInit == Init => CountInv
<1> SUFFICES ASSUME Init PROVE CountInv
    OBVIOUS
<1>1. TypeOK /\ SetsFinite /\ ScopeOnlyScoped /\ OrgCovered
    BY InitType, FS_EmptySet DEF Init, SetsFinite, ScopeOnlyScoped, OrgCovered
<1>2. RequestsValid /\ SlotsKnown /\ ReleasedInOrder
    BY DEF Init, Idle, RequestsValid, SlotsKnown, ReleasedInOrder, NoMapping
<1>3. ClocksBehind
    BY DEF Init, Idle, ClocksBehind, Minted
<1>4. OrgWithinLimit
    <2>1. \A o \in Orgs : OfOrg(orgSet, o) = {}
        BY DEF Init, OfOrg
    <2>2. \A l \in OrgLimits : Cardinality({}) <= l
        BY FS_EmptySet, ConstantsAssumption
    <2> QED
        BY <2>1, <2>2, ConstantsAssumption DEF OrgWithinLimit
<1>5. ScopeWithinLimit
    <2>1. \A c \in Scopes : OfScope(scopeSet, c) = {}
        BY DEF Init, OfScope
    <2>2. \A l \in ScopeLimits : Cardinality({}) <= l
        BY FS_EmptySet, ConstantsAssumption
    <2> QED
        BY <2>1, <2>2, ConstantsAssumption DEF ScopeWithinLimit
<1> QED
    BY <1>1, <1>2, <1>3, <1>4, <1>5 DEF CountInv

\* The invariant is inductive.
LEMMA CountStep == CountInv /\ [Next]_vars => CountInv'
BY StepType, FiniteStep, RequestsStep, ClocksStep, SlotsKnownStep, ReleasedStep, CoveredStep,
   ScopedStep, OrgLimitStep, ScopeLimitStep DEF CountInv

\* The invariant that the limits rest on: the mirror and the scope miss no slot the
\* organization's set counts, and no set holds more than its limit.
THEOREM CountInvariant == Spec => []CountInv
BY CountInit, CountStep, PTL DEF Spec

\* The limit of an organization is never exceeded by the slots counted for it,
\* under any interleaving, lost answer, failed command, cancellation or delay.
THEOREM OrgLimitHolds == Spec => []OrgWithinLimit
<1>1. CountInv => OrgWithinLimit
    BY DEF CountInv
<1> QED
    BY <1>1, CountInvariant, PTL

\* The calls a campaign has in the organization's set never exceed the cap of the
\* campaign, although the scope's counter is pruned and released on its own.
THEOREM ScopeCapHolds == Spec => []ScopeCapsOrgEntries
<1>1. CountInv => ScopeCapsOrgEntries
    <2> SUFFICES ASSUME CountInv, NEW c \in Scopes
                 PROVE  \E l \in ScopeLimits :
                            Cardinality({s \in OfScope(orgSet, c) : Fresh(s)}) <= l
        BY DEF ScopeCapsOrgEntries
    <2>1. PICK l \in ScopeLimits : Cardinality(OfScope(scopeSet, c)) <= l
        BY DEF CountInv, ScopeWithinLimit
    <2>2. l \in Nat /\ IsFiniteSet(OfScope(scopeSet, c))
        BY ConstantsAssumption, FS_Subset DEF OfScope, CountInv, SetsFinite
    <2>3. {s \in OfScope(orgSet, c) : Fresh(s)} \subseteq OfScope(scopeSet, c)
        BY ConstantsAssumption DEF OfScope, CountInv, OrgCovered
    <2> QED
        BY <2>1, <2>2, <2>3, SmallerSubset
<1> QED
    BY <1>1, CountInvariant, PTL

\* The autoscaling signal never reads lower than the slots the organizations have.
THEOREM FleetMirrorHolds == Spec => []FleetNeverUndercounts
<1>1. CountInv => FleetNeverUndercounts
    <2> SUFFICES ASSUME CountInv PROVE FleetNeverUndercounts
        OBVIOUS
    <2> DEFINE counted == {s \in fleet : slot[s].score >= clock - StaleTimeout}
               fresh == {s \in orgSet : Fresh(s)}
    <2>1. fresh \subseteq counted
        <3> SUFFICES ASSUME NEW s \in orgSet, Fresh(s)
                     PROVE  s \in fleet /\ slot[s].score >= clock - StaleTimeout
            OBVIOUS
        <3>1. s \in fleet
            BY DEF CountInv, OrgCovered
        <3>2. slot[s].score \in Nat /\ clock \in Nat /\ StaleTimeout \in Nat
            BY ConstantsAssumption DEF CountInv, TypeOK, Minted, SlotInfo
        <3> QED
            BY <3>1, <3>2 DEF Fresh
    <2>2. IsFiniteSet(counted)
        BY FS_Subset DEF CountInv, SetsFinite
    <2> HIDE DEF counted, fresh
    <2>3. Cardinality(fresh) <= Cardinality(counted)
        BY <2>1, <2>2, FS_Subset
    <2> QED
        BY <2>3 DEF counted, fresh, FleetNeverUndercounts, FleetCount
<1> QED
    BY <1>1, CountInvariant, PTL
-----------------------------------------------------------------------------
(***************************************************************************)
(* Calls, runs and mappings: under CallsAreShort, that is if a call ends   *)
(* before its slot grows stale, no organization has more calls in progress *)
(* than its limit, a run has one call, a bound slot can be recovered, and  *)
(* the component implements CallAdmission.  Redis faults, crashes and runs *)
(* that are started again are not excluded; what is excepted is a run      *)
(* whose newer call a clean-up of an earlier one mistook for its own       *)
(* (mistaken).                                                             *)
(***************************************************************************)

LEMMA CallTypes ==
    ASSUME CallInv
    PROVE  /\ TypeOK /\ SlotsKnown /\ ClocksBehind /\ clock \in Nat
           /\ orgSet \subseteq Slots /\ scopeSet \subseteq Slots /\ fleet \subseteq Slots
           /\ Minted \subseteq Slots /\ NoSlot \notin Slots /\ NoRun \notin Runs
           /\ \A s \in Slots : slot[s].score \in Nat /\ slot[s].added \in Nat
           /\ \A s \in Slots : call[s].run \in Runs \cup {NoRun} /\ call[s].start \in Nat
           /\ \A p \in Procs : proc[p].at \in Nat
           /\ InProgress \subseteq Minted
<1>1. TypeOK /\ SlotsKnown /\ ClocksBehind
    BY DEF CallInv, CountInv
<1> QED
    BY <1>1, ConstantsAssumption
       DEF TypeOK, Minted, InProgress, SlotInfo, CallInfo, ProcInfo

\* A slot that is held, or whose call is in progress, is not stale.
LEMMA HeldFresh ==
    ASSUME CallsAreShort, CallInv, NEW p \in Procs, proc[p].pc = "held"
    PROVE  proc[p].slot \in Minted /\ proc[p].slot \in Slots /\ Fresh(proc[p].slot)
<1>1. proc[p].slot \in orgSet /\ clock <= slot[proc[p].slot].score + MaxSetup
    BY DEF CallInv, HeldAlone, InTime
<1>2. proc[p].slot \in Minted /\ proc[p].slot \in Slots
    BY <1>1, CallTypes DEF TypeOK
<1>3. MaxSetup < StaleTimeout
    BY ConstantsAssumption DEF CallsAreShort
<1> QED
    BY <1>1, <1>2, <1>3, CallTypes, ConstantsAssumption DEF Fresh

LEMMA ProgressFresh ==
    ASSUME CallsAreShort, CallInv, NEW s \in InProgress
    PROVE  s \in Slots /\ s \in Minted /\ Fresh(s) /\ call[s].run \in Runs
<1>1. s \in Slots /\ s \in Minted
    BY DEF InProgress, Minted
<1>2. call[s].run \in Runs
    BY <1>1, CallTypes DEF CallInv, RunsBound, InProgress
<1>3. /\ slot[s].score \in Nat /\ call[s].start \in Nat /\ clock \in Nat
      /\ MaxSetup \in Nat /\ MaxDuration \in Nat /\ StaleTimeout \in Nat
      /\ MaxSetup + MaxDuration + 1 < StaleTimeout
    BY <1>1, CallTypes, ConstantsAssumption DEF CallsAreShort
<1>4. CASE call[s].state = "setup"
    <2>1. clock <= slot[s].score + MaxSetup
        BY <1>1, <1>4 DEF CallInv, InTime
    <2> QED
        BY <1>1, <1>2, <1>3, <2>1 DEF Fresh
<1>5. CASE call[s].state = "live"
    <2>1. call[s].start <= slot[s].score + MaxSetup /\ clock <= call[s].start + MaxDuration + 1
        BY <1>1, <1>5 DEF CallInv, InTime
    <2> QED
        BY <1>1, <1>2, <1>3, <2>1 DEF Fresh
<1> QED
    BY <1>4, <1>5 DEF InProgress

\* What a script prunes with a clock read earlier is stale.
LEMMA PrunedIsStale ==
    ASSUME CallInv, NEW S, S \subseteq Slots, NEW t \in Nat, t <= clock
    PROVE  \A s \in StaleAt(S, t) : ~Fresh(s)
BY CallTypes, ConstantsAssumption DEF StaleAt, Fresh
-----------------------------------------------------------------------------
(* Steps of one coroutine that change nothing but its locals and what the   *)
(* sorted sets have of stale slots and of the slot it releases.             *)

\* The coroutine is where it knows of no slot.
Aside(q) == /\ proc'[q].pc \in {"idle", "ask", "wait"} /\ proc'[q].slot = NoSlot
            /\ proc'[q].pc = "ask" => proc'[q].at = clock

\* It has begun, or goes on, to release the slot it had.
GoesOn(q) == /\ proc[q].pc \in Releasing \cup {"held"} /\ proc'[q].pc \in Releasing
             /\ proc'[q].slot = proc[q].slot /\ proc'[q].run = proc[q].run
             /\ proc'[q].pc = "unmap" => proc[q].run # NoRun

\* It reads the mapping of a run a call of which ended.
Reads(q) ==
    \E r \in Runs : /\ mapping[r] # NoMapping
                    /\ proc'[q].pc = "zremOrg" /\ proc'[q].run = r
                    /\ proc'[q].slot = mapping[r].slot
                    /\ mapping[r].slot \in InProgress => r \in mistaken'

Local(p) ==
    /\ UNCHANGED <<clock, slot, mapping, call>> /\ mistaken \subseteq mistaken'
    /\ orgSet' \subseteq orgSet /\ scopeSet' \subseteq scopeSet /\ fleet' \subseteq fleet
    /\ \A q \in Procs : q # p => proc'[q] = proc[q]
    /\ \A s \in orgSet : \/ s \in orgSet' \/ ~Fresh(s)
                         \/ proc[p].pc \in Releasing /\ s = proc[p].slot
    /\ Aside(p) \/ GoesOn(p) \/ Reads(p)

LEMMA LocalStep ==
    ASSUME CallsAreShort, CallInv, NEW p \in Procs, Local(p)
    PROVE  /\ InTime' /\ RunsBound' /\ HeldAlone' /\ ReleasesOver' /\ MappingsTrue'
           /\ InProgressKept' /\ BoundSlotRecoverable'
<1> USE DEF Local
<1>1. InTime'
    <2>1. clock <= clock + MaxSetup
        BY CallTypes, ConstantsAssumption
    <2>2. proc'[p].pc # "held" /\ (proc'[p].pc = "ask" => proc'[p].at = clock)
        BY DEF Aside, GoesOn, Reads, Releasing
    <2> QED
        BY <2>1, <2>2 DEF CallInv, InTime
<1>2. RunsBound'
    <2>1. Minted' = Minted
        BY DEF Minted
    <2> QED
        BY <2>1 DEF CallInv, RunsBound
<1>3. MappingsTrue'
    BY DEF CallInv, MappingsTrue
<1>4. ASSUME NEW q \in Procs, q # p, proc[q].pc = "held"
      PROVE  proc[q].slot \in orgSet' /\ proc'[p].slot # proc[q].slot
    <2>1. proc[q].slot \in orgSet /\ Fresh(proc[q].slot) /\ proc[q].slot \in Slots
        BY <1>4, HeldFresh DEF CallInv, HeldAlone
    <2>2. proc[p].slot # proc[q].slot /\ \A r \in Runs : mapping[r].slot # proc[q].slot
        BY <1>4 DEF CallInv, HeldAlone
    <2> QED
        BY <2>1, <2>2, CallTypes DEF Aside, GoesOn, Reads
<1>5. HeldAlone'
    <2>1. proc'[p].pc \in {"idle", "ask", "wait"} => proc'[p].slot = NoSlot
        BY DEF Aside, GoesOn, Reads, Releasing
    <2>2. proc'[p].pc # "held"
        BY DEF Aside, GoesOn, Reads, Releasing
    <2> QED
        BY <1>4, <2>1, <2>2 DEF CallInv, HeldAlone
<1>6. ReleasesOver'
    <2> SUFFICES ASSUME NEW q \in Procs, proc'[q].pc \in Releasing
                 PROVE  /\ proc'[q].slot \in Slots
                        /\ proc'[q].run = NoRun => proc'[q].pc # "unmap"
                        /\ call[proc'[q].slot].run \in {proc'[q].run, NoRun}
                        /\ proc'[q].slot \in InProgress => proc'[q].run \in mistaken'
        BY DEF ReleasesOver, InProgress
    <2>1. ASSUME proc[q].pc \in Releasing, proc'[q].slot = proc[q].slot,
                 proc'[q].run = proc[q].run, proc'[q].run = NoRun => proc'[q].pc # "unmap"
          PROVE  /\ proc'[q].slot \in Slots
                 /\ call[proc'[q].slot].run \in {proc'[q].run, NoRun}
                 /\ proc'[q].slot \in InProgress => proc'[q].run \in mistaken'
        BY <2>1 DEF CallInv, ReleasesOver
    <2>2. CASE q # p
        BY <2>1, <2>2 DEF CallInv, ReleasesOver
    <2>3. CASE q = p /\ Reads(p)
        <3>1. PICK r \in Runs : /\ mapping[r] # NoMapping
                                /\ proc'[p].pc = "zremOrg" /\ proc'[p].run = r
                                /\ proc'[p].slot = mapping[r].slot
                                /\ mapping[r].slot \in InProgress => r \in mistaken'
            BY <2>3 DEF Reads
        <3>2. mapping[r].slot \in Slots /\ call[mapping[r].slot].run \in {r, NoRun}
            BY <3>1, CallTypes DEF CallInv, MappingsTrue, SlotsKnown
        <3> QED
            BY <2>3, <3>1, <3>2
    <2>4. CASE q = p /\ GoesOn(p) /\ proc[p].pc = "held"
        <3>1. /\ proc[p].slot \in Slots /\ proc[p].run = NoRun
              /\ call[proc[p].slot].state = "pending"
            BY <2>4, HeldFresh DEF CallInv, HeldAlone
        <3>2. call[proc[p].slot].run = NoRun /\ proc[p].slot \notin InProgress
            BY <3>1 DEF CallInv, RunsBound, InProgress
        <3> QED
            BY <2>4, <3>1, <3>2 DEF GoesOn
    <2>5. CASE q = p /\ GoesOn(p) /\ proc[p].pc \in Releasing
        BY <2>1, <2>5 DEF GoesOn
    <2> QED
        BY <2>2, <2>3, <2>4, <2>5 DEF Aside, GoesOn, Releasing
<1>7. InProgressKept'
    <2> SUFFICES ASSUME NEW s \in InProgress, call[s].run \notin mistaken'
                 PROVE  s \in orgSet' /\ mapping[call[s].run].slot = s
        BY DEF InProgressKept, InProgress, Regular
    <2>1. s \in Slots /\ Fresh(s) /\ call[s].run \in Runs /\ NoRun \notin Runs
        BY ProgressFresh, CallTypes
    <2>2. s \in orgSet /\ mapping[call[s].run].slot = s
        BY <2>1 DEF CallInv, InProgressKept, Regular
    <2>3. proc[p].pc \in Releasing => proc[p].slot # s
        BY <2>1 DEF CallInv, ReleasesOver
    <2> QED
        BY <2>1, <2>2, <2>3
<1>8. BoundSlotRecoverable'
    BY DEF CallInv, BoundSlotRecoverable, Fresh, Regular
<1> QED
    BY <1>1, <1>2, <1>3, <1>5, <1>6, <1>7, <1>8
-----------------------------------------------------------------------------
(* Which steps are local.                                                   *)

LocalAction(p) ==
    \/ Ask(p) \/ AskAgain(p) \/ Denied(p) \/ GiveUp(p) \/ BindRefused(p) \/ Abandon(p)
    \/ ZremOrg(p) \/ ZremFleet(p) \/ ZremScope(p) \/ Crash(p)
    \/ \E r \in Runs : p \in Cleaners /\ BeginRelease(p, r)

LEMMA IdleAside ==
    ASSUME TypeOK, NEW p \in Procs, proc' = [proc EXCEPT ![p] = Idle]
    PROVE  Aside(p) /\ \A q \in Procs : q # p => proc'[q] = proc[q]
BY DEF Aside, Idle, TypeOK

\* The next statement of a release.
LEMMA GoesOnStep ==
    ASSUME TypeOK, NEW p \in Procs, NEW pc \in Releasing, proc' = [proc EXCEPT ![p].pc = pc],
           proc[p].pc \in Releasing \cup {"held"}, pc = "unmap" => proc[p].run # NoRun
    PROVE  GoesOn(p) /\ \A q \in Procs : q # p => proc'[q] = proc[q]
BY DEF GoesOn, TypeOK, ProcInfo

LEMMA PrunedSet ==
    ASSUME CallInv, NEW T, T \subseteq orgSet, NEW t \in Nat, t <= clock,
           orgSet' = orgSet \ StaleAt(T, t)
    PROVE  orgSet' \subseteq orgSet /\ \A s \in orgSet : s \in orgSet' \/ ~Fresh(s)
<1>1. T \subseteq Slots
    BY CallTypes
<1> QED
    BY <1>1, PrunedIsStale DEF StaleAt

LEMMA LocalSteps ==
    ASSUME CallInv, NEW p \in Procs, LocalAction(p)
    PROVE  Local(p)
<1>1. /\ TypeOK /\ proc[p].at \in Nat /\ proc[p].at <= clock /\ clock \in Nat
      /\ proc[p].pc \in {"ask", "wait"} => proc[p].slot = NoSlot
    BY CallTypes DEF CallInv, HeldAlone, ClocksBehind
<1>2. CASE Ask(p)
    <2>1. Aside(p) /\ \A q \in Procs : q # p => proc'[q] = proc[q]
        BY <1>1, <1>2, AskLocals DEF Aside, Ask, TypeOK
    <2> QED
        BY <1>2, <2>1 DEF Ask, Local
<1>3. CASE AskAgain(p)
    <2>1. Aside(p) /\ \A q \in Procs : q # p => proc'[q] = proc[q]
        BY <1>1, <1>3 DEF Aside, AskAgain, TypeOK, ProcInfo
    <2> QED
        BY <1>3, <2>1 DEF AskAgain, Local
<1>4. CASE Denied(p)
    <2>1. Aside(p) /\ \A q \in Procs : q # p => proc'[q] = proc[q]
        BY <1>1, <1>4 DEF Aside, Denied, TypeOK, ProcInfo
    <2>2. orgSet' = orgSet \/ orgSet' = orgSet \ StaleAt(OfOrg(orgSet, proc[p].org), proc[p].at)
        BY <1>4 DEF Denied, OrgAfterPrune
    <2>3. orgSet' \subseteq orgSet /\ \A s \in orgSet : s \in orgSet' \/ ~Fresh(s)
        BY <1>1, <2>2, PrunedSet DEF OfOrg
    <2>4. scopeSet' \subseteq scopeSet
        BY <1>4 DEF Denied, ScopeAfterPrune
    <2> QED
        BY <1>4, <2>1, <2>3, <2>4 DEF Denied, Local
<1>5. CASE GiveUp(p)
    <2>1. orgSet' = orgSet \/ orgSet' = orgSet \ StaleAt(OfOrg(orgSet, proc[p].org), clock)
        BY <1>5 DEF GiveUp
    <2>2. OfOrg(orgSet, proc[p].org) \subseteq orgSet /\ clock <= clock
        BY <1>1 DEF OfOrg
    <2>3. orgSet' \subseteq orgSet /\ \A s \in orgSet : s \in orgSet' \/ ~Fresh(s)
        BY <1>1, <2>1, <2>2, PrunedSet
    <2> QED
        BY <1>1, <1>5, <2>3, IdleAside DEF GiveUp, Local
<1>6. CASE BindRefused(p) \/ Abandon(p)
    <2>1. GoesOn(p) /\ \A q \in Procs : q # p => proc'[q] = proc[q]
        BY <1>1, <1>6, GoesOnStep DEF BindRefused, Abandon, Releasing
    <2> QED
        BY <1>6, <2>1 DEF BindRefused, Abandon, Local
<1>7. CASE ZremOrg(p)
    <2>1. CASE proc' = [proc EXCEPT ![p].pc = "zremFleet"]
        BY <1>1, <1>7, <2>1, GoesOnStep DEF ZremOrg, Releasing, Local
    <2>2. CASE proc' = [proc EXCEPT ![p] = Idle]
        BY <1>1, <1>7, <2>2, IdleAside DEF ZremOrg, Releasing, Local
    <2> QED
        BY <1>7, <2>1, <2>2 DEF ZremOrg, Fails
<1>8. AfterRelease(p) = IF proc[p].run = NoRun THEN Idle ELSE [proc[p] EXCEPT !.pc = "unmap"]
    BY DEF AfterRelease
<1>9. ASSUME proc[p].pc \in Releasing, proc' = [proc EXCEPT ![p] = AfterRelease(p)]
      PROVE  /\ Aside(p) \/ GoesOn(p)
             /\ \A q \in Procs : q # p => proc'[q] = proc[q]
    <2>1. CASE proc[p].run = NoRun
        BY <1>1, <1>8, <1>9, <2>1, IdleAside
    <2>2. CASE proc[p].run # NoRun
        <3>1. proc' = [proc EXCEPT ![p].pc = "unmap"]
            BY <1>8, <1>9, <2>2
        <3> QED
            BY <1>1, <1>9, <2>2, <3>1, GoesOnStep DEF Releasing
    <2> QED
        BY <2>1, <2>2
<1>10. CASE ZremFleet(p)
    <2>1. proc[p].pc = "zremFleet" /\ "zremFleet" \in Releasing /\ "zremScope" \in Releasing
        BY <1>10 DEF ZremFleet, Releasing
    <2>2. \/ proc' = [proc EXCEPT ![p] = AfterRelease(p)]
          \/ proc' = [proc EXCEPT ![p].pc = "zremScope"]
          \/ proc' = [proc EXCEPT ![p] = Idle]
        BY <1>10 DEF ZremFleet, Fails
    <2>3. /\ Aside(p) \/ GoesOn(p)
          /\ \A q \in Procs : q # p => proc'[q] = proc[q]
        BY <1>1, <1>9, <2>1, <2>2, GoesOnStep, IdleAside
    <2> QED
        BY <1>10, <2>3 DEF ZremFleet, Local
<1>11. CASE ZremScope(p)
    <2>1. proc[p].pc = "zremScope" /\ "zremScope" \in Releasing
        BY <1>11 DEF ZremScope, Releasing
    <2>2. \/ proc' = [proc EXCEPT ![p] = AfterRelease(p)]
          \/ proc' = [proc EXCEPT ![p] = Idle]
        BY <1>11 DEF ZremScope, Fails
    <2>3. /\ Aside(p) \/ GoesOn(p)
          /\ \A q \in Procs : q # p => proc'[q] = proc[q]
        BY <1>1, <1>9, <2>1, <2>2, IdleAside
    <2> QED
        BY <1>11, <2>3 DEF ZremScope, Local
<1>12. CASE Crash(p)
    BY <1>1, <1>12, IdleAside DEF Crash, Local
<1>13. ASSUME NEW r \in Runs, BeginRelease(p, r) PROVE Local(p)
    <2>1. /\ proc'[p].pc = "zremOrg" /\ proc'[p].run = r /\ proc'[p].slot = mapping[r].slot
          /\ \A q \in Procs : q # p => proc'[q] = proc[q]
        BY <1>1, <1>13 DEF BeginRelease, Idle, TypeOK
    <2>2. mistaken \subseteq mistaken' /\ (mapping[r].slot \in InProgress => r \in mistaken')
        BY <1>13 DEF BeginRelease
    <2>3. Reads(p)
        BY <1>13, <2>1, <2>2 DEF BeginRelease, Reads
    <2> QED
        BY <1>13, <2>1, <2>2, <2>3 DEF BeginRelease, Local
<1> QED
    BY <1>2, <1>3, <1>4, <1>5, <1>6, <1>7, <1>10, <1>11, <1>12, <1>13 DEF LocalAction

\* A slot that nobody holds any longer has left the sets, unless something failed.
LEMMA LocalHeld ==
    ASSUME CallInv, NEW p \in Procs, LocalAction(p)
    PROVE  PendingHeld'
<1> SUFFICES ASSUME ~RedisFaults, ~Crashes, NEW s \in (orgSet \cup scopeSet \cup fleet)',
                    call'[s].run = NoRun
             PROVE  \E q \in Procs : proc'[q].slot = s
    BY DEF PendingHeld
<1>1. Local(p) /\ TypeOK /\ s \in Slots
    BY LocalSteps, CallTypes DEF Local
<1>2. PICK q \in Procs : proc[q].slot = s
    BY <1>1 DEF Local, CallInv, PendingHeld
<1>3. CASE proc'[q].slot = proc[q].slot
    BY <1>2, <1>3
<1>4. CASE proc'[q].slot # proc[q].slot
    <2>1. q = p /\ ~GoesOn(p)
        BY <1>1, <1>4 DEF Local, GoesOn
    <2>2. proc[p].pc \notin {"idle", "ask", "wait"}
        BY <1>1, <1>2, <2>1, CallTypes DEF CallInv, HeldAlone
    <2>3. ZremFleet(p) \/ ZremScope(p)
        <3>1. ~Ask(p) /\ ~AskAgain(p) /\ ~Denied(p) /\ ~GiveUp(p) /\ ~Crash(p)
              /\ ~\E r \in Runs : BeginRelease(p, r)
            BY <2>2 DEF Ask, AskAgain, Denied, GiveUp, Crash, BeginRelease
        <3>2. BindRefused(p) \/ Abandon(p) => proc'[p].slot = proc[p].slot
            BY <1>1 DEF BindRefused, Abandon, TypeOK, ProcInfo
        <3>3. ZremOrg(p) => proc'[p].slot = proc[p].slot
            BY <1>1 DEF ZremOrg, Fails, TypeOK, ProcInfo
        <3> QED
            BY <1>4, <2>1, <3>1, <3>2, <3>3 DEF LocalAction
    <2>4. proc'[p].pc \notin Releasing
        <3>1. AfterRelease(p) = Idle \/ AfterRelease(p).slot = proc[p].slot
            BY <1>1 DEF AfterRelease, TypeOK, ProcInfo
        <3>2. \/ proc' = [proc EXCEPT ![p] = AfterRelease(p)]
              \/ proc' = [proc EXCEPT ![p].pc = "zremScope"]
            BY <2>3 DEF ZremFleet, ZremScope, Fails
        <3>3. proc'[p] = AfterRelease(p) \/ proc'[p].slot = proc[p].slot
            BY <1>1, <3>2 DEF TypeOK, ProcInfo
        <3>4. proc'[p] = Idle
            BY <1>4, <2>1, <3>1, <3>3
        <3> QED
            BY <3>4 DEF Idle, Releasing
    <2>5. s \notin orgSet /\ (ZremScope(p) => s \notin fleet)
        BY <1>2, <2>1, <2>3 DEF CallInv, CountInv, ReleasedInOrder, ZremFleet, ZremScope
    <2>6. CASE ZremScope(p)
        BY <1>1, <1>2, <2>1, <2>5, <2>6 DEF ZremScope, Fails
    <2>7. CASE ZremFleet(p)
        <3>1. slot[s].scope = NoScope
            BY <1>1, <1>2, <2>1, <2>4, <2>7 DEF ZremFleet, Fails, Releasing, TypeOK, ProcInfo
        <3>2. s \notin scopeSet
            BY <3>1 DEF CallInv, CountInv, ScopeOnlyScoped
        <3> QED
            BY <1>1, <1>2, <2>1, <2>5, <2>7, <3>2 DEF ZremFleet, Fails
    <2> QED
        BY <2>3, <2>6, <2>7
<1> QED
    BY <1>3, <1>4
-----------------------------------------------------------------------------
(* The steps that change a mapping, a call or the clock.                    *)

CallPart ==
    /\ InTime /\ RunsBound /\ HeldAlone /\ ReleasesOver /\ MappingsTrue
    /\ InProgressKept /\ BoundSlotRecoverable /\ PendingHeld

\* The last command of a release deletes a mapping that nothing counts any longer.
LEMMA UnmapStep ==
    ASSUME CallsAreShort, CallInv, NEW p \in Procs, Unmap(p)
    PROVE  CallPart'
<1> DEFINE run == proc[p].run
<1>1. /\ proc[p].pc = "unmap" /\ proc' = [proc EXCEPT ![p] = Idle]
      /\ \/ /\ mapping' = [mapping EXCEPT ![run] = NoMapping]
            /\ mapping[run].slot \in {proc[p].slot, NoSlot} \/ run \in mistaken'
         \/ mapping' = mapping
      /\ mistaken \subseteq mistaken'
      /\ UNCHANGED <<clock, orgSet, scopeSet, fleet, slot, call>>
    BY DEF Unmap
<1>2. proc[p].slot \in Slots /\ run # NoRun
    BY <1>1 DEF CallInv, ReleasesOver, Releasing
<1>3. proc[p].slot \notin orgSet \cup scopeSet \cup fleet
    BY <1>1 DEF CallInv, CountInv, ReleasedInOrder
<1>4. Aside(p) /\ \A q \in Procs : q # p => proc'[q] = proc[q]
    BY <1>1, CallTypes, IdleAside
<1>5. proc'[p].pc = "idle" /\ proc'[p].slot = NoSlot
    BY <1>1, CallTypes DEF Idle, TypeOK
<1>6. \A r \in Runs : mapping'[r] \in {mapping[r], NoMapping}
    BY <1>1, CallTypes DEF TypeOK
<1>7. NoMapping.slot = NoSlot
    BY DEF NoMapping
<1>15. \A r \in Runs : r # run => mapping'[r] = mapping[r]
    BY <1>1, CallTypes DEF TypeOK
<1>8. InTime' /\ RunsBound'
    <2>1. Minted' = Minted
        BY <1>1 DEF Minted
    <2> QED
        BY <1>1, <1>4, <1>5, <2>1 DEF CallInv, InTime, RunsBound
<1>9. HeldAlone'
    <2>1. ASSUME NEW q \in Procs, proc'[q].pc = "held"
          PROVE  /\ proc'[q].slot \in orgSet' /\ proc'[q].run = NoRun
                 /\ call'[proc'[q].slot].state = "pending"
                 /\ \A x \in Procs : proc'[x].slot = proc'[q].slot => x = q
                 /\ \A r \in Runs : mapping'[r].slot # proc'[q].slot
        <3>1. q # p /\ proc'[q] = proc[q] /\ proc[q].slot # NoSlot
            BY <1>4, <1>5, <2>1, HeldFresh, CallTypes
        <3> QED
            BY <1>1, <1>4, <1>5, <1>6, <1>7, <2>1, <3>1 DEF CallInv, HeldAlone
    <2> QED
        BY <1>4, <1>5, <2>1 DEF CallInv, HeldAlone
<1>10. ReleasesOver'
    BY <1>1, <1>4, <1>5 DEF CallInv, ReleasesOver, Releasing, InProgress
<1>11. MappingsTrue'
    BY <1>1, <1>6, <1>7, CallTypes DEF CallInv, MappingsTrue
<1>12. InProgressKept'
    <2> SUFFICES ASSUME NEW s \in InProgress, call[s].run \notin mistaken'
                 PROVE  s \in orgSet /\ mapping'[call[s].run].slot = s
        BY <1>1 DEF InProgressKept, InProgress, Regular
    <2>1. s \in orgSet /\ mapping[call[s].run].slot = s
        BY <1>1, ProgressFresh DEF CallInv, InProgressKept, Regular
    <2>2. call[s].run \in Runs /\ s # NoSlot
        BY ProgressFresh, CallTypes
    <2> QED
        BY <1>1, <1>3, <1>15, <2>1, <2>2
<1>13. BoundSlotRecoverable'
    <2> SUFFICES ASSUME NEW s \in orgSet \cup scopeSet \cup fleet, Fresh(s),
                        call[s].run # NoRun, call[s].run \notin mistaken'
                 PROVE  mapping'[call[s].run].slot = s
        BY <1>1 DEF BoundSlotRecoverable, Fresh, Regular
    <2>1. s \in Slots /\ call[s].run \in Runs /\ s # proc[p].slot /\ s # NoSlot
        BY <1>3, CallTypes
    <2>2. mapping[call[s].run].slot = s
        BY <1>1, <2>1 DEF CallInv, BoundSlotRecoverable, Regular
    <2> QED
        BY <1>1, <1>15, <2>1, <2>2
<1>14. PendingHeld'
    <2> SUFFICES ASSUME ~RedisFaults, ~Crashes, NEW s \in orgSet \cup scopeSet \cup fleet,
                        call[s].run = NoRun
                 PROVE  \E q \in Procs : proc'[q].slot = s
        BY <1>1 DEF PendingHeld
    <2>1. PICK q \in Procs : proc[q].slot = s
        BY DEF CallInv, PendingHeld
    <2> QED
        BY <1>3, <1>4, <2>1
<1> QED
    BY <1>8, <1>9, <1>10, <1>11, <1>12, <1>13, <1>14 DEF CallPart

\* The phone is answered, or the call ends.
LEMMA WorldStep ==
    ASSUME CallsAreShort, CallInv, NEW s \in Slots, Connect(s) \/ EndCall(s)
    PROVE  CallPart'
<1>1. /\ call[s].state \in {"setup", "live"} /\ call'[s].state \in {"live", "over"}
      /\ \A t \in Slots : call'[t].run = call[t].run /\ (t # s => call'[t] = call[t])
      /\ UNCHANGED <<clock, orgSet, scopeSet, fleet, slot, mapping, proc, mistaken>>
    BY CallTypes DEF Connect, EndCall, TypeOK, CallInfo
<1>2. call'[s].state = "live" => /\ call[s].state = "setup"
                                 /\ call'[s].start = clock
    <2>1. CASE Connect(s)
        BY <2>1, CallTypes DEF Connect, TypeOK, CallInfo
    <2>2. CASE EndCall(s)
        BY <2>2, CallTypes DEF EndCall, TypeOK, CallInfo
    <2> QED
        BY <2>1, <2>2
<1>3. InTime'
    <2>1. clock <= clock + MaxDuration + 1
        BY CallTypes, ConstantsAssumption
    <2> QED
        BY <1>1, <1>2, <2>1 DEF CallInv, InTime
<1>4. RunsBound'
    <2>1. Minted' = Minted
        BY <1>1 DEF Minted
    <2> QED
        BY <1>1, <2>1 DEF CallInv, RunsBound
<1>5. HeldAlone'
    <2>1. \A q \in Procs : proc[q].pc = "held" => proc[q].slot \in Slots /\ proc[q].slot # s
        BY <1>1, HeldFresh DEF CallInv, HeldAlone
    <2> QED
        BY <1>1, <2>1 DEF CallInv, HeldAlone
<1>9. InProgress' \subseteq InProgress /\ Regular' = Regular
    BY <1>1 DEF InProgress, Regular
<1>6. ReleasesOver'
    BY <1>1, <1>9 DEF CallInv, ReleasesOver
<1>10. MappingsTrue'
    BY <1>1, CallTypes DEF CallInv, MappingsTrue, SlotsKnown
<1>7. InProgressKept'
    BY <1>1, <1>9, ProgressFresh DEF CallInv, InProgressKept
<1>8. BoundSlotRecoverable' /\ PendingHeld'
    BY <1>1, <1>9, CallTypes DEF CallInv, BoundSlotRecoverable, PendingHeld, Fresh
<1> QED
    BY <1>3, <1>4, <1>5, <1>6, <1>7, <1>8, <1>10 DEF CallPart

\* An acquisition mints a slot nobody knows, and prunes only what is stale.
LEMMA GrantedStep ==
    ASSUME CallsAreShort, CallInv, NEW p \in Procs, Granted(p)
    PROVE  CallPart'
<1>1. PICK s \in Slots \ Minted :
         /\ AddSlot(p, s)
         /\ \/ proc' = [proc EXCEPT ![p] = [Idle EXCEPT !.pc = "held", !.slot = s]]
            \/ RedisFaults /\ proc' = [proc EXCEPT ![p].pc = "wait"]
    BY DEF Granted
<1>2. /\ proc[p].pc = "ask" /\ UNCHANGED <<clock, mapping, mistaken>>
      /\ proc[p].slot = NoSlot /\ proc[p].org \in Orgs /\ clock <= proc[p].at + MaxSetup
    BY DEF Granted, CallInv, CountInv, HeldAlone, RequestsValid, InTime
<1>3. /\ s \in Slots /\ s # NoSlot /\ call[s].state = "new" /\ call[s].run = NoRun
      /\ \A q \in Procs : proc[q].slot # s
      /\ \A r \in Runs : mapping[r].slot # s
      /\ s \notin orgSet \cup scopeSet \cup fleet
    <2>1. s \in Slots /\ s # NoSlot /\ s \notin Minted
        BY CallTypes
    <2>2. call[s].state = "new" /\ call[s].run = NoRun
        BY <2>1 DEF Minted, CallInv, RunsBound
    <2> QED
        BY <2>1, <2>2, CallTypes DEF TypeOK, SlotsKnown
<1>4. /\ call'[s].state = "pending" /\ call'[s].run = NoRun
      /\ slot'[s].org = proc[p].org /\ slot'[s].score = proc[p].at
      /\ \A t \in Slots : t # s => call'[t] = call[t] /\ slot'[t] = slot[t]
    BY <1>1, <1>3, CallTypes DEF AddSlot, TypeOK, CallInfo
<1>5. /\ orgSet' \subseteq orgSet \cup {s} /\ scopeSet' \subseteq scopeSet \cup {s}
      /\ fleet' \subseteq fleet \cup {s} /\ s \in orgSet'
      /\ \A t \in orgSet : t \in orgSet' \/ ~Fresh(t)
    <2>1. proc[p].at \in Nat /\ proc[p].at <= clock /\ OfOrg(orgSet, proc[p].org) \subseteq Slots
        BY CallTypes DEF ClocksBehind, OfOrg
    <2>2. \A t \in StaleAt(OfOrg(orgSet, proc[p].org), proc[p].at) : ~Fresh(t)
        BY <2>1, PrunedIsStale
    <2> QED
        BY <1>1, <2>2 DEF AddSlot, OrgAfterPrune, ScopeAfterPrune, FleetAfterPrune
<1>6. /\ \A q \in Procs : q # p => proc'[q] = proc[q]
      /\ \/ proc'[p].pc = "held" /\ proc'[p].slot = s /\ proc'[p].run = NoRun
         \/ RedisFaults /\ proc'[p].pc = "wait" /\ proc'[p].slot = NoSlot
    <2>1. CASE proc' = [proc EXCEPT ![p] = [Idle EXCEPT !.pc = "held", !.slot = s]]
        BY <2>1, CallTypes DEF TypeOK, Idle
    <2>2. CASE RedisFaults /\ proc' = [proc EXCEPT ![p].pc = "wait"]
        BY <1>2, <2>2, CallTypes DEF TypeOK, ProcInfo
    <2> QED
        BY <1>1, <2>1, <2>2
<1>7. ASSUME NEW q \in Procs, q # p, proc[q].pc = "held"
      PROVE  /\ proc[q].slot \in Slots /\ proc[q].slot # s /\ proc[q].slot # NoSlot
             /\ proc[q].slot \in orgSet'
    BY <1>3, <1>5, <1>7, HeldFresh, CallTypes DEF CallInv, HeldAlone
<1>8. InTime'
    <2>1. \A q \in Procs : /\ proc'[q].pc = "ask" => clock' <= proc'[q].at + MaxSetup
                           /\ proc'[q].pc = "held" =>
                                  clock' <= slot'[proc'[q].slot].score + MaxSetup
        BY <1>2, <1>4, <1>6, <1>7 DEF CallInv, InTime
    <2>2. \A t \in Slots : call'[t].state \in {"setup", "live"} =>
             call'[t] = call[t] /\ slot'[t] = slot[t]
        BY <1>4
    <2> QED
        BY <1>2, <2>1, <2>2 DEF CallInv, InTime
<1>9. RunsBound'
    <2>1. Minted' = Minted \cup {s}
        BY <1>3, <1>4 DEF Minted
    <2> QED
        BY <1>2, <1>3, <1>4, <2>1, CallTypes DEF CallInv, RunsBound
<1>10. HeldAlone'
    <2>1. \A q \in Procs : proc'[q].pc \in {"idle", "ask", "wait"} => proc'[q].slot = NoSlot
        BY <1>6 DEF CallInv, HeldAlone
    <2>2. ASSUME NEW q \in Procs, q # p, proc[q].pc = "held"
          PROVE  /\ proc'[q].slot \in orgSet' /\ proc'[q].run = NoRun
                 /\ call'[proc'[q].slot].state = "pending"
                 /\ \A x \in Procs : proc'[x].slot = proc'[q].slot => x = q
                 /\ \A r \in Runs : mapping'[r].slot # proc'[q].slot
        BY <1>2, <1>4, <1>6, <1>7, <2>2 DEF CallInv, HeldAlone
    <2>3. ASSUME proc'[p].pc = "held"
          PROVE  /\ proc'[p].slot \in orgSet' /\ proc'[p].run = NoRun
                 /\ call'[proc'[p].slot].state = "pending"
                 /\ \A x \in Procs : proc'[x].slot = proc'[p].slot => x = p
                 /\ \A r \in Runs : mapping'[r].slot # proc'[p].slot
        BY <1>2, <1>3, <1>4, <1>5, <1>6, <2>3
    <2> QED
        BY <1>6, <2>1, <2>2, <2>3 DEF HeldAlone
<1>17. InProgress' = InProgress /\ \A t \in Slots : call'[t].run = call[t].run
    BY <1>3, <1>4 DEF InProgress
<1>11. ReleasesOver'
    BY <1>2, <1>3, <1>6, <1>17 DEF CallInv, ReleasesOver, Releasing
<1>12. MappingsTrue'
    <2>1. \A t \in Slots : call'[t].run = call[t].run
        BY <1>3, <1>4
    <2>2. ASSUME NEW r \in Runs, mapping[r].slot # NoSlot
          PROVE  mapping[r].slot \in Slots /\ slot'[mapping[r].slot] = slot[mapping[r].slot]
        BY <1>3, <1>4, <2>2, CallTypes DEF SlotsKnown
    <2>3. MappingsTrue /\ mapping' = mapping
        BY <1>2 DEF CallInv
    <2> QED
        BY <2>1, <2>2, <2>3 DEF MappingsTrue
<1>13. InProgressKept'
    BY <1>2, <1>5, <1>17, ProgressFresh DEF CallInv, InProgressKept, Regular
<1>14. ASSUME NEW t \in (orgSet \cup scopeSet \cup fleet)', t # s
       PROVE  /\ t \in orgSet \cup scopeSet \cup fleet
              /\ call'[t] = call[t] /\ slot'[t] = slot[t]
    BY <1>4, <1>5, <1>14, CallTypes
<1>15. BoundSlotRecoverable'
    <2> SUFFICES ASSUME NEW t \in (orgSet \cup scopeSet \cup fleet)', Fresh(t)',
                        call'[t].run # NoRun, call'[t].run \notin mistaken
                 PROVE  mapping'[call'[t].run].slot = t
        BY <1>2 DEF BoundSlotRecoverable, Regular
    <2> QED
        BY <1>2, <1>4, <1>14, CallTypes DEF CallInv, BoundSlotRecoverable, Fresh, Regular
<1>16. PendingHeld'
    <2> SUFFICES ASSUME ~RedisFaults, ~Crashes, NEW t \in (orgSet \cup scopeSet \cup fleet)',
                        call'[t].run = NoRun
                 PROVE  \E q \in Procs : proc'[q].slot = t
        BY DEF PendingHeld
    <2>1. CASE t = s
        BY <1>6, <2>1
    <2>2. CASE t # s
        <3>1. PICK q \in Procs : proc[q].slot = t
            BY <1>14, <2>2 DEF CallInv, PendingHeld
        <3>2. t \in Slots
            BY <1>14, <2>2, CallTypes
        <3> QED
            BY <1>2, <1>6, <3>1, <3>2, CallTypes
    <2> QED
        BY <2>1, <2>2
<1> QED
    BY <1>8, <1>9, <1>10, <1>11, <1>12, <1>13, <1>15, <1>16 DEF CallPart

\* What a start finds when it may store the mapping: it alone holds the slot, and
\* unless a clean-up was mistaken the run has no call in progress and no slot counted.
LEMMA BindFacts ==
    ASSUME CallsAreShort, CallInv, NEW p \in Procs, proc[p].pc = "held",
           NEW r \in Runs, mapping[r] = NoMapping
    PROVE  /\ proc[p].slot \in Slots /\ proc[p].slot \in Minted /\ proc[p].slot # NoSlot
           /\ proc[p].slot \in orgSet /\ Fresh(proc[p].slot) /\ proc[p].run = NoRun
           /\ call[proc[p].slot].state = "pending" /\ call[proc[p].slot].run = NoRun
           /\ clock <= slot[proc[p].slot].score + MaxSetup
           /\ slot[proc[p].slot].score <= clock
           /\ \A q \in Procs : proc[q].slot = proc[p].slot => q = p
           /\ r \notin mistaken =>
                 /\ \A t \in InProgress : call[t].run # r
                 /\ \A t \in orgSet \cup scopeSet \cup fleet : Fresh(t) => call[t].run # r
<1>1. /\ proc[p].slot \in Slots /\ proc[p].slot \in Minted /\ proc[p].slot # NoSlot
      /\ proc[p].slot \in orgSet /\ Fresh(proc[p].slot) /\ proc[p].run = NoRun
      /\ call[proc[p].slot].state = "pending"
      /\ clock <= slot[proc[p].slot].score + MaxSetup
      /\ \A q \in Procs : proc[q].slot = proc[p].slot => q = p
    BY HeldFresh, CallTypes DEF CallInv, HeldAlone, InTime
<1>2. call[proc[p].slot].run = NoRun
    BY <1>1 DEF CallInv, RunsBound
<1>3. slot[proc[p].slot].score <= clock
    BY <1>1, CallTypes DEF ClocksBehind
<1>4. mapping[r].slot \notin Slots /\ r # NoRun
    BY CallTypes DEF NoMapping
<1>5. ASSUME r \notin mistaken, NEW t \in InProgress PROVE call[t].run # r
    BY <1>4, <1>5, ProgressFresh DEF CallInv, InProgressKept, Regular
<1>6. ASSUME r \notin mistaken, NEW t \in orgSet \cup scopeSet \cup fleet, Fresh(t)
      PROVE  call[t].run # r
    BY <1>4, <1>6, CallTypes DEF CallInv, BoundSlotRecoverable, Regular
<1> QED
    BY <1>1, <1>2, <1>3, <1>5, <1>6

\* The mapping is stored, and the slot is bound unless the answer was lost.
LEMMA BindStep ==
    ASSUME CallsAreShort, CallInv, NEW p \in Procs, Bind(p)
    PROVE  CallPart'
<1>1. PICK r \in Runs :
         /\ mapping[r] = NoMapping
         /\ mapping' = [mapping EXCEPT ![r] = [slot |-> proc[p].slot, at |-> clock]]
         /\ \/ /\ call' = [call EXCEPT ![proc[p].slot].state = "setup",
                                       ![proc[p].slot].run = r]
               /\ proc' = [proc EXCEPT ![p] = Idle]
            \/ /\ RedisFaults
               /\ proc' = [proc EXCEPT ![p].pc = "zremOrg"]
               /\ UNCHANGED call
    BY DEF Bind
<1> DEFINE h == proc[p].slot
<1>2. proc[p].pc = "held" /\ UNCHANGED <<clock, orgSet, scopeSet, fleet, slot, mistaken>>
    BY DEF Bind
<1>3. /\ h \in Slots /\ h \in Minted /\ h # NoSlot /\ h \in orgSet /\ Fresh(h)
      /\ proc[p].run = NoRun /\ call[h].state = "pending" /\ call[h].run = NoRun
      /\ clock <= slot[h].score + MaxSetup /\ slot[h].score <= clock
      /\ \A q \in Procs : proc[q].slot = h => q = p
      /\ r \notin mistaken =>
            /\ \A t \in InProgress : call[t].run # r
            /\ \A t \in orgSet \cup scopeSet \cup fleet : Fresh(t) => call[t].run # r
      /\ \A x \in Runs : mapping[x].slot # h
    <2>1. \A x \in Runs : mapping[x].slot # h
        BY <1>2 DEF CallInv, HeldAlone
    <2> QED
        BY <1>1, <1>2, <2>1, BindFacts
<1>4. /\ mapping'[r].slot = h /\ mapping'[r].at = clock
      /\ \A x \in Runs : x # r => mapping'[x] = mapping[x]
    BY <1>1, CallTypes DEF TypeOK
<1>5. /\ \A q \in Procs : q # p => proc'[q] = proc[q]
      /\ \/ /\ proc'[p].pc = "idle" /\ proc'[p].slot = NoSlot
            /\ call'[h].state = "setup" /\ call'[h].run = r
            /\ \A t \in Slots : t # h => call'[t] = call[t]
         \/ /\ RedisFaults /\ call' = call
            /\ proc'[p].pc = "zremOrg" /\ proc'[p].slot = h /\ proc'[p].run = NoRun
    <2>1. CASE /\ call' = [call EXCEPT ![h].state = "setup", ![h].run = r]
               /\ proc' = [proc EXCEPT ![p] = Idle]
        <3>1. proc'[p] = Idle /\ \A q \in Procs : q # p => proc'[q] = proc[q]
            BY <2>1, CallTypes DEF TypeOK
        <3>2. /\ call'[h].state = "setup" /\ call'[h].run = r
              /\ \A t \in Slots : t # h => call'[t] = call[t]
            BY <1>3, <2>1, CallTypes DEF TypeOK, CallInfo
        <3> QED
            BY <3>1, <3>2 DEF Idle
    <2>2. CASE RedisFaults /\ proc' = [proc EXCEPT ![p].pc = "zremOrg"] /\ UNCHANGED call
        BY <1>3, <2>2, CallTypes DEF TypeOK, ProcInfo
    <2> QED
        BY <1>1, <2>1, <2>2
<1>6. ASSUME NEW q \in Procs, q # p, proc[q].slot \in Slots
      PROVE  proc[q].slot # h /\ call'[proc[q].slot] = call[proc[q].slot]
    BY <1>3, <1>5, <1>6
<1> HIDE DEF h
<1>7. InTime'
    <2>1. \A q \in Procs : /\ proc'[q].pc = "ask" => clock <= proc'[q].at + MaxSetup
                           /\ proc'[q].pc = "held" => clock <= slot[proc'[q].slot].score + MaxSetup
        BY <1>5 DEF CallInv, InTime
    <2> QED
        BY <1>2, <1>3, <1>5, <2>1 DEF CallInv, InTime
<1>8. RunsBound'
    <2>1. Minted' = Minted
        BY <1>3, <1>5 DEF Minted
    <2>2. r # NoRun
        BY CallTypes
    <2> QED
        BY <1>2, <1>3, <1>5, <2>1, <2>2 DEF CallInv, RunsBound
<1>9. HeldAlone'
    <2>1. \A q \in Procs : proc'[q].pc \in {"idle", "ask", "wait"} => proc'[q].slot = NoSlot
        BY <1>5 DEF CallInv, HeldAlone
    <2>2. ASSUME NEW q \in Procs, proc'[q].pc = "held"
          PROVE  /\ proc'[q].slot \in orgSet' /\ proc'[q].run = NoRun
                 /\ call'[proc'[q].slot].state = "pending"
                 /\ \A x \in Procs : proc'[x].slot = proc'[q].slot => x = q
                 /\ \A x \in Runs : mapping'[x].slot # proc'[q].slot
        <3>1. q # p /\ proc'[q] = proc[q] /\ proc[q].slot \in Slots /\ proc[q].slot # NoSlot
            BY <1>5, <2>2, HeldFresh, CallTypes
        <3>2. proc[q].slot # h /\ call'[proc[q].slot] = call[proc[q].slot]
            BY <1>6, <3>1
        <3> QED
            BY <1>2, <1>4, <1>5, <2>2, <3>1, <3>2 DEF CallInv, HeldAlone
    <2> QED
        BY <2>1, <2>2 DEF HeldAlone
<1>10. ReleasesOver'
    <2> SUFFICES ASSUME NEW q \in Procs, proc'[q].pc \in Releasing
                 PROVE  /\ proc'[q].slot \in Slots
                        /\ proc'[q].run = NoRun => proc'[q].pc # "unmap"
                        /\ call'[proc'[q].slot].run \in {proc'[q].run, NoRun}
                        /\ proc'[q].slot \in InProgress' => proc'[q].run \in mistaken
        BY <1>2 DEF ReleasesOver
    <2>1. CASE q = p
        BY <1>3, <1>5, <2>1 DEF Releasing, InProgress
    <2>2. CASE q # p
        <3>1. proc'[q] = proc[q] /\ proc[q].slot \in Slots
            BY <1>5, <2>2 DEF CallInv, ReleasesOver
        <3>2. call'[proc[q].slot] = call[proc[q].slot]
            BY <1>6, <2>2, <3>1
        <3> QED
            BY <3>1, <3>2 DEF CallInv, ReleasesOver, InProgress
    <2> QED
        BY <2>1, <2>2
<1>11. MappingsTrue'
    <2> SUFFICES ASSUME NEW x \in Runs
                 PROVE  /\ mapping'[x].slot = NoSlot => mapping'[x] = NoMapping
                        /\ mapping'[x].slot # NoSlot =>
                              /\ slot[mapping'[x].slot].score <= mapping'[x].at
                              /\ call'[mapping'[x].slot].run \in {x, NoRun}
        BY <1>2 DEF MappingsTrue
    <2>1. CASE x = r
        BY <1>3, <1>4, <1>5, <2>1
    <2>2. CASE x # r /\ mapping[x].slot # NoSlot
        <3>1. mapping[x].slot \in Slots /\ mapping[x].slot # h /\ mapping'[x] = mapping[x]
            BY <1>3, <1>4, <2>2, CallTypes DEF SlotsKnown
        <3>2. call'[mapping[x].slot] = call[mapping[x].slot]
            BY <1>5, <3>1
        <3> QED
            BY <2>2, <3>1, <3>2 DEF CallInv, MappingsTrue
    <2>3. CASE x # r /\ mapping[x].slot = NoSlot
        BY <1>4, <2>3 DEF CallInv, MappingsTrue
    <2> QED
        BY <2>1, <2>2, <2>3
<1>12. InProgressKept'
    <2> SUFFICES ASSUME NEW t \in InProgress', call'[t].run \notin mistaken
                 PROVE  t \in orgSet /\ mapping'[call'[t].run].slot = t
        BY <1>2 DEF InProgressKept, Regular
    <2>1. t \in Slots
        BY DEF InProgress
    <2>2. CASE call'[t] = call[t]
        <3>1. t \in InProgress /\ call[t].run \in Runs /\ call[t].run # r
            BY <1>3, <2>1, <2>2, ProgressFresh DEF InProgress
        <3> QED
            BY <1>4, <2>1, <2>2, <3>1 DEF CallInv, InProgressKept, Regular
    <2>3. CASE call'[t] # call[t]
        BY <1>3, <1>4, <1>5, <2>1, <2>3
    <2> QED
        BY <2>2, <2>3
<1>13. BoundSlotRecoverable'
    <2> SUFFICES ASSUME NEW t \in orgSet \cup scopeSet \cup fleet, Fresh(t),
                        call'[t].run # NoRun, call'[t].run \notin mistaken
                 PROVE  mapping'[call'[t].run].slot = t
        BY <1>2 DEF BoundSlotRecoverable, Fresh, Regular
    <2>1. t \in Slots
        BY CallTypes
    <2>2. CASE call'[t] = call[t]
        <3>1. call[t].run \in Runs /\ call[t].run # r
            BY <1>3, <2>1, <2>2, CallTypes
        <3> QED
            BY <1>4, <2>1, <2>2, <3>1 DEF CallInv, BoundSlotRecoverable, Regular
    <2>3. CASE call'[t] # call[t]
        <3>1. t = h /\ call'[t].run = r
            BY <1>5, <2>1, <2>3
        <3> QED
            BY <1>4, <3>1
    <2> QED
        BY <2>2, <2>3
<1>14. PendingHeld'
    <2> SUFFICES ASSUME ~RedisFaults, ~Crashes, NEW t \in orgSet \cup scopeSet \cup fleet,
                        call'[t].run = NoRun
                 PROVE  \E q \in Procs : proc'[q].slot = t
        BY <1>2 DEF PendingHeld
    <2>1. t \in Slots /\ t # h /\ call'[t] = call[t]
        BY <1>5, CallTypes
    <2>2. PICK q \in Procs : proc[q].slot = t
        BY <2>1 DEF CallInv, PendingHeld
    <2> QED
        BY <1>5, <2>1, <2>2 DEF h
<1> QED
    BY <1>7, <1>8, <1>9, <1>10, <1>11, <1>12, <1>13, <1>14 DEF CallPart

\* Time passes only while nobody is late, so what is counted stays counted.
LEMMA TickStep ==
    ASSUME CallsAreShort, CallInv, Tick
    PROVE  CallPart'
<1>1. /\ OnTime /\ clock' = clock + 1
      /\ orgSet' = {s \in orgSet : OrgKeyAlive(slot[s].org, clock')}
      /\ scopeSet' \subseteq scopeSet /\ fleet' \subseteq fleet
      /\ mapping' = [r \in Runs |-> IF mapping[r].at + MappingTTL <= clock'
                                    THEN NoMapping ELSE mapping[r]]
      /\ UNCHANGED <<slot, proc, call, mistaken>>
    BY DEF Tick
<1>2. /\ clock \in Nat /\ MaxSetup \in Nat /\ MaxDuration \in Nat /\ StaleTimeout \in Nat
      /\ KeyTTL \in Nat /\ MappingTTL \in Nat /\ KeyTTL >= StaleTimeout
      /\ MappingTTL >= StaleTimeout /\ MaxSetup + MaxDuration + 1 < StaleTimeout
    BY CallTypes, ConstantsAssumption DEF CallsAreShort
<1>3. ASSUME NEW s \in orgSet, slot[s].score + StaleTimeout > clock' PROVE s \in orgSet'
    <2>1. s \in Minted /\ slot[s].score <= slot[s].added /\ s \in Slots
        BY CallTypes DEF TypeOK, ClocksBehind
    <2>2. slot[s].score \in Nat /\ slot[s].added \in Nat
        BY <2>1, CallTypes
    <2>3. slot[s].added + KeyTTL > clock'
        BY <1>1, <1>2, <1>3, <2>1, <2>2
    <2> QED
        BY <1>1, <2>1, <2>3 DEF OrgKeyAlive
<1>4. InTime'
    <2>1. ASSUME NEW q \in Procs
          PROVE  /\ proc[q].pc = "ask" => clock + 1 <= proc[q].at + MaxSetup
                 /\ proc[q].pc = "held" => clock + 1 <= slot[proc[q].slot].score + MaxSetup
        <3>1. proc[q].pc = "ask" => clock + 1 <= proc[q].at + MaxSetup
            BY <1>1, <1>2, CallTypes DEF OnTime
        <3>2. CASE proc[q].pc = "held"
            <4>1. slot[proc[q].slot].score \in Nat
                BY <3>2, HeldFresh, CallTypes
            <4> QED
                BY <1>1, <1>2, <3>1, <3>2, <4>1 DEF OnTime
        <3> QED
            BY <3>1, <3>2
    <2>2. ASSUME NEW s \in Slots
          PROVE  /\ call[s].state = "setup" => clock + 1 <= slot[s].score + MaxSetup
                 /\ call[s].state = "live" => clock + 1 <= call[s].start + MaxDuration + 1
        <3>1. slot[s].score \in Nat /\ call[s].start \in Nat
            BY CallTypes
        <3> QED
            BY <1>1, <1>2, <3>1 DEF OnTime
    <2> QED
        BY <1>1, <2>1, <2>2 DEF CallInv, InTime
<1>5. RunsBound'
    <2>1. Minted' = Minted
        BY <1>1 DEF Minted
    <2> QED
        BY <1>1, <2>1 DEF CallInv, RunsBound
<1>6. NoMapping.slot = NoSlot /\ \A r \in Runs : mapping'[r] \in {mapping[r], NoMapping}
    BY <1>1 DEF NoMapping
<1>7. HeldAlone'
    <2>1. ASSUME NEW q \in Procs, proc[q].pc = "held"
          PROVE  /\ proc[q].slot \in orgSet' /\ proc[q].slot # NoSlot
        <3>1. /\ proc[q].slot \in orgSet /\ proc[q].slot \in Slots /\ proc[q].slot # NoSlot
              /\ slot[proc[q].slot].score \in Nat
            BY <2>1, HeldFresh, CallTypes DEF CallInv, HeldAlone
        <3>2. clock + 1 <= slot[proc[q].slot].score + MaxSetup
            BY <1>1, <1>4, <2>1 DEF InTime
        <3>3. slot[proc[q].slot].score + StaleTimeout > clock'
            BY <1>1, <1>2, <3>1, <3>2
        <3> QED
            BY <1>3, <3>1, <3>3
    <2> QED
        BY <1>1, <1>6, <2>1 DEF CallInv, HeldAlone
<1>13. InProgress' = InProgress /\ Regular' = Regular
    BY <1>1 DEF InProgress, Regular
<1>8. ReleasesOver'
    BY <1>1, <1>13 DEF CallInv, ReleasesOver
<1>9. MappingsTrue'
    BY <1>1, <1>6, CallTypes DEF CallInv, MappingsTrue
<1>14. ASSUME NEW s \in Slots, NEW r \in Runs, mapping[r].slot = s,
              slot[s].score + StaleTimeout > clock + 1
       PROVE  mapping'[r].slot = s
    <2>1. s # NoSlot /\ slot[s].score \in Nat
        BY CallTypes
    <2>2. slot[s].score <= mapping[r].at /\ mapping[r].at \in Nat
        BY <1>14, <2>1, CallTypes DEF CallInv, MappingsTrue, TypeOK, MapInfo
    <2>3. ~(mapping[r].at + MappingTTL <= clock')
        BY <1>1, <1>2, <1>14, <2>1, <2>2
    <2> QED
        BY <1>1, <1>14, <2>3
<1>10. InProgressKept'
    <2> SUFFICES ASSUME NEW s \in InProgress \cap Regular
                 PROVE  s \in orgSet' /\ mapping'[call[s].run].slot = s
        BY <1>1, <1>13 DEF InProgressKept
    <2>1. /\ s \in Slots /\ slot[s].score \in Nat /\ call[s].start \in Nat
          /\ call[s].run \in Runs
        BY ProgressFresh, CallTypes
    <2>2. s \in orgSet /\ mapping[call[s].run].slot = s
        BY DEF CallInv, InProgressKept
    <2>3. slot[s].score + StaleTimeout > clock + 1
        <3>1. CASE call[s].state = "setup"
            <4>1. clock + 1 <= slot[s].score + MaxSetup
                BY <1>1, <1>4, <2>1, <3>1 DEF InTime
            <4> QED
                BY <1>2, <2>1, <4>1
        <3>2. CASE call[s].state = "live"
            <4>1. /\ call[s].start <= slot[s].score + MaxSetup
                  /\ clock + 1 <= call[s].start + MaxDuration + 1
                BY <1>1, <1>4, <2>1, <3>2 DEF InTime
            <4> QED
                BY <1>2, <2>1, <4>1
        <3> QED
            BY <3>1, <3>2 DEF InProgress
    <2> QED
        BY <1>1, <1>3, <1>14, <2>1, <2>2, <2>3
<1>11. BoundSlotRecoverable'
    <2> SUFFICES ASSUME NEW s \in (orgSet \cup scopeSet \cup fleet) \cap Regular,
                        slot[s].score + StaleTimeout > clock + 1, call[s].run # NoRun
                 PROVE  mapping'[call[s].run].slot = s
        BY <1>1, <1>13 DEF BoundSlotRecoverable, Fresh
    <2>1. s \in Slots /\ call[s].run \in Runs /\ slot[s].score \in Nat
        BY CallTypes
    <2>2. Fresh(s)
        BY <1>2, <2>1 DEF Fresh
    <2>3. mapping[call[s].run].slot = s
        BY <2>2 DEF CallInv, BoundSlotRecoverable
    <2> QED
        BY <1>14, <2>1, <2>3
<1>12. PendingHeld'
    BY <1>1 DEF CallInv, PendingHeld
<1> QED
    BY <1>4, <1>5, <1>7, <1>8, <1>9, <1>10, <1>11, <1>12 DEF CallPart

-----------------------------------------------------------------------------
(* The invariant is inductive.                                              *)

LEMMA CallInit == CallsAreShort /\ Init => CallInv
<1> SUFFICES ASSUME CallsAreShort, Init PROVE CallInv
    OBVIOUS
<1>1. CountInv
    BY CountInit
<1>2. Minted = {} /\ InProgress = {} /\ \A s \in Slots : call[s].run = NoRun /\ call[s].state = "new"
    BY DEF Init, Minted, InProgress
<1>3. \A p \in Procs : proc[p].pc = "idle" /\ proc[p].slot = NoSlot
    BY DEF Init, Idle
<1>4. \A r \in Runs : mapping[r] = NoMapping /\ mapping[r].slot = NoSlot
    BY DEF Init, NoMapping
<1>5. InTime /\ RunsBound
    BY <1>2, <1>3, ConstantsAssumption DEF InTime, RunsBound
<1>6. HeldAlone /\ ReleasesOver /\ MappingsTrue
    BY <1>2, <1>3, <1>4 DEF HeldAlone, ReleasesOver, Releasing, MappingsTrue
<1>7. InProgressKept /\ BoundSlotRecoverable /\ PendingHeld
    BY <1>2 DEF Init, InProgressKept, BoundSlotRecoverable, PendingHeld
<1> QED
    BY <1>1, <1>5, <1>6, <1>7 DEF CallInv

LEMMA CallStep == CallsAreShort /\ CallInv /\ [Next]_vars => CallInv'
<1> SUFFICES ASSUME CallsAreShort, CallInv, [Next]_vars PROVE CallInv'
    OBVIOUS
<1>1. CountInv'
    BY CountStep DEF CallInv
<1>2. ASSUME NEW p \in Procs, LocalAction(p) PROVE CallPart'
    <2>1. Local(p)
        BY <1>2, LocalSteps
    <2>2. /\ InTime' /\ RunsBound' /\ HeldAlone' /\ ReleasesOver' /\ MappingsTrue'
          /\ InProgressKept' /\ BoundSlotRecoverable'
        BY <2>1, LocalStep
    <2>3. PendingHeld'
        BY <1>2, LocalHeld
    <2> QED
        BY <2>2, <2>3 DEF CallPart
<1>3. ASSUME NEW p \in Procs, Step(p) \/ Crash(p) PROVE CallPart'
    BY <1>2, <1>3, GrantedStep, BindStep, UnmapStep DEF Step, LocalAction
<1>4. ASSUME NEW p \in Cleaners, NEW r \in Runs, BeginRelease(p, r) PROVE CallPart'
    <2>1. p \in Procs /\ \E x \in Runs : p \in Cleaners /\ BeginRelease(p, x)
        BY <1>4 DEF Procs
    <2>2. LocalAction(p)
        BY <2>1 DEF LocalAction
    <2> QED
        BY <1>2, <2>1, <2>2
<1>5. ASSUME UNCHANGED vars PROVE CallPart'
    <2>1. Minted' = Minted /\ InProgress' = InProgress /\ Regular' = Regular
        BY <1>5 DEF vars, Minted, InProgress, Regular
    <2>2. UNCHANGED <<clock, orgSet, scopeSet, fleet, slot, mapping, proc, call, mistaken>>
        BY <1>5 DEF vars
    <2>3. InTime'
        BY <2>2 DEF CallInv, InTime
    <2>4. RunsBound'
        BY <2>1, <2>2 DEF CallInv, RunsBound
    <2>5. HeldAlone'
        BY <2>2 DEF CallInv, HeldAlone
    <2>6. ReleasesOver'
        BY <2>1, <2>2 DEF CallInv, ReleasesOver
    <2>7. MappingsTrue' /\ InProgressKept'
        BY <2>1, <2>2 DEF CallInv, MappingsTrue, InProgressKept
    <2>8. BoundSlotRecoverable' /\ PendingHeld'
        BY <2>1, <2>2 DEF CallInv, BoundSlotRecoverable, PendingHeld, Fresh
    <2> QED
        BY <2>3, <2>4, <2>5, <2>6, <2>7, <2>8 DEF CallPart
<1>6. CallPart'
    BY <1>3, <1>4, <1>5, WorldStep, TickStep DEF Next
<1> QED
    BY <1>1, <1>6 DEF CallInv, CallPart

\* The invariant that the calls, the runs and the mappings rest on.
THEOREM CallInvariant == ASSUME CallsAreShort PROVE Spec => []CallInv
BY CallInit, CallStep, PTL DEF Spec

\* The calls in progress of an organization never exceed its limit: no call loses
\* its slot to a stale cutoff, to a failed clean-up or to a duplicate one, unless
\* that one was mistaken for the clean-up of a newer call of its run.
THEOREM CallsWithinLimitHolds == ASSUME CallsAreShort PROVE Spec => []CallsWithinLimit
<1>1. ASSUME CallInv PROVE CallsWithinLimit
    <2> SUFFICES ASSUME NEW o \in Orgs
                 PROVE  \E l \in OrgLimits :
                            Cardinality(OfOrg(InProgress \cap Regular, o)) <= l
        BY DEF CallsWithinLimit
    <2>1. PICK l \in OrgLimits : Cardinality(OfOrg(orgSet, o)) <= l
        BY <1>1 DEF CallInv, CountInv, OrgWithinLimit
    <2>2. l \in Nat /\ IsFiniteSet(OfOrg(orgSet, o))
        BY <1>1, ConstantsAssumption, FS_Subset DEF OfOrg, CallInv, CountInv, SetsFinite
    <2>3. OfOrg(InProgress \cap Regular, o) \subseteq OfOrg(orgSet, o)
        BY <1>1 DEF OfOrg, CallInv, InProgressKept
    <2> QED
        BY <2>1, <2>2, <2>3, SmallerSubset
<1> QED
    BY <1>1, CallInvariant, PTL

\* Of several starts of one run, again after a call of it too, at most one has a call
\* set up or in progress, unless a clean-up of an earlier one was mistaken.
THEOREM OneCallPerRunHolds == ASSUME CallsAreShort PROVE Spec => []OneCallPerRun
<1>1. ASSUME CallInv PROVE OneCallPerRun
    BY <1>1 DEF CallInv, InProgressKept, OneCallPerRun
<1> QED
    BY <1>1, CallInvariant, PTL

\* "The slot mapping survives a failed release, so a later cleanup path recovers
\* it", under any fault, cancellation and interleaving of cleanups, but for the runs
\* whose newer mapping a late clean-up of an earlier call took for its own.
THEOREM BoundSlotRecoverableHolds == ASSUME CallsAreShort PROVE Spec => []BoundSlotRecoverable
<1>1. CallInv => BoundSlotRecoverable
    BY DEF CallInv
<1> QED
    BY <1>1, CallInvariant, PTL

\* Without faults whatever a sorted set counts is held, being released, or mapped, but
\* for the slots of the runs whose newer mapping a late clean-up deleted.
THEOREM NoSlotForgottenHolds == ASSUME CallsAreShort PROVE Spec => []NoSlotForgotten
<1>1. ASSUME CallInv PROVE NoSlotForgotten
    <2> SUFFICES ASSUME ~RedisFaults, ~Crashes,
                        NEW s \in (orgSet \cup scopeSet \cup fleet) \cap Regular, Fresh(s)
                 PROVE  \/ \E p \in Procs : proc[p].slot = s
                        \/ \E r \in Runs : mapping[r].slot = s
        BY DEF NoSlotForgotten
    <2>1. CASE call[s].run = NoRun
        BY <1>1, <2>1 DEF CallInv, PendingHeld
    <2>2. CASE call[s].run # NoRun
        <3>1. s \in Slots /\ call[s].run \in Runs
            BY <1>1, <2>2, CallTypes
        <3>2. mapping[call[s].run].slot = s
            BY <1>1, <2>2 DEF CallInv, BoundSlotRecoverable
        <3> QED
            BY <3>1, <3>2
    <2> QED
        BY <2>1, <2>2
<1> QED
    BY <1>1, CallInvariant, PTL
-----------------------------------------------------------------------------
(* The refinement.                                                          *)

Calling == InProgress \cap Regular
InCall == {<<call[s].run, slot[s].org>> : s \in Calling}

\* What is known of the call of a run that no clean-up was mistaken about.
LEMMA CallingFacts ==
    ASSUME CallsAreShort, CallInv, NEW s \in Calling
    PROVE  /\ s \in InProgress /\ s \in Slots /\ s \in Minted /\ s \in orgSet
           /\ call[s].run \in Runs /\ slot[s].org \in Orgs
           /\ mapping[call[s].run].slot = s
BY ProgressFresh DEF Calling, CallInv, InProgressKept, RunsBound

\* The runs an organization has in a call are as many as its slots in progress.
LEMMA RunsInCall ==
    ASSUME CallsAreShort, CallInv, NEW o \in Orgs
    PROVE  /\ IsFiniteSet(OfOrg(Calling, o))
           /\ IsFiniteSet({r \in Runs : <<r, o>> \in InCall})
           /\ Cardinality({r \in Runs : <<r, o>> \in InCall}) <= Cardinality(OfOrg(Calling, o))
<1> DEFINE S == {r \in Runs : <<r, o>> \in InCall}
           T == OfOrg(Calling, o)
           f == [r \in S |-> mapping[r].slot]
<1>1. IsFiniteSet(T)
    <2>1. T \subseteq orgSet
        BY CallingFacts DEF OfOrg
    <2> QED
        BY <2>1, FS_Subset DEF CallInv, CountInv, SetsFinite
<1>2. \A r \in S : f[r] \in T /\ call[f[r]].run = r
    <2> SUFFICES ASSUME NEW r \in S PROVE f[r] \in T /\ call[f[r]].run = r
        OBVIOUS
    <2>1. PICK s \in Calling : <<r, o>> = <<call[s].run, slot[s].org>>
        BY DEF InCall
    <2>2. mapping[r].slot = s
        BY <2>1, CallingFacts
    <2> QED
        BY <2>1, <2>2 DEF OfOrg
<1>3. f \in Injection(S, T)
    BY <1>2 DEF Injection, IsInjective
<1> HIDE DEF S, T, f
<1>4. IsFiniteSet(S) /\ Cardinality(S) <= Cardinality(T)
    BY <1>1, <1>3, FS_Injection
<1> QED
    BY <1>1, <1>4 DEF S, T

\* The instance counts with the same Cardinality.
LEMMA SameCount == \A S : Admission!Cardinality(S) = Cardinality(S)
BY DEF Admission!Cardinality, Cardinality

\* Storing the mapping of a run admits its call.
LEMMA BindAdmits ==
    ASSUME CallsAreShort, CallInv, NEW p \in Procs, Bind(p)
    PROVE  [Admission!Next]_InCall
<1>1. PICK r \in Runs :
         /\ mapping[r] = NoMapping
         /\ \/ call' = [call EXCEPT ![proc[p].slot].state = "setup", ![proc[p].slot].run = r]
            \/ UNCHANGED call
    BY DEF Bind
<1> DEFINE h == proc[p].slot
<1>2. /\ proc[p].pc = "held" /\ slot' = slot /\ mistaken' = mistaken
      /\ h \in Slots /\ h \in Minted /\ h \in orgSet /\ call[h].state = "pending"
      /\ r \notin mistaken => \A t \in InProgress : call[t].run # r
    BY <1>1, BindFacts DEF Bind
<1>3. CASE UNCHANGED call
    BY <1>2, <1>3 DEF InCall, Calling, InProgress, Regular
<1>4. CASE call' = [call EXCEPT ![h].state = "setup", ![h].run = r]
    <2>1. /\ call'[h].state = "setup" /\ call'[h].run = r
          /\ \A t \in Slots : t # h => call'[t] = call[t]
        BY <1>2, <1>4, CallTypes DEF TypeOK, CallInfo
    <2>2. /\ h \notin Calling /\ Calling \subseteq Slots
          /\ Calling' = IF r \in mistaken THEN Calling ELSE Calling \cup {h}
        BY <1>2, <2>1 DEF Calling, InProgress, Regular
    <2>9. \A t \in Calling : call'[t] = call[t]
        BY <2>1, <2>2
    <2>8. CASE r \in mistaken
        BY <1>2, <2>2, <2>8, <2>9 DEF InCall
    <2>10. CASE r \notin mistaken
        <3>4. PICK o \in Orgs : o = slot[h].org
            BY <1>2 DEF CallInv, RunsBound
        <3>3. InCall' = InCall \cup {<<r, o>>}
            BY <1>2, <2>1, <2>2, <2>9, <2>10, <3>4 DEF InCall
        <3>5. \A q \in Orgs : r \notin {x \in Runs : <<x, q>> \in InCall}
            BY <1>2, <2>10 DEF InCall, Calling
        <3>6. \E l \in OrgLimits : Cardinality({x \in Runs : <<x, o>> \in InCall}) < l
            <4>1. PICK l \in OrgLimits : Cardinality(OfOrg(orgSet, o)) <= l
                BY <3>4 DEF CallInv, CountInv, OrgWithinLimit
            <4> DEFINE S == {x \in Runs : <<x, o>> \in InCall}
                       T == OfOrg(Calling, o)
                       C == OfOrg(orgSet, o)
            <4>2. IsFiniteSet(T) /\ IsFiniteSet(S) /\ Cardinality(S) <= Cardinality(T)
                BY <3>4, RunsInCall
            <4>3. IsFiniteSet(C)
                BY FS_Subset DEF OfOrg, CallInv, CountInv, SetsFinite
            <4>4. T \cup {h} \subseteq C /\ h \notin T
                BY <1>2, <2>2, <3>4, CallingFacts DEF OfOrg
            <4> HIDE DEF S, T, C
            <4>5. Cardinality(T \cup {h}) = Cardinality(T) + 1
                BY <4>2, <4>4, FS_AddElement
            <4>6. Cardinality(T \cup {h}) <= Cardinality(C)
                BY <4>3, <4>4, FS_Subset
            <4>7. /\ Cardinality(S) \in Nat /\ Cardinality(T) \in Nat /\ Cardinality(C) \in Nat
                  /\ l \in Nat /\ Cardinality(C) <= l
                BY <4>1, <4>2, <4>3, FS_CardinalityType, ConstantsAssumption DEF C
            <4>8. Cardinality(S) < l
                BY <4>2, <4>5, <4>6, <4>7
            <4> QED
                BY <4>8 DEF S
        <3>7. Admission!Admit(r, o)
            BY <3>3, <3>5, <3>6, SameCount DEF Admission!Admit, Admission!RunsOf, InCall, Calling
        <3> QED
            BY <3>4, <3>7 DEF Admission!Next
    <2> QED
        BY <2>8, <2>10
<1> QED
    BY <1>1, <1>3, <1>4

\* When a call leaves the set, the call of its run ends.
LEMMA CallingShrinks ==
    ASSUME CallsAreShort, CallInv, UNCHANGED slot, NEW s \in Calling, Calling' = Calling \ {s},
           \A t \in Slots : call'[t].run = call[t].run
    PROVE  Admission!Next
<1>1. PICK r \in Runs, o \in Orgs : r = call[s].run /\ o = slot[s].org
    BY CallingFacts
<1>2. \A t \in Calling : t # s => call[t].run # r
    BY <1>1, CallingFacts
<1>3. Calling \subseteq Slots
    BY DEF Calling, InProgress
<1>4. InCall' = InCall \ {<<r, o>>} /\ <<r, o>> \in InCall
    BY <1>1, <1>2, <1>3 DEF InCall
<1>5. Admission!End(r, o)
    BY <1>1, <1>4 DEF Admission!End, Admission!RunsOf, InCall, Calling
<1> QED
    BY <1>1, <1>5 DEF Admission!Next

\* The end of a call ends it; an answered phone changes nothing.
LEMMA WorldEnds ==
    ASSUME CallsAreShort, CallInv, NEW s \in Slots, Connect(s) \/ EndCall(s)
    PROVE  [Admission!Next]_InCall
<1>1. /\ s \in InProgress /\ slot' = slot /\ mistaken' = mistaken
      /\ \A t \in Slots : call'[t].run = call[t].run /\ (t # s => call'[t] = call[t])
    BY CallTypes DEF Connect, EndCall, TypeOK, CallInfo, InProgress
<1>2. Regular' = Regular
    BY <1>1 DEF Regular
<1>3. CASE Connect(s)
    <2>1. InProgress' = InProgress
        BY <1>1, <1>3, CallTypes DEF Connect, InProgress, TypeOK, CallInfo
    <2> QED
        BY <1>1, <1>2, <2>1 DEF InCall, Calling, InProgress
<1>4. CASE EndCall(s)
    <2>1. InProgress' = InProgress \ {s}
        BY <1>1, <1>4, CallTypes DEF EndCall, InProgress, TypeOK, CallInfo
    <2>2. CASE s \in Regular
        <3>1. s \in Calling /\ Calling' = Calling \ {s}
            BY <1>1, <1>2, <2>1, <2>2 DEF Calling
        <3> QED
            BY <1>1, <3>1, CallingShrinks
    <2>3. CASE s \notin Regular
        <3>1. Calling' = Calling /\ \A t \in Calling : call'[t] = call[t]
            BY <1>1, <1>2, <2>1, <2>3 DEF Calling, InProgress
        <3> QED
            BY <1>1, <3>1 DEF InCall
    <2> QED
        BY <2>2, <2>3
<1> QED
    BY <1>3, <1>4

\* A clean-up that is mistaken about a run ends its call for the callers.
LEMMA MistakeEnds ==
    ASSUME CallsAreShort, CallInv, NEW r \in Runs, mistaken' = mistaken \cup {r},
           UNCHANGED <<slot, call>>
    PROVE  [Admission!Next]_InCall
<1>1. Calling' = {s \in Calling : call[s].run # r}
    BY DEF Calling, InProgress, Regular
<1>2. CASE \E s \in Calling : call[s].run = r
    <2>1. PICK s \in Calling : call[s].run = r
        BY <1>2
    <2>2. Calling' = Calling \ {s}
        BY <1>1, <2>1, CallingFacts
    <2> QED
        BY <2>1, <2>2, CallingShrinks
<1>3. CASE ~\E s \in Calling : call[s].run = r
    <2>1. Calling' = Calling
        BY <1>1, <1>3
    <2> QED
        BY <2>1 DEF InCall
<1> QED
    BY <1>2, <1>3

\* Every other step is one the callers do not see, or a mistake about a run.
LEMMA OtherStutters ==
    ASSUME CallsAreShort, CallInv, [Next]_vars, \A p \in Procs : ~Bind(p),
           \A s \in Slots : ~Connect(s) /\ ~EndCall(s)
    PROVE  [Admission!Next]_InCall
<1>1. \A s \in Calling : s \in Slots /\ s \in Minted
    BY DEF Calling, InProgress, Minted
<1>2. CASE \E p \in Procs : Granted(p)
    <2>1. PICK p \in Procs, s \in Slots \ Minted : AddSlot(p, s) /\ mistaken' = mistaken
        BY <1>2 DEF Granted
    <2>2. /\ call'[s].state = "pending" /\ call[s].state = "new"
          /\ \A t \in Slots : t # s => call'[t] = call[t] /\ slot'[t] = slot[t]
        BY <2>1, CallTypes DEF AddSlot, TypeOK, CallInfo, Minted
    <2>3. Calling' = Calling /\ s \notin Calling
        BY <2>1, <2>2 DEF Calling, InProgress, Regular
    <2> QED
        BY <1>1, <2>2, <2>3 DEF InCall
<1>3. CASE ~\E p \in Procs : Granted(p)
    <2>1. call' = call /\ slot' = slot
        BY <1>3 DEF Next, Step, Ask, AskAgain, Denied, GiveUp, BindRefused, Abandon, ZremOrg,
                    ZremFleet, ZremScope, Unmap, Crash, BeginRelease, Tick, vars
    <2>2. mistaken' = mistaken \/ \E r \in Runs : mistaken' = mistaken \cup {r}
        <3>1. ASSUME NEW p \in Cleaners, NEW r \in Runs, BeginRelease(p, r)
              PROVE  mistaken' = mistaken \/ mistaken' = mistaken \cup {r}
            BY <3>1 DEF BeginRelease
        <3>2. ASSUME NEW p \in Procs, Unmap(p)
              PROVE  /\ proc[p].run \in Runs
                     /\ mistaken' = mistaken \/ mistaken' = mistaken \cup {proc[p].run}
            <4>1. proc[p].run # NoRun
                BY <3>2 DEF Unmap, CallInv, ReleasesOver, Releasing
            <4>2. proc[p].run \in Runs
                BY <4>1, CallTypes DEF TypeOK, ProcInfo
            <4> QED
                BY <3>2, <4>2 DEF Unmap
        <3>3. ASSUME NEW p \in Procs, Step(p) \/ Crash(p), ~Unmap(p)
              PROVE  mistaken' = mistaken
            BY <1>3, <3>3 DEF Step, Ask, AskAgain, Denied, GiveUp, Bind, BindRefused, Abandon,
                              ZremOrg, ZremFleet, ZremScope, Crash
        <3>4. ASSUME Tick \/ UNCHANGED vars PROVE mistaken' = mistaken
            BY <3>4 DEF Tick, vars
        <3> QED
            BY <3>1, <3>2, <3>3, <3>4 DEF Next
    <2>3. CASE mistaken' = mistaken
        BY <2>1, <2>3 DEF InCall, Calling, InProgress, Regular
    <2>4. CASE \E r \in Runs : mistaken' = mistaken \cup {r}
        BY <2>1, <2>4, MistakeEnds
    <2> QED
        BY <2>2, <2>3, <2>4
<1> QED
    BY <1>2, <1>3

\* The component implements CallAdmission: a start is admitted only while the
\* organization is below its limit and the run has no call, whatever happens to
\* Redis, the coroutines and their workers.  A clean-up that is mistaken about a run
\* that was started again ends its call; the run is not counted any more.
THEOREM RefinesCallAdmission == ASSUME CallsAreShort PROVE Spec => ImplementsAdmission
<1>1. Init => Admission!Init
    BY DEF Init, Admission!Init, InProgress
<1>2. ASSUME CallInv, [Next]_vars PROVE [Admission!Next]_InCall
    BY <1>2, BindAdmits, WorldEnds, OtherStutters
<1>3. CallInv /\ [Next]_vars =>
         [Admission!Next]_({<<call[s].run, slot[s].org>> : s \in InProgress \cap Regular})
    BY <1>2 DEF InCall, Calling
<1> QED
    BY <1>1, <1>3, CallInvariant, PTL DEF Spec, ImplementsAdmission, Admission!Spec
=============================================================================

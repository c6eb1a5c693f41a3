------------------------ MODULE FromNumberPoolProofs ------------------------
(***************************************************************************)
(* Proofs about FromNumberPool, for every number of caller ids, runs,      *)
(* dispatchers and cleaners, whatever fails and however often callbacks    *)
(* come.  The types need nothing; that a caller id which is not spoilt has *)
(* one user needs that a use ends before it looks stale, and before a key  *)
(* expires that was renewed when the batch began.                          *)
(***************************************************************************)
EXTENDS FromNumberPool, FiniteSetTheorems, TLAPS

USE DEF Procs

-----------------------------------------------------------------------------
(* Type correctness.                                                        *)

\* A stored mapping names a configured number.
MappingsName ==
    \A r \in Runs : mapping[r] = NoMapping \/ mapping[r].number \in Numbers

PoolTypes == TypeOK /\ MappingsName

\* An idle coroutine handles no run.
LEMMA IdleType ==
    Idle \in ProcInfo /\ Idle.pc = "idle" /\ Idle.run = NoRun /\ Idle.number = NoNumber
BY DEF Idle, ProcInfo, PCs

\* Nor does a dispatcher between two rows.
LEMMA InBatchType ==
    ASSUME NEW pc \in {"refresh", "batch"}, NEW t \in Nat
    PROVE  /\ InBatch(pc, t) \in ProcInfo /\ InBatch(pc, t).run = NoRun
           /\ InBatch(pc, t).number = NoNumber
           /\ InBatch(pc, t).pc = pc /\ InBatch(pc, t).began = t
BY DEF InBatch, Idle, ProcInfo, PCs

\* Nor does one that is done: a dispatcher is back in its batch.
LEMMA DoneType ==
    ASSUME proc \in [Procs -> ProcInfo], NEW p \in Procs
    PROVE  /\ Done(p) \in ProcInfo /\ Done(p).run = NoRun /\ Done(p).number = NoNumber
           /\ p \in Dispatchers => Done(p).pc = "batch" /\ Done(p).began = proc[p].began
           /\ p \notin Dispatchers => Done(p).pc = "idle"
<1>1. proc[p].began \in Nat
    BY DEF ProcInfo
<1> QED
    BY <1>1, InBatchType, IdleType DEF Done

\* release_call_slot begins with the run that was to be dialled.
LEMMA ToReleaseType ==
    ASSUME proc \in [Procs -> ProcInfo], NEW p \in Procs
    PROVE  /\ ToRelease(p) \in ProcInfo /\ ToRelease(p).pc = "get"
           /\ ToRelease(p).run = proc[p].run /\ ToRelease(p).began = proc[p].began
BY DEF ToRelease, Idle, ProcInfo, PCs

\* A coroutine that was turned down keeps everything but the clock it read.
LEMMA TriesAgainType ==
    ASSUME proc \in [Procs -> ProcInfo], NEW p \in Procs
    PROVE  /\ TriesAgain(p) \in ProcInfo /\ TriesAgain(p).pc = "wait"
           /\ TriesAgain(p).run = proc[p].run /\ TriesAgain(p).began = proc[p].began
BY DEF TriesAgain, ProcInfo, PCs

\* The absent mapping is one.
LEMMA NoMappingType == NoMapping \in MapInfo
BY DEF NoMapping, MapInfo

\* The initial state has the declared types.
LEMMA InitType == Init => PoolTypes
<1> SUFFICES ASSUME Init PROVE PoolTypes
    OBVIOUS
<1>1. proc \in [Procs -> ProcInfo] /\ \A p \in Procs : proc[p].pc = "idle"
    BY IdleType DEF Init
<1>2. call \in [Runs -> CallInfo]
    BY DEF Init, CallInfo
<1>3. mapping \in [Runs -> MapInfo] /\ MappingsName
    BY NoMappingType DEF Init, MappingsName
<1>4. DOMAIN pool = {}
    BY DEF Init, EmptyPool
<1> QED
    BY <1>1, <1>2, <1>3, <1>4 DEF Init, TypeOK, PoolTypes

\* Resetting the stale numbers keeps the numbers and frees some of them.
LEMMA ResetType ==
    ASSUME TypeOK, NEW p \in Procs
    PROVE  /\ DOMAIN StaleReset(p) = DOMAIN pool
           /\ \A n \in DOMAIN pool : /\ StaleReset(p)[n] \in {0, pool[n]}
                                     /\ StaleReset(p)[n] \in Nat
BY DEF StaleReset, TypeOK

\* The types of the pool after a step that leaves the types of the rest alone.
PoolType == DOMAIN pool \subseteq Numbers /\ \A n \in DOMAIN pool : pool[n] \in Nat

ProcType ==
    /\ proc \in [Procs -> ProcInfo]
    /\ \A p \in Procs :
          /\ proc[p].pc \in {"held", "dial", "free", "unmap"} => proc[p].number \in Numbers
          /\ proc[p].pc \in {"dial", "get", "unmap"} => proc[p].run \in Runs

RestType ==
    /\ clock \in Nat /\ poolUntil \in Nat
    /\ mapping \in [Runs -> MapInfo] /\ MappingsName
    /\ call \in [Runs -> CallInfo]
    /\ spoilt \subseteq Numbers

FlagType == unrefreshed \in BOOLEAN

\* The types are those of the four parts.
LEMMA PoolTypesParts == PoolTypes <=> PoolType /\ ProcType /\ RestType /\ FlagType
BY Zenon DEF PoolTypes, TypeOK, PoolType, ProcType, RestType, FlagType

\* The flag is raised and never lowered.
LEMMA FlagStep == FlagType /\ [Next]_vars => FlagType'
<1> SUFFICES ASSUME FlagType, [Next]_vars PROVE FlagType'
    OBVIOUS
<1>1. unrefreshed' = unrefreshed \/ unrefreshed' = TRUE
    <2>1. ASSUME NEW p \in Procs, Step(p) \/ Crash(p)
          PROVE  unrefreshed' = unrefreshed \/ unrefreshed' = TRUE
        BY <2>1, Zenon DEF Step, InitializePool, RefreshPool, EndBatch, Ask, AskAgain, Fallback,
           Acquire,
           TurnedDown, GiveUp, Abandon, StoreMapping, Dial, DialFails, DialForgotten,
           RecordFails, GetMapping, Release, Unmap, Crash
    <2> QED
        BY <2>1, Zenon DEF Next, StatusCallback, EndCall, Tick, vars
<1> QED
    BY <1>1, Zenon DEF FlagType

\* A step changes one coroutine at most; it is enough to look at that one.
LEMMA OneProcType ==
    ASSUME ProcType, NEW p \in Procs, NEW i \in ProcInfo,
           proc' = [proc EXCEPT ![p] = i],
           i.pc \in {"held", "dial", "free", "unmap"} => i.number \in Numbers,
           i.pc \in {"dial", "get", "unmap"} => i.run \in Runs
    PROVE  ProcType'
BY DEF ProcType

\* Every step preserves the types.
LEMMA StepType == PoolTypes /\ [Next]_vars => PoolTypes'
<1> SUFFICES ASSUME PoolType, ProcType, RestType, TypeOK, MappingsName, [Next]_vars
             PROVE  PoolType' /\ ProcType' /\ RestType'
    <2>1. PoolTypes' <=> PoolType' /\ ProcType' /\ RestType' /\ FlagType'
        BY PoolTypesParts, PTL
    <2> QED
        BY <2>1, PoolTypesParts, FlagStep DEF PoolTypes
<1> USE ConstantsAssumption
<1> DEFINE Goal == PoolType' /\ ProcType' /\ RestType'
<1>0. proc \in [Procs -> ProcInfo]
    BY DEF ProcType
<1>1. ASSUME NEW p \in Procs, InitializePool(p) PROVE Goal
    <2>1. PICK s \in {"refresh", "batch"} : proc' = [proc EXCEPT ![p] = InBatch(s, clock)]
        BY <1>1 DEF InitializePool
    <2>2. InBatch(s, clock) \in ProcInfo /\ InBatch(s, clock).pc \in {"refresh", "batch"}
        BY InBatchType DEF RestType
    <2>3. ProcType'
        BY <2>1, <2>2, OneProcType
    <2>4. PoolType'
        BY <1>1 DEF InitializePool, AddedNumbers, PoolType
    <2> QED
        BY <1>1, <2>3, <2>4 DEF InitializePool, RestType, MappingsName
<1>17. ASSUME NEW p \in Procs, RefreshPool(p) PROVE Goal
    <2>1. ProcType'
        BY <1>17 DEF RefreshPool, ProcType, ProcInfo, PCs
    <2> QED
        BY <1>17, <2>1 DEF RefreshPool, PoolType, RestType, MappingsName
<1>2. ASSUME NEW p \in Procs, Ask(p) PROVE Goal
    <2>1. ProcType'
        BY <1>2 DEF Ask, ProcType, ProcInfo, PCs, RestType
    <2> QED
        BY <1>2, <2>1 DEF Ask, PoolType, RestType, MappingsName
<1>3. ASSUME NEW p \in Procs, AskAgain(p) \/ Fallback(p) PROVE Goal
    <2>1. ProcType'
        BY <1>3 DEF AskAgain, Fallback, ProcType, ProcInfo, PCs, RestType
    <2> QED
        BY <1>3, <2>1 DEF AskAgain, Fallback, PoolType, RestType, MappingsName
<1>4. ASSUME NEW p \in Procs, Acquire(p) PROVE Goal
    <2>1. PICK n \in Available(p) :
             /\ pool' = [StaleReset(p) EXCEPT ![n] = proc[p].at]
             /\ \/ proc' = [proc EXCEPT ![p].pc = "held", ![p].preferred = NoNumber,
                                        ![p].number = n]
                \/ proc' = [proc EXCEPT ![p] = Idle]
                \/ proc' = [proc EXCEPT ![p] = TriesAgain(p)]
        BY <1>4 DEF Acquire
    <2>2. n \in Numbers /\ proc[p].at \in Nat
        BY DEF Available, Wanted, PoolType, ProcType, ProcInfo
    <2>3. PoolType'
        BY <2>1, <2>2, ResetType DEF PoolType
    <2>4. ProcType'
        <3>1. CASE proc' = [proc EXCEPT ![p].pc = "held", ![p].preferred = NoNumber,
                                        ![p].number = n]
            BY <3>1, <2>2 DEF ProcType, ProcInfo, PCs
        <3>2. CASE proc' = [proc EXCEPT ![p] = Idle]
            BY <3>2, IdleType DEF ProcType
        <3>3. CASE proc' = [proc EXCEPT ![p] = TriesAgain(p)]
            BY <1>0, <3>3, TriesAgainType DEF ProcType
        <3> QED
            BY <2>1, <3>1, <3>2, <3>3
    <2> QED
        BY <1>4, <2>3, <2>4 DEF Acquire, RestType, MappingsName
<1>5. ASSUME NEW p \in Procs, TurnedDown(p) PROVE Goal
    <2>1. PoolType'
        BY <1>5, ResetType DEF TurnedDown, PoolType
    <2>2. ProcType'
        BY <1>0, <1>5, IdleType, TriesAgainType DEF TurnedDown, ProcType
    <2> QED
        BY <1>5, <2>1, <2>2 DEF TurnedDown, RestType, MappingsName
<1>6. ASSUME NEW p \in Procs, GiveUp(p) \/ EndBatch(p) PROVE Goal
    BY <1>6, IdleType DEF GiveUp, EndBatch, PoolType, ProcType, RestType, MappingsName
<1>7. ASSUME NEW p \in Procs, Abandon(p) PROVE Goal
    <2>1. ProcType'
        BY <1>7 DEF Abandon, ProcType, ProcInfo, PCs
    <2> QED
        BY <1>7, <2>1 DEF Abandon, PoolType, RestType, MappingsName
<1>8. ASSUME NEW p \in Procs, StoreMapping(p) PROVE Goal
    <2>1. PICK r \in Runs :
             /\ call' = [call EXCEPT ![r] = [state |-> "dialing", number |-> proc[p].number,
                                             since |-> proc[p].at, reported |-> FALSE]]
             /\ proc' = [proc EXCEPT ![p].pc = "dial", ![p].at = 0, ![p].run = r]
             /\ \/ mapping' = [mapping EXCEPT ![r] = [number |-> proc[p].number,
                                                      until |-> clock + MappingTTL]]
                \/ mapping' = [mapping EXCEPT ![r] = [number |-> proc[p].number,
                                                      until |-> Horizon + 1]]
                \/ UNCHANGED mapping
        BY <1>8 DEF StoreMapping
    <2>2. proc[p].number \in Numbers /\ proc[p].at \in Nat
        BY <1>8 DEF StoreMapping, ProcType, ProcInfo
    <2>3. ProcType'
        BY <2>1, <2>2 DEF ProcType, ProcInfo, PCs
    <2>4. call' \in [Runs -> CallInfo]
        BY <2>1, <2>2 DEF RestType, CallInfo
    <2>5. mapping' \in [Runs -> MapInfo] /\ MappingsName'
        BY <2>1, <2>2 DEF RestType, MapInfo, MappingsName
    <2> QED
        BY <1>8, <2>3, <2>4, <2>5 DEF StoreMapping, PoolType, RestType
<1>9. ASSUME NEW p \in Procs, Dial(p) \/ DialForgotten(p) \/ Crash(p) PROVE Goal
    <2>1. ProcType'
        BY <1>0, <1>9, IdleType, DoneType DEF Dial, DialForgotten, Crash, ProcType
    <2>2. call' \in [Runs -> CallInfo]
        BY <1>9 DEF Dial, DialForgotten, Crash, RestType, CallInfo
    <2> QED
        BY <1>9, <2>1, <2>2 DEF Dial, DialForgotten, Crash, PoolType, RestType, MappingsName
<1>18. \A r \in Runs : Spoils(r) \subseteq Numbers
    BY DEF Spoils, MappingsName
<1>10. ASSUME NEW p \in Procs, DialFails(p) \/ RecordFails(p) PROVE Goal
    <2>1. proc[p].run \in Runs /\ proc' = [proc EXCEPT ![p] = ToRelease(p)]
        BY <1>10 DEF DialFails, RecordFails, ProcType
    <2>2. ProcType'
        BY <1>0, <2>1, ToReleaseType, OneProcType
    <2>3. call' \in [Runs -> CallInfo]
        BY <1>10 DEF DialFails, RecordFails, RestType, CallInfo
    <2>4. spoilt' \subseteq Numbers
        BY <1>10, <1>18, <2>1 DEF DialFails, RecordFails, RestType
    <2> QED
        BY <1>10, <2>2, <2>3, <2>4 DEF DialFails, RecordFails, PoolType, RestType, MappingsName
<1>11. ASSUME NEW p \in Cleaners, NEW r \in Runs, StatusCallback(p, r) PROVE Goal
    <2>1. proc' = [proc EXCEPT ![p] = [Idle EXCEPT !.pc = "get", !.run = r]]
        BY <1>11 DEF StatusCallback
    <2>2. [Idle EXCEPT !.pc = "get", !.run = r] \in ProcInfo
        BY DEF Idle, ProcInfo, PCs
    <2>3. /\ [Idle EXCEPT !.pc = "get", !.run = r].pc = "get"
          /\ [Idle EXCEPT !.pc = "get", !.run = r].run = r
        BY DEF Idle
    <2>4. ProcType'
        BY <2>1, <2>2, <2>3, OneProcType
    <2>5. call' \in [Runs -> CallInfo]
        BY <1>11 DEF StatusCallback, RestType, CallInfo
    <2>6. spoilt' \subseteq Numbers
        BY <1>11, <1>18 DEF StatusCallback, RestType
    <2> QED
        BY <1>11, <2>4, <2>5, <2>6 DEF StatusCallback, PoolType, RestType, MappingsName
<1>12. ASSUME NEW p \in Procs, GetMapping(p) PROVE Goal
    <2>1. proc[p].run \in Runs
        BY <1>12 DEF GetMapping, ProcType
    <2>2. CASE /\ mapping[proc[p].run] # NoMapping
               /\ proc' = [proc EXCEPT ![p].pc = "free",
                                       ![p].number = mapping[proc[p].run].number]
        <3>1. mapping[proc[p].run].number \in Numbers
            BY <2>1, <2>2 DEF MappingsName
        <3> QED
            BY <1>12, <2>2, <3>1 DEF GetMapping, PoolType, ProcType, ProcInfo, PCs, RestType,
               MappingsName
    <2>3. CASE proc' = [proc EXCEPT ![p] = Done(p)]
        BY <1>0, <1>12, <2>3, DoneType DEF GetMapping, PoolType, ProcType, RestType, MappingsName
    <2> QED
        BY <1>12, <2>2, <2>3 DEF GetMapping
<1>13. ASSUME NEW p \in Procs, Release(p) PROVE Goal
    <2>1. PoolType'
        BY <1>13 DEF Release, PoolType
    <2>2. ProcType'
        <3>1. proc' = [proc EXCEPT ![p] = Done(p)] => ProcType'
            BY <1>0, DoneType DEF ProcType
        <3>2. proc[p].run # NoRun => proc[p].run \in Runs
            BY DEF ProcType, ProcInfo
        <3>3. proc[p].run # NoRun /\ proc' = [proc EXCEPT ![p] = [proc[p] EXCEPT !.pc = "unmap"]]
                 => ProcType'
            BY <1>13, <3>2 DEF Release, ProcType, ProcInfo, PCs
        <3> QED
            BY <1>13, <3>1, <3>3 DEF Release
    <2> QED
        BY <1>13, <2>1, <2>2 DEF Release, RestType, MappingsName
<1>14. ASSUME NEW p \in Procs, Unmap(p) PROVE Goal
    BY <1>0, <1>14, DoneType, NoMappingType DEF Unmap, PoolType, ProcType, RestType, MappingsName
<1>15. ASSUME NEW r \in Runs, EndCall(r) PROVE Goal
    BY <1>15 DEF EndCall, PoolType, ProcType, RestType, CallInfo, MappingsName
<1>16. ASSUME Tick PROVE Goal
    <2>1. mapping' \in [Runs -> MapInfo] /\ MappingsName'
        BY <1>16, NoMappingType DEF Tick, RestType, MappingsName
    <2>2. PoolType'
        BY <1>16 DEF Tick, PoolType, EmptyPool
    <2>3. spoilt' \subseteq Numbers
        BY <1>16 DEF Tick, RestType, PoolType
    <2> QED
        BY <1>16, <2>1, <2>2, <2>3 DEF Tick, ProcType, RestType
<1>19. CASE UNCHANGED vars
    BY <1>19 DEF vars, PoolType, ProcType, RestType, MappingsName
<1> QED
    BY <1>1, <1>2, <1>3, <1>4, <1>5, <1>6, <1>7, <1>8, <1>9, <1>10, <1>11, <1>12,
       <1>13, <1>14, <1>15, <1>16, <1>17, <1>19 DEF Next, Step

\* Every reachable state has the declared types: only configured numbers are
\* offered, mapped and released (acquire_from_number, release_from_number).
THEOREM TypeCorrect == Spec => []TypeOK
<1>1. PoolTypes => TypeOK
    BY DEF PoolTypes
<1> QED
    BY <1>1, InitType, StepType, PTL DEF Spec

-----------------------------------------------------------------------------
(* Coroutines and clocks.                                                   *)

\* At first nobody asks and no number is used.
LEMMA InitPoolInv == Init => PoolInv
<1> SUFFICES ASSUME Init PROVE PoolInv
    OBVIOUS
<1>1. TypeOK
    BY InitType DEF PoolTypes
<1>2. \A p \in Procs : proc[p].pc = "idle" /\ proc[p].run = NoRun
    BY IdleType DEF Init
<1>3. \A r \in Runs : call[r].state = "new" /\ mapping[r] = NoMapping
    BY DEF Init
<1>4. AskedInTime
    BY <1>2, ConstantsAssumption DEF Init, AskedInTime
<1>5. RunsHandled
    BY <1>2, <1>3 DEF RunsHandled, ForRun, Reaches
<1>6. ScoresKnown /\ OneUser
    BY <1>2, <1>3 DEF ScoresKnown, OneUser, HeldBy, Using
<1> QED
    BY <1>1, <1>4, <1>5, <1>6 DEF PoolInv

\* One coroutine moves on within its batch, or is idle, or begins a cleanup.
LEMMA AskedKept ==
    ASSUME AskedInTime, NEW p \in Procs, UNCHANGED <<clock, poolUntil, unrefreshed>>,
           \A q \in Procs : q # p => proc'[q] = proc[q],
           proc'[p].pc \in {"refresh", "batch", "ask", "last", "wait", "held"} =>
              proc'[p].run = NoRun,
           proc'[p].pc \in {"ask", "last", "held"} =>
              /\ 1 <= proc'[p].at /\ proc'[p].at <= clock
              /\ proc'[p].pc # "held" => clock <= proc'[p].at + MaxUse,
           p \notin Dispatchers => proc'[p].pc \in {"idle", "get", "free", "unmap"},
           p \in Dispatchers /\ proc'[p].pc # "idle" =>
              /\ proc[p].pc # "idle" /\ proc'[p].began = proc[p].began
              /\ proc[p].pc # "refresh"
    PROVE  AskedInTime'
BY DEF AskedInTime, LastsUntil

\* Nobody asks with a clock of the future or too late, and no key that was renewed when a
\* batch began expires before its time, whatever happens.
LEMMA AskedInTimeStep ==
    TypeOK /\ AskedInTime /\ [Next]_vars => AskedInTime'
<1> SUFFICES ASSUME TypeOK, AskedInTime, [Next]_vars PROVE AskedInTime'
    OBVIOUS
<1> USE ConstantsAssumption
<1>0. /\ clock \in Nat /\ poolUntil \in Nat /\ proc \in [Procs -> ProcInfo]
      /\ \A p \in Procs : proc[p].at \in Nat /\ proc[p].began \in Nat
      /\ Idle.pc = "idle"
    BY DEF TypeOK, ProcInfo, Idle
<1>1. ASSUME NEW p \in Procs, InitializePool(p) PROVE AskedInTime'
    <2>1. PICK s \in {"refresh", "batch"} :
             /\ proc' = [proc EXCEPT ![p] = InBatch(s, clock)]
             /\ (s = "refresh" /\ UNCHANGED unrefreshed) \/ unrefreshed' = TRUE
        BY <1>1 DEF InitializePool
    <2>2. /\ proc'[p].pc = s /\ proc'[p].began = clock /\ proc'[p].run = NoRun
          /\ \A q \in Procs : q # p => proc'[q] = proc[q]
        BY <1>0, <2>1, InBatchType
    <2>3. p \in Dispatchers /\ UNCHANGED <<clock, poolUntil>>
        BY <1>1 DEF InitializePool
    <2> QED
        BY <1>0, <2>1, <2>2, <2>3 DEF AskedInTime, LastsUntil
<1>2. ASSUME NEW p \in Procs, RefreshPool(p) PROVE AskedInTime'
    <2>1. /\ proc[p].pc = "refresh" /\ proc'[p].pc = "batch" /\ proc'[p].began = proc[p].began
          /\ proc'[p].run = proc[p].run
          /\ \A q \in Procs : q # p => proc'[q] = proc[q]
          /\ UNCHANGED clock
        BY <1>0, <1>2 DEF RefreshPool, ProcInfo
    <2>2. CASE unrefreshed' = TRUE
        BY <1>0, <2>1, <2>2 DEF AskedInTime, LastsUntil
    <2>3. CASE UNCHANGED unrefreshed /\ poolUntil' \in {0, clock + PoolTTL}
        BY <1>0, <2>1, <2>3 DEF AskedInTime, LastsUntil
    <2> QED
        BY <1>2, <2>2, <2>3 DEF RefreshPool
<1>3. ASSUME NEW p \in Procs, Ask(p) \/ AskAgain(p) \/ Fallback(p) PROVE AskedInTime'
    <2>1. /\ proc[p].pc \in {"batch", "wait"} /\ proc'[p].pc \in {"ask", "last"}
          /\ proc'[p].run = proc[p].run /\ proc'[p].at = clock /\ proc'[p].began = proc[p].began
          /\ \A q \in Procs : q # p => proc'[q] = proc[q]
          /\ UNCHANGED <<clock, poolUntil, unrefreshed>>
        <3>1. CASE Ask(p)
            <4>1. \E n : proc' = [proc EXCEPT ![p].pc = "ask", ![p].preferred = n, ![p].at = clock]
                BY <3>1 DEF Ask
            <4> QED
                BY <1>0, <3>1, <4>1 DEF Ask, ProcInfo
        <3>2. CASE AskAgain(p) \/ Fallback(p)
            BY <1>0, <3>2 DEF AskAgain, Fallback, ProcInfo
        <3> QED
            BY <1>3, <3>1, <3>2
    <2>2. p \in Dispatchers
        BY <2>1 DEF AskedInTime
    <2>3. proc'[p].run = NoRun
        BY <2>1 DEF AskedInTime
    <2> QED
        BY <1>0, <2>1, <2>2, <2>3, AskedKept DEF AskedInTime
<1>4. ASSUME NEW p \in Procs, Acquire(p) \/ TurnedDown(p) PROVE AskedInTime'
    <2>1. /\ proc[p].pc \in {"ask", "last"} /\ UNCHANGED <<clock, poolUntil, unrefreshed>>
          /\ \/ proc'[p].pc = "idle"
             \/ /\ proc'[p].pc = "held" /\ proc'[p].at = proc[p].at
                /\ proc'[p].run = proc[p].run /\ proc'[p].began = proc[p].began
             \/ /\ proc'[p].pc = "wait"
                /\ proc'[p].run = proc[p].run /\ proc'[p].began = proc[p].began
          /\ \A q \in Procs : q # p => proc'[q] = proc[q]
        <3>1. CASE Acquire(p)
            <4>1. \/ \E n \in Numbers : proc' = [proc EXCEPT ![p].pc = "held",
                                                             ![p].preferred = NoNumber,
                                                            ![p].number = n]
                  \/ proc' = [proc EXCEPT ![p] = Idle]
                  \/ proc' = [proc EXCEPT ![p] = TriesAgain(p)]
                BY <3>1 DEF Acquire, Available, Wanted, TypeOK
            <4> QED
                BY <1>0, <3>1, <4>1, TriesAgainType DEF Acquire, ProcInfo
        <3>2. CASE TurnedDown(p)
            BY <1>0, <3>2, TriesAgainType DEF TurnedDown
        <3> QED
            BY <1>4, <3>1, <3>2
    <2>2. p \in Dispatchers /\ proc[p].run = NoRun
        BY <2>1 DEF AskedInTime
    <2> QED
        BY <1>0, <2>1, <2>2, AskedKept DEF AskedInTime
<1>5. ASSUME NEW p \in Procs,
             EndBatch(p) \/ GiveUp(p) \/ Abandon(p) \/ StoreMapping(p) \/ Dial(p)
                \/ DialFails(p) \/ DialForgotten(p) \/ RecordFails(p) \/ GetMapping(p)
                \/ Release(p) \/ Unmap(p) \/ Crash(p)
      PROVE  AskedInTime'
    <2>1. /\ \/ proc'[p].pc = "idle"
             \/ /\ proc'[p].pc \in {"batch", "free", "dial", "get", "unmap"}
                /\ proc'[p].began = proc[p].began /\ proc[p].pc \notin {"idle", "refresh"}
                /\ proc'[p].pc = "batch" => proc'[p].run = NoRun
          /\ p \notin Dispatchers => proc'[p].pc \in {"idle", "get", "free", "unmap"}
          /\ \A q \in Procs : q # p => proc'[q] = proc[q]
          /\ UNCHANGED <<clock, poolUntil, unrefreshed>>
        <3>0. proc[p].pc \in {"held", "dial"} => p \in Dispatchers
            BY DEF AskedInTime
        <3>1. CASE EndBatch(p) \/ GiveUp(p) \/ Crash(p)
            BY <1>0, <3>1 DEF EndBatch, GiveUp, Crash
        <3>2. CASE Abandon(p)
            BY <1>0, <3>0, <3>2 DEF Abandon, ProcInfo
        <3>3. CASE StoreMapping(p)
            <4>1. \E r \in Runs : proc' = [proc EXCEPT ![p].pc = "dial", ![p].at = 0, ![p].run = r]
                BY <3>3 DEF StoreMapping
            <4> QED
                BY <1>0, <3>0, <3>3, <4>1 DEF StoreMapping, ProcInfo
        <3>4. CASE Dial(p) \/ DialForgotten(p)
            BY <1>0, <3>0, <3>4, DoneType DEF Dial, DialForgotten
        <3>5. CASE DialFails(p) \/ RecordFails(p)
            BY <1>0, <3>0, <3>5, ToReleaseType DEF DialFails, RecordFails
        <3>6. CASE GetMapping(p)
            <4>1. proc[p].pc = "get" /\ UNCHANGED <<clock, poolUntil, unrefreshed>>
                BY <3>6 DEF GetMapping
            <4>2. \/ proc' = [proc EXCEPT ![p] = Done(p)]
                  \/ proc' = [proc EXCEPT ![p].pc = "free",
                                          ![p].number = mapping[proc[p].run].number]
                BY <3>6 DEF GetMapping
            <4> QED
                BY <1>0, <4>1, <4>2, DoneType DEF ProcInfo
        <3>7. CASE Release(p)
            <4>1. proc[p].pc = "free" /\ UNCHANGED <<clock, poolUntil, unrefreshed>>
                BY <3>7 DEF Release
            <4>2. \/ proc' = [proc EXCEPT ![p] = Done(p)]
                  \/ proc' = [proc EXCEPT ![p] = [proc[p] EXCEPT !.pc = "unmap"]]
                BY <3>7 DEF Release
            <4> QED
                BY <1>0, <4>1, <4>2, DoneType DEF ProcInfo
        <3>8. CASE Unmap(p)
            BY <1>0, <3>8, DoneType DEF Unmap
        <3> QED
            BY <1>5, <3>1, <3>2, <3>3, <3>4, <3>5, <3>6, <3>7, <3>8
    <2> QED
        BY <2>1, AskedKept
<1>6. ASSUME NEW p \in Cleaners, NEW r \in Runs, StatusCallback(p, r) PROVE AskedInTime'
    <2>1. /\ proc'[p].pc = "get" /\ \A q \in Procs : q # p => proc'[q] = proc[q]
          /\ UNCHANGED <<clock, poolUntil, unrefreshed>>
        BY <1>0, <1>6 DEF StatusCallback, Idle
    <2> QED
        BY <2>1, AskedKept
<1>7. ASSUME NEW r \in Runs, EndCall(r) PROVE AskedInTime'
    BY <1>7 DEF EndCall, AskedInTime, LastsUntil
<1>8. ASSUME Tick PROVE AskedInTime'
    <2>1. /\ clock' = clock + 1 /\ UNCHANGED <<proc, unrefreshed>>
          /\ poolUntil' \in {0, poolUntil}
        BY <1>8 DEF Tick
    <2>2. \A p \in Procs : proc[p].pc \in {"ask", "last"} => clock < proc[p].at + MaxUse
        BY <1>8 DEF Tick, OnTime
    <2>3. \A p \in Dispatchers : proc[p].pc # "idle" => clock < proc[p].began + MaxBatch
        BY <1>8 DEF Tick, OnTime
    <2> QED
        BY <1>0, <2>1, <2>2, <2>3 DEF AskedInTime, LastsUntil
<1>9. CASE UNCHANGED vars
    BY <1>9 DEF vars, AskedInTime, LastsUntil
<1> QED
    BY <1>1, <1>2, <1>3, <1>4, <1>5, <1>6, <1>7, <1>8, <1>9 DEF Next, Step

-----------------------------------------------------------------------------
(* Who handles a run.                                                       *)

\* Nobody starts to handle a run; mappings may go and numbers may be spoilt.
LEMMA FewerHandlers ==
    ASSUME RunsHandled, spoilt \subseteq spoilt',
           \A r \in Runs : /\ mapping'[r] \in {mapping[r], NoMapping}
                           /\ call'[r].number = call[r].number
                           /\ call[r].state # "new" => call'[r].state # "new",
           \A p \in Procs : ForRun(p)' =>
              /\ ForRun(p) /\ proc'[p] = proc[p] /\ proc[p].run \in Runs
              /\ call'[proc[p].run] = call[proc[p].run]
    PROVE  RunsHandled'
<1>1. \A p \in Procs : Reaches(p)' =>
         /\ Reaches(p) /\ proc'[p] = proc[p] /\ proc[p].run \in Runs
         /\ call'[proc[p].run] = call[proc[p].run]
    BY DEF Reaches
<1> QED
    BY <1>1 DEF RunsHandled

\* A coroutine is alone with the run it dials.
LEMMA DialsAlone ==
    ASSUME TypeOK, RunsHandled, NEW p \in Procs, proc[p].pc = "dial"
    PROVE  /\ proc[p].run \in Runs /\ ForRun(p)
           /\ call[proc[p].run].state = "dialing"
           /\ proc[p].number = call[proc[p].run].number
           /\ \A q \in Procs : q # p /\ ForRun(q) => proc[q].run # proc[p].run
<1>1. proc[p].run \in Runs /\ ForRun(p)
    BY ConstantsAssumption DEF TypeOK, ForRun
<1>2. call[proc[p].run].state = "dialing" /\ proc[p].number = call[proc[p].run].number
    BY <1>1 DEF RunsHandled
<1>3. ASSUME NEW q \in Procs, q # p, ForRun(q), proc[q].run = proc[p].run PROVE FALSE
    <2>1. proc[q].pc = "dial"
        BY <1>2, <1>3 DEF RunsHandled
    <2>2. Reaches(p) /\ Reaches(q)
        BY <1>1, <1>3, <2>1 DEF Reaches
    <2> QED
        BY <1>3, <2>2 DEF RunsHandled
<1> QED
    BY <1>1, <1>2, <1>3

\* At most one coroutine can still touch the number of a run, unless a repeated callback
\* or an unrecorded dial spoils the number.
LEMMA RunsHandledStep ==
    PoolTypes /\ AskedInTime /\ RunsHandled /\ [Next]_vars => RunsHandled'
<1> SUFFICES ASSUME TypeOK, MappingsName, AskedInTime, RunsHandled, [Next]_vars
             PROVE  RunsHandled'
    BY DEF PoolTypes
<1> USE ConstantsAssumption
<1>0. /\ Idle.pc = "idle" /\ proc \in [Procs -> ProcInfo] /\ call \in [Runs -> CallInfo]
      /\ mapping \in [Runs -> MapInfo]
      /\ \A p \in Procs : ForRun(p) => proc[p].run \in Runs
    BY DEF TypeOK, Idle, ForRun, ProcInfo
<1>1. CASE UNCHANGED vars
    BY <1>0, <1>1, FewerHandlers DEF vars, ForRun
<1>2. ASSUME NEW p \in Procs,
             InitializePool(p) \/ RefreshPool(p) \/ EndBatch(p) \/ Ask(p) \/ AskAgain(p)
                \/ Fallback(p) \/ Acquire(p) \/ TurnedDown(p) \/ GiveUp(p) \/ Abandon(p)
      PROVE  RunsHandled'
    <2>1. /\ proc'[p].pc \in {"refresh", "batch", "ask", "last", "wait", "held", "idle"}
                \/ proc'[p].run = NoRun
          /\ \A q \in Procs : q # p => proc'[q] = proc[q]
          /\ UNCHANGED <<call, mapping, spoilt>>
        <3>1. CASE AskAgain(p) \/ Fallback(p) \/ RefreshPool(p)
            BY <3>1, <1>0 DEF AskAgain, Fallback, RefreshPool, ProcInfo
        <3>2. CASE GiveUp(p) \/ EndBatch(p)
            BY <3>2, <1>0 DEF GiveUp, EndBatch
        <3>3. CASE Acquire(p)
            <4>1. \/ \E n \in Numbers : proc' = [proc EXCEPT ![p].pc = "held",
                                                             ![p].preferred = NoNumber,
                                                            ![p].number = n]
                  \/ proc' = [proc EXCEPT ![p] = Idle]
                  \/ proc' = [proc EXCEPT ![p] = TriesAgain(p)]
                BY <3>3 DEF Acquire, Available, Wanted, TypeOK
            <4> QED
                BY <1>0, <3>3, <4>1, TriesAgainType DEF Acquire, ProcInfo
        <3>4. CASE TurnedDown(p)
            BY <3>4, <1>0, TriesAgainType DEF TurnedDown
        <3>5. CASE Ask(p)
            <4>1. \E n : proc' = [proc EXCEPT ![p].pc = "ask", ![p].preferred = n, ![p].at = clock]
                BY <3>5 DEF Ask
            <4> QED
                BY <1>0, <3>5, <4>1 DEF Ask, ProcInfo
        <3>6. CASE InitializePool(p)
            <4>1. \E s \in {"refresh", "batch"} : proc' = [proc EXCEPT ![p] = InBatch(s, clock)]
                BY <3>6 DEF InitializePool
            <4> QED
                BY <1>0, <3>6, <4>1, InBatchType DEF InitializePool, TypeOK
        <3>7. CASE Abandon(p)
            BY <1>0, <3>7 DEF Abandon, AskedInTime, ProcInfo
        <3> QED
            BY <1>2, <3>1, <3>2, <3>3, <3>4, <3>5, <3>6, <3>7
    <2> QED
        BY <1>0, <2>1, FewerHandlers DEF ForRun
<1>3. ASSUME NEW p \in Procs, StoreMapping(p) PROVE RunsHandled'
    <2>1. PICK r \in Runs :
             /\ call[r].state = "new"
             /\ call' = [call EXCEPT ![r] = [state |-> "dialing", number |-> proc[p].number,
                                             since |-> proc[p].at, reported |-> FALSE]]
             /\ proc' = [proc EXCEPT ![p].pc = "dial", ![p].at = 0, ![p].run = r]
             /\ \/ mapping' = [mapping EXCEPT ![r] = [number |-> proc[p].number,
                                                      until |-> clock + MappingTTL]]
                \/ mapping' = [mapping EXCEPT ![r] = [number |-> proc[p].number,
                                                      until |-> Horizon + 1]]
                \/ UNCHANGED mapping
        BY <1>3 DEF StoreMapping
    <2>2. /\ proc'[p].pc = "dial" /\ proc'[p].run = r /\ proc'[p].number = proc[p].number
          /\ \A q \in Procs : q # p => proc'[q] = proc[q]
        BY <2>1, <1>0 DEF ProcInfo
    <2>3. /\ call'[r].state = "dialing" /\ call'[r].number = proc[p].number
          /\ \A q \in Runs : q # r => call'[q] = call[q] /\ mapping'[q] = mapping[q]
          /\ mapping'[r].number = proc[p].number \/ mapping'[r] = mapping[r]
        BY <2>1, <1>0
    <2>4. \A q \in Procs : ForRun(q) => proc[q].run # r /\ proc[q].run \in Runs
        BY <2>1, <1>0 DEF RunsHandled
    <2>5. mapping[r] = NoMapping /\ UNCHANGED spoilt
        BY <1>3, <2>1 DEF StoreMapping, RunsHandled
    <2>6. \A q \in Procs : q # p /\ ForRun(q)' =>
             /\ ForRun(q) /\ proc'[q] = proc[q] /\ proc[q].run # r /\ proc[q].run \in Runs
             /\ call'[proc[q].run] = call[proc[q].run]
             /\ mapping'[proc[q].run] = mapping[proc[q].run]
        BY <2>2, <2>3, <2>4 DEF ForRun
    <2>7. \A q \in Procs : q # p /\ Reaches(q)' => Reaches(q) /\ ForRun(q)'
        BY <2>6 DEF Reaches
    <2>8. \A q \in Runs :
             \/ mapping'[q] = NoMapping
             \/ call'[q].state # "new" /\ mapping'[q].number = call'[q].number
        BY <2>3, <2>5 DEF RunsHandled
    <2>9. \A q \in Procs : ForRun(q)' =>
             /\ proc'[q].pc = "dial" => call'[proc'[q].run].state = "dialing"
             /\ proc'[q].pc # "dial" => call'[proc'[q].run].state \in {"live", "over", "failed"}
             /\ proc'[q].pc \in {"dial", "free"} => proc'[q].number = call'[proc'[q].run].number
        BY <2>2, <2>3, <2>6 DEF RunsHandled
    <2>10. \A q \in Procs : Reaches(q)' /\ call'[proc'[q].run].number \notin spoilt' =>
             \/ proc'[q].pc = "dial" \/ call'[proc'[q].run].state = "failed"
             \/ call'[proc'[q].run].state = "over" /\ call'[proc'[q].run].reported
        BY <2>2, <2>5, <2>6, <2>7 DEF RunsHandled
    <2>11. \A o, q \in Procs :
             /\ Reaches(o)' /\ Reaches(q)' /\ proc'[o].run = proc'[q].run
             /\ proc'[o].pc = "dial" \/ call'[proc'[o].run].number \notin spoilt'
             => o = q
        BY <2>2, <2>5, <2>6, <2>7 DEF RunsHandled
    <2> QED
        BY <2>8, <2>9, <2>10, <2>11 DEF RunsHandled
<1>4. ASSUME NEW p \in Procs, Dial(p) \/ DialForgotten(p) \/ Crash(p) PROVE RunsHandled'
    <2>1. /\ proc'[p].pc \in {"idle", "batch"} /\ \A q \in Procs : q # p => proc'[q] = proc[q]
          /\ UNCHANGED <<mapping, spoilt>>
        BY <1>4, <1>0, DoneType DEF Dial, DialForgotten, Crash
    <2>2. \/ UNCHANGED call
          \/ /\ proc[p].pc = "dial"
             /\ call' \in {[call EXCEPT ![proc[p].run].state = "live"],
                           [call EXCEPT ![proc[p].run].state = "stray"]}
        BY <1>4 DEF Dial, DialForgotten, Crash
    <2>3. CASE UNCHANGED call
        BY <1>0, <2>1, <2>3, FewerHandlers DEF ForRun
    <2>4. CASE /\ proc[p].pc = "dial"
               /\ call' \in {[call EXCEPT ![proc[p].run].state = "live"],
                             [call EXCEPT ![proc[p].run].state = "stray"]}
        <3>1. /\ call'[proc[p].run].state # "new"
              /\ \A r \in Runs : /\ call'[r].number = call[r].number
                                 /\ r # proc[p].run => call'[r] = call[r]
            BY <1>0, <2>4, DialsAlone DEF CallInfo
        <3>2. \A q \in Procs : ForRun(q)' =>
                 ForRun(q) /\ proc'[q] = proc[q] /\ proc[q].run # proc[p].run
            BY <2>1, <2>4, DialsAlone DEF ForRun
        <3>3. \A r \in Runs : call[r].state # "new" => call'[r].state # "new"
            BY <3>1
        <3> QED
            BY <1>0, <2>1, <3>1, <3>2, <3>3, FewerHandlers
    <2> QED
        BY <2>2, <2>3, <2>4
<1>5. ASSUME NEW p \in Procs, DialFails(p) \/ RecordFails(p) PROVE RunsHandled'
    <2>1. /\ proc[p].pc = "dial" /\ UNCHANGED mapping
          /\ proc' = [proc EXCEPT ![p] = ToRelease(p)]
          /\ spoilt \subseteq spoilt'
        BY <1>5 DEF DialFails, RecordFails
    <2> DEFINE r == proc[p].run
    <2>2. /\ r \in Runs /\ ForRun(p)
          /\ \A q \in Procs : q # p /\ ForRun(q) => proc[q].run # r
        BY <2>1, DialsAlone
    <2>3. /\ proc'[p].pc = "get" /\ proc'[p].run = r
          /\ \A q \in Procs : q # p => proc'[q] = proc[q]
        BY <2>1, <1>0, ToReleaseType
    <2>4. /\ call'[r].state = "failed" \/ call'[r].state = "live"
          /\ call'[r].number = call[r].number
          /\ \A x \in Runs : x # r => call'[x] = call[x]
        BY <1>5, <2>2, <1>0 DEF DialFails, RecordFails, CallInfo
    <2>5. call'[r].state = "failed" \/ mapping[r] = NoMapping \/ call[r].number \in spoilt'
        <3>1. CASE DialFails(p)
            BY <1>0, <2>2, <3>1 DEF DialFails, CallInfo
        <3>2. CASE RecordFails(p)
            BY <2>2, <3>2 DEF RecordFails, Spoils, RunsHandled
        <3> QED
            BY <1>5, <3>1, <3>2
    <2>6. \A q \in Procs : q # p /\ ForRun(q)' =>
             /\ ForRun(q) /\ proc'[q] = proc[q] /\ proc[q].run # r /\ proc[q].run \in Runs
             /\ call'[proc[q].run] = call[proc[q].run]
        BY <1>0, <2>2, <2>3, <2>4 DEF ForRun
    <2>7. \A q \in Procs : q # p /\ Reaches(q)' => Reaches(q) /\ ForRun(q)'
        BY <2>1, <2>6 DEF Reaches
    <2>8. Reaches(p)' => mapping[r] # NoMapping
        BY <2>1, <2>3 DEF Reaches
    <2>9. \A q \in Procs : ForRun(q)' =>
             /\ proc'[q].pc = "dial" => call'[proc'[q].run].state = "dialing"
             /\ proc'[q].pc # "dial" => call'[proc'[q].run].state \in {"live", "over", "failed"}
             /\ proc'[q].pc \in {"dial", "free"} => proc'[q].number = call'[proc'[q].run].number
        BY <2>3, <2>4, <2>6 DEF RunsHandled
    <2>10. \A q \in Procs : Reaches(q)' /\ call'[proc'[q].run].number \notin spoilt' =>
             \/ proc'[q].pc = "dial" \/ call'[proc'[q].run].state = "failed"
             \/ call'[proc'[q].run].state = "over" /\ call'[proc'[q].run].reported
        BY <2>1, <2>3, <2>4, <2>5, <2>6, <2>7, <2>8 DEF RunsHandled
    <2>11. \A o, q \in Procs :
             /\ Reaches(o)' /\ Reaches(q)' /\ proc'[o].run = proc'[q].run
             /\ proc'[o].pc = "dial" \/ call'[proc'[o].run].number \notin spoilt'
             => o = q
        <3>1. ASSUME NEW o \in Procs, NEW q \in Procs, o # p, q # p, Reaches(o)', Reaches(q)',
                     proc'[o].run = proc'[q].run,
                     proc'[o].pc = "dial" \/ call'[proc'[o].run].number \notin spoilt'
              PROVE  o = q
            BY <2>1, <2>6, <2>7, <3>1 DEF RunsHandled
        <3>2. \A q \in Procs : q # p /\ Reaches(q)' => proc'[q].run # proc'[p].run
            BY <2>3, <2>6, <2>7
        <3> QED
            BY <3>1, <3>2
    <2>12. \A x \in Runs :
             \/ mapping'[x] = NoMapping
             \/ call'[x].state # "new" /\ mapping'[x].number = call'[x].number
        BY <2>1, <2>4 DEF RunsHandled
    <2> QED
        BY <2>9, <2>10, <2>11, <2>12 DEF RunsHandled
<1>6. ASSUME NEW p \in Cleaners, NEW r \in Runs, StatusCallback(p, r) PROVE RunsHandled'
    <2>1. /\ proc[p].pc = "idle" /\ call[r].state = "over"
          /\ UNCHANGED mapping /\ spoilt \subseteq spoilt'
          /\ proc' = [proc EXCEPT ![p] = [Idle EXCEPT !.pc = "get", !.run = r]]
          /\ call' = [call EXCEPT ![r].reported = TRUE]
        BY <1>6 DEF StatusCallback
    <2>2. /\ [Idle EXCEPT !.pc = "get", !.run = r].pc = "get"
          /\ [Idle EXCEPT !.pc = "get", !.run = r].run = r
        BY DEF Idle
    <2>3. /\ proc'[p].pc = "get" /\ proc'[p].run = r
          /\ \A q \in Procs : q # p => proc'[q] = proc[q]
        BY <2>1, <2>2, <1>0
    <2>4. /\ call'[r].state = "over" /\ call'[r].reported
          /\ call'[r].number = call[r].number
          /\ \A x \in Runs : x # r => call'[x] = call[x]
        BY <2>1, <1>0 DEF CallInfo
    <2>5. ASSUME NEW q \in Procs, Reaches(q), proc[q].run = r, call[r].number \notin spoilt',
                 mapping[r] # NoMapping
          PROVE  FALSE
        <3>1. ~call[r].reported
            BY <1>6, <2>1, <2>5 DEF StatusCallback, Spoils, RunsHandled
        <3>2. call[r].number \notin spoilt
            BY <2>1, <2>5
        <3> QED
            BY <2>1, <2>5, <3>1, <3>2 DEF RunsHandled, Reaches
    <2>6. \A q \in Procs : q # p /\ ForRun(q)' =>
             ForRun(q) /\ proc'[q] = proc[q] /\ proc[q].run \in Runs
        BY <1>0, <2>3 DEF ForRun
    <2>7. \A q \in Procs : q # p /\ Reaches(q)' => Reaches(q) /\ ForRun(q)'
        BY <2>1, <2>6 DEF Reaches
    <2>8. \A q \in Procs : ForRun(q)' =>
             /\ proc'[q].pc = "dial" => call'[proc'[q].run].state = "dialing"
             /\ proc'[q].pc # "dial" => call'[proc'[q].run].state \in {"live", "over", "failed"}
             /\ proc'[q].pc \in {"dial", "free"} => proc'[q].number = call'[proc'[q].run].number
        <3>1. \A x \in Runs : call'[x].state = call[x].state /\ call'[x].number = call[x].number
            BY <2>1, <2>4
        <3> QED
            BY <2>3, <2>4, <2>6, <3>1 DEF RunsHandled
    <2>9. \A q \in Procs : Reaches(q)' /\ call'[proc'[q].run].number \notin spoilt' =>
             \/ proc'[q].pc = "dial" \/ call'[proc'[q].run].state = "failed"
             \/ call'[proc'[q].run].state = "over" /\ call'[proc'[q].run].reported
        BY <2>1, <2>3, <2>4, <2>6, <2>7 DEF RunsHandled
    <2>10. \A o, q \in Procs :
             /\ Reaches(o)' /\ Reaches(q)' /\ proc'[o].run = proc'[q].run
             /\ proc'[o].pc = "dial" \/ call'[proc'[o].run].number \notin spoilt'
             => o = q
        <3>1. Reaches(p)' => mapping[r] # NoMapping
            BY <2>1, <2>3 DEF Reaches
        <3>2. ASSUME NEW q \in Procs, q # p, Reaches(p)', Reaches(q)', proc'[q].run = r,
                     proc'[q].pc = "dial" \/ call'[r].number \notin spoilt'
              PROVE  FALSE
            <4>1. Reaches(q) /\ ForRun(q) /\ proc[q].run = r /\ proc'[q] = proc[q]
                BY <2>6, <2>7, <3>2
            <4>2. proc[q].pc # "dial"
                BY <2>1, <4>1 DEF RunsHandled
            <4> QED
                BY <2>4, <2>5, <3>1, <3>2, <4>1, <4>2
        <3>3. ASSUME NEW o \in Procs, NEW q \in Procs, o # p, q # p, Reaches(o)', Reaches(q)',
                     proc'[o].run = proc'[q].run,
                     proc'[o].pc = "dial" \/ call'[proc'[o].run].number \notin spoilt'
              PROVE  o = q
            <4>1. \A x \in Runs : call'[x].number = call[x].number
                BY <2>4
            <4> QED
                BY <2>1, <2>6, <2>7, <3>3, <4>1 DEF RunsHandled
        <3>4. proc'[p].pc # "dial" /\ proc'[p].run = r
            BY <2>3
        <3> QED
            BY <3>2, <3>3, <3>4
    <2>11. \A x \in Runs :
             \/ mapping'[x] = NoMapping
             \/ call'[x].state # "new" /\ mapping'[x].number = call'[x].number
        BY <2>1, <2>4 DEF RunsHandled
    <2> QED
        BY <2>8, <2>9, <2>10, <2>11 DEF RunsHandled
<1>7. ASSUME NEW p \in Procs, GetMapping(p) PROVE RunsHandled'
    <2>1. /\ proc[p].run \in Runs /\ ForRun(p) /\ UNCHANGED <<call, mapping, spoilt>>
          /\ proc[p].pc = "get"
        BY <1>7 DEF GetMapping, TypeOK, ForRun
    <2>2. CASE proc' = [proc EXCEPT ![p] = Done(p)]
        <3>1. /\ proc'[p].pc \in {"idle", "batch"}
              /\ \A q \in Procs : q # p => proc'[q] = proc[q]
            BY <1>0, <2>2, DoneType
        <3> QED
            BY <1>0, <2>1, <3>1, FewerHandlers DEF ForRun
    <2>3. CASE /\ mapping[proc[p].run] # NoMapping
               /\ proc' = [proc EXCEPT ![p].pc = "free",
                                       ![p].number = mapping[proc[p].run].number]
        <3>1. /\ proc'[p].pc = "free" /\ proc'[p].run = proc[p].run
              /\ proc'[p].number = call[proc[p].run].number
              /\ \A q \in Procs : q # p => proc'[q] = proc[q]
            BY <2>1, <2>3, <1>0 DEF RunsHandled, ProcInfo
        <3>2. \A q \in Procs : Reaches(q)' => Reaches(q)
            BY <2>1, <2>3, <3>1 DEF Reaches, ForRun
        <3>3. \A q \in Procs : ForRun(q)' => ForRun(q)
            BY <2>1, <3>1 DEF ForRun
        <3>4. \A q \in Procs : Reaches(q)' /\ call'[proc'[q].run].number \notin spoilt' =>
             \/ proc'[q].pc = "dial" \/ call'[proc'[q].run].state = "failed"
             \/ call'[proc'[q].run].state = "over" /\ call'[proc'[q].run].reported
            BY <2>1, <3>1, <3>2 DEF RunsHandled
        <3>5. \A o, q \in Procs :
             /\ Reaches(o)' /\ Reaches(q)' /\ proc'[o].run = proc'[q].run
             /\ proc'[o].pc = "dial" \/ call'[proc'[o].run].number \notin spoilt'
             => o = q
            <4>1. \A o \in Procs :
                        proc'[o].run = proc[o].run /\ (proc'[o].pc = "dial" => proc[o].pc = "dial")
                BY <3>1
            <4> QED
                BY <2>1, <3>2, <4>1 DEF RunsHandled
        <3>6. \A q \in Procs : ForRun(q)' =>
             /\ proc'[q].pc = "dial" => call'[proc'[q].run].state = "dialing"
             /\ proc'[q].pc # "dial" => call'[proc'[q].run].state \in {"live", "over", "failed"}
             /\ proc'[q].pc \in {"dial", "free"} => proc'[q].number = call'[proc'[q].run].number
            BY <2>1, <3>1, <3>3 DEF RunsHandled
        <3> QED
            BY <2>1, <3>4, <3>5, <3>6 DEF RunsHandled
    <2> QED
        BY <1>7, <2>2, <2>3 DEF GetMapping
<1>8. ASSUME NEW p \in Procs, Release(p) PROVE RunsHandled'
    <2>1. proc[p].pc = "free" /\ UNCHANGED <<call, mapping, spoilt>>
        BY <1>8 DEF Release
    <2>2. \/ proc' = [proc EXCEPT ![p] = Done(p)]
          \/ /\ proc' = [proc EXCEPT ![p] = [proc[p] EXCEPT !.pc = "unmap"]]
             /\ proc[p].run # NoRun
        BY <1>8 DEF Release
    <2>3. CASE proc' = [proc EXCEPT ![p] = Done(p)]
        <3>1. /\ proc'[p].pc \in {"idle", "batch"}
              /\ \A q \in Procs : q # p => proc'[q] = proc[q]
            BY <1>0, <2>3, DoneType
        <3> QED
            BY <1>0, <2>1, <3>1, FewerHandlers DEF ForRun
    <2>4. CASE /\ proc' = [proc EXCEPT ![p] = [proc[p] EXCEPT !.pc = "unmap"]]
               /\ proc[p].run # NoRun
        <3>1. /\ proc'[p].pc = "unmap" /\ proc'[p].run = proc[p].run
              /\ \A q \in Procs : q # p => proc'[q] = proc[q]
            BY <1>0, <2>4 DEF ProcInfo
        <3>2. \A q \in Procs : Reaches(q)' => Reaches(q)
            BY <2>1, <2>4, <3>1 DEF Reaches, ForRun
        <3>3. \A q \in Procs : ForRun(q)' => ForRun(q)
            BY <2>1, <2>4, <3>1 DEF ForRun
        <3>4. \A q \in Procs : Reaches(q)' /\ call'[proc'[q].run].number \notin spoilt' =>
             \/ proc'[q].pc = "dial" \/ call'[proc'[q].run].state = "failed"
             \/ call'[proc'[q].run].state = "over" /\ call'[proc'[q].run].reported
            BY <2>1, <3>1, <3>2 DEF RunsHandled
        <3>5. \A o, q \in Procs :
             /\ Reaches(o)' /\ Reaches(q)' /\ proc'[o].run = proc'[q].run
             /\ proc'[o].pc = "dial" \/ call'[proc'[o].run].number \notin spoilt'
             => o = q
            <4>1. \A o \in Procs :
                        proc'[o].run = proc[o].run /\ (proc'[o].pc = "dial" => proc[o].pc = "dial")
                BY <3>1
            <4> QED
                BY <2>1, <3>2, <4>1 DEF RunsHandled
        <3>6. \A q \in Procs : ForRun(q)' =>
             /\ proc'[q].pc = "dial" => call'[proc'[q].run].state = "dialing"
             /\ proc'[q].pc # "dial" => call'[proc'[q].run].state \in {"live", "over", "failed"}
             /\ proc'[q].pc \in {"dial", "free"} => proc'[q].number = call'[proc'[q].run].number
            BY <2>1, <3>1, <3>3 DEF RunsHandled
        <3> QED
            BY <2>1, <3>4, <3>5, <3>6 DEF RunsHandled
    <2> QED
        BY <2>2, <2>3, <2>4
<1>9. ASSUME NEW p \in Procs, Unmap(p) PROVE RunsHandled'
    <2>1. /\ proc'[p].pc \in {"idle", "batch"} /\ \A q \in Procs : q # p => proc'[q] = proc[q]
          /\ UNCHANGED <<call, spoilt>>
          /\ \A r \in Runs : mapping'[r] \in {mapping[r], NoMapping}
        BY <1>9, <1>0, DoneType DEF Unmap
    <2> QED
        BY <1>0, <2>1, FewerHandlers DEF ForRun
<1>10. ASSUME NEW r \in Runs, EndCall(r) PROVE RunsHandled'
    <2>1. /\ call[r].state = "live" /\ call'[r].state = "over"
          /\ call'[r].number = call[r].number
          /\ \A x \in Runs : x # r => call'[x] = call[x]
          /\ UNCHANGED <<proc, mapping, spoilt>>
        BY <1>10, <1>0 DEF EndCall, CallInfo
    <2>2. \A p \in Procs : ForRun(p)' = ForRun(p) /\ Reaches(p)' = Reaches(p)
        BY <2>1 DEF ForRun, Reaches
    <2>3. \A p \in Procs : Reaches(p) /\ call[proc[p].run].number \notin spoilt => proc[p].run # r
        BY <2>1 DEF RunsHandled, Reaches
    <2> QED
        BY <1>0, <2>1, <2>2, <2>3 DEF RunsHandled, Reaches
<1>11. ASSUME Tick PROVE RunsHandled'
    <2>1. /\ UNCHANGED <<proc, call>> /\ spoilt \subseteq spoilt'
          /\ \A r \in Runs : mapping'[r] \in {mapping[r], NoMapping}
        BY <1>11 DEF Tick
    <2> QED
        BY <1>0, <2>1, FewerHandlers DEF ForRun
<1> QED
    BY <1>1, <1>2, <1>3, <1>4, <1>5, <1>6, <1>7, <1>8, <1>9, <1>10, <1>11 DEF Next, Step

-----------------------------------------------------------------------------
(* One user for a number.                                                   *)

\* A step after which nobody uses a number who did not use it before, unless the number
\* is spoilt.
NoNewUser ==
    /\ spoilt \subseteq spoilt' /\ (unrefreshed => unrefreshed')
    /\ \A p \in Procs : HeldBy(p)' =>
          HeldBy(p) /\ proc'[p].number = proc[p].number /\ proc'[p].at = proc[p].at
    /\ \A r \in Runs : Using(r)' =>
          /\ call'[r].number = call[r].number /\ call'[r].since = call[r].since
          /\ Using(r) \/ call[r].number \in spoilt'

StillUsed(n) ==
    \/ \E p \in Procs : HeldBy(p)' /\ proc'[p].number = n
    \/ \E r \in Runs : Using(r)' /\ call'[r].number = n

\* Then numbers keep their single users, if the pool keeps their scores.
LEMMA UsersKept ==
    ASSUME TypeOK, ScoresKnown, OneUser, NoNewUser,
           \A n \in Numbers \cup {NoNumber}, t \in Nat :
              UsedSince(n, t) /\ StillUsed(n) /\ n \notin spoilt' => UsedSince(n, t)'
    PROVE  ScoresKnown' /\ OneUser'
<1>1. \A p \in Procs : proc[p].number \in Numbers \cup {NoNumber} /\ proc[p].at \in Nat
    BY DEF TypeOK, ProcInfo
<1>2. \A r \in Runs : call[r].number \in Numbers \cup {NoNumber} /\ call[r].since \in Nat
    BY DEF TypeOK, CallInfo
<1>3. ASSUME NEW p \in Procs, HeldBy(p)'
      PROVE  UsedSince(proc[p].number, proc[p].at)'
    <2>0. CASE proc[p].number \in spoilt'
        BY <1>3, <2>0 DEF UsedSince, NoNewUser
    <2>1. UsedSince(proc[p].number, proc[p].at) /\ StillUsed(proc[p].number)
        BY <1>3 DEF NoNewUser, ScoresKnown, StillUsed
    <2>2. PICK n \in Numbers \cup {NoNumber}, t \in Nat :
             n = proc[p].number /\ t = proc[p].at
        BY <1>1
    <2>3. n \notin spoilt' => UsedSince(n, t)'
        BY <2>1, <2>2
    <2>4. proc'[p].number = n /\ proc'[p].at = t
        BY <1>3, <2>2 DEF NoNewUser
    <2> QED
        BY <2>0, <2>2, <2>3, <2>4 DEF UsedSince
<1>4. ASSUME NEW r \in Runs, Using(r)'
      PROVE  UsedSince(call[r].number, call[r].since)'
    <2>0. CASE call[r].number \in spoilt'
        BY <1>4, <2>0 DEF UsedSince, NoNewUser
    <2> SUFFICES ASSUME call[r].number \notin spoilt'
                 PROVE  UsedSince(call[r].number, call[r].since)'
        BY <2>0
    <2>1. UsedSince(call[r].number, call[r].since) /\ StillUsed(call[r].number)
        BY <1>4 DEF NoNewUser, ScoresKnown, StillUsed
    <2>2. PICK n \in Numbers \cup {NoNumber}, t \in Nat :
             n = call[r].number /\ t = call[r].since
        BY <1>2
    <2>3. UsedSince(n, t)'
        BY <2>1, <2>2
    <2>4. call'[r].number = n /\ call'[r].since = t
        BY <1>4, <2>2 DEF NoNewUser
    <2> QED
        BY <2>3, <2>4 DEF UsedSince
<1>5. ScoresKnown'
    BY <1>3, <1>4 DEF ScoresKnown
<1>6. OneUser'
    <2>1. \A p \in Procs : HeldBy(p)' => HeldBy(p) /\ proc'[p].number = proc[p].number
        BY DEF NoNewUser
    <2>2. \A r \in Runs : Using(r)' /\ call'[r].number \notin spoilt' =>
             Using(r) /\ call'[r].number = call[r].number
        BY DEF NoNewUser
    <2>3. spoilt \subseteq spoilt'
        BY DEF NoNewUser
    <2> QED
        BY <2>1, <2>2, <2>3 DEF OneUser
<1> QED
    BY <1>5, <1>6

\* In particular, if the step leaves the pool and the clock alone.
LEMMA UsersLeft ==
    ASSUME TypeOK, ScoresKnown, OneUser, NoNewUser, UNCHANGED <<clock, pool, poolUntil>>
    PROVE  ScoresKnown' /\ OneUser'
<1>1. \A n \in Numbers \cup {NoNumber}, t \in Nat : UsedSince(n, t) => UsedSince(n, t)'
    BY DEF UsedSince, LastsUntil, NoNewUser
<1> QED
    BY <1>1, UsersKept

\* A number in use is not reset as stale.
LEMMA ResetKeepsUsed ==
    ASSUME MaxUse < StaleTimeout, TypeOK, AskedInTime,
           NEW p \in Procs, proc[p].pc \in {"ask", "last"},
           NEW n \in Numbers \cup {NoNumber}, NEW t \in Nat, UsedSince(n, t), n \notin spoilt
    PROVE  n \in DOMAIN pool /\ StaleReset(p)[n] = t /\ t # 0
<1>1. /\ clock \in Nat /\ proc[p].at \in Nat /\ proc[p].at <= clock
      /\ n \in DOMAIN pool /\ pool[n] = t /\ 1 <= t /\ clock <= t + MaxUse
    BY DEF TypeOK, ProcInfo, AskedInTime, UsedSince
<1>2. ~(t <= proc[p].at - StaleTimeout)
    BY <1>1, ConstantsAssumption
<1>3. t \notin 1..(proc[p].at - StaleTimeout)
    BY <1>2
<1> QED
    BY <1>1, <1>3 DEF StaleReset

\* An acquisition takes a number nobody uses.
LEMMA AcquireKeepsUsers ==
    ASSUME MaxUse < StaleTimeout, MaxBatch + MaxUse < PoolTTL,
           TypeOK, AskedInTime, ScoresKnown, OneUser, NEW p \in Procs, Acquire(p)
    PROVE  ScoresKnown' /\ OneUser'
<1> USE ConstantsAssumption
<1>1. PICK n \in Available(p) :
         /\ pool' = [StaleReset(p) EXCEPT ![n] = proc[p].at]
         /\ \/ proc' = [proc EXCEPT ![p].pc = "held", ![p].preferred = NoNumber,
                                    ![p].number = n]
            \/ proc' = [proc EXCEPT ![p] = Idle]
            \/ proc' = [proc EXCEPT ![p] = TriesAgain(p)]
    BY DEF Acquire
<1>2. /\ proc[p].pc \in {"ask", "last"}
      /\ UNCHANGED <<clock, poolUntil, call, mapping, unrefreshed, spoilt>>
      /\ proc \in [Procs -> ProcInfo] /\ proc[p].at \in Nat /\ proc[p].began \in Nat
      /\ clock \in Nat /\ poolUntil \in Nat
      /\ proc[p].run = NoRun /\ 1 <= proc[p].at /\ proc[p].at <= clock
      /\ clock <= proc[p].at + MaxUse
    BY DEF Acquire, TypeOK, ProcInfo, AskedInTime
<1>3. n \in DOMAIN pool /\ n \in Numbers /\ StaleReset(p)[n] = 0
    BY DEF Available, Wanted, TypeOK
<1>4. DOMAIN StaleReset(p) = DOMAIN pool
    BY DEF StaleReset
<1>5. pool'[n] = proc[p].at /\ DOMAIN pool' = DOMAIN pool
    BY <1>1, <1>3, <1>4
<1>6. \A m \in Numbers \cup {NoNumber}, t \in Nat :
         UsedSince(m, t) => (m \notin spoilt => m # n) /\ UsedSince(m, t)'
    <2> SUFFICES ASSUME NEW m \in Numbers \cup {NoNumber}, NEW t \in Nat, UsedSince(m, t),
                        m \notin spoilt
                 PROVE  m # n /\ UsedSince(m, t)'
        BY <1>2 DEF UsedSince
    <2>1. m \in DOMAIN pool /\ StaleReset(p)[m] = t /\ t # 0
        BY <1>2, ResetKeepsUsed
    <2>2. m # n
        BY <2>1, <1>3
    <2>3. m \in DOMAIN pool' /\ pool'[m] = t
        BY <2>1, <2>2, <1>1, <1>4, <1>5
    <2> QED
        BY <2>2, <2>3, <1>2 DEF UsedSince, LastsUntil
<1>7. CASE proc' = [proc EXCEPT ![p].pc = "held", ![p].preferred = NoNumber, ![p].number = n]
    <2>1. /\ proc'[p].pc = "held" /\ proc'[p].number = n /\ proc'[p].at = proc[p].at
          /\ proc'[p].run = NoRun /\ \A q \in Procs : q # p => proc'[q] = proc[q]
        BY <1>7, <1>2 DEF ProcInfo
    <2>2. UsedSince(n, proc[p].at)'
        <3>1. p \in Dispatchers
            BY <1>2 DEF AskedInTime
        <3>2. /\ clock <= proc[p].began + MaxBatch
              /\ ~unrefreshed => LastsUntil(proc[p].began + PoolTTL)
            BY <1>2, <3>1 DEF AskedInTime
        <3>3. PICK t \in Nat : t = proc[p].at
            BY <1>2
        <3>4. UsedSince(n, t)'
            BY <3>2, <3>3, <1>2, <1>3, <1>5 DEF UsedSince, LastsUntil
        <3> QED
            BY <3>3, <3>4, <2>1 DEF UsedSince
    <2>3. \A q \in Procs : q # p /\ HeldBy(q)' =>
             /\ HeldBy(q) /\ proc'[q] = proc[q]
             /\ proc[q].number \notin spoilt => proc[q].number # n
        BY <2>1, <1>2, <1>6 DEF HeldBy, ScoresKnown, ProcInfo
    <2>4. \A r \in Runs : Using(r)' =>
             /\ Using(r) /\ call'[r] = call[r]
             /\ call[r].number \notin spoilt => call[r].number # n
        <3>1. \A r \in Runs : Using(r)' => Using(r) /\ call'[r] = call[r]
            BY <2>1, <1>2 DEF Using
        <3>2. \A r \in Runs : call[r].number \in Numbers \cup {NoNumber} /\ call[r].since \in Nat
            BY DEF TypeOK, CallInfo
        <3> QED
            BY <3>1, <3>2, <1>6 DEF ScoresKnown
    <2>5. \A q \in Procs : q # p /\ HeldBy(q)' => UsedSince(proc[q].number, proc[q].at)'
        <3> SUFFICES ASSUME NEW q \in Procs, q # p, HeldBy(q)'
                     PROVE  UsedSince(proc[q].number, proc[q].at)'
            OBVIOUS
        <3>1. PICK m \in Numbers \cup {NoNumber}, t \in Nat : m = proc[q].number /\ t = proc[q].at
            BY <1>2 DEF ProcInfo
        <3>2. UsedSince(m, t)'
            BY <3>1, <2>3, <1>6 DEF ScoresKnown
        <3> QED
            BY <3>1, <3>2, <2>3 DEF UsedSince
    <2>6. \A r \in Runs : Using(r)' => UsedSince(call[r].number, call[r].since)'
        <3> SUFFICES ASSUME NEW r \in Runs, Using(r)'
                     PROVE  UsedSince(call[r].number, call[r].since)'
            OBVIOUS
        <3>1. PICK m \in Numbers \cup {NoNumber}, t \in Nat :
                 m = call[r].number /\ t = call[r].since
            BY DEF TypeOK, CallInfo
        <3>2. UsedSince(m, t)'
            BY <3>1, <2>4, <1>6 DEF ScoresKnown
        <3> QED
            BY <3>1, <3>2, <2>4 DEF UsedSince
    <2>7. ScoresKnown'
        <3>1. UsedSince(proc[p].number, proc[p].at)'
            BY <2>1, <2>2 DEF UsedSince
        <3> QED
            BY <3>1, <2>5, <2>6 DEF ScoresKnown
    <2>8. OneUser'
        BY <1>2, <2>1, <2>3, <2>4 DEF OneUser
    <2> QED
        BY <2>7, <2>8
<1>8. CASE \/ proc' = [proc EXCEPT ![p] = Idle]
           \/ proc' = [proc EXCEPT ![p] = TriesAgain(p)]
    <2>1. /\ proc'[p].pc \in {"idle", "wait"} /\ \A q \in Procs : q # p => proc'[q] = proc[q]
        BY <1>8, <1>2, IdleType, TriesAgainType
    <2>2. NoNewUser
        BY <2>1, <1>2 DEF NoNewUser, HeldBy, Using
    <2> QED
        BY <2>2, <1>6, UsersKept
<1> QED
    BY <1>1, <1>7, <1>8

\* Storing the mapping hands the number over from the coroutine to its run.
LEMMA StoreKeepsUsers ==
    ASSUME TypeOK, AskedInTime, RunsHandled, ScoresKnown, OneUser,
           NEW p \in Procs, StoreMapping(p)
    PROVE  ScoresKnown' /\ OneUser'
<1> USE ConstantsAssumption
<1>1. PICK r \in Runs :
         /\ call[r].state = "new"
         /\ call' = [call EXCEPT ![r] = [state |-> "dialing", number |-> proc[p].number,
                                         since |-> proc[p].at, reported |-> FALSE]]
         /\ proc' = [proc EXCEPT ![p].pc = "dial", ![p].at = 0, ![p].run = r]
         /\ \A q \in Runs : q # r => mapping'[q] = mapping[q]
    <2>1. mapping \in [Runs -> MapInfo]
        BY DEF TypeOK
    <2> QED
        BY <2>1 DEF StoreMapping
<1>2. /\ proc[p].pc = "held" /\ proc[p].run = NoRun /\ HeldBy(p)
      /\ UNCHANGED <<clock, pool, poolUntil, unrefreshed, spoilt>>
      /\ proc \in [Procs -> ProcInfo] /\ call \in [Runs -> CallInfo]
    BY DEF StoreMapping, AskedInTime, HeldBy, TypeOK
<1>3. /\ call'[r].number = proc[p].number /\ call'[r].since = proc[p].at
      /\ \A q \in Runs : q # r => call'[q] = call[q]
      /\ proc'[p].pc = "dial" /\ \A q \in Procs : q # p => proc'[q] = proc[q]
    BY <1>1, <1>2 DEF ProcInfo
<1>4. \A q \in Procs : HeldBy(q)' => HeldBy(q) /\ proc'[q] = proc[q] /\ q # p
    BY <1>3 DEF HeldBy
<1>5. \A q \in Runs : q # r /\ Using(q)' => Using(q) /\ call'[q] = call[q]
    <2> SUFFICES ASSUME NEW q \in Runs, q # r, Using(q)' PROVE Using(q)
        BY <1>3
    <2>1. call'[q] = call[q] /\ mapping'[q] = mapping[q]
        BY <1>1, <1>3
    <2>2. \A o \in Procs : proc'[o].pc \in {"get", "free"} => proc'[o] = proc[o]
        BY <1>3
    <2> QED
        BY <2>1, <2>2 DEF Using
<1>6. ScoresKnown'
    <2>1. UsedSince(proc[p].number, proc[p].at)
        BY <1>2 DEF ScoresKnown
    <2>2. UsedSince(call[r].number, call[r].since)'
        BY <2>1, <1>2, <1>3 DEF UsedSince, LastsUntil
    <2>3. \A q \in Runs : q # r /\ Using(q)' => UsedSince(call[q].number, call[q].since)'
        BY <1>2, <1>5 DEF ScoresKnown, UsedSince, LastsUntil
    <2>4. \A q \in Procs : HeldBy(q)' => UsedSince(proc[q].number, proc[q].at)'
        BY <1>2, <1>4 DEF ScoresKnown, UsedSince, LastsUntil
    <2> QED
        BY <2>2, <2>3, <2>4 DEF ScoresKnown
<1>7. OneUser'
    BY <1>2, <1>3, <1>4, <1>5 DEF OneUser
<1> QED
    BY <1>6, <1>7

\* A release frees the number of its only user, who uses it no longer.
LEMMA ReleaseKeepsUsers ==
    ASSUME TypeOK, RunsHandled, ScoresKnown, OneUser, NEW p \in Procs, Release(p)
    PROVE  ScoresKnown' /\ OneUser'
<1> USE ConstantsAssumption
<1>1. /\ proc[p].pc = "free" /\ proc \in [Procs -> ProcInfo]
      /\ UNCHANGED <<clock, poolUntil, call, mapping, unrefreshed, spoilt>>
    BY DEF Release, TypeOK
<1>2. /\ \/ proc'[p].pc \in {"idle", "batch"} /\ proc'[p].run = NoRun
         \/ proc'[p].pc = "unmap"
      /\ \A q \in Procs : q # p => proc'[q] = proc[q]
    <2>1. \/ proc' = [proc EXCEPT ![p] = Done(p)]
          \/ proc' = [proc EXCEPT ![p] = [proc[p] EXCEPT !.pc = "unmap"]]
        BY DEF Release
    <2> QED
        BY <2>1, <1>1, DoneType DEF ProcInfo
<1>3. NoNewUser
    BY <1>1, <1>2 DEF NoNewUser, HeldBy, Using
<1>4. /\ DOMAIN pool' = DOMAIN pool
      /\ \A n \in DOMAIN pool : n # proc[p].number => pool'[n] = pool[n]
    BY DEF Release
<1>5. ASSUME NEW q \in Procs, HeldBy(q)', proc'[q].number \notin spoilt
      PROVE  proc'[q].number # proc[p].number
    <2>1. q # p /\ HeldBy(q) /\ proc'[q].number = proc[q].number
        BY <1>2, <1>3, <1>5 DEF NoNewUser, HeldBy
    <2>2. CASE proc[p].run = NoRun
        BY <1>1, <1>5, <2>1, <2>2 DEF OneUser, HeldBy
    <2>3. CASE proc[p].run # NoRun
        <3>1. proc[p].run \in Runs /\ Using(proc[p].run) /\ ForRun(p)
            BY <2>3, <1>1 DEF Using, ForRun, ProcInfo
        <3>2. proc[p].number = call[proc[p].run].number
            BY <3>1, <1>1 DEF RunsHandled
        <3> QED
            BY <1>5, <2>1, <3>1, <3>2 DEF OneUser
    <2> QED
        BY <2>2, <2>3
<1>6. ASSUME NEW r \in Runs, Using(r)', call[r].number \notin spoilt
      PROVE  call[r].number # proc[p].number
    <2>1. Using(r)
        BY <1>1, <1>3, <1>6 DEF NoNewUser
    <2>2. CASE proc[p].run = NoRun
        BY <1>1, <1>6, <2>1, <2>2 DEF OneUser, HeldBy
    <2>3. CASE proc[p].run # NoRun
        <3>1. proc[p].run \in Runs /\ Using(proc[p].run) /\ ForRun(p) /\ Reaches(p)
            BY <2>3, <1>1 DEF Using, ForRun, ProcInfo, Reaches
        <3>2. proc[p].number = call[proc[p].run].number
            BY <3>1, <1>1 DEF RunsHandled
        <3>3. r # proc[p].run
            <4> SUFFICES ASSUME r = proc[p].run PROVE FALSE
                OBVIOUS
            <4>1. \/ call[r].state = "failed"
                  \/ call[r].state = "over" /\ call[r].reported
                BY <1>1, <1>6, <3>1 DEF RunsHandled
            <4>2. PICK q \in Procs : /\ proc'[q].run = r
                                    /\ \/ proc'[q].pc = "free"
                                       \/ proc'[q].pc = "get" /\ mapping[r] # NoMapping
                BY <1>1, <1>6, <4>1 DEF Using
            <4>3. q # p /\ proc[q] = proc'[q]
                BY <1>2, <4>2
            <4>4. Reaches(q)
                BY <2>3, <4>2, <4>3 DEF Reaches, ForRun
            <4> QED
                BY <1>6, <3>1, <4>2, <4>3, <4>4 DEF RunsHandled
        <3> QED
            BY <1>6, <2>1, <3>1, <3>2, <3>3 DEF OneUser
    <2> QED
        BY <2>2, <2>3
<1>7. \A n \in Numbers \cup {NoNumber}, t \in Nat :
         UsedSince(n, t) /\ StillUsed(n) /\ n \notin spoilt' => UsedSince(n, t)'
    <2> SUFFICES ASSUME NEW n \in Numbers \cup {NoNumber}, NEW t \in Nat, UsedSince(n, t),
                        StillUsed(n), n \notin spoilt
                 PROVE  UsedSince(n, t)'
        BY <1>1
    <2>1. n # proc[p].number
        BY <1>1, <1>5, <1>6 DEF StillUsed
    <2> QED
        BY <1>1, <1>4, <2>1 DEF UsedSince, LastsUntil
<1> QED
    BY <1>3, <1>7, UsersKept

\* Time passes only while no use looks stale or outlives the pool's key; where no batch
\* renewed the key's expiry, a number in use that expires is spoilt.
LEMMA TickKeepsUsers ==
    ASSUME TypeOK, ScoresKnown, OneUser, Tick
    PROVE  ScoresKnown' /\ OneUser'
<1> USE ConstantsAssumption
<1>1. /\ clock \in Nat /\ poolUntil \in Nat /\ clock' = clock + 1
      /\ UNCHANGED <<proc, call, unrefreshed>> /\ spoilt \subseteq spoilt'
      /\ \A r \in Runs : mapping'[r] \in {mapping[r], NoMapping}
    BY DEF Tick, TypeOK
<1>2. NoNewUser
    <2>1. \A r \in Runs : Using(r)' => Using(r)
        BY <1>1 DEF Using
    <2> QED
        BY <1>1, <2>1 DEF NoNewUser, HeldBy
<1>3. \A p \in Procs : HeldBy(p) => clock < proc[p].at + MaxUse
    BY DEF Tick, OnTime
<1>4. \A r \in Runs : Using(r) => clock < call[r].since + MaxUse
    BY DEF Tick, OnTime
<1>5. ASSUME NEW n \in Numbers \cup {NoNumber}, NEW t \in Nat, UsedSince(n, t), StillUsed(n),
             n \notin spoilt'
      PROVE  UsedSince(n, t)'
    <2>1. /\ n \in DOMAIN pool /\ pool[n] = t /\ 1 <= t /\ t <= clock
          /\ n \notin spoilt
          /\ ~unrefreshed => LastsUntil(t + MaxUse + 1)
        BY <1>1, <1>5 DEF UsedSince
    <2>2. clock < t + MaxUse
        <3>1. CASE \E p \in Procs : HeldBy(p)' /\ proc'[p].number = n
            <4>1. PICK p \in Procs : HeldBy(p) /\ proc[p].number = n
                BY <3>1, <1>1 DEF HeldBy
            <4> QED
                BY <4>1, <1>3, <2>1 DEF ScoresKnown, UsedSince
        <3>2. CASE \E r \in Runs : Using(r)' /\ call'[r].number = n
            <4>1. PICK r \in Runs : Using(r) /\ call[r].number = n
                BY <3>2, <1>1, <1>2, <1>5 DEF NoNewUser
            <4> QED
                BY <4>1, <1>4, <2>1 DEF ScoresKnown, UsedSince
        <3> QED
            BY <1>5, <3>1, <3>2 DEF StillUsed
    <2>3. ~PoolExpires
        <3> SUFFICES ASSUME PoolExpires PROVE FALSE
            OBVIOUS
        <3>1. CASE unrefreshed
            BY <1>5, <2>1, <3>1 DEF Tick
        <3>2. CASE ~unrefreshed
            BY <1>1, <2>1, <2>2, <3>2 DEF LastsUntil, PoolExpires
        <3> QED
            BY <3>1, <3>2
    <2>4. UNCHANGED <<pool, poolUntil>>
        BY <2>3 DEF Tick
    <2> QED
        BY <1>1, <2>1, <2>2, <2>4 DEF UsedSince, LastsUntil
<1> QED
    BY <1>2, <1>5, UsersKept

\* Every step keeps the users of the numbers apart and their scores known.
LEMMA UsersStep ==
    ASSUME MaxUse < StaleTimeout, MaxBatch + MaxUse < PoolTTL
    PROVE  PoolInv /\ [Next]_vars => ScoresKnown' /\ OneUser'
<1> SUFFICES ASSUME TypeOK, AskedInTime, RunsHandled, ScoresKnown, OneUser, [Next]_vars
             PROVE  ScoresKnown' /\ OneUser'
    BY DEF PoolInv
<1> USE ConstantsAssumption
<1> DEFINE Goal == ScoresKnown' /\ OneUser'
<1>0. /\ Idle.pc = "idle" /\ Idle.run = NoRun
      /\ proc \in [Procs -> ProcInfo] /\ call \in [Runs -> CallInfo]
      /\ mapping \in [Runs -> MapInfo] /\ clock \in Nat /\ poolUntil \in Nat
    BY IdleType DEF TypeOK
<1>1. ASSUME NEW p \in Procs, InitializePool(p) PROVE Goal
    <2>1. /\ pool' \in {pool, AddedNumbers} /\ (unrefreshed => unrefreshed')
          /\ UNCHANGED <<clock, poolUntil, mapping, call, spoilt>>
        BY <1>1 DEF InitializePool
    <2>2. \E s \in {"refresh", "batch"} : proc' = [proc EXCEPT ![p] = InBatch(s, clock)]
        BY <1>1 DEF InitializePool
    <2>3. /\ proc'[p].pc \in {"refresh", "batch"}
          /\ \A q \in Procs : q # p => proc'[q] = proc[q]
        BY <1>0, <2>2, InBatchType
    <2>4. NoNewUser
        BY <2>1, <2>3 DEF NoNewUser, HeldBy, Using
    <2>5. \A n \in DOMAIN pool : n \in DOMAIN pool' /\ pool'[n] = pool[n]
        BY <2>1 DEF AddedNumbers, TypeOK
    <2>6. \A n \in Numbers \cup {NoNumber}, t \in Nat : UsedSince(n, t) => UsedSince(n, t)'
        BY <1>0, <2>1, <2>5 DEF UsedSince, LastsUntil
    <2> QED
        BY <2>4, <2>6, UsersKept
<1>16. ASSUME NEW p \in Procs, RefreshPool(p) PROVE Goal
    <2>1. /\ proc[p].pc = "refresh" /\ proc'[p].pc = "batch"
          /\ \A q \in Procs : q # p => proc'[q] = proc[q]
          /\ UNCHANGED <<clock, pool, mapping, call, spoilt>>
          /\ (unrefreshed => unrefreshed')
        BY <1>0, <1>16 DEF RefreshPool, ProcInfo
    <2>2. NoNewUser
        BY <2>1 DEF NoNewUser, HeldBy, Using
    <2>3. ASSUME NEW t \in Nat, clock <= t + MaxUse, t <= clock, LastsUntil(t + MaxUse + 1)
          PROVE  LastsUntil(t + MaxUse + 1)'
        BY <1>0, <1>16, <2>3 DEF RefreshPool, LastsUntil
    <2>4. \A n \in Numbers \cup {NoNumber}, t \in Nat : UsedSince(n, t) => UsedSince(n, t)'
        BY <1>0, <2>1, <2>3 DEF UsedSince
    <2> QED
        BY <2>2, <2>4, UsersKept
<1>2. ASSUME NEW p \in Procs,
             EndBatch(p) \/ Ask(p) \/ AskAgain(p) \/ Fallback(p) \/ GiveUp(p)
      PROVE  Goal
    <2>1. /\ proc'[p].pc \in {"ask", "last", "idle"} /\ \A q \in Procs : q # p => proc'[q] = proc[q]
          /\ UNCHANGED <<clock, pool, poolUntil, mapping, call, unrefreshed, spoilt>>
        <3>1. CASE Ask(p)
            <4>1. \E n : proc' = [proc EXCEPT ![p].pc = "ask", ![p].preferred = n, ![p].at = clock]
                BY <3>1 DEF Ask
            <4> QED
                BY <1>0, <3>1, <4>1 DEF Ask, ProcInfo
        <3>2. CASE AskAgain(p) \/ Fallback(p)
            BY <1>0, <3>2 DEF AskAgain, Fallback, ProcInfo
        <3>3. CASE GiveUp(p) \/ EndBatch(p)
            BY <1>0, <3>3 DEF GiveUp, EndBatch
        <3> QED
            BY <1>2, <3>1, <3>2, <3>3
    <2>2. NoNewUser
        BY <2>1 DEF NoNewUser, HeldBy, Using
    <2> QED
        BY <2>1, <2>2, UsersLeft
<1>3. ASSUME NEW p \in Procs, Acquire(p) PROVE Goal
    BY <1>3, AcquireKeepsUsers
<1>4. ASSUME NEW p \in Procs, TurnedDown(p) PROVE Goal
    <2>1. /\ proc[p].pc \in {"ask", "last"} /\ proc'[p].pc \in {"wait", "idle"}
          /\ \A q \in Procs : q # p => proc'[q] = proc[q]
          /\ UNCHANGED <<clock, poolUntil, mapping, call, unrefreshed, spoilt>>
          /\ pool' \in {pool, StaleReset(p)}
        BY <1>0, <1>4, TriesAgainType DEF TurnedDown
    <2>2. NoNewUser
        BY <2>1 DEF NoNewUser, HeldBy, Using
    <2>3. \A n \in Numbers \cup {NoNumber}, t \in Nat : UsedSince(n, t) => UsedSince(n, t)'
        <3> SUFFICES ASSUME NEW n \in Numbers \cup {NoNumber}, NEW t \in Nat, UsedSince(n, t),
                            n \notin spoilt
                     PROVE  UsedSince(n, t)'
            BY <2>1 DEF UsedSince
        <3>1. n \in DOMAIN pool /\ pool[n] = t /\ StaleReset(p)[n] = t
            BY <2>1, ResetKeepsUsed DEF UsedSince
        <3>2. DOMAIN StaleReset(p) = DOMAIN pool
            BY DEF StaleReset
        <3> QED
            BY <2>1, <3>1, <3>2 DEF UsedSince, LastsUntil
    <2> QED
        BY <2>2, <2>3, UsersKept
<1>5. ASSUME NEW p \in Procs, Abandon(p) PROVE Goal
    <2>1. /\ proc[p].pc = "held" /\ proc'[p].pc = "free" /\ proc[p].run = NoRun
          /\ proc'[p].number = proc[p].number /\ proc'[p].at = proc[p].at
          /\ proc'[p].run = NoRun
          /\ \A q \in Procs : q # p => proc'[q] = proc[q]
          /\ UNCHANGED <<clock, pool, poolUntil, mapping, call, unrefreshed, spoilt>>
        BY <1>0, <1>5 DEF Abandon, AskedInTime, ProcInfo
    <2>2. NoNewUser
        BY <2>1 DEF NoNewUser, HeldBy, Using
    <2> QED
        BY <2>1, <2>2, UsersLeft
<1>6. ASSUME NEW p \in Procs, StoreMapping(p) PROVE Goal
    BY <1>6, StoreKeepsUsers
<1>7. ASSUME NEW p \in Procs, Dial(p) \/ DialFails(p) \/ DialForgotten(p) \/ RecordFails(p)
      PROVE  Goal
    <2>1. /\ proc[p].pc = "dial" /\ proc[p].run \in Runs /\ spoilt \subseteq spoilt'
          /\ UNCHANGED <<clock, pool, poolUntil, mapping, unrefreshed>>
        BY <1>7 DEF Dial, DialFails, DialForgotten, RecordFails, TypeOK
    <2>2. /\ \/ proc'[p].pc \in {"idle", "batch"}
             \/ proc'[p].pc = "get" /\ proc'[p].run = proc[p].run
          /\ \A q \in Procs : q # p => proc'[q] = proc[q]
        <3>1. \/ proc' = [proc EXCEPT ![p] = Done(p)]
              \/ proc' = [proc EXCEPT ![p] = ToRelease(p)]
            BY <1>7 DEF Dial, DialFails, DialForgotten, RecordFails
        <3> QED
            BY <1>0, <3>1, DoneType, ToReleaseType
    <2>3. /\ \A r \in Runs : /\ call'[r].number = call[r].number
                             /\ call'[r].since = call[r].since
                             /\ r # proc[p].run => call'[r] = call[r]
        BY <1>0, <1>7, <2>1 DEF Dial, DialFails, DialForgotten, RecordFails, CallInfo
    <2>4. call[proc[p].run].state = "dialing"
        BY <2>1, DialsAlone
    <2>5. \A r \in Runs : Using(r)' => Using(r)
        BY <2>1, <2>2, <2>3, <2>4 DEF Using
    <2>6. NoNewUser
        BY <2>1, <2>2, <2>3, <2>5 DEF NoNewUser, HeldBy
    <2> QED
        BY <2>1, <2>6, UsersLeft
<1>8. ASSUME NEW p \in Cleaners, NEW r \in Runs, StatusCallback(p, r) PROVE Goal
    <2>1. /\ call[r].state = "over" /\ spoilt \subseteq spoilt'
          /\ call[r].reported => spoilt' = spoilt \cup Spoils(r)
          /\ UNCHANGED <<clock, pool, poolUntil, mapping, unrefreshed>>
          /\ proc' = [proc EXCEPT ![p] = [Idle EXCEPT !.pc = "get", !.run = r]]
          /\ call' = [call EXCEPT ![r].reported = TRUE]
        BY <1>8 DEF StatusCallback
    <2>2. /\ [Idle EXCEPT !.pc = "get", !.run = r].pc = "get"
          /\ [Idle EXCEPT !.pc = "get", !.run = r].run = r
        BY DEF Idle
    <2>3. /\ proc'[p].pc = "get" /\ proc'[p].run = r
          /\ \A q \in Procs : q # p => proc'[q] = proc[q]
        BY <1>0, <2>1, <2>2
    <2>4. \A q \in Runs : /\ call'[q].number = call[q].number /\ call'[q].since = call[q].since
                          /\ q # r => call'[q] = call[q]
        BY <1>0, <2>1 DEF CallInfo
    <2>5. ASSUME NEW q \in Runs, Using(q)' PROVE Using(q) \/ call[q].number \in spoilt'
        <3>1. CASE q # r
            <4>1. \A o \in Procs : proc'[o].run = q => proc'[o] = proc[o]
                BY <2>3, <3>1
            <4> QED
                BY <2>1, <2>4, <2>5, <3>1, <4>1 DEF Using
        <3>2. CASE q = r /\ ~call[r].reported
            BY <2>1, <3>2 DEF Using
        <3>3. CASE q = r /\ call[r].reported
            <4>1. call'[r].state = "over" /\ call'[r].reported
                BY <1>0, <2>1 DEF CallInfo
            <4>2. PICK o \in Procs : /\ proc'[o].run = r
                                    /\ \/ proc'[o].pc = "free"
                                       \/ proc'[o].pc = "get" /\ mapping[r] # NoMapping
                BY <2>1, <2>5, <3>3, <4>1 DEF Using
            <4>3. CASE o # p
                BY <2>3, <3>3, <4>2, <4>3 DEF Using
            <4>4. CASE o = p
                BY <2>1, <2>3, <3>3, <4>2, <4>4 DEF Spoils, RunsHandled
            <4> QED
                BY <4>3, <4>4
        <3> QED
            BY <3>1, <3>2, <3>3
    <2>6. NoNewUser
        BY <2>1, <2>3, <2>4, <2>5 DEF NoNewUser, HeldBy
    <2> QED
        BY <2>1, <2>6, UsersLeft
<1>9. ASSUME NEW p \in Procs, GetMapping(p) PROVE Goal
    <2>1. /\ proc[p].pc = "get" /\ proc[p].run \in Runs
          /\ UNCHANGED <<clock, pool, poolUntil, mapping, call, unrefreshed, spoilt>>
          /\ \/ /\ mapping[proc[p].run] # NoMapping
                /\ proc' = [proc EXCEPT ![p].pc = "free",
                                        ![p].number = mapping[proc[p].run].number]
             \/ proc' = [proc EXCEPT ![p] = Done(p)]
        BY <1>9 DEF GetMapping, TypeOK
    <2>3. /\ \/ proc'[p].pc \in {"idle", "batch"}
             \/ /\ proc'[p].pc = "free" /\ proc'[p].run = proc[p].run
                /\ mapping[proc[p].run] # NoMapping
          /\ \A q \in Procs : q # p => proc'[q] = proc[q]
        BY <1>0, <2>1, DoneType DEF ProcInfo
    <2>2. NoNewUser
        BY <2>1, <2>3 DEF NoNewUser, HeldBy, Using
    <2> QED
        BY <2>1, <2>2, UsersLeft
<1>10. ASSUME NEW p \in Procs, Release(p) PROVE Goal
    BY <1>10, ReleaseKeepsUsers
<1>11. ASSUME NEW p \in Procs, Unmap(p) PROVE Goal
    <2>1. /\ proc'[p].pc \in {"idle", "batch"} /\ \A q \in Procs : q # p => proc'[q] = proc[q]
          /\ \A r \in Runs : mapping'[r] \in {mapping[r], NoMapping}
          /\ UNCHANGED <<clock, pool, poolUntil, call, unrefreshed, spoilt>>
        BY <1>0, <1>11, DoneType DEF Unmap
    <2>2. NoNewUser
        BY <2>1 DEF NoNewUser, HeldBy, Using
    <2> QED
        BY <2>1, <2>2, UsersLeft
<1>12. ASSUME NEW p \in Procs, Crash(p) PROVE Goal
    <2>1. /\ proc'[p].pc = "idle" /\ \A q \in Procs : q # p => proc'[q] = proc[q]
          /\ UNCHANGED <<clock, pool, poolUntil, mapping, unrefreshed, spoilt>>
        BY <1>0, <1>12 DEF Crash
    <2>2. \A r \in Runs : /\ call'[r].number = call[r].number /\ call'[r].since = call[r].since
                          /\ call'[r].state = "stray" \/ call'[r] = call[r]
        BY <1>0, <1>12 DEF Crash, CallInfo
    <2>3. \A r \in Runs : Using(r)' => Using(r)
        BY <2>1, <2>2 DEF Using
    <2>4. NoNewUser
        BY <2>1, <2>2, <2>3 DEF NoNewUser, HeldBy
    <2> QED
        BY <2>1, <2>4, UsersLeft
<1>13. ASSUME NEW r \in Runs, EndCall(r) PROVE Goal
    <2>1. /\ call[r].state = "live"
          /\ UNCHANGED <<clock, pool, poolUntil, mapping, proc, unrefreshed, spoilt>>
          /\ \A q \in Runs : /\ call'[q].number = call[q].number /\ call'[q].since = call[q].since
                             /\ q # r => call'[q] = call[q]
        BY <1>0, <1>13 DEF EndCall, CallInfo
    <2>2. \A q \in Runs : Using(q)' => Using(q)
        BY <2>1 DEF Using
    <2>3. NoNewUser
        BY <2>1, <2>2 DEF NoNewUser, HeldBy
    <2> QED
        BY <2>1, <2>3, UsersLeft
<1>14. ASSUME Tick PROVE Goal
    BY <1>14, TickKeepsUsers
<1>15. ASSUME UNCHANGED vars PROVE Goal
    <2>1. NoNewUser
        BY <1>15 DEF vars, NoNewUser, HeldBy, Using
    <2> QED
        BY <1>15, <2>1, UsersLeft DEF vars
<1> QED
    BY <1>1, <1>2, <1>3, <1>4, <1>5, <1>6, <1>7, <1>8, <1>9, <1>10, <1>11, <1>12,
       <1>13, <1>14, <1>15, <1>16 DEF Next, Step

\* What PoolInv says of every reachable state: a number that is not spoilt has one user,
\* who acquired it when its score says.
THEOREM PoolInvariant ==
    ASSUME MaxUse < StaleTimeout, MaxBatch + MaxUse < PoolTTL
    PROVE  Spec => []PoolInv
<1> DEFINE Both == PoolTypes /\ PoolInv
<1>1. Init => Both
    BY InitType, InitPoolInv
<1>2. Both /\ [Next]_vars => Both'
    <2>1. Both /\ [Next]_vars => PoolTypes' /\ TypeOK'
        BY StepType DEF PoolTypes
    <2>2. Both /\ [Next]_vars => AskedInTime' /\ RunsHandled'
        BY AskedInTimeStep, RunsHandledStep DEF PoolInv
    <2>3. Both /\ [Next]_vars => ScoresKnown' /\ OneUser'
        BY UsersStep
    <2> QED
        BY <2>1, <2>2, <2>3 DEF PoolInv
<1>3. Both => PoolInv
    OBVIOUS
<1> QED
    BY <1>1, <1>2, <1>3, PTL DEF Spec

\* One user is what the pool's lock is for.
LEMMA OneUserIsExclusive == PoolInv => ExclusiveUnlessSpoilt
<1> SUFFICES ASSUME PoolInv, NEW n \in Numbers \ spoilt
             PROVE  Cardinality(UsedBy(n)) <= 1
    BY DEF ExclusiveUnlessSpoilt
<1> DEFINE Holding == {p \in Dispatchers : proc[p].pc = "held" /\ proc[p].number = n}
           Calling == {r \in InProgress : call[r].number = n}
<1>1. UsedBy(n) = Holding \cup Calling
    BY DEF UsedBy
<1>2. \A p \in Holding : p \in Procs /\ HeldBy(p) /\ proc[p].number = n
    BY DEF HeldBy, PoolInv, AskedInTime
<1>3. \A r \in Calling : r \in Runs /\ Using(r) /\ call[r].number = n
    BY DEF InProgress, Using
<1>4. \A u, v \in Holding \cup Calling : u = v
    BY <1>2, <1>3 DEF PoolInv, OneUser
<1>5. CASE Holding \cup Calling = {}
    <2>1. UsedBy(n) = {}
        BY <1>1, <1>5
    <2>2. Cardinality({}) = 0
        BY FS_EmptySet
    <2>3. Cardinality(UsedBy(n)) = 0
        BY <2>1, <2>2, Zenon
    <2> QED
        BY <2>3
<1>6. CASE Holding \cup Calling # {}
    <2>1. PICK u : u \in Holding \cup Calling
        BY <1>6
    <2>2. UsedBy(n) = {u}
        BY <1>1, <1>4, <2>1
    <2>3. Cardinality({u}) = 1
        BY FS_Singleton
    <2>4. Cardinality(UsedBy(n)) = 1
        BY <2>2, <2>3, Zenon
    <2> QED
        BY <2>4
<1> QED
    BY <1>5, <1>6

\* Two calls never show the same caller id at the same time (acquire_from_number,
\* release_from_number), whatever crashes and whatever call fails, for any pool of numbers
\* and any number of campaigns, unless a repeated callback or an unrecorded dial releases
\* the number, or it expires after a batch did not renew the expiry of the pool's key.
\* A use is shorter than stale_call_timeout, and with its batch than the key's life.
THEOREM OneUserPerNumber ==
    ASSUME MaxUse < StaleTimeout, MaxBatch + MaxUse < PoolTTL
    PROVE  Spec => []ExclusiveUnlessSpoilt
BY PoolInvariant, OneUserIsExclusive, PTL
-----------------------------------------------------------------------------
(* No number is forgotten.                                                  *)

\* The coroutine knows the number, and passes it on or frees it.
Keeps(p, n) == proc[p].pc \in {"held", "free"} /\ proc[p].number = n

\* The mapping of the run leads to the number until the number is stale, and nobody is
\* about to delete it.
Leads(r, n) ==
    /\ mapping[r].number = n /\ mapping[r].until >= pool[n] + MappingTTL
    /\ \A p \in Procs : ~(proc[p].pc = "unmap" /\ proc[p].run = r)

\* Scores and readings of the clock are past.
ScoresPast ==
    /\ clock >= 1
    /\ \A n \in DOMAIN pool : pool[n] <= clock
    /\ \A p \in Procs : proc[p].pc \in {"ask", "last"} => proc[p].at \in 1..clock

\* A coroutine handles a run that is not new, or none, and a new run has no mapping.
OldRuns ==
    /\ \A r \in Runs : call[r].state = "new" => mapping[r] = NoMapping
    /\ \A p \in Procs :
          /\ proc[p].run \in Runs => call[proc[p].run].state # "new"
          /\ proc[p].pc \in {"refresh", "batch", "ask", "last", "wait", "held"} =>
                proc[p].run = NoRun

\* A cleanup frees the number that the mapping names, as long as there is one.
OwnNumber ==
    \A p \in Procs :
        proc[p].pc \in {"free", "unmap"} /\ proc[p].run \in Runs =>
            mapping[proc[p].run] = NoMapping \/ mapping[proc[p].run].number = proc[p].number

Remembered(n) ==
    \/ pool[n] = 0 \/ Stale(n)
    \/ \E p \in Procs : Keeps(p, n)
    \/ \E r \in Runs : Leads(r, n)

KeptInv ==
    /\ ScoresPast /\ OldRuns /\ OwnNumber
    /\ \A n \in DOMAIN pool : Remembered(n)

LEMMA InitKept == Init => KeptInv
BY ConstantsAssumption
   DEF Init, KeptInv, ScoresPast, OldRuns, OwnNumber, EmptyPool, Idle

\* A coroutine moves on with its number and its run, or becomes idle, and lets go of no
\* number.
LEMMA MovesOn ==
    ASSUME PoolTypes, KeptInv, NEW p \in Procs, UNCHANGED <<clock, pool, mapping>>,
           \A q \in Procs \ {p} : proc'[q] = proc[q],
           \A r \in Runs : call[r].state # "new" => call'[r].state # "new",
           proc'[p].run \in Runs => call'[proc'[p].run].state # "new",
           proc'[p].pc \in {"refresh", "batch", "ask", "last", "wait", "held"} =>
              proc'[p].run = NoRun,
           proc'[p].pc \in {"ask", "last"} => proc'[p].at = clock,
           proc'[p].pc # "unmap",
           proc'[p].pc = "free" =>
              \/ proc'[p].run \notin Runs
              \/ mapping[proc'[p].run].number = proc'[p].number,
           proc[p].pc \in {"held", "free"} =>
              proc'[p].pc \in {"held", "free"} /\ proc'[p].number = proc[p].number
    PROVE  KeptInv'
<1>1. ScoresPast'
    BY DEF KeptInv, ScoresPast, PoolTypes, TypeOK
<1>2. OldRuns'
    BY DEF KeptInv, OldRuns
<1>3. OwnNumber'
    BY DEF KeptInv, OwnNumber
<1>4. ASSUME NEW n \in DOMAIN pool PROVE Remembered(n)'
    <2>1. Remembered(n)
        BY DEF KeptInv
    <2>2. \A q \in Procs : Keeps(q, n) => Keeps(q, n)'
        BY DEF Keeps
    <2>3. \A r \in Runs : Leads(r, n) => Leads(r, n)'
        BY DEF Leads
    <2> QED
        BY <2>1, <2>2, <2>3 DEF Remembered, Stale
<1> QED
    BY <1>1, <1>2, <1>3, <1>4 DEF KeptInv

\* A number is taken: its coroutine keeps it; the stale ones are free.
LEMMA AcquireKept ==
    ASSUME ~RedisFaults, PoolTypes, KeptInv, NEW p \in Procs, Acquire(p)
    PROVE  KeptInv'
<1>1. PICK n \in Available(p) :
          /\ pool' = [StaleReset(p) EXCEPT ![n] = proc[p].at]
          /\ proc' = [proc EXCEPT ![p].pc = "held", ![p].preferred = NoNumber, ![p].number = n]
    BY DEF Acquire
<1>2. /\ n \in DOMAIN pool /\ proc[p].pc \in {"ask", "last"}
      /\ UNCHANGED <<clock, mapping, call>>
    BY DEF Acquire, Available, Wanted
<1>3. /\ DOMAIN pool' = DOMAIN pool /\ pool'[n] = proc[p].at
      /\ \A m \in DOMAIN pool \ {n} : pool'[m] \in {0, pool[m]}
    BY <1>1, <1>2, ResetType DEF PoolTypes
<1>4. /\ proc'[p].pc = "held" /\ proc'[p].number = n /\ proc'[p].run = proc[p].run
      /\ \A q \in Procs \ {p} : proc'[q] = proc[q]
    BY <1>1 DEF PoolTypes, TypeOK, ProcInfo
<1>5. ScoresPast'
    <2>1. \A m \in DOMAIN pool : pool'[m] <= clock
        BY <1>2, <1>3 DEF KeptInv, ScoresPast, PoolTypes, TypeOK
    <2> QED
        BY <2>1, <1>2, <1>3, <1>4 DEF KeptInv, ScoresPast
<1>6. OldRuns' /\ OwnNumber'
    BY <1>2, <1>4 DEF KeptInv, OldRuns, OwnNumber
<1>7. ASSUME NEW m \in DOMAIN pool PROVE Remembered(m)'
    <2>1. CASE m = n
        BY <2>1, <1>4 DEF Remembered, Keeps
    <2>2. CASE m # n /\ pool'[m] = 0
        BY <2>2 DEF Remembered
    <2>3. CASE m # n /\ pool'[m] = pool[m]
        <3>1. Remembered(m)
            BY DEF KeptInv
        <3>2. \A q \in Procs : Keeps(q, m) => Keeps(q, m)'
            BY <1>2, <1>4 DEF Keeps
        <3>3. \A r \in Runs : Leads(r, m) => Leads(r, m)'
            BY <1>2, <1>4, <2>3 DEF Leads
        <3> QED
            BY <1>2, <2>3, <3>1, <3>2, <3>3 DEF Remembered, Stale
    <2> QED
        BY <1>3, <2>1, <2>2, <2>3
<1> QED
    BY <1>3, <1>5, <1>6, <1>7 DEF KeptInv

\* Nothing is free, and what is stale is freed.
LEMMA TurnedDownKept ==
    ASSUME ~RedisFaults, PoolTypes, KeptInv, NEW p \in Procs, TurnedDown(p)
    PROVE  KeptInv'
<1>1. /\ pool' = StaleReset(p) /\ UNCHANGED <<clock, mapping, call>>
      /\ proc[p].pc \in {"ask", "last"}
      /\ proc' = [proc EXCEPT ![p] = IF proc[p].pc = "last" THEN Idle ELSE TriesAgain(p)]
    BY DEF TurnedDown
<1>2. DOMAIN pool' = DOMAIN pool /\ \A m \in DOMAIN pool : pool'[m] \in {0, pool[m]}
    BY <1>1, ResetType DEF PoolTypes
<1>3. /\ proc'[p].pc \in {"idle", "wait"} /\ proc'[p].run = NoRun
      /\ \A q \in Procs \ {p} : proc'[q] = proc[q]
    BY <1>1, IdleType, TriesAgainType DEF PoolTypes, TypeOK, KeptInv, OldRuns
<1>4. ScoresPast'
    <2>1. \A m \in DOMAIN pool : pool'[m] <= clock
        BY <1>2 DEF KeptInv, ScoresPast, PoolTypes, TypeOK
    <2> QED
        BY <2>1, <1>1, <1>2, <1>3 DEF KeptInv, ScoresPast
<1>5. OldRuns' /\ OwnNumber'
    BY <1>1, <1>3, ConstantsAssumption DEF KeptInv, OldRuns, OwnNumber
<1>6. ASSUME NEW m \in DOMAIN pool PROVE Remembered(m)'
    <2>1. CASE pool'[m] = 0
        BY <2>1 DEF Remembered
    <2>2. CASE pool'[m] = pool[m]
        <3>1. Remembered(m)
            BY DEF KeptInv
        <3>2. \A q \in Procs : Keeps(q, m) => Keeps(q, m)'
            BY <1>1, <1>3 DEF Keeps
        <3>3. \A r \in Runs : Leads(r, m) => Leads(r, m)'
            BY <1>1, <1>3, <2>2 DEF Leads
        <3> QED
            BY <1>1, <2>2, <3>1, <3>2, <3>3 DEF Remembered, Stale
    <2> QED
        BY <1>2, <2>1, <2>2
<1> QED
    BY <1>2, <1>4, <1>5, <1>6 DEF KeptInv

\* The number passes from the coroutine to the run's mapping, which nobody had before.
LEMMA StoreKept ==
    ASSUME ~RedisFaults, PoolTypes, KeptInv, NEW p \in Procs, StoreMapping(p)
    PROVE  KeptInv'
<1>1. PICK r \in Runs :
          /\ call[r].state = "new"
          /\ call' = [call EXCEPT ![r] = [state |-> "dialing", number |-> proc[p].number,
                                          since |-> proc[p].at, reported |-> FALSE]]
          /\ proc' = [proc EXCEPT ![p].pc = "dial", ![p].at = 0, ![p].run = r]
          /\ mapping' = [mapping EXCEPT ![r] = [number |-> proc[p].number,
                                                until |-> clock + MappingTTL]]
    BY DEF StoreMapping
<1>2. proc[p].pc = "held" /\ UNCHANGED <<clock, pool>>
    BY DEF StoreMapping
<1>3. /\ proc'[p].pc = "dial" /\ proc'[p].run = r
      /\ \A q \in Procs \ {p} : proc'[q] = proc[q]
    BY <1>1 DEF PoolTypes, TypeOK, ProcInfo
<1>4. /\ call'[r].state = "dialing"
      /\ \A x \in Runs \ {r} : call'[x] = call[x] /\ mapping'[x] = mapping[x]
      /\ mapping'[r].number = proc[p].number /\ mapping'[r].until = clock + MappingTTL
    BY <1>1 DEF PoolTypes, TypeOK
<1>5. \A q \in Procs : proc[q].run # r
    BY <1>1 DEF KeptInv, OldRuns
<1>6. ScoresPast'
    BY <1>2, <1>3 DEF KeptInv, ScoresPast
<1>7. OldRuns'
    BY <1>3, <1>4 DEF KeptInv, OldRuns
<1>8. OwnNumber'
    BY <1>3, <1>4, <1>5 DEF KeptInv, OwnNumber
<1>9. ASSUME NEW m \in DOMAIN pool PROVE Remembered(m)'
    <2>1. m \in Numbers /\ pool[m] \in Nat /\ clock \in Nat /\ pool[m] <= clock
        BY DEF PoolTypes, TypeOK, KeptInv, ScoresPast
    <2>2. CASE proc[p].number = m
        <3>1. Leads(r, m)'
            BY <1>2, <1>3, <1>4, <1>5, <2>1, <2>2, ConstantsAssumption DEF Leads
        <3> QED
            BY <3>1 DEF Remembered
    <2>3. CASE proc[p].number # m
        <3>1. Remembered(m)
            BY DEF KeptInv
        <3>2. \A q \in Procs : Keeps(q, m) => Keeps(q, m)'
            BY <1>3, <2>3 DEF Keeps
        <3>3. ASSUME NEW x \in Runs, Leads(x, m) PROVE Leads(x, m)'
            <4>1. x # r
                BY <1>1, <2>1, <3>3, ConstantsAssumption
                   DEF Leads, KeptInv, OldRuns, NoMapping
            <4> QED
                BY <1>2, <1>3, <1>4, <3>3, <4>1 DEF Leads
        <3> QED
            BY <1>2, <3>1, <3>2, <3>3 DEF Remembered, Stale
    <2> QED
        BY <2>2, <2>3
<1> QED
    BY <1>2, <1>6, <1>7, <1>8, <1>9 DEF KeptInv

\* The number is freed; the mapping that is about to be deleted leads to no other.
LEMMA ReleaseKept ==
    ASSUME ~RedisFaults, PoolTypes, KeptInv, NEW p \in Procs, Release(p)
    PROVE  KeptInv'
<1> DEFINE num == proc[p].number
<1>1. proc[p].pc = "free" /\ UNCHANGED <<clock, mapping, call>> /\ num \in Numbers
    BY DEF Release, PoolTypes, TypeOK
<1>2. /\ DOMAIN pool' = DOMAIN pool
      /\ num \in DOMAIN pool => pool'[num] = 0
      /\ \A m \in DOMAIN pool \ {num} : pool'[m] = pool[m]
    BY DEF Release, PoolTypes, TypeOK
<1>3. /\ \/ proc'[p].pc \in {"idle", "batch"} /\ proc'[p].run = NoRun
         \/ /\ proc'[p].pc = "unmap" /\ proc'[p].run = proc[p].run
            /\ proc'[p].number = num
      /\ \A q \in Procs \ {p} : proc'[q] = proc[q]
    <2>1. \/ proc' = [proc EXCEPT ![p] = Done(p)]
          \/ proc' = [proc EXCEPT ![p] = [proc[p] EXCEPT !.pc = "unmap"]]
        BY DEF Release
    <2>2. proc \in [Procs -> ProcInfo]
        BY DEF PoolTypes, TypeOK
    <2> QED
        BY <2>1, <2>2, DoneType DEF ProcInfo
<1>4. ScoresPast'
    <2>1. \A m \in DOMAIN pool : pool'[m] <= clock
        BY <1>2 DEF KeptInv, ScoresPast, PoolTypes, TypeOK
    <2> QED
        BY <2>1, <1>1, <1>2, <1>3 DEF KeptInv, ScoresPast
<1>5. OldRuns' /\ OwnNumber'
    BY <1>1, <1>3, ConstantsAssumption DEF KeptInv, OldRuns, OwnNumber
<1>6. ASSUME NEW m \in DOMAIN pool, m # num PROVE Remembered(m)'
    <2>1. Remembered(m) /\ m \in Numbers
        BY DEF KeptInv, PoolTypes, TypeOK
    <2>2. \A q \in Procs : Keeps(q, m) => Keeps(q, m)'
        BY <1>3, <1>6 DEF Keeps
    <2>3. ASSUME NEW r \in Runs, Leads(r, m) PROVE Leads(r, m)'
        <3>1. ~(proc'[p].pc = "unmap" /\ proc'[p].run = r)
            BY <1>1, <1>3, <1>6, <2>1, <2>3, ConstantsAssumption
               DEF Leads, KeptInv, OwnNumber, NoMapping
        <3> QED
            BY <1>1, <1>2, <1>3, <1>6, <2>3, <3>1 DEF Leads
    <2> QED
        BY <1>1, <1>2, <1>6, <2>1, <2>2, <2>3 DEF Remembered, Stale
<1>7. ASSUME NEW m \in DOMAIN pool, m = num PROVE Remembered(m)'
    BY <1>2, <1>7 DEF Remembered
<1> QED
    BY <1>2, <1>4, <1>5, <1>6, <1>7 DEF KeptInv

\* A mapping is deleted that leads nowhere.
LEMMA UnmapKept ==
    ASSUME ~RedisFaults, PoolTypes, KeptInv, NEW p \in Procs, Unmap(p)
    PROVE  KeptInv'
<1> DEFINE r == proc[p].run
<1>1. /\ proc[p].pc = "unmap" /\ r \in Runs /\ UNCHANGED <<clock, pool, call>>
      /\ mapping' = [mapping EXCEPT ![r] = NoMapping] /\ proc' = [proc EXCEPT ![p] = Done(p)]
    BY DEF Unmap, PoolTypes, TypeOK
<1>2. /\ proc'[p].pc \in {"idle", "batch"} /\ proc'[p].run = NoRun
      /\ \A q \in Procs \ {p} : proc'[q] = proc[q]
      /\ mapping'[r] = NoMapping /\ \A x \in Runs \ {r} : mapping'[x] = mapping[x]
    BY <1>1, DoneType DEF PoolTypes, TypeOK
<1>3. ScoresPast' /\ OldRuns' /\ OwnNumber'
    BY <1>1, <1>2, ConstantsAssumption DEF KeptInv, ScoresPast, OldRuns, OwnNumber
<1>4. ASSUME NEW m \in DOMAIN pool PROVE Remembered(m)'
    <2>1. Remembered(m)
        BY DEF KeptInv
    <2>2. \A q \in Procs : Keeps(q, m) => Keeps(q, m)'
        BY <1>1, <1>2 DEF Keeps
    <2>3. \A x \in Runs : Leads(x, m) => Leads(x, m)'
        BY <1>1, <1>2 DEF Leads
    <2> QED
        BY <1>1, <2>1, <2>2, <2>3 DEF Remembered, Stale
<1> QED
    BY <1>1, <1>3, <1>4 DEF KeptInv

\* A mapping expires when its number is stale already.
LEMMA TickKept ==
    ASSUME PoolTypes, KeptInv, StaleTimeout <= MappingTTL, Tick
    PROVE  KeptInv'
<1>1. /\ clock' = clock + 1 /\ clock \in Nat /\ UNCHANGED <<proc, call>>
      /\ pool' \in {EmptyPool, pool}
      /\ mapping' = [r \in Runs |-> IF mapping[r].until <= clock' THEN NoMapping
                                    ELSE mapping[r]]
    BY DEF Tick, PoolTypes, TypeOK
<1>2. pool' = pool \/ DOMAIN pool' = {}
    BY <1>1 DEF EmptyPool
<1>3. ScoresPast'
    BY <1>1, <1>2 DEF KeptInv, ScoresPast, PoolTypes, TypeOK
<1>4. OldRuns' /\ OwnNumber'
    BY <1>1 DEF KeptInv, OldRuns, OwnNumber, PoolTypes, TypeOK
<1>5. ASSUME NEW m \in DOMAIN pool, pool' = pool PROVE Remembered(m)'
    <2>1. Remembered(m) /\ pool[m] \in Nat
        BY DEF KeptInv, PoolTypes, TypeOK
    <2>2. \A q \in Procs : Keeps(q, m) => Keeps(q, m)'
        BY <1>1 DEF Keeps
    <2>3. Stale(m) => Stale(m)'
        BY <1>1, <1>5, ConstantsAssumption DEF Stale
    <2>4. ASSUME NEW r \in Runs, Leads(r, m), pool[m] # 0
          PROVE  Leads(r, m)' \/ Stale(m)'
        <3>1. CASE mapping[r].until <= clock'
            <4>1. mapping[r].until \in Nat
                BY DEF PoolTypes, TypeOK, MapInfo
            <4>2. pool[m] + MappingTTL <= clock'
                BY <1>1, <2>1, <2>4, <3>1, <4>1, ConstantsAssumption DEF Leads
            <4> QED
                BY <1>1, <1>5, <2>1, <2>4, <4>2, ConstantsAssumption DEF Stale
        <3>2. CASE ~(mapping[r].until <= clock')
            BY <1>1, <1>5, <2>4, <3>2 DEF Leads
        <3> QED
            BY <3>1, <3>2
    <2> QED
        BY <1>5, <2>1, <2>2, <2>3, <2>4 DEF Remembered
<1> QED
    BY <1>2, <1>3, <1>4, <1>5 DEF KeptInv

\* New numbers are free.
LEMMA InitializeKept ==
    ASSUME PoolTypes, KeptInv, NEW p \in Procs, InitializePool(p)
    PROVE  KeptInv'
<1>1. pool' \in {pool, AddedNumbers} /\ UNCHANGED <<clock, mapping, call>>
    BY DEF InitializePool
<1>2. /\ proc'[p].pc \in {"refresh", "batch"} /\ proc'[p].run = NoRun
      /\ proc[p].pc = "idle" /\ \A q \in Procs \ {p} : proc'[q] = proc[q]
    <2>1. proc[p].pc = "idle" /\ proc \in [Procs -> ProcInfo] /\ clock \in Nat
        BY DEF InitializePool, PoolTypes, TypeOK
    <2>2. \E s \in {"refresh", "batch"} : proc' = [proc EXCEPT ![p] = InBatch(s, clock)]
        BY DEF InitializePool
    <2> QED
        BY <2>1, <2>2, InBatchType
<1>3. \A n \in DOMAIN pool : n \in DOMAIN pool' /\ pool'[n] = pool[n]
    BY <1>1 DEF AddedNumbers, PoolTypes, TypeOK
<1>4. \A n \in DOMAIN pool' : n \notin DOMAIN pool => pool'[n] = 0
    BY <1>1 DEF AddedNumbers
<1>5. ScoresPast'
    BY <1>1, <1>2, <1>3, <1>4 DEF KeptInv, ScoresPast, PoolTypes, TypeOK
<1>6. OldRuns' /\ OwnNumber'
    BY <1>1, <1>2, ConstantsAssumption DEF KeptInv, OldRuns, OwnNumber
<1>7. ASSUME NEW m \in DOMAIN pool' PROVE Remembered(m)'
    <2>1. CASE m \in DOMAIN pool
        <3>1. Remembered(m) /\ pool'[m] = pool[m]
            BY <1>3, <2>1 DEF KeptInv
        <3>2. \A q \in Procs : Keeps(q, m) => Keeps(q, m)'
            BY <1>2 DEF Keeps
        <3>3. \A r \in Runs : Leads(r, m) => Leads(r, m)'
            BY <1>1, <1>2, <3>1 DEF Leads
        <3> QED
            BY <1>1, <3>1, <3>2, <3>3 DEF Remembered, Stale
    <2>2. CASE m \notin DOMAIN pool
        BY <1>4, <2>2 DEF Remembered
    <2> QED
        BY <2>1, <2>2
<1> QED
    BY <1>5, <1>6, <1>7 DEF KeptInv

\* Without faults, every step keeps track of the numbers in use.
LEMMA StepKept ==
    ASSUME ~RedisFaults, ~Crashes, StaleTimeout <= MappingTTL,
           PoolTypes, KeptInv, [Next]_vars
    PROVE  KeptInv'
<1>1. ASSUME NEW p \in Procs,
             \/ RefreshPool(p) \/ EndBatch(p)
             \/ Ask(p) \/ AskAgain(p) \/ Fallback(p) \/ GiveUp(p) \/ Abandon(p)
      PROVE  KeptInv'
    <2>1. /\ UNCHANGED <<clock, pool, mapping, call>>
          /\ \A q \in Procs \ {p} : proc'[q] = proc[q]
        BY <1>1 DEF RefreshPool, EndBatch, Ask, AskAgain, Fallback, GiveUp, Abandon,
                    PoolTypes, TypeOK
    <2>2. /\ proc'[p].run = NoRun /\ proc'[p].pc \in {"idle", "batch", "ask", "last", "free"}
          /\ proc'[p].pc \in {"ask", "last"} => proc'[p].at = clock
          /\ proc[p].pc \in {"held", "free"} =>
                proc'[p].pc \in {"held", "free"} /\ proc'[p].number = proc[p].number
        <3>1. proc \in [Procs -> ProcInfo]
            BY DEF PoolTypes, TypeOK
        <3>2. proc[p].pc \in {"refresh", "batch", "wait", "held"} => proc[p].run = NoRun
            BY DEF KeptInv, OldRuns
        <3>3. CASE Ask(p)
            <4>1. \E n : proc' = [proc EXCEPT ![p].pc = "ask", ![p].preferred = n,
                                              ![p].at = clock]
                BY <3>3 DEF Ask
            <4> QED
                BY <3>1, <3>2, <3>3, <4>1 DEF Ask, ProcInfo
        <3>4. CASE RefreshPool(p) \/ AskAgain(p) \/ Fallback(p) \/ Abandon(p)
            BY <3>1, <3>2, <3>4 DEF RefreshPool, AskAgain, Fallback, Abandon, ProcInfo
        <3>5. CASE GiveUp(p) \/ EndBatch(p)
            BY <3>1, <3>5 DEF GiveUp, EndBatch, Idle
        <3> QED
            BY <1>1, <3>3, <3>4, <3>5
    <2> QED
        BY <2>1, <2>2, ConstantsAssumption, MovesOn
<1>2. ASSUME NEW p \in Procs,
             \/ Dial(p) \/ DialFails(p) \/ DialForgotten(p) \/ RecordFails(p)
             \/ \E r \in Runs : StatusCallback(p, r)
      PROVE  KeptInv'
    <2>1. /\ UNCHANGED <<clock, pool, mapping>>
          /\ \A q \in Procs \ {p} : proc'[q] = proc[q]
        BY <1>2 DEF Dial, DialFails, DialForgotten, RecordFails, StatusCallback,
                    PoolTypes, TypeOK
    <2>2. \A r \in Runs : call[r].state # "new" => call'[r].state # "new"
        <3>1. call \in [Runs -> CallInfo]
            BY DEF PoolTypes, TypeOK
        <3>2. CASE Dial(p) \/ DialFails(p) \/ DialForgotten(p) \/ RecordFails(p)
            <4>1. \A r \in Runs : \/ call'[r].state = call[r].state
                                  \/ call'[r].state \in {"live", "failed", "stray"}
                BY <3>1, <3>2 DEF Dial, DialFails, DialForgotten, RecordFails, CallInfo
            <4> QED
                BY <4>1
        <3>3. CASE \E r \in Runs : StatusCallback(p, r)
            BY <3>1, <3>3 DEF StatusCallback, CallInfo
        <3> QED
            BY <1>2, <3>2, <3>3
    <2>3. /\ proc[p].pc \in {"dial", "idle"} /\ proc'[p].pc \in {"idle", "batch", "get"}
          /\ proc'[p].pc = "batch" => proc'[p].run = NoRun
          /\ proc'[p].run \in Runs => call[proc'[p].run].state # "new"
        <3>1. proc \in [Procs -> ProcInfo]
            BY DEF PoolTypes, TypeOK
        <3>2. proc[p].run \in Runs => call[proc[p].run].state # "new"
            BY DEF KeptInv, OldRuns
        <3>3. CASE Dial(p) \/ DialForgotten(p)
            BY <3>1, <3>3, DoneType, ConstantsAssumption DEF Dial, DialForgotten
        <3>4. CASE DialFails(p) \/ RecordFails(p)
            BY <3>1, <3>2, <3>4, ToReleaseType DEF DialFails, RecordFails
        <3>5. CASE \E r \in Runs : StatusCallback(p, r)
            BY <3>1, <3>5 DEF StatusCallback, Idle
        <3> QED
            BY <1>2, <3>3, <3>4, <3>5
    <2> QED
        BY <2>1, <2>2, <2>3, MovesOn
<1>3. ASSUME NEW p \in Procs, GetMapping(p) PROVE KeptInv'
    <2>1. /\ UNCHANGED <<clock, pool, mapping, call>> /\ proc[p].pc = "get"
          /\ \A q \in Procs \ {p} : proc'[q] = proc[q]
        BY <1>3 DEF GetMapping, PoolTypes, TypeOK
    <2>2. \/ proc'[p].pc \in {"idle", "batch"} /\ proc'[p].run = NoRun
          \/ /\ proc'[p].pc = "free" /\ proc'[p].run = proc[p].run
             /\ proc'[p].number = mapping[proc[p].run].number
        <3>1. proc \in [Procs -> ProcInfo]
            BY DEF PoolTypes, TypeOK
        <3> QED
            BY <1>3, <3>1, DoneType DEF GetMapping, ProcInfo
    <2>3. proc[p].run \in Runs => call[proc[p].run].state # "new"
        BY DEF KeptInv, OldRuns
    <2> QED
        BY <2>1, <2>2, <2>3, ConstantsAssumption, MovesOn
<1>4. ASSUME NEW r \in Runs, EndCall(r) PROVE KeptInv'
    <2>1. /\ UNCHANGED <<clock, pool, mapping, proc>>
          /\ \A x \in Runs : call[x].state # "new" => call'[x].state # "new"
        BY <1>4 DEF EndCall, PoolTypes, TypeOK, CallInfo
    <2>2. ScoresPast' /\ OwnNumber'
        BY <2>1 DEF KeptInv, ScoresPast, OwnNumber
    <2>3. OldRuns'
        BY <2>1 DEF KeptInv, OldRuns
    <2>4. \A m \in DOMAIN pool : Remembered(m)'
        BY <2>1 DEF KeptInv, Remembered, Keeps, Leads, Stale
    <2> QED
        BY <2>1, <2>2, <2>3, <2>4 DEF KeptInv
<1>5. CASE UNCHANGED vars
    BY <1>5 DEF vars, KeptInv, ScoresPast, OldRuns, OwnNumber, Remembered, Keeps, Leads, Stale
<1>6. ASSUME NEW p \in Procs, InitializePool(p) PROVE KeptInv'
    BY <1>6, InitializeKept
<1>7. CASE Tick
    BY <1>7, TickKept
<1>8. ASSUME NEW p \in Procs, Step(p) PROVE KeptInv'
    BY <1>1, <1>2, <1>3, <1>6, <1>8, AcquireKept, TurnedDownKept, StoreKept, ReleaseKept,
       UnmapKept DEF Step
<1>9. ASSUME NEW p \in Procs, Crash(p) PROVE FALSE
    BY <1>9 DEF Crash
<1> QED
    BY <1>2, <1>4, <1>5, <1>7, <1>8, <1>9 DEF Next, Procs

\* What the bookkeeping says of the numbers is the property.
LEMMA KeptIsRemembered == KeptInv => NoNumberForgotten
BY DEF KeptInv, Remembered, Keeps, Leads, NoNumberForgotten

\* Without faults no number in use is forgotten, if the mapping of a run lives at least
\* as long as it takes a number to become stale (DEFAULT_TTL and stale_call_timeout):
\* whatever the numbers, the dispatchers and the cleaners, with repeated callbacks and
\* failing database writes.
THEOREM NoNumberForgottenHolds ==
    ASSUME StaleTimeout <= MappingTTL
    PROVE  Spec => []NoNumberForgotten
<1>1. CASE RedisFaults \/ Crashes
    <2>1. NoNumberForgotten
        BY <1>1 DEF NoNumberForgotten
    <2> QED
        BY <2>1, PTL
<1>2. CASE ~RedisFaults /\ ~Crashes
    <2>1. PoolTypes /\ KeptInv /\ [Next]_vars => (PoolTypes /\ KeptInv)'
        BY <1>2, StepType, StepKept
    <2>2. Init => PoolTypes /\ KeptInv
        BY InitType, InitKept
    <2> QED
        BY <2>1, <2>2, KeptIsRemembered, PTL DEF Spec
<1> QED
    BY <1>1, <1>2
=============================================================================

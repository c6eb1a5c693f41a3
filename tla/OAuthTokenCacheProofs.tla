----------------------- MODULE OAuthTokenCacheProofs -----------------------
(* Theorems about OAuthTokenCache, for any numbers of calls, invalidations *)
(* and workers, and any bounds that satisfy TokenTimesAssumption.          *)
EXTENDS OAuthTokenCache, TLAPS

\* What every action of a call of get_or_fetch_token leaves alone.
FetchStep(f) ==
    \/ \E force \in BOOLEAN : Enter(f, force)
    \/ Read(f) \/ Lock(f) \/ Recheck(f)
    \/ \E life \in Lifetimes : Answer(f, life)
    \/ Fail(f) \/ Write(f) \/ Again(f)

InvalStep(i) == ReadClock(i) \/ Stamp(i) \/ Delete(i)

\* The next-state relation by actor.
LEMMA NextCases ==
    ASSUME Next
    PROVE  (\E f \in Fetchers : FetchStep(f)) \/ (\E i \in Invalidators : InvalStep(i)) \/ Tick
BY DEF Next, FetchStep, InvalStep

LEMMA InitInv == Init => TokenInv
<1> SUFFICES ASSUME Init PROVE TokenInv
  OBVIOUS
<1> USE DEF Init, IdleFetcher, IdleInval, NoKey, NoToken
<1>1. TypeOK
  BY DEF TypeOK, Token, FetcherInfo, InvalInfo
<1>2. ReadingsArePast
  BY DEF ReadingsArePast, InFlight
<1>3. StampsProtect
  BY DEF StampsProtect, StampGuards
<1>4. CacheIsFresh /\ NoTokenOutlivesInvalidation
  BY DEF CacheIsFresh, NoTokenOutlivesInvalidation
<1> QED
  BY <1>1, <1>2, <1>3, <1>4 DEF TokenInv

\* A call that moves keeps its type.
LEMMA FetcherMoves ==
    ASSUME TypeOK, NEW f \in Fetchers, NEW info \in FetcherInfo,
           fetcher' = [fetcher EXCEPT ![f] = info]
    PROVE  fetcher' \in [Fetchers -> FetcherInfo]
BY DEF TypeOK

LEMMA ReturnType ==
    ASSUME TypeOK, NEW f \in Fetchers, NEW start \in Nat, Return(f, start)
    PROVE  fetcher' \in [Fetchers -> FetcherInfo]
<1> DEFINE info == [IdleFetcher EXCEPT !.pc = "done", !.since = fetcher[f].since, !.got = start]
<1>1. info \in FetcherInfo
  BY DEF TypeOK, FetcherInfo, IdleFetcher
<1> QED
  BY <1>1, FetcherMoves DEF Return

LEMMA TypeStep == ASSUME TokenInv, [Next]_tokenVars PROVE TypeOK'
<1> USE TokenTimesAssumption DEF TokenInv
<1>0. /\ now \in Nat /\ purged \in Nat /\ fetcher \in [Fetchers -> FetcherInfo]
      /\ cached \in [until : Nat, token : Token] /\ inval \in [Invalidators -> InvalInfo]
      /\ stamp \in [until : Nat, at : Nat]
  BY DEF TypeOK
<1>1. ASSUME NEW f \in Fetchers, FetchStep(f) PROVE TypeOK'
  <2>0. fetcher[f] \in FetcherInfo
    BY <1>0
  <2>1. ASSUME NEW force \in BOOLEAN, Enter(f, force) PROVE TypeOK'
    <3> DEFINE info == [IdleFetcher EXCEPT !.pc = IF force THEN "lock" ELSE "read",
                                           !.force = force, !.start = now, !.since = purged]
    <3>1. info \in FetcherInfo
      BY <1>0 DEF FetcherInfo, IdleFetcher
    <3>2. fetcher' \in [Fetchers -> FetcherInfo]
      BY <2>1, <3>1, FetcherMoves DEF Enter
    <3> QED
      BY <1>0, <2>1, <3>2 DEF Enter, TypeOK
  <2>2. CASE Read(f) \/ Recheck(f)
    <3>1. cached.token.start \in Nat
      BY <1>0 DEF Token
    <3>2. CASE Return(f, cached.token.start)
      BY <1>0, <2>2, <3>1, <3>2, ReturnType DEF Read, Recheck, Look, TypeOK
    <3>3. CASE Goto(f, "lock") \/ Request(f)
      <4>1. fetcher' \in [Fetchers -> FetcherInfo]
        BY <1>0, <3>3 DEF Goto, Request, FetcherInfo
      <4> QED
        BY <1>0, <2>2, <4>1 DEF Read, Recheck, Look, TypeOK
    <3> QED
      BY <2>2, <3>2, <3>3 DEF Read, Recheck, Look
  <2>3. CASE Lock(f)
    <3>1. fetcher' \in [Fetchers -> FetcherInfo]
      BY <1>0, <2>3 DEF Lock, Goto, Request, FetcherInfo
    <3> QED
      BY <1>0, <2>3, <3>1 DEF Lock, TypeOK
  <2>4. ASSUME NEW life \in Lifetimes, Answer(f, life) PROVE TypeOK'
    <3>1. CASE life > Margin
      <4>1. fetcher' \in [Fetchers -> FetcherInfo]
        BY <1>0, <2>4, <3>1 DEF Answer, FetcherInfo
      <4> QED
        BY <1>0, <2>4, <4>1 DEF Answer, TypeOK
    <3>2. CASE ~(life > Margin)
      <4>1. fetcher[f].start \in Nat
        BY <2>0 DEF FetcherInfo
      <4> QED
        BY <1>0, <2>4, <3>2, <4>1, ReturnType DEF Answer, TypeOK
    <3> QED
      BY <3>1, <3>2
  <2>5. CASE Fail(f) \/ Again(f)
    <3>1. fetcher' \in [Fetchers -> FetcherInfo]
      BY <1>0, <2>5, FetcherMoves DEF Fail, Again, FetcherInfo, IdleFetcher
    <3> QED
      BY <1>0, <2>5, <3>1 DEF Fail, Again, TypeOK
  <2>6. CASE Write(f)
    <3>1. /\ CacheTTL(fetcher[f].life) \in Nat
          /\ fetcher[f].start \in Nat /\ FetchedToken(f) \in Token
      BY <2>0, <2>6 DEF Write, CacheTTL, ReadingsArePast, FetcherInfo, FetchedToken, Token
    <3>2. fetcher' \in [Fetchers -> FetcherInfo]
      BY <2>6, <3>1, ReturnType DEF Write
    <3>3. cached' \in [until : Nat, token : Token]
      BY <1>0, <2>6, <3>1 DEF Write
    <3> QED
      BY <1>0, <2>6, <3>2, <3>3 DEF Write, TypeOK
  <2> QED
    BY <1>1, <2>1, <2>2, <2>3, <2>4, <2>5, <2>6 DEF FetchStep
<1>2. ASSUME NEW i \in Invalidators, InvalStep(i) PROVE TypeOK'
  <2>1. CASE ReadClock(i)
    BY <1>0, <2>1 DEF ReadClock, Readings, InvalInfo, TypeOK
  <2>2. CASE Stamp(i)
    BY <1>0, <2>2 DEF Stamp, SetStamp, InvalInfo, IdleInval, TypeOK
  <2>3. CASE Delete(i)
    BY <1>0, <2>3 DEF Delete, InvalInfo, IdleInval, NoKey, NoToken, Token, TypeOK
  <2> QED
    BY <1>2, <2>1, <2>2, <2>3 DEF InvalStep
<1>3. CASE Tick
  BY <1>0, <1>3 DEF Tick, TypeOK
<1>4. CASE UNCHANGED tokenVars
  BY <1>0, <1>4 DEF tokenVars, TypeOK
<1> QED
  BY <1>1, <1>2, <1>3, <1>4, NextCases
\* What a step of a call leaves alone, and what it does to its own record.
LEMMA FetchFrame ==
    ASSUME TypeOK, NEW f \in Fetchers, FetchStep(f)
    PROVE  /\ UNCHANGED <<now, stamp, inval, purged>>
           /\ \A g \in Fetchers \ {f} : fetcher'[g] = fetcher[g]
           /\ DOMAIN fetcher' = Fetchers
<1>1. DOMAIN fetcher = Fetchers
  BY DEF TypeOK
<1> QED
  BY <1>1 DEF FetchStep, Enter, Read, Recheck, Look, Lock, Answer, Fail, Write, Again, Goto, Return,
              Request

\* The calls' clock readings.
FetcherPast(f) ==
    /\ InFlight(f) => /\ fetcher[f].since <= fetcher[f].start
                      /\ fetcher[f].start <= now /\ now <= fetcher[f].start + MaxGet
    /\ fetcher[f].pc \in {"fetch", "write"} => now <= fetcher[f].born + MaxFetch
    /\ fetcher[f].pc = "write" => fetcher[f].life > Margin
    /\ fetcher[f].since <= purged

LEMMA ReadingsByPart ==
    ReadingsArePast <=>
      /\ purged <= now
      /\ \A i \in Invalidators : inval[i].from <= inval[i].at /\ inval[i].at <= now
      /\ \A f \in Fetchers : FetcherPast(f)
BY DEF ReadingsArePast, FetcherPast

LEMMA OwnReading ==
    ASSUME TokenInv, TypeOK', NEW f \in Fetchers, FetchStep(f)
    PROVE  FetcherPast(f)'
<1> USE TokenTimesAssumption
<1>0. /\ fetcher[f] \in FetcherInfo /\ now \in Nat /\ purged \in Nat /\ purged <= now
      /\ FetcherPast(f) /\ DOMAIN fetcher = Fetchers
  BY ReadingsByPart DEF TokenInv, TypeOK
<1>1. now' = now /\ purged' = purged
  BY FetchFrame DEF TokenInv
<1>2. ASSUME NEW force \in BOOLEAN, Enter(f, force) PROVE FetcherPast(f)'
  BY <1>0, <1>1, <1>2 DEF Enter, IdleFetcher, FetcherPast, InFlight
<1>3. ASSUME NEW start, Return(f, start) PROVE FetcherPast(f)'
  BY <1>0, <1>1, <1>3 DEF Return, IdleFetcher, FetcherPast, InFlight
<1>4. ASSUME NEW pc \in {"lock", "recheck"}, Goto(f, pc), InFlight(f) PROVE FetcherPast(f)'
  BY <1>0, <1>1, <1>4 DEF Goto, FetcherPast, InFlight
<1>5. ASSUME Request(f), InFlight(f) PROVE FetcherPast(f)'
  BY <1>0, <1>1, <1>5 DEF Request, FetcherPast, InFlight
<1>6. CASE Read(f)
  BY <1>3, <1>4, <1>6 DEF Read, Look, InFlight
<1>7. CASE Recheck(f)
  BY <1>3, <1>5, <1>7 DEF Recheck, Look, InFlight
<1>8. CASE Lock(f)
  BY <1>4, <1>5, <1>8 DEF Lock, InFlight
<1>9. ASSUME NEW life \in Lifetimes, Answer(f, life) PROVE FetcherPast(f)'
  <2>1. CASE life > Margin
    <3>1. fetcher' = [fetcher EXCEPT ![f] = [fetcher[f] EXCEPT !.pc = "write", !.life = life]]
      BY <1>0, <1>9, <2>1 DEF Answer
    <3>2. /\ fetcher'[f].pc = "write" /\ fetcher'[f].life = life
          /\ fetcher'[f].since = fetcher[f].since /\ fetcher'[f].start = fetcher[f].start
          /\ fetcher'[f].born = fetcher[f].born
      BY <1>0, <3>1 DEF FetcherInfo
    <3> QED
      BY <1>0, <1>1, <1>9, <2>1, <3>2 DEF Answer, FetcherPast, InFlight
  <2> QED
    BY <1>3, <1>9, <2>1 DEF Answer
<1>10. CASE Fail(f) \/ Again(f)
  BY <1>0, <1>1, <1>10 DEF Fail, Again, IdleFetcher, FetcherPast, InFlight
<1>11. CASE Write(f)
  BY <1>3, <1>11 DEF Write
<1> QED
  BY <1>2, <1>6, <1>7, <1>8, <1>9, <1>10, <1>11 DEF FetchStep

LEMMA ReadingsStep == ASSUME TokenInv, [Next]_tokenVars, TypeOK' PROVE ReadingsArePast'
<1> USE TokenTimesAssumption
<1>0. /\ now \in Nat /\ purged \in Nat /\ purged <= now
      /\ inval \in [Invalidators -> InvalInfo] /\ fetcher \in [Fetchers -> FetcherInfo]
      /\ \A i \in Invalidators : inval[i].from <= inval[i].at /\ inval[i].at <= now
      /\ \A f \in Fetchers : FetcherPast(f)
  BY ReadingsByPart DEF TokenInv, TypeOK
<1>1. ASSUME NEW f \in Fetchers, FetchStep(f) PROVE ReadingsArePast'
  <2>1. \A g \in Fetchers \ {f} : FetcherPast(g)'
    BY <1>0, <1>1, FetchFrame DEF FetcherPast, InFlight, TokenInv
  <2>2. FetcherPast(f)'
    BY <1>1, OwnReading
  <2>3. UNCHANGED <<now, inval, purged>>
    BY <1>1, FetchFrame DEF TokenInv
  <2> QED
    BY <1>0, <2>1, <2>2, <2>3 DEF ReadingsArePast, FetcherPast
<1>2. ASSUME NEW i \in Invalidators, InvalStep(i) PROVE ReadingsArePast'
  <2>1. UNCHANGED <<now, fetcher>>
    BY <1>2 DEF InvalStep, ReadClock, Stamp, Delete
  <2>2. purged <= purged' /\ purged' <= now
    <3>1. inval[i].from \in Nat /\ inval[i].at \in Nat
      BY <1>0 DEF InvalInfo
    <3> QED
      BY <1>0, <1>2, <3>1 DEF InvalStep, ReadClock, Stamp, Delete
  <2>3. \A j \in Invalidators : inval'[j].from <= inval'[j].at /\ inval'[j].at <= now
    <3>1. CASE ReadClock(i)
      <4>1. PICK oldest \in Readings :
              /\ \A t \in Readings : oldest <= t
              /\ inval' = [inval EXCEPT ![i] = [pc |-> "stamp", at |-> now, from |-> oldest]]
        BY <3>1 DEF ReadClock
      <4>2. oldest <= now
        BY <4>1 DEF Readings
      <4> QED
        BY <1>0, <4>1, <4>2
    <3>2. CASE Stamp(i)
      BY <1>0, <3>2 DEF Stamp, IdleInval, InvalInfo
    <3>3. CASE Delete(i)
      BY <1>0, <3>3 DEF Delete, IdleInval, InvalInfo
    <3> QED
      BY <1>2, <3>1, <3>2, <3>3 DEF InvalStep
  <2>4. \A f \in Fetchers : FetcherPast(f)'
    <3> SUFFICES ASSUME NEW f \in Fetchers PROVE FetcherPast(f)'
      OBVIOUS
    <3>1. fetcher[f].since \in Nat /\ purged' \in Nat
      BY <1>0 DEF FetcherInfo, TypeOK
    <3> QED
      BY <1>0, <2>1, <2>2, <3>1 DEF FetcherPast, InFlight
  <2> QED
    BY <2>1, <2>2, <2>3, <2>4 DEF ReadingsArePast, FetcherPast
<1>3. CASE Tick
  <2>1. \A i \in Invalidators : inval[i].at \in Nat
    BY <1>0 DEF InvalInfo
  <2>2. \A f \in Fetchers : fetcher[f].start \in Nat /\ fetcher[f].born \in Nat
    BY <1>0 DEF FetcherInfo
  <2>3. \A f \in Fetchers : FetcherPast(f)'
    BY <1>0, <1>3, <2>2 DEF Tick, FetcherPast, InFlight
  <2> QED
    BY <1>0, <1>3, <2>1, <2>3 DEF Tick, ReadingsArePast, FetcherPast
<1>4. CASE UNCHANGED tokenVars
  BY <1>4 DEF tokenVars, TokenInv, ReadingsArePast, InFlight
<1> QED
  BY <1>1, <1>2, <1>3, <1>4, NextCases
\* A stamp reaches Redis later than anything it must protect: an invalidation
\* that reads the clock now reads it no earlier than those before it.
LEMMA StampsStep == ASSUME TokenInv, [Next]_tokenVars, TypeOK' PROVE StampsProtect'
<1> USE TokenTimesAssumption
<1>0. /\ now \in Nat /\ purged \in Nat /\ purged <= now
      /\ inval \in [Invalidators -> InvalInfo] /\ stamp \in [until : Nat, at : Nat]
      /\ \A i \in Invalidators : inval[i].from <= inval[i].at /\ inval[i].at <= now
      /\ \A i \in Invalidators : inval[i].from \in Nat /\ inval[i].at \in Nat
      /\ StampsProtect
  BY DEF TokenInv, TypeOK, ReadingsArePast, InvalInfo
<1>1. ASSUME NEW f \in Fetchers, FetchStep(f) PROVE StampsProtect'
  BY <1>0, <1>1, FetchFrame DEF TokenInv, StampsProtect, StampGuards
<1>2. ASSUME NEW i \in Invalidators, ReadClock(i) PROVE StampsProtect'
  <2>1. PICK oldest \in Readings :
          /\ \A t \in Readings : oldest <= t
          /\ inval' = [inval EXCEPT ![i] = [pc |-> "stamp", at |-> now, from |-> oldest]]
    BY <1>2 DEF ReadClock
  <2>2. /\ inval'[i] = [pc |-> "stamp", at |-> now, from |-> oldest]
        /\ \A j \in Invalidators \ {i} : inval'[j] = inval[j]
        /\ UNCHANGED <<now, stamp, purged>>
    BY <1>0, <1>2, <2>1 DEF ReadClock
  <2>3. oldest <= now /\ \A j \in Invalidators : inval[j].pc = "stamp" => oldest <= inval[j].at
    BY <2>1 DEF Readings
  <2>4. \A from \in Nat : from <= now /\ StampGuards(from) => StampGuards(from)'
    BY <1>0, <2>2 DEF StampGuards
  <2>5. ASSUME NEW j \in Invalidators, inval'[j].pc = "delete"
        PROVE  StampGuards(inval[j].from)'
    <3>1. j # i /\ inval'[j] = inval[j]
      BY <2>2, <2>5
    <3>2. inval[j].from \in Nat /\ inval[j].from <= now /\ StampGuards(inval[j].from)
      BY <1>0, <2>5, <3>1 DEF StampsProtect
    <3> QED
      BY <1>0, <2>2, <3>1, <3>2 DEF StampGuards
  <2>6. \A j, k \in Invalidators : inval'[j].pc = "stamp" /\ inval'[k].pc = "stamp" =>
           inval'[j].from <= inval'[k].at
    <3> SUFFICES ASSUME NEW j \in Invalidators, NEW k \in Invalidators,
                        inval'[j].pc = "stamp", inval'[k].pc = "stamp"
                 PROVE  inval'[j].from <= inval'[k].at
      OBVIOUS
    <3>1. CASE j = i
      BY <2>2, <2>3, <3>1
    <3>2. CASE j # i /\ k = i
      BY <1>0, <2>2, <3>2
    <3>3. CASE j # i /\ k # i
      BY <1>0, <2>2, <3>3 DEF StampsProtect
    <3> QED
      BY <3>1, <3>2, <3>3
  <2> QED
    BY <1>0, <2>2, <2>4, <2>5, <2>6 DEF StampsProtect
<1>3. ASSUME NEW i \in Invalidators, Stamp(i) PROVE StampsProtect'
  <2>1. /\ \A j \in Invalidators \ {i} : inval'[j] = inval[j]
        /\ inval[i].pc = "stamp" /\ UNCHANGED <<now, purged>>
    BY <1>0, <1>3 DEF Stamp
  <2>2. CASE SetStamp(i) /\ inval' = [inval EXCEPT ![i].pc = "delete"]
    <3>1. /\ inval'[i].pc = "delete" /\ inval'[i].from = inval[i].from
          /\ stamp'.at = inval[i].at /\ stamp'.until = now + StampTTL
      BY <1>0, <2>2 DEF SetStamp, InvalInfo
    <3> QED
      BY <1>0, <2>1, <3>1 DEF StampsProtect, StampGuards
  <2>3. CASE SetStamp(i) /\ inval' = [inval EXCEPT ![i] = IdleInval]
    <3>1. /\ inval'[i].pc = "idle"
          /\ stamp'.at = inval[i].at /\ stamp'.until = now + StampTTL
      BY <1>0, <2>3 DEF SetStamp, IdleInval
    <3> QED
      BY <1>0, <2>1, <3>1 DEF StampsProtect, StampGuards
  <2>4. CASE UNCHANGED stamp /\ inval' = [inval EXCEPT ![i] = IdleInval]
    <3>1. inval'[i].pc = "idle"
      BY <1>0, <2>4 DEF IdleInval
    <3> QED
      BY <1>0, <2>1, <2>4, <3>1 DEF StampsProtect, StampGuards
  <2> QED
    BY <1>3, <2>2, <2>3, <2>4 DEF Stamp
<1>4. ASSUME NEW i \in Invalidators, Delete(i) PROVE StampsProtect'
  <2>1. /\ \A j \in Invalidators \ {i} : inval'[j] = inval[j]
        /\ inval'[i].pc = "idle" /\ UNCHANGED <<now, stamp>> /\ inval[i].pc = "delete"
        /\ purged' \in {purged, inval[i].from}
    BY <1>0, <1>4 DEF Delete, IdleInval
  <2>2. StampGuards(purged) /\ StampGuards(inval[i].from)
    BY <1>0, <2>1 DEF StampsProtect
  <2>3. StampGuards(purged)'
    BY <1>0, <2>1, <2>2 DEF StampGuards
  <2> QED
    BY <1>0, <2>1, <2>3 DEF StampsProtect, StampGuards
<1>5. CASE Tick
  BY <1>0, <1>5 DEF Tick, StampsProtect, StampGuards
<1>6. CASE UNCHANGED tokenVars
  BY <1>0, <1>6 DEF tokenVars, StampsProtect, StampGuards
<1> QED
  BY <1>1, <1>2, <1>3, <1>4, <1>5, <1>6, NextCases DEF InvalStep

\* A call that would write an older token finds the stamp, still alive.
LEMMA CacheStep == ASSUME TokenInv, [Next]_tokenVars, TypeOK' PROVE CacheIsFresh'
<1> USE TokenTimesAssumption
<1>0. /\ now \in Nat /\ purged \in Nat /\ purged <= now
      /\ stamp \in [until : Nat, at : Nat] /\ cached \in [until : Nat, token : Token]
      /\ CacheIsFresh /\ StampsProtect
  BY DEF TokenInv, TypeOK, ReadingsArePast
<1>1. CASE UNCHANGED <<cached, purged>>
  BY <1>0, <1>1 DEF CacheIsFresh
<1>2. ASSUME NEW f \in Fetchers, Write(f) PROVE CacheIsFresh'
  <2>1. CASE UNCHANGED cached
    BY <1>1, <1>2, <2>1 DEF Write
  <2>2. CASE ~Stamped(f) /\ cached' = [until |-> now + CacheTTL(fetcher[f].life),
                                       token |-> FetchedToken(f)]
    <3>1. /\ fetcher[f] \in FetcherInfo /\ fetcher[f].start <= now
          /\ now <= fetcher[f].start + MaxGet /\ now <= fetcher[f].born + MaxFetch
          /\ fetcher[f].life > Margin
      BY <1>2 DEF TokenInv, TypeOK, ReadingsArePast, InFlight, Write
    <3>2. /\ fetcher[f].start \in Nat /\ fetcher[f].born \in Nat /\ fetcher[f].life \in Nat
      BY <3>1 DEF FetcherInfo
    <3>3. fetcher[f].start >= purged
      <4> SUFFICES ASSUME fetcher[f].start < purged PROVE FALSE
        BY <1>0, <3>2
      <4>1. purged <= stamp.at /\ (stamp.at = 0 \/ stamp.at + StampTTL <= stamp.until)
        BY <1>0 DEF StampsProtect, StampGuards
      <4>2. fetcher[f].start < stamp.at
        BY <1>0, <3>2, <4>1
      <4>3. now < stamp.until
        BY <1>0, <3>1, <3>2, <4>1, <4>2
      <4> QED
        BY <1>0, <2>2, <3>2, <4>2, <4>3 DEF Stamped, Alive
    <3>4. /\ cached'.token.start = fetcher[f].start
          /\ cached'.token.expires = fetcher[f].born + fetcher[f].life
          /\ cached'.until = now + (fetcher[f].life - Margin)
      BY <2>2 DEF FetchedToken, CacheTTL
    <3>5. purged' = purged
      BY <1>2 DEF Write
    <3> QED
      BY <1>0, <3>1, <3>2, <3>3, <3>4, <3>5 DEF CacheIsFresh
  <2> QED
    BY <1>2, <2>1, <2>2 DEF Write
<1>3. ASSUME NEW i \in Invalidators, Delete(i) PROVE CacheIsFresh'
  <2>1. CASE cached' = NoKey
    BY <2>1 DEF CacheIsFresh, NoKey
  <2>2. CASE UNCHANGED <<cached, purged>>
    BY <1>1, <2>2
  <2> QED
    BY <1>3, <2>1, <2>2 DEF Delete
<1>4. ASSUME NEW f \in Fetchers, FetchStep(f), ~Write(f) PROVE UNCHANGED <<cached, purged>>
  BY <1>4 DEF FetchStep, Enter, Read, Recheck, Look, Lock, Answer, Fail, Again
<1>5. ASSUME NEW i \in Invalidators, InvalStep(i), ~Delete(i) PROVE UNCHANGED <<cached, purged>>
  BY <1>5 DEF InvalStep, ReadClock, Stamp
<1>6. CASE Tick \/ UNCHANGED tokenVars
  BY <1>1, <1>6 DEF Tick, tokenVars
<1> QED
  BY <1>1, <1>2, <1>3, <1>4, <1>5, <1>6, NextCases

\* A call returns a token of its own, or one from the cache.
LEMMA AnswerStep ==
    ASSUME TokenInv, [Next]_tokenVars, TypeOK' PROVE NoTokenOutlivesInvalidation'
<1>0. /\ purged \in Nat /\ fetcher \in [Fetchers -> FetcherInfo]
      /\ cached \in [until : Nat, token : Token] /\ CacheIsFresh /\ now \in Nat
      /\ NoTokenOutlivesInvalidation /\ \A f \in Fetchers : FetcherPast(f)
  BY ReadingsByPart DEF TokenInv, TypeOK
<1>1. CASE UNCHANGED fetcher
  BY <1>0, <1>1 DEF NoTokenOutlivesInvalidation
<1>2. ASSUME NEW f \in Fetchers, FetchStep(f) PROVE NoTokenOutlivesInvalidation'
  <2>0. /\ fetcher[f].since \in Nat /\ fetcher[f].start \in Nat /\ DOMAIN fetcher = Fetchers
        /\ fetcher[f].since <= purged
        /\ InFlight(f) => fetcher[f].since <= fetcher[f].start
    BY <1>0 DEF FetcherInfo, FetcherPast
  <2>1. ASSUME NEW start \in Nat, Return(f, start), fetcher[f].since <= start
        PROVE  fetcher'[f].got >= fetcher'[f].since
    BY <2>0, <2>1 DEF Return, IdleFetcher
  <2>2. CASE fetcher'[f].pc # "done"
    BY <1>0, <1>2, <2>2, FetchFrame DEF NoTokenOutlivesInvalidation, TokenInv
  <2>3. CASE Alive(cached) /\ Return(f, cached.token.start)
    <3>1. cached.token.start \in Nat /\ purged <= cached.token.start
      BY <1>0, <2>3 DEF Alive, CacheIsFresh, Token
    <3>2. fetcher[f].since <= cached.token.start
      BY <1>0, <2>0, <3>1
    <3>3. fetcher'[f].got >= fetcher'[f].since
      BY <2>1, <2>3, <3>1, <3>2
    <3> QED
      BY <1>0, <1>2, <3>3, FetchFrame DEF NoTokenOutlivesInvalidation, TokenInv
  <2>4. CASE InFlight(f) /\ Return(f, fetcher[f].start)
    <3>1. fetcher'[f].got >= fetcher'[f].since
      BY <2>0, <2>1, <2>4
    <3> QED
      BY <1>0, <1>2, <3>1, FetchFrame DEF NoTokenOutlivesInvalidation, TokenInv
  <2>5. ASSUME ~(Alive(cached) /\ Return(f, cached.token.start)),
               ~(InFlight(f) /\ Return(f, fetcher[f].start))
        PROVE  fetcher'[f].pc # "done"
    <3>1. CASE \E force \in BOOLEAN : Enter(f, force)
      BY <2>0, <3>1 DEF Enter, IdleFetcher
    <3>2. CASE Read(f) \/ Recheck(f) \/ Lock(f)
      <4>1. Goto(f, "lock") \/ Goto(f, "recheck") \/ Request(f)
        BY <2>5, <3>2 DEF Read, Recheck, Lock, Look
      <4>2. ASSUME NEW pc \in {"lock", "recheck"}, Goto(f, pc) PROVE fetcher'[f].pc = pc
        BY <2>0, <4>2 DEF Goto
      <4>3. ASSUME Request(f) PROVE fetcher'[f].pc = "fetch"
        BY <1>0, <4>3 DEF Request, FetcherInfo
      <4> QED
        BY <4>1, <4>2, <4>3
    <3>3. ASSUME NEW life \in Lifetimes, Answer(f, life) PROVE fetcher'[f].pc # "done"
      <4>1. fetcher' = [fetcher EXCEPT ![f].pc = "write", ![f].life = life]
        BY <2>5, <3>3 DEF Answer, InFlight
      <4> QED
        BY <1>0, <4>1 DEF FetcherInfo
    <3>4. CASE Fail(f) \/ Again(f)
      BY <2>0, <3>4 DEF Fail, Again, IdleFetcher
    <3>5. CASE Write(f)
      BY <2>5, <3>5 DEF Write, InFlight
    <3> QED
      BY <1>2, <3>1, <3>2, <3>3, <3>4, <3>5 DEF FetchStep
  <2> QED
    BY <2>2, <2>3, <2>4, <2>5
<1>3. ASSUME NEW i \in Invalidators, InvalStep(i) PROVE UNCHANGED fetcher
  BY <1>3 DEF InvalStep, ReadClock, Stamp, Delete
<1> QED
  BY <1>1, <1>2, <1>3, NextCases DEF Tick, tokenVars

\* The invariant of the whole component is inductive.
THEOREM TokenInvariant == Spec => []TokenInv
<1>1. ASSUME TokenInv, [Next]_tokenVars PROVE TokenInv'
  BY <1>1, TypeStep, ReadingsStep, StampsStep, CacheStep, AnswerStep DEF TokenInv
<1> QED
  BY <1>1, InitInv, PTL DEF Spec

\* No call is given a token that was fetched before an invalidation which had
\* finished when the call began (get_or_fetch_token, invalidate_token).
THEOREM NoTokenOutlivesInvalidationHolds == Spec => []NoTokenOutlivesInvalidation
BY TokenInvariant, PTL DEF TokenInv

\* A cached token has not expired at the provider (_EXPIRY_MARGIN).
THEOREM ServedTokensAreAliveHolds == Spec => []ServedTokensAreAlive
<1>1. TokenInv => ServedTokensAreAlive
  BY DEF TokenInv, TypeOK, CacheIsFresh, ServedTokensAreAlive, Alive, Token
<1> QED
  BY <1>1, TokenInvariant, PTL
=============================================================================

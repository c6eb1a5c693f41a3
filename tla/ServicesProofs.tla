--------------------------- MODULE ServicesProofs ---------------------------
(***************************************************************************)
(* Proofs about the circuit breaker, and about the services of MCServices  *)
(* together.                                                               *)
(***************************************************************************)
EXTENDS MCServices, OAuthTokenCacheProofs, EngineToolProofs
-----------------------------------------------------------------------------
(***************************************************************************)
(* The circuit breaker's verdicts are exact, for any number of reports,    *)
(* checks, pauses, resets and faults, and any window longer than the delay *)
(* of a script.  The argument is that no set is ever cut further than the  *)
(* window of the latest reading: a script that comes late cuts less than   *)
(* one before it, and what it adds still lies in that window.              *)
(***************************************************************************)

\* The instants of the outcomes of one kind recorded since the last reset that lie
\* in the window of the latest reading.
InLatestWindow(failed) ==
    {report[o].at : o \in {o \in counted : /\ report[o].failed = failed
                                           /\ report[o].at > latest - Window}}

\* A script runs within its delay.
ScriptsAreTimely ==
    /\ latest <= clock
    /\ \A o \in Outcomes : report[o].pc = "record" =>
         report[o].at \in 1..clock /\ clock <= report[o].at + MaxDelay
    /\ check.pc = "evaluate" => check.at \in 1..clock /\ clock <= check.at + MaxDelay

\* What is counted has been recorded.
CountedIsRecorded == \A o \in counted : report[o].pc \in {"pause", "done"}

SetsAreExact == failures = InLatestWindow(TRUE) /\ successes = InLatestWindow(FALSE)

BreakerInv == BreakerTypeOK /\ ScriptsAreTimely /\ CountedIsRecorded /\ SetsAreExact

LEMMA BreakerInvInit == BreakerInit => BreakerInv
  <1> SUFFICES ASSUME BreakerInit PROVE BreakerInv
    OBVIOUS
  <1> USE BreakerAssumption DEF BreakerInit
  <1>1. BreakerTypeOK
    <2>1. 1 \in Instants /\ 0 \in 0..BreakerHorizon /\ misfires \in 0..BreakerFaults
      BY DEF Instants
    <2>2. report \in [Outcomes -> [pc : {"idle", "clock", "record", "pause", "done"},
                                   failed : BOOLEAN, at : 0..BreakerHorizon]]
      BY <2>1
    <2>3. check \in [pc : {"idle", "evaluate", "pause"}, at : 0..BreakerHorizon]
      BY <2>1
    <2> QED
      BY <2>1, <2>2, <2>3 DEF BreakerTypeOK
  <1>2. ScriptsAreTimely /\ CountedIsRecorded /\ SetsAreExact
    BY DEF ScriptsAreTimely, CountedIsRecorded, SetsAreExact, InLatestWindow
  <1> QED
    BY <1>1, <1>2 DEF BreakerInv

\* A cut by a timely reading leaves what lies in the window of the latest one.
LEMMA CutsAreExact ==
    ASSUME BreakerInv, NEW at \in 1..clock, clock <= at + MaxDelay, Cut(at),
           NEW failed \in BOOLEAN
    PROVE  /\ latest' \in 0..clock /\ latest' \in 0..BreakerHorizon
           /\ at > latest' - Window
           /\ Trimmed(InLatestWindow(failed), at) =
                {report[o].at : o \in {o \in counted : /\ report[o].failed = failed
                                                       /\ report[o].at > latest' - Window}}
  <1> USE BreakerAssumption DEF BreakerInv, BreakerTypeOK, ScriptsAreTimely, Instants
  <1>1. /\ latest' \in 0..clock /\ latest' \in 0..BreakerHorizon
        /\ at > latest' - Window /\ latest' >= latest /\ latest' >= at
        /\ latest' = at \/ latest' = latest
    BY DEF Cut
  <1>2. \A o \in counted : /\ report[o].at \in 0..BreakerHorizon
                           /\ (report[o].at > latest - Window /\ InWindow(report[o].at, at)
                                 <=> report[o].at > latest' - Window)
    BY <1>1 DEF InWindow
  <1> QED
    BY <1>1, <1>2 DEF Trimmed, InLatestWindow

\* A step that neither records nor cuts nor resets keeps the sets.
LEMMA SetsKept ==
    ASSUME BreakerInv, UNCHANGED <<failures, successes, counted, latest>>,
           \A o \in counted : /\ report'[o].at = report[o].at
                              /\ report'[o].failed = report[o].failed
                              /\ report'[o].pc \in {"pause", "done"}
    PROVE  SetsAreExact' /\ CountedIsRecorded'
  <1>1. InLatestWindow(TRUE)' = InLatestWindow(TRUE) /\ InLatestWindow(FALSE)' = InLatestWindow(FALSE)
    BY DEF InLatestWindow
  <1> QED
    BY <1>1 DEF SetsAreExact, CountedIsRecorded, BreakerInv

LEMMA MisfireType ==
    ASSUME misfires \in 0..BreakerFaults, Misfire
    PROVE  misfires' \in 0..BreakerFaults /\ misfires' # misfires
  BY BreakerAssumption DEF Misfire
-----------------------------------------------------------------------------
LEMMA RecordStep ==
    ASSUME BreakerInv, NEW o \in Outcomes, Record(o)
    PROVE  /\ BreakerInv'
           /\ report'[o].pc = "pause" <=> Verdict
           /\ counted' = counted \cup {o} /\ check' = check
  <1> DEFINE at == report[o].at
             new(kind) == IF report[o].failed = kind THEN {at} ELSE {}
  <1>1. /\ report[o].pc = "record" /\ at \in 1..clock /\ clock <= at + MaxDelay /\ Cut(at)
        /\ failures' = Trimmed(failures, at) \cup new(TRUE)
        /\ successes' = Trimmed(successes, at) \cup new(FALSE)
        /\ counted' = counted \cup {o} /\ o \notin counted
        /\ report' = [report EXCEPT ![o].pc = IF Verdict THEN "pause" ELSE "done"]
        /\ UNCHANGED <<clock, state, check, resetting, misfires>>
    BY DEF Record, BreakerInv, ScriptsAreTimely, CountedIsRecorded
  <1>2. /\ report' \in [Outcomes -> [pc : {"idle", "clock", "record", "pause", "done"},
                                     failed : BOOLEAN, at : 0..BreakerHorizon]]
        /\ report'[o].pc \in {"pause", "done"} /\ (report'[o].pc = "pause" <=> Verdict)
        /\ \A p \in Outcomes : report'[p].at = report[p].at /\ report'[p].failed = report[p].failed
        /\ \A p \in Outcomes \ {o} : report'[p] = report[p]
    <2> HIDE DEF Verdict
    <2> QED
      BY <1>1 DEF BreakerInv, BreakerTypeOK
  <1>3. /\ latest' \in 0..clock /\ latest' \in 0..BreakerHorizon /\ at > latest' - Window
        /\ \A failed \in BOOLEAN : Trimmed(InLatestWindow(failed), at) =
                {report[p].at : p \in {p \in counted : /\ report[p].failed = failed
                                                       /\ report[p].at > latest' - Window}}
    BY <1>1, CutsAreExact
  <1>4. counted' \subseteq Outcomes /\ counted \subseteq Outcomes
    BY <1>1 DEF BreakerInv, BreakerTypeOK
  <1>5. ASSUME NEW failed \in BOOLEAN
        PROVE  InLatestWindow(failed)' = Trimmed(InLatestWindow(failed), at) \cup new(failed)
    BY <1>1, <1>2, <1>3, <1>4 DEF InLatestWindow
  <1>6. SetsAreExact'
    BY <1>1, <1>5 DEF SetsAreExact, BreakerInv
  <1>7. BreakerTypeOK'
    <2>1. failures' \subseteq Instants /\ successes' \subseteq Instants
      BY <1>1 DEF BreakerInv, BreakerTypeOK, Trimmed, Instants
    <2> QED
      BY <1>1, <1>2, <1>3, <1>4, <2>1 DEF BreakerInv, BreakerTypeOK
  <1>8. ScriptsAreTimely'
    BY <1>1, <1>2, <1>3 DEF BreakerInv, ScriptsAreTimely, BreakerTypeOK, Instants
  <1>9. CountedIsRecorded'
    BY <1>1, <1>2, <1>4 DEF BreakerInv, CountedIsRecorded
  <1> QED
    BY <1>1, <1>2, <1>6, <1>7, <1>8, <1>9 DEF BreakerInv

LEMMA EvaluateStep ==
    ASSUME BreakerInv, Evaluate
    PROVE  /\ BreakerInv'
           /\ check'.pc = "pause" <=> Verdict
           /\ counted' = counted
  <1>1. /\ check.pc = "evaluate" /\ check.at \in 1..clock /\ clock <= check.at + MaxDelay
        /\ Cut(check.at)
        /\ failures' = Trimmed(failures, check.at) /\ successes' = Trimmed(successes, check.at)
        /\ UNCHANGED <<clock, state, report, resetting, counted, misfires>>
    BY DEF Evaluate, BreakerInv, ScriptsAreTimely
  <1>2. /\ check' \in [pc : {"idle", "evaluate", "pause"}, at : 0..BreakerHorizon]
        /\ check'.pc \in {"idle", "pause"} /\ (check'.pc = "pause" <=> Verdict)
    <2> HIDE DEF Verdict
    <2> QED
      BY DEF Evaluate, BreakerInv, BreakerTypeOK
  <1>3. /\ latest' \in 0..clock /\ latest' \in 0..BreakerHorizon
        /\ \A failed \in BOOLEAN : Trimmed(InLatestWindow(failed), check.at) =
                {report[p].at : p \in {p \in counted : /\ report[p].failed = failed
                                                       /\ report[p].at > latest' - Window}}
    BY <1>1, CutsAreExact
  <1>4. SetsAreExact'
    BY <1>1, <1>3 DEF SetsAreExact, BreakerInv, InLatestWindow
  <1>5. BreakerTypeOK'
    <2>1. failures' \subseteq Instants /\ successes' \subseteq Instants
      BY <1>1 DEF BreakerInv, BreakerTypeOK, Trimmed
    <2> QED
      BY <1>1, <1>2, <1>3, <2>1 DEF BreakerInv, BreakerTypeOK
  <1>6. ScriptsAreTimely' /\ CountedIsRecorded'
    BY <1>1, <1>2, <1>3 DEF BreakerInv, ScriptsAreTimely, CountedIsRecorded, BreakerTypeOK, Instants
  <1> QED
    BY <1>1, <1>2, <1>4, <1>5, <1>6 DEF BreakerInv

LEMMA ReportSteps ==
    ASSUME BreakerInv, NEW o \in Outcomes,
           \/ \E failed \in BOOLEAN : BeginReport(o, failed)
           \/ ReadReportClock(o) \/ RecordFails(o) \/ Pause(o)
    PROVE  BreakerInv' /\ counted' = counted /\ (check.pc = "evaluate" => check' = check)
  <1> USE BreakerAssumption
  <1>1. /\ UNCHANGED <<clock, failures, successes, check, resetting, counted, latest>>
        /\ \A p \in Outcomes \ {o} : report'[p] = report[p]
        /\ state' \in {"running", "paused"}
        /\ misfires' \in 0..BreakerFaults
    BY MisfireType
       DEF BeginReport, ReadReportClock, RecordFails, Pause, BreakerInv, BreakerTypeOK
  <1>2. /\ report' \in [Outcomes -> [pc : {"idle", "clock", "record", "pause", "done"},
                                     failed : BOOLEAN, at : 0..BreakerHorizon]]
        /\ report'[o].pc = "record" => report'[o].at = clock
        /\ o \in counted => /\ report'[o].at = report[o].at
                            /\ report'[o].failed = report[o].failed
                            /\ report'[o].pc = "done"
    BY DEF BeginReport, ReadReportClock, RecordFails, Pause, BreakerInv, BreakerTypeOK,
           CountedIsRecorded, Instants
  <1>3. BreakerTypeOK'
    BY <1>1, <1>2 DEF BreakerInv, BreakerTypeOK
  <1>4. ScriptsAreTimely'
    BY <1>1, <1>2 DEF BreakerInv, ScriptsAreTimely, BreakerTypeOK, Instants
  <1>5. \A p \in counted : /\ report'[p].at = report[p].at
                           /\ report'[p].failed = report[p].failed
                           /\ report'[p].pc \in {"pause", "done"}
    BY <1>1, <1>2 DEF BreakerInv, BreakerTypeOK, CountedIsRecorded
  <1>6. SetsAreExact' /\ CountedIsRecorded'
    BY <1>1, <1>5, SetsKept
  <1> QED
    BY <1>1, <1>3, <1>4, <1>6 DEF BreakerInv

LEMMA CheckSteps ==
    ASSUME BreakerInv, CheckBegins \/ CheckFails \/ CheckPauses
    PROVE  /\ BreakerInv' /\ counted' = counted
           /\ check.pc = "evaluate" => check' = check \/ misfires' # misfires
  <1> USE BreakerAssumption
  <1>1. /\ UNCHANGED <<clock, failures, successes, report, resetting, counted, latest>>
        /\ state' \in {"running", "paused"}
        /\ misfires' \in 0..BreakerFaults
        /\ check.pc = "evaluate" => check' = check \/ misfires' # misfires
    BY MisfireType DEF CheckBegins, CheckFails, CheckPauses, BreakerInv, BreakerTypeOK
  <1>2. /\ check' \in [pc : {"idle", "evaluate", "pause"}, at : 0..BreakerHorizon]
        /\ check'.pc = "evaluate" => check'.at = clock
    BY DEF CheckBegins, CheckFails, CheckPauses, BreakerInv, BreakerTypeOK, Instants
  <1>3. BreakerTypeOK'
    BY <1>1, <1>2 DEF BreakerInv, BreakerTypeOK
  <1>4. ScriptsAreTimely'
    BY <1>1, <1>2 DEF BreakerInv, ScriptsAreTimely, BreakerTypeOK, Instants
  <1>5. SetsAreExact' /\ CountedIsRecorded'
    BY <1>1, SetsKept DEF BreakerInv, CountedIsRecorded
  <1> QED
    BY <1>1, <1>3, <1>4, <1>5 DEF BreakerInv

LEMMA OtherSteps ==
    ASSUME BreakerInv, UserPauses \/ Resume \/ Reset \/ Elapse
    PROVE  BreakerInv' /\ counted' \subseteq counted /\ check' = check
  <1> USE BreakerAssumption
  <1>1. UNCHANGED <<report, check, latest>> /\ counted' \subseteq counted
    BY DEF UserPauses, Resume, Reset, Elapse
  <1>2. BreakerTypeOK'
    <2>1. clock' \in Instants
      BY DEF UserPauses, Resume, Reset, Elapse, BreakerInv, BreakerTypeOK, Instants
    <2>2. /\ failures' \subseteq Instants /\ successes' \subseteq Instants
          /\ counted' \subseteq Outcomes /\ misfires' \in 0..BreakerFaults
      BY MisfireType DEF UserPauses, Resume, Reset, Elapse, BreakerInv, BreakerTypeOK
    <2>3. state' \in {"running", "paused"} /\ resetting' \in BOOLEAN
      BY DEF UserPauses, Resume, Reset, Elapse, BreakerInv, BreakerTypeOK
    <2> QED
      BY <1>1, <2>1, <2>2, <2>3 DEF BreakerInv, BreakerTypeOK
  <1>3. ScriptsAreTimely'
    BY <1>1 DEF UserPauses, Resume, Reset, Elapse, BreakerInv, BreakerTypeOK, Instants,
                ScriptsAreTimely
  <1>4. SetsAreExact' /\ CountedIsRecorded'
    <2>1. CASE counted' = {} /\ failures' = {} /\ successes' = {}
      BY <2>1 DEF SetsAreExact, CountedIsRecorded, InLatestWindow
    <2>2. CASE UNCHANGED <<failures, successes, counted>>
      BY <1>1, <2>2, SetsKept DEF BreakerInv, CountedIsRecorded
    <2> QED
      BY <2>1, <2>2 DEF UserPauses, Resume, Reset, Elapse
  <1> QED
    BY <1>1, <1>2, <1>3, <1>4 DEF BreakerInv

\* The body of VerdictIsExact.
Exact ==
    LET verdict == Open(Cardinality(Recent(TRUE)), Cardinality(Recent(FALSE)))
    IN  /\ \A o \in Outcomes :
             o \in counted' \ counted =>
               (report'[o].pc = "pause" <=> verdict)
        /\ check.pc = "evaluate" /\ misfires' = misfires /\ check' # check =>
               (check'.pc = "pause" <=> verdict)

LEMMA BreakerStep ==
    ASSUME BreakerInv, [BreakerNext]_breakerVars
    PROVE  BreakerInv' /\ [Exact]_breakerVars
  <1>1. CASE UNCHANGED breakerVars
    BY <1>1 DEF breakerVars, BreakerInv, BreakerTypeOK, ScriptsAreTimely, CountedIsRecorded,
                SetsAreExact, InLatestWindow
  <1> DEFINE verdict == Open(Cardinality(Recent(TRUE)), Cardinality(Recent(FALSE)))
  <1>2. BreakerInv' => (Verdict <=> verdict)
    BY DEF BreakerInv, SetsAreExact, InLatestWindow, Recent, Verdict
  <1> HIDE DEF verdict
  <1>3. ASSUME NEW o \in Outcomes, Record(o)
        PROVE  BreakerInv' /\ Exact
    BY <1>2, <1>3, RecordStep DEF Exact, verdict
  <1>4. CASE Evaluate
    BY <1>2, <1>4, EvaluateStep DEF Exact, verdict
  <1>5. ASSUME NEW o \in Outcomes,
               \/ \E failed \in BOOLEAN : BeginReport(o, failed)
               \/ ReadReportClock(o) \/ RecordFails(o) \/ Pause(o)
        PROVE  BreakerInv' /\ Exact
    BY <1>5, ReportSteps DEF Exact
  <1>6. CASE CheckBegins \/ CheckFails \/ CheckPauses
    BY <1>6, CheckSteps DEF Exact
  <1>7. CASE UserPauses \/ Resume \/ Reset \/ Elapse
    BY <1>7, OtherSteps DEF Exact
  <1> QED
    BY <1>1, <1>3, <1>4, <1>5, <1>6, <1>7 DEF BreakerNext

\* The sets of the breaker are what was recorded in its window.
THEOREM BreakerInvariant == BreakerSpec => []BreakerInv
  <1>1. BreakerInv /\ [BreakerNext]_breakerVars => BreakerInv'
    BY BreakerStep
  <1> QED
    BY <1>1, BreakerInvInit, PTL DEF BreakerSpec

\* record_call_outcome and is_circuit_open: every verdict is the failure rate over the
\* window since the last reset, whatever the order in which the scripts run.
THEOREM VerdictIsExactHolds == BreakerSpec => VerdictIsExact
  <1>1. BreakerInv /\ [BreakerNext]_breakerVars => [Exact]_breakerVars
    BY BreakerStep
  <1> QED
    BY <1>1, BreakerInvariant, PTL DEF BreakerSpec, VerdictIsExact, Exact
-----------------------------------------------------------------------------
(* The services together.                                                   *)

\* Each service, run among the others, runs as its own specification says: what is
\* proved of it holds in the composition, and nobody else touches its state.
THEOREM ServicesImplementEach ==
    ServicesSpec => Spec /\ CallbackSpec /\ TransferSpec /\ BreakerSpec
  <1>1. ServicesInit => Init /\ CallbackInit /\ TransferInit /\ BreakerInit
    BY DEF ServicesInit
  <1>2. [ServicesNext]_<<scene, tokenVars, callbackVars, transferVars, breakerVars>> =>
          /\ [Next]_tokenVars /\ [CallbackNext]_callbackVars
          /\ [TransferNext]_transferVars /\ [BreakerNext]_breakerVars
    BY DEF ServicesNext, TokensRun, CallbacksRun, TransfersRun, BreakerRuns
  <1> QED
    BY <1>1, <1>2, PTL DEF ServicesSpec, Spec, CallbackSpec, TransferSpec, BreakerSpec

\* The variables of whichever service runs keep their types.
THEOREM ServicesTypeOKHolds == ServicesSpec => []ServicesTypeOK
  <1>1. TokenInv /\ CallbackInv /\ TransferInv /\ BreakerInv => ServicesTypeOK
    BY DEF TokenInv, CallbackInv, TransferInv, BreakerInv, ServicesTypeOK
  <1> QED
    BY <1>1, ServicesImplementEach, TokenInvariant, CallbackInvariant, TransferInvariant,
       BreakerInvariant, PTL
=============================================================================

--------------------------- MODULE CircuitBreaker ---------------------------
(***************************************************************************)
(* The circuit breaker of one campaign                                     *)
(* (src/api/services/campaign/circuit_breaker.py): the outcomes of calls   *)
(* go into two sorted sets of Redis, cut to a sliding window; when enough  *)
(* of them are failures the campaign is paused.  A user who resumes the    *)
(* campaign starts from a clean slate (runner.py).                         *)
(*                                                                         *)
(* The member of a sorted set is the instant itself, read by the caller    *)
(* before its script runs: outcomes of one instant count once, and scripts *)
(* run in another order than their clocks were read.  The sets expire a    *)
(* minute after the window of their last outcome, when they count nothing. *)
(***************************************************************************)
EXTENDS Naturals, FiniteSets

CONSTANTS
    MaxOutcomes,    \* BOUND: reports of the outcome of a call
    Window,         \* window_seconds
    MinCalls,       \* min_calls_in_window
    Percent,        \* failure_threshold, in percent
    MaxDelay,       \* longest time from a reading of the clock to its script; < Window
    BreakerFaults,  \* BOUND: failing commands
    BreakerHorizon  \* BOUND: last instant

\* A script runs before its reading has left the window, which is 30 s at least.
ASSUME BreakerAssumption ==
    /\ {MaxOutcomes, Window, MinCalls, Percent, MaxDelay, BreakerFaults} \subseteq Nat
    /\ MaxDelay < Window
    /\ BreakerHorizon \in Nat \ {0}

VARIABLES
    clock,      \* time.time(), from 1
    failures,   \* cb_failures: its members
    successes,  \* cb_successes: its members
    state,      \* the campaign's
    report,     \* where each report is: its kind and its reading of the clock
    check,      \* where the orchestrator's check is, and its reading
    resetting,  \* has the user's resume yet to reset the breaker?
    counted,    \* history: the reports recorded since the last reset
    latest,     \* history: the latest reading that has cut the window
    misfires    \* how many more commands may fail

breakerVars == <<clock, failures, successes, state, report, check, resetting, counted,
                 latest, misfires>>

\* In the order in which they begin.
Outcomes == 1..MaxOutcomes

Instants == 1..BreakerHorizon

BreakerInit ==
    /\ clock = 1
    /\ failures = {} /\ successes = {}
    /\ state = "running"
    /\ report = [o \in Outcomes |-> [pc |-> "idle", failed |-> FALSE, at |-> 0]]
    /\ check = [pc |-> "idle", at |-> 0]
    /\ resetting = FALSE
    /\ counted = {} /\ latest = 0
    /\ misfires = BreakerFaults

Misfire == misfires > 0 /\ misfires' = misfires - 1

\* Mutant: the window is cut one instant short.
InClosedWindow(t, at) == t + Window >= at

\* ZREMRANGEBYSCORE 0 window_start removes window_start itself.
InWindow(t, at) == t + Window > at

Trimmed(set, at) == {t \in set : InWindow(t, at)}

Open(failed, succeeded) ==
    /\ failed + succeeded >= MinCalls
    /\ failed * 100 >= Percent * (failed + succeeded)

Verdict == Open(Cardinality(failures'), Cardinality(successes'))

Cut(at) == latest' = IF at > latest THEN at ELSE latest
-----------------------------------------------------------------------------
(* record_and_evaluate.                                                     *)

\* The campaign is read; one that does not run records nothing.
BeginReport(o, failed) ==
    /\ report[o].pc = "idle" /\ \A p \in 1..(o - 1) : report[p].pc # "idle"
    /\ state = "running"
    /\ report' = [report EXCEPT ![o] = [pc |-> "clock", failed |-> failed, at |-> 0]]
    /\ UNCHANGED <<clock, failures, successes, state, check, resetting, counted, latest, misfires>>

ReadReportClock(o) ==
    /\ report[o].pc = "clock"
    /\ report' = [report EXCEPT ![o].pc = "record", ![o].at = clock]
    /\ UNCHANGED <<clock, failures, successes, state, check, resetting, counted, latest, misfires>>

\* The script: trim, add, count.
Record(o) ==
    LET at == report[o].at
        new(kind) == IF report[o].failed = kind THEN {at} ELSE {}
    IN  /\ report[o].pc = "record"
        /\ failures' = Trimmed(failures, at) \cup new(TRUE)
        /\ successes' = Trimmed(successes, at) \cup new(FALSE)
        /\ counted' = counted \cup {o}
        /\ Cut(at)
        /\ report' = [report EXCEPT ![o].pc = IF Verdict THEN "pause" ELSE "done"]
        /\ UNCHANGED <<clock, state, check, resetting, misfires>>

\* Fail open: the script has run or has not, and its verdict is lost.
RecordFails(o) ==
    /\ report[o].pc \in {"record", "pause"}
    /\ report' = [report EXCEPT ![o].pc = "done"]
    /\ Misfire
    /\ UNCHANGED <<clock, failures, successes, state, check, resetting, counted, latest>>

Pause(o) ==
    /\ report[o].pc = "pause"
    /\ report' = [report EXCEPT ![o].pc = "done"]
    /\ state' = "paused"
    /\ UNCHANGED <<clock, failures, successes, check, resetting, counted, latest, misfires>>
-----------------------------------------------------------------------------
(* is_circuit_open, before the orchestrator schedules a batch.              *)

CheckBegins ==
    /\ check.pc = "idle" /\ state = "running"
    /\ check' = [pc |-> "evaluate", at |-> clock]
    /\ UNCHANGED <<clock, failures, successes, state, report, resetting, counted, latest, misfires>>

Evaluate ==
    /\ check.pc = "evaluate"
    /\ failures' = Trimmed(failures, check.at)
    /\ successes' = Trimmed(successes, check.at)
    /\ Cut(check.at)
    /\ check' = [check EXCEPT !.pc = IF Verdict THEN "pause" ELSE "idle"]
    /\ UNCHANGED <<clock, state, report, resetting, counted, misfires>>

CheckFails ==
    /\ check.pc \in {"evaluate", "pause"}
    /\ check' = [check EXCEPT !.pc = "idle"]
    /\ Misfire
    /\ UNCHANGED <<clock, failures, successes, state, report, resetting, counted, latest>>

CheckPauses ==
    /\ check.pc = "pause"
    /\ check' = [check EXCEPT !.pc = "idle"]
    /\ state' = "paused"
    /\ UNCHANGED <<clock, failures, successes, report, resetting, counted, latest, misfires>>
-----------------------------------------------------------------------------
(* The user.                                                                *)

UserPauses ==
    /\ state = "running"
    /\ state' = "paused"
    /\ UNCHANGED <<clock, failures, successes, report, check, resetting, counted, latest, misfires>>

\* The campaign runs before the breaker is reset.
Resume ==
    /\ state = "paused" /\ ~resetting
    /\ state' = "running" /\ resetting' = TRUE
    /\ UNCHANGED <<clock, failures, successes, report, check, counted, latest, misfires>>

\* An error is logged only.
Reset ==
    /\ resetting /\ resetting' = FALSE
    /\ \/ failures' = {} /\ successes' = {} /\ counted' = {} /\ UNCHANGED misfires
       \/ Misfire /\ UNCHANGED <<failures, successes, counted>>
    /\ UNCHANGED <<clock, state, report, check, latest>>

Elapse ==
    /\ clock < BreakerHorizon
    /\ \A o \in Outcomes : report[o].pc = "record" => clock < report[o].at + MaxDelay
    /\ check.pc = "evaluate" => clock < check.at + MaxDelay
    /\ clock' = clock + 1
    /\ UNCHANGED <<failures, successes, state, report, check, resetting, counted, latest, misfires>>

BreakerNext ==
    \/ \E o \in Outcomes :
         \/ \E failed \in BOOLEAN : BeginReport(o, failed)
         \/ ReadReportClock(o) \/ Record(o) \/ RecordFails(o) \/ Pause(o)
    \/ CheckBegins \/ Evaluate \/ CheckFails \/ CheckPauses
    \/ UserPauses \/ Resume \/ Reset \/ Elapse

BreakerSpec == BreakerInit /\ [][BreakerNext]_breakerVars
-----------------------------------------------------------------------------
BreakerTypeOK ==
    /\ clock \in Instants
    /\ failures \subseteq Instants /\ successes \subseteq Instants
    /\ state \in {"running", "paused"}
    /\ report \in [Outcomes -> [pc : {"idle", "clock", "record", "pause", "done"},
                                failed : BOOLEAN, at : 0..BreakerHorizon]]
    /\ check \in [pc : {"idle", "evaluate", "pause"}, at : 0..BreakerHorizon]
    /\ resetting \in BOOLEAN
    /\ counted \subseteq Outcomes /\ latest \in 0..BreakerHorizon
    /\ misfires \in 0..BreakerFaults

\* The instants of the outcomes of one kind that were recorded since the last reset
\* and lie in the window of the latest reading.
Recent(failed) ==
    {report'[o].at : o \in {o \in counted' : /\ report'[o].failed = failed
                                             /\ report'[o].at > latest' - Window}}

\* record_call_outcome and is_circuit_open: the verdict is the failure rate over the
\* outcomes of the window since the last reset, although readings of the clock arrive
\* in any order, every caller cuts the sets by its own, and outcomes are recorded
\* while a user resumes the campaign.
VerdictIsExact == [][
    LET verdict == Open(Cardinality(Recent(TRUE)), Cardinality(Recent(FALSE)))
    IN  /\ \A o \in Outcomes :
             o \in counted' \ counted =>
               (report'[o].pc = "pause" <=> verdict)
        /\ check.pc = "evaluate" /\ misfires' = misfires /\ check' # check =>
               (check'.pc = "pause" <=> verdict)]_breakerVars
=============================================================================

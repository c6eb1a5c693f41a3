------------------------- MODULE ScheduledCallback -------------------------
(***************************************************************************)
(* The callbacks that a caller of a call outside a campaign has asked for  *)
(* (src/api/tasks/callback_tasks.py, the tool schedule_callback, the route *)
(* that cancels, and the report of a busy signal), for one original run.   *)
(*                                                                         *)
(* A callback is a row of scheduled_callbacks and an ARQ job deferred to   *)
(* its time.  The job does not know its row: it reads and writes the rows  *)
(* of the original run, of which the tool may add more than one: the flag  *)
(* that stops its next call is set after the row and the job.              *)
(***************************************************************************)
EXTENDS Naturals, FiniteSets

CONSTANTS
    MaxRecords,     \* BOUND: rows the run may have
    JobTries,       \* attempts after which execute_callback gives up: 3
    ArqTries,       \* attempts after which ARQ drops a job: 5
    CallbackFaults  \* BOUND: deaths, timeouts and lost answers

ASSUME CallbackAssumption == {MaxRecords, JobTries, ArqTries, CallbackFaults} \subseteq Nat

VARIABLES
    record,     \* the status of each row, in the order of insertion
    unqueued,   \* rows committed by coroutines that have yet to enqueue a job
    job,        \* the job enqueued after each row
    asking,     \* calls of the tool that found the flag down and have no row yet
    overlaps,   \* history: how many of its calls began before another had ended
    scheduled,  \* the flag of the engine that stops the tool
    cancelling, \* rows the cancel route has read as pending
    placed,     \* calls a provider has placed, by job and attempt
    busy,       \* those of them it has reported as busy
    troubles    \* how many more faults may happen

callbackVars == <<record, unqueued, job, asking, overlaps, scheduled, cancelling,
                  placed, busy, troubles>>

toolVars == <<asking, overlaps, scheduled>>

Records == 1..MaxRecords

Saved == {r \in Records : record[r] # "none"}

JobStates == {"none", "queued", "check", "dial", "mark", "giveup", "done", "refused"}

\* void: every row was cancelled when the attempt began, and none was added.
JobInfo == [pc : JobStates, try : 0..ArqTries, void : BOOLEAN]

CallbackInit ==
    /\ record = [r \in Records |-> "none"]
    /\ unqueued = {}
    /\ job = [r \in Records |-> [pc |-> "none", try |-> 0, void |-> FALSE]]
    /\ asking = 0 /\ overlaps = 0 /\ scheduled = FALSE
    /\ cancelling = {}
    /\ placed = {} /\ busy = {}
    /\ troubles = CallbackFaults

Trouble == troubles > 0 /\ troubles' = troubles - 1

JobAt(j, pc) == job' = [job EXCEPT ![j].pc = pc]
-----------------------------------------------------------------------------
(* schedule_callback: the flag, the row, the job, the flag.  A call that is *)
(* declined on the way has no effect.                                       *)

\* The tool finds the flag down.  The language model may emit its call twice.
Ask ==
    /\ ~scheduled
    /\ asking + Cardinality(Saved) < MaxRecords
    /\ asking' = asking + 1
    /\ overlaps' = IF asking > 0 \/ unqueued # {} THEN overlaps + 1 ELSE overlaps
    /\ UNCHANGED <<record, unqueued, job, scheduled, cancelling, placed, busy, troubles>>

\* The row is committed.
Save(r) ==
    /\ asking > 0 /\ asking' = asking - 1
    /\ record[r] = "none" /\ r = Cardinality(Saved) + 1
    /\ record' = [record EXCEPT ![r] = "pending"]
    /\ unqueued' = unqueued \cup {r}
    /\ job' = [j \in Records |-> [job[j] EXCEPT !.void = FALSE]]
    /\ UNCHANGED <<overlaps, scheduled, cancelling, placed, busy, troubles>>

Enqueue(r) ==
    /\ r \in unqueued /\ unqueued' = unqueued \ {r}
    /\ JobAt(r, "queued")
    /\ scheduled' = TRUE
    /\ UNCHANGED <<record, asking, overlaps, cancelling, placed, busy, troubles>>

\* enqueue_job raises, with or without effect, or the tool's timeout cancels it:
\* the flag stays down, and the tool may be called again.
EnqueueFails(r) ==
    /\ r \in unqueued /\ unqueued' = unqueued \ {r}
    /\ JobAt(r, "queued") \/ UNCHANGED job
    /\ Trouble
    /\ UNCHANGED <<record, toolVars, cancelling, placed, busy>>

\* The status processor: a callback that met a busy signal should be tried again.
\* The branch that would do so reads an attribute that a run does not have; the
\* exception is swallowed, and neither a row nor a job comes of the report.
BusySignal(call) ==
    /\ call \in placed \ busy
    /\ busy' = busy \cup {call}
    /\ UNCHANGED <<record, unqueued, job, toolVars, cancelling, placed, troubles>>
-----------------------------------------------------------------------------
(* execute_callback.                                                        *)

\* ARQ runs the job, for the first time or again, or drops it.
RunJob(j) ==
    /\ job[j].pc = "queued"
    /\ job' = [job EXCEPT ![j] =
                 IF @.try < ArqTries
                   THEN [pc |-> "check", try |-> @.try + 1,
                         void |-> \A r \in Saved : record[r] = "cancelled"]
                   ELSE [@ EXCEPT !.pc = "refused"]]
    /\ UNCHANGED <<record, unqueued, toolVars, cancelling, placed, busy, troubles>>

\* Mutant: the job does not look for a cancellation.
NeverCancelled(r) == FALSE

Cancelled(r) == record[r] = "cancelled"

\* The first row of the run, in whatever order the database returns them.
Check(j) ==
    /\ job[j].pc = "check"
    /\ \E first \in Saved : JobAt(j, IF Cancelled(first) THEN "done" ELSE "dial")
    /\ UNCHANGED <<record, unqueued, toolVars, cancelling, placed, busy, troubles>>

\* The workflow was deleted, or the quota is exhausted: the row stays pending.
Refuse(j) ==
    /\ job[j].pc \in {"check", "dial"}
    /\ JobAt(j, "refused")
    /\ UNCHANGED <<record, unqueued, toolVars, cancelling, placed, busy, troubles>>

\* Mutant: the job counts its attempt, which ARQ has counted.
RaiseAndCount(j) ==
    job' = [job EXCEPT ![j].pc = IF job[j].try < JobTries THEN "queued" ELSE "giveup",
                       ![j].try = @ + 1]

\* An exception: Retry(defer=30s), or give up.
Raise(j) == JobAt(j, IF job[j].try < JobTries THEN "queued" ELSE "giveup")

\* initiate_call places the call; its answer may be lost.
PlaceCall(j) ==
    /\ job[j].pc = "dial"
    /\ placed' = placed \cup {<<j, job[j].try, job[j].void>>}
    /\ \/ JobAt(j, "mark") /\ UNCHANGED troubles
       \/ Raise(j) /\ Trouble
    /\ UNCHANGED <<record, unqueued, toolVars, cancelling, busy>>

\* Any step before the call is placed raises.
PlaceFails(j) ==
    /\ job[j].pc \in {"check", "dial"}
    /\ Raise(j)
    /\ UNCHANGED <<record, unqueued, toolVars, cancelling, placed, busy, troubles>>

\* The UPDATE of the rows of the run that are pending.
Settle(status) ==
    record' = [r \in Records |-> IF record[r] = "pending" THEN status ELSE record[r]]

\* Mutant: a failing write of the outcome counts as a failed attempt.
MarkOrRetry(j) ==
    /\ job[j].pc = "mark"
    /\ \/ Settle("completed") /\ JobAt(j, "done") /\ UNCHANGED troubles
       \/ UNCHANGED <<record, troubles>> /\ Raise(j)
    /\ UNCHANGED <<unqueued, toolVars, cancelling, placed, busy>>

\* A failing write is logged only.
Mark(j) ==
    /\ job[j].pc = "mark"
    /\ \/ Settle("completed") /\ UNCHANGED troubles
       \/ UNCHANGED record /\ Trouble
    /\ JobAt(j, "done")
    /\ UNCHANGED <<unqueued, toolVars, cancelling, placed, busy>>

\* Mutant: the last attempt leaves the rows as they are.
GiveUpSilently(j) ==
    /\ job[j].pc = "giveup"
    /\ JobAt(j, "done")
    /\ UNCHANGED <<record, unqueued, toolVars, cancelling, placed, busy, troubles>>

GiveUpJob(j) ==
    /\ job[j].pc = "giveup"
    /\ \/ Settle("failed") /\ UNCHANGED troubles
       \/ UNCHANGED record /\ Trouble
    /\ JobAt(j, "done")
    /\ UNCHANGED <<unqueued, toolVars, cancelling, placed, busy>>

Running(j) == job[j].pc \in {"check", "dial", "mark", "giveup"}

\* The worker dies, and ARQ runs the job again; or the job exceeds ARQ's timeout.
Die(j) ==
    /\ Running(j)
    /\ JobAt(j, "queued") \/ JobAt(j, "done")
    /\ Trouble
    /\ UNCHANGED <<record, unqueued, toolVars, cancelling, placed, busy>>
-----------------------------------------------------------------------------
(* cancel_callback: the row is read, and written in a later statement.      *)

CancelRead(r) ==
    /\ record[r] = "pending"
    /\ cancelling' = cancelling \cup {r}
    /\ UNCHANGED <<record, unqueued, job, toolVars, placed, busy, troubles>>

CancelWrite(r) ==
    /\ r \in cancelling /\ cancelling' = cancelling \ {r}
    /\ record' = [record EXCEPT ![r] = "cancelled"]
    /\ UNCHANGED <<unqueued, job, toolVars, placed, busy, troubles>>
-----------------------------------------------------------------------------
CallbackNext ==
    \/ Ask
    \/ \E r \in Records : Save(r) \/ Enqueue(r) \/ EnqueueFails(r)
    \/ \E call \in placed : BusySignal(call)
    \/ \E r \in Records : CancelRead(r) \/ CancelWrite(r)
    \/ \E j \in Records :
         \/ RunJob(j) \/ Check(j) \/ Refuse(j) \/ PlaceCall(j) \/ PlaceFails(j)
         \/ Mark(j) \/ GiveUpJob(j) \/ Die(j)

CallbackSpec == CallbackInit /\ [][CallbackNext]_callbackVars
-----------------------------------------------------------------------------
CallbackTypeOK ==
    /\ record \in [Records -> {"none", "pending", "completed", "failed", "cancelled"}]
    /\ unqueued \subseteq Saved /\ cancelling \subseteq Saved
    /\ job \in [Records -> JobInfo]
    /\ asking \in Nat /\ overlaps \in Nat /\ scheduled \in BOOLEAN
    /\ placed \subseteq Records \X (1..ArqTries) \X BOOLEAN /\ busy \subseteq placed
    /\ troubles \in 0..CallbackFaults

\* cancel_callback: an attempt that begins after every row of the run has been
\* cancelled, be it the second or third of a failing job, places no call.
CancelledIsNotCalled == \A call \in placed : ~call[3]

\* schedule_callback and execute_callback: the contact is called once, however often
\* the tool is called, the job retried and its calls reported busy; once more at most
\* for each death, lost answer or job that was not enqueued, and for each call of the
\* tool that began before another had ended.
CallsAreBounded ==
    Cardinality(placed) <= 1 + overlaps + (CallbackFaults - troubles)

\* The three outcomes of execute_callback: as long as nothing has gone wrong, a row
\* that is still pending has its job ahead, or the job was refused, or a cancelled
\* row of the same run was taken for it.
PendingHasJob ==
    troubles = CallbackFaults =>
      \A r \in Records : record[r] = "pending" =>
        \/ r \in unqueued
        \/ job[r].pc \notin {"none", "done"}
        \/ \E q \in Records : record[q] = "cancelled"
=============================================================================

------------------------- MODULE CampaignOrchestrator -------------------------
(***************************************************************************)
(* The campaign orchestrator (campaign_orchestrator.py) above the queue of  *)
(* one campaign.  It is one process with two coroutines: the listener takes *)
(* the events one by one, the monitor looks at the campaign once a minute.  *)
(* What it keeps in memory is lost when it restarts, and so is every event  *)
(* published while nobody listens.                                          *)
(*                                                                         *)
(* Time passes in ticks that are long against a batch and against the       *)
(* handling of an event.  Schedule windows are left out.                    *)
(***************************************************************************)
EXTENDS CampaignQueue

CONSTANTS
    NoTime,
    CompletionTimeout   \* completion_timeout, in ticks

ASSUME OrchestratorAssumption ==
    /\ CompletionTimeout \in Nat \ {0} /\ NoTime \notin Nat

VARIABLES
    flag,       \* _batch_in_progress: is the campaign in it?
    lock,       \* _processing_locks: is there a lock younger than five seconds?
    active,     \* ticks since _last_activity, if the campaign is in it
    dbActive,   \* ticks since last_activity_at or, before that, started_at
    task        \* where each coroutine is

memory == <<flag, lock, active>>
orchestratorVars == <<flag, lock, active, dbActive, task>>
vars == <<queueVars, orchestratorVars>>

Tasks == {"listener", "monitor"}

\* "check": the campaign was read as running.  "schedule": _schedule_next_batch is
\* called.  "work": it read the campaign as running.  "flag": the batch is enqueued.
\* "touch": a retry is inserted.  "complete": no work and no activity.  "write": still no work.
TaskPCs == {"idle", "check", "schedule", "work", "flag", "touch", "complete", "write"}

Init ==
    /\ QueueInit
    /\ flag = FALSE /\ lock = FALSE
    /\ active = NoTime /\ dbActive = 0
    /\ task = [t \in Tasks |-> "idle"]
-----------------------------------------------------------------------------
Proceed(t, pc) == task' = [task EXCEPT ![t] = pc]

ClearCampaignState == flag' = FALSE /\ lock' = FALSE /\ active' = NoTime

\* Mutant: only rows that were never scheduled are counted.
HasQueuedRows == Ready \ Retries # {}

HasPendingWork == Ready # {}

\* The listener has seen activity once the scheduling is over.
ScheduleEnds(t) ==
    /\ Proceed(t, "idle")
    /\ active' = IF t = "listener" THEN 0 ELSE active

\* A lock is released five seconds after the scheduling, or is then too old to
\* count; that it grows old during the scheduling counts as a fault.
LockExpires ==
    /\ lock /\ lock' = FALSE
    /\ \/ (\A t \in Tasks : task[t] \notin {"work", "flag"}) /\ UNCHANGED faults
       \/ (\E t \in Tasks : task[t] \in {"work", "flag"}) /\ Fault
    /\ UNCHANGED <<state, synced, failedRows, exhausted, rows, call, batch, jobs,
                   events, surprises, flag, active, dbActive, task>>

\* The lock, then the state of the campaign.
Schedule(t) ==
    /\ task[t] = "schedule"
    /\ \/ lock /\ ScheduleEnds(t) /\ UNCHANGED lock
       \/ /\ ~lock /\ lock' = TRUE
          /\ \/ state \in {"running", "syncing"} /\ Proceed(t, "work") /\ UNCHANGED active
             \/ state \notin {"running", "syncing"} /\ ScheduleEnds(t)
    /\ UNCHANGED <<queueVars, flag, dbActive>>

\* The breaker is open: the campaign is paused, whatever its state is by now.
PauseForBreaker(t) ==
    /\ task[t] = "work" /\ Surprise
    /\ state' = "paused" /\ Publish(<<Event("tripped")>>)
    /\ Proceed(t, "idle")
    /\ flag' = FALSE /\ lock' = FALSE
    /\ active' = IF t = "listener" THEN 0 ELSE NoTime
    /\ UNCHANGED <<synced, failedRows, exhausted, rows, call, batch, jobs, faults,
                   dbActive>>

\* The flag is set as soon as ARQ has answered; when the answer is late, which is
\* counted as a fault, a worker may have begun by then.
Enqueue(t) ==
    /\ task[t] = "work" /\ HasPendingWork
    /\ jobs < MaxJobs /\ jobs' = jobs + 1
    /\ \/ flag' = TRUE /\ dbActive' = 0 /\ ScheduleEnds(t) /\ UNCHANGED faults
       \/ Fault /\ Proceed(t, "flag") /\ UNCHANGED <<flag, active, dbActive>>
    /\ UNCHANGED <<state, synced, failedRows, exhausted, rows, call, batch, events,
                   surprises, lock>>

NothingToDo(t) ==
    /\ task[t] = "work" /\ ~HasPendingWork
    /\ ScheduleEnds(t)
    /\ UNCHANGED <<queueVars, flag, lock, dbActive>>

SetFlag(t) ==
    /\ task[t] = "flag"
    /\ flag' = TRUE /\ dbActive' = 0
    /\ ScheduleEnds(t)
    /\ UNCHANGED <<queueVars, lock>>
-----------------------------------------------------------------------------
(* The listener.                                                            *)

Receive(k) ==
    /\ task["listener"] = "idle" /\ events # <<>> /\ Head(events).kind = k
    /\ events' = Tail(events)

\* A retry is a new row, and seen as activity once it is there.  When it exists already, the insert violates the unique
\* constraint and the handler ends.
RetryNeeded ==
    /\ Receive("retry")
    /\ LET r == Head(events).row
           child == <<r[1], r[2] + 1>>
       IN \/ /\ r[2] >= MaxRetries
             /\ failedRows' = failedRows + 1 /\ UNCHANGED <<rows, task>>
          \/ /\ r[2] < MaxRetries /\ rows[child].state = "none"
             /\ rows' = [rows EXCEPT ![child] = [state |-> "queued", wait |-> RetryDelay]]
             /\ Proceed("listener", "touch") /\ UNCHANGED failedRows
          \/ /\ r[2] < MaxRetries /\ rows[child].state # "none"
             /\ UNCHANGED <<rows, failedRows, task>>
    /\ UNCHANGED <<state, synced, exhausted, call, batch, jobs, faults, surprises,
                   memory, dbActive>>

Touch ==
    /\ task["listener"] = "touch" /\ Proceed("listener", "idle")
    /\ active' = 0
    /\ UNCHANGED <<queueVars, flag, lock, dbActive>>

BatchCompleted ==
    /\ Receive("completed")
    /\ \/ /\ state = "running" /\ flag' = FALSE
          /\ Proceed("listener", "schedule") /\ UNCHANGED <<lock, active>>
       \/ state # "running" /\ ClearCampaignState /\ UNCHANGED task
    /\ UNCHANGED <<state, synced, failedRows, exhausted, rows, call, batch, jobs,
                   faults, surprises, dbActive>>

\* The campaign is about to be marked as failed; no further batch.
BatchFailed ==
    /\ Receive("failed")
    /\ flag' = FALSE /\ active' = 0
    /\ UNCHANGED <<state, synced, failedRows, exhausted, rows, call, batch, jobs,
                   faults, surprises, lock, dbActive, task>>

SyncCompleted ==
    /\ Receive("sync")
    /\ Proceed("listener", "schedule")
    /\ UNCHANGED <<state, synced, failedRows, exhausted, rows, call, batch, jobs,
                   faults, surprises, memory, dbActive>>

\* Whatever the state is by now.
BreakerTripped ==
    /\ Receive("tripped")
    /\ state' = "paused" /\ ClearCampaignState
    /\ UNCHANGED <<synced, failedRows, exhausted, rows, call, batch, jobs, faults,
                   surprises, dbActive, task>>
-----------------------------------------------------------------------------
(* The monitor.                                                             *)

\* get_campaigns_by_status(["running"])
Look ==
    /\ task["monitor"] = "idle" /\ state = "running"
    /\ Proceed("monitor", "check")
    /\ UNCHANGED <<queueVars, memory, dbActive>>

Timeout == CompletionTimeout <= IF active = NoTime THEN dbActive ELSE active

\* No batch and no event is under way.
Settled ==
    /\ \A w \in Workers : batch[w].pc = "idle"
    /\ events = <<>> /\ task["listener"] = "idle"

\* Mutant: a batch that never reports stays in progress.
CheckTrustsFlag ==
    /\ task["monitor"] = "check"
    /\ Proceed("monitor", IF flag THEN "idle"
                          ELSE IF HasPendingWork THEN "schedule"
                          ELSE IF Timeout THEN "complete" ELSE "idle")
    /\ UNCHANGED <<queueVars, memory, dbActive>>

\* After five minutes the flag is cleared: the batch has ended by then, or has not,
\* because its job waited for a worker.
Check ==
    /\ task["monitor"] = "check"
    /\ \/ flag /\ Proceed("monitor", "idle") /\ UNCHANGED <<flag, faults>>
       \/ /\ \/ ~flag /\ UNCHANGED faults
             \/ flag /\ jobs = 0 /\ Settled /\ UNCHANGED faults
             \/ flag /\ Fault
          /\ flag' = FALSE
          /\ Proceed("monitor", IF HasPendingWork THEN "schedule"
                                ELSE IF Timeout THEN "complete" ELSE "idle")
    /\ UNCHANGED <<state, synced, failedRows, exhausted, rows, call, batch, jobs,
                   events, surprises, lock, active, dbActive>>

Recheck ==
    /\ task["monitor"] = "complete"
    /\ Proceed("monitor", IF HasPendingWork THEN "idle" ELSE "write")
    /\ UNCHANGED <<queueVars, memory, dbActive>>

\* Whatever the state is by now.  When the write or the publication fails, which is
\* logged, the memory is kept.
Complete ==
    /\ task["monitor"] = "write" /\ Proceed("monitor", "idle")
    /\ \/ state' = "completed" /\ ClearCampaignState /\ UNCHANGED faults
       \/ state' \in {state, "completed"} /\ Fault /\ UNCHANGED memory
    /\ UNCHANGED <<synced, failedRows, exhausted, rows, call, batch, jobs, events,
                   surprises, dbActive>>
-----------------------------------------------------------------------------
\* An event is published while the orchestrator is not subscribed, or its handler
\* raises.
LoseEvent ==
    /\ events # <<>> /\ events' = Tail(events) /\ Fault
    /\ UNCHANGED <<state, synced, failedRows, exhausted, rows, call, batch, jobs,
                   surprises, orchestratorVars>>

Restart ==
    /\ Fault
    /\ events' = <<>> /\ ClearCampaignState
    /\ task' = [t \in Tasks |-> "idle"]
    /\ UNCHANGED <<state, synced, failedRows, exhausted, rows, call, batch, jobs,
                   surprises, dbActive>>

\* Batches and handlers end within a tick, the monitor has looked at the campaign, a
\* call is reported before the second tick; that a job waits for a worker longer
\* than a tick counts as a fault.
OnTime ==
    /\ Settled /\ task["monitor"] = "idle"
    /\ state = "running" => ~HasPendingWork \/ jobs > 0
    /\ \A r \in Rows : call[r] # "late"

Older(t) == IF t < CompletionTimeout THEN t + 1 ELSE t

Tick ==
    /\ OnTime
    /\ \/ jobs = 0 /\ UNCHANGED faults
       \/ jobs > 0 /\ Fault
    /\ rows' = [r \in Rows |-> [rows[r] EXCEPT !.wait = IF @ = 0 THEN 0 ELSE @ - 1]]
    /\ call' = [r \in Rows |-> IF call[r] = "ringing" THEN "late" ELSE call[r]]
    /\ dbActive' = Older(dbActive)
    /\ active' = IF active = NoTime THEN NoTime ELSE Older(active)
    /\ UNCHANGED <<state, synced, failedRows, exhausted, batch, jobs, events,
                   surprises, flag, lock, task>>
-----------------------------------------------------------------------------
Listen ==
    \/ RetryNeeded \/ Touch
    \/ BatchCompleted \/ BatchFailed \/ SyncCompleted \/ BreakerTripped

Schedules(t) == Schedule(t) \/ Enqueue(t) \/ NothingToDo(t) \/ SetFlag(t)

Next ==
    \/ QueueNext /\ UNCHANGED orchestratorVars
    \/ Listen
    \/ \E t \in Tasks : Schedules(t) \/ PauseForBreaker(t)
    \/ Look \/ Check \/ Recheck \/ Complete
    \/ LockExpires \/ LoseEvent \/ Restart \/ Tick

Spec == Init /\ [][Next]_vars

\* Coroutines and batches go on, calls are reported, locks and time run out.
Fairness ==
    /\ WF_vars(SyncSource /\ UNCHANGED orchestratorVars)
    /\ \A w \in Workers : WF_vars(Advance(w) /\ UNCHANGED orchestratorVars)
    /\ \A r \in Rows :
          WF_vars((\E o \in Ended : Outcome(r, o)) /\ UNCHANGED orchestratorVars)
    /\ WF_vars(Listen)
    /\ \A t \in Tasks : WF_vars(Schedules(t))
    /\ WF_vars(Look) /\ SF_vars(Check /\ ~flag') /\ WF_vars(Check)
    /\ WF_vars(Recheck) /\ WF_vars(Complete)
    /\ WF_vars(LockExpires) /\ SF_vars(Tick)

FairSpec == Spec /\ Fairness
-----------------------------------------------------------------------------
(* Properties.                                                              *)

TypeOK ==
    /\ QueueTypeOK
    /\ flag \in BOOLEAN /\ lock \in BOOLEAN
    /\ active \in {NoTime} \cup (0..CompletionTimeout)
    /\ dbActive \in 0..CompletionTimeout
    /\ task \in [Tasks -> TaskPCs]

\* Without faults and pauses a campaign is completed only when nothing is left to dial: no row
\* waits, no retry is scheduled and no batch holds a row (_should_mark_complete,
\* _complete_campaign).
CompletedIsDrained ==
    faults = 0 /\ surprises = 0 /\ state = "completed" =>
        \A r \in Rows : rows[r].state \notin {"queued", "processing"} \/ call[r] # "none"

\* Whatever is lost, killed or restarted, a running campaign is in the end completed
\* or failed, or somebody or the breaker pauses it (_check_stale_campaigns).
CampaignEnds == state = "running" ~> state # "running"
=============================================================================

-------------------------- MODULE WebhookDelivery --------------------------
(***************************************************************************)
(* Durable delivery of the final webhooks of a workflow run                *)
(* (src/api/tasks/webhook_delivery.py, src/api/db/webhook_delivery_client):*)
(* a row per delivery is the source of truth, ARQ jobs try to send it, and *)
(* a periodic sweep re-enqueues what is overdue.                           *)
(*                                                                         *)
(* A worker claims a row with a lease, sends the request, and records the  *)
(* outcome in a later transaction.  Times are kept as what is left of      *)
(* them, so that the model has no clock and behaviours may go on for ever. *)
(***************************************************************************)
EXTENDS Integers, FiniteSets

CONSTANTS
    Deliveries,     \* ids of webhook_deliveries rows
    OAuth,          \* those with an oauth2_client_credentials credential
    Workers,        \* coroutines of the ARQ workers
    NoJob,
    MaxAttempts,    \* max_attempts
    Backoff,        \* _backoff_seconds: seconds to wait after each attempt
    Lease,          \* lease_seconds
    MaxSend,        \* longest time from a claim to the recording of its outcome
    KeepResult,     \* how long ARQ remembers the id of a finished job
    MaxFaults       \* BOUND: crashes, failing writes and lost queues

ASSUME ConstantsAssumption ==
    /\ OAuth \subseteq Deliveries
    /\ MaxAttempts \in Nat \ {0}
    /\ Backoff \in [1..MaxAttempts -> Nat]
    /\ Lease \in Nat \ {0} /\ MaxSend \in Nat /\ KeepResult \in Nat
    /\ MaxFaults \in Nat

VARIABLES
    row,        \* the table webhook_deliveries
    jobs,       \* ARQ: ids of the jobs queued or running, and when they start
    results,    \* ARQ: ids of the jobs finished, and how long they are kept
    worker,     \* where each worker is, and its local variables
    accepted,   \* history: the deliveries a receiver answered with 2xx
    faults      \* how many more faults may happen

vars == <<row, jobs, results, worker, accepted, faults>>

\* enqueued: run_integrations has enqueued the first job, or died before.
\* gen names the current value of scheduled_for, which the sweeper puts into the
\* job id, due is the time left until then.
RowInfo == [status : {"none", "pending", "succeeded", "dead_letter"},
            enqueued : BOOLEAN, attempts : 0..MaxAttempts, due : Nat, gen : Nat]

\* "attempt" is _delivery_job_id, "reclaim" the id the sweeper makes.
JobIds == [kind : {"attempt", "reclaim"}, delivery : Deliveries, n : Nat]

Verdicts == {"none", "succeeded", "retry", "dead_letter"}

WorkerInfo == [pc : {"idle", "send", "resend", "record", "enqueue"},
               job : JobIds \cup {NoJob}, attempt : 0..MaxAttempts, age : Nat,
               verdict : Verdicts]

IdleWorker == [pc |-> "idle", job |-> NoJob, attempt |-> 0, age |-> 0, verdict |-> "none"]

Init ==
    /\ row = [d \in Deliveries |-> [status |-> "none", enqueued |-> FALSE,
                                    attempts |-> 0, due |-> 0, gen |-> 0]]
    /\ jobs = [j \in {} |-> 0]
    /\ results = [j \in {} |-> 0]
    /\ worker = [w \in Workers |-> IdleWorker]
    /\ accepted = {}
    /\ faults = MaxFaults
-----------------------------------------------------------------------------
(* ARQ: a job id is enqueued once as long as its job or its result is kept. *)

AddJob(j, wait) ==
    jobs' = IF j \in DOMAIN jobs \cup DOMAIN results THEN jobs
            ELSE [i \in DOMAIN jobs \cup {j} |-> IF i = j THEN wait ELSE jobs[i]]

FinishJob(j) ==
    /\ jobs' = [i \in DOMAIN jobs \ {j} |-> jobs[i]]
    /\ results' = [i \in DOMAIN results \cup {j} |-> IF i = j THEN KeepResult ELSE results[i]]

AttemptJob(d, n) == [kind |-> "attempt", delivery |-> d, n |-> n]
ReclaimJob(d) == [kind |-> "reclaim", delivery |-> d, n |-> row[d].gen]

\* The table when a claim or an outcome of d is written: scheduled_for changes.
Written(d, status, attempts, due) ==
    [row EXCEPT ![d] = [status |-> status, enqueued |-> @.enqueued, attempts |-> attempts,
                        due |-> due, gen |-> @.gen + 1]]

Running(j) == \E w \in Workers : worker[w].job = j
-----------------------------------------------------------------------------
(* run_integrations.                                                        *)

\* Mutant: a repeated run_integrations upserts the row.
CreateAgain(d) ==
    /\ row' = [row EXCEPT ![d].status = "pending"]
    /\ UNCHANGED <<jobs, results, worker, accepted, faults>>

\* create_webhook_delivery; a repeated run finds the row and does nothing.
Create(d) ==
    /\ row[d].status = "none"
    /\ row' = [row EXCEPT ![d].status = "pending"]
    /\ UNCHANGED <<jobs, results, worker, accepted, faults>>

EnqueueFirst(d) ==
    /\ row[d].status # "none" /\ ~row[d].enqueued
    /\ row' = [row EXCEPT ![d].enqueued = TRUE]
    /\ AddJob(AttemptJob(d, 0), 0)
    /\ UNCHANGED <<results, worker, accepted, faults>>
-----------------------------------------------------------------------------
(* deliver_webhook.                                                         *)

\* Mutants: the claim checks one half of its condition only.
ClaimableWhenPending(d) == row[d].status = "pending"
ClaimableWhenDue(d) == row[d].status # "none" /\ row[d].due = 0

Claimable(d) == row[d].status = "pending" /\ row[d].due = 0

\* claim_webhook_delivery: a conditional UPDATE pushes scheduled_for out by the lease.
Claim(w, j) ==
    /\ worker[w].pc = "idle" /\ j \in DOMAIN jobs /\ jobs[j] = 0 /\ ~Running(j)
    /\ Claimable(j.delivery)
    /\ row' = Written(j.delivery, "pending", row[j.delivery].attempts, Lease)
    /\ worker' = [worker EXCEPT ![w] =
                     [pc |-> "send", job |-> j, attempt |-> row[j.delivery].attempts + 1,
                      age |-> 0, verdict |-> "none"]]
    /\ UNCHANGED <<jobs, results, accepted, faults>>

\* Claimed by another worker, no longer pending, or not yet due: a no-op.
ClaimNothing(w, j) ==
    /\ worker[w].pc = "idle" /\ j \in DOMAIN jobs /\ jobs[j] = 0 /\ ~Running(j)
    /\ ~Claimable(j.delivery)
    /\ FinishJob(j)
    /\ UNCHANGED <<row, worker, accepted, faults>>

Conclude(w, verdict) ==
    worker' = [worker EXCEPT ![w].pc = "record", ![w].verdict = verdict]

\* Mutant: the last attempt is retried, too.
RetryForEver(w) == "retry"

\* _handle_transient_failure.
AfterTransient(w) == IF worker[w].attempt >= MaxAttempts THEN "dead_letter" ELSE "retry"

Delivery(w) == worker[w].job.delivery

Accepted(w) ==
    /\ worker[w].pc \in {"send", "resend"}
    /\ accepted' = accepted \cup {Delivery(w)}
    /\ Conclude(w, "succeeded")
    /\ UNCHANGED <<row, jobs, results, faults>>

\* A retryable status, or a network error.
FailedTransiently(w) ==
    /\ worker[w].pc \in {"send", "resend"}
    /\ Conclude(w, AfterTransient(w))
    /\ UNCHANGED <<row, jobs, results, accepted, faults>>

\* 401 with an OAuth2 credential: a fresh token, and at once a second request.
Unauthorized(w) ==
    /\ worker[w].pc = "send" /\ Delivery(w) \in OAuth
    /\ worker' = [worker EXCEPT ![w].pc = "resend"]
    /\ UNCHANGED <<row, jobs, results, accepted, faults>>

\* Any other status, or an unexpected exception.
FailedForGood(w) ==
    /\ worker[w].pc \in {"send", "resend"}
    /\ Conclude(w, "dead_letter")
    /\ UNCHANGED <<row, jobs, results, accepted, faults>>

\* mark_webhook_delivery_succeeded, mark_webhook_delivery_dead_letter: by id alone.
RecordOutcome(w) ==
    /\ worker[w].pc = "record" /\ worker[w].verdict \in {"succeeded", "dead_letter"}
    /\ row' = Written(Delivery(w), worker[w].verdict, worker[w].attempt, 0)
    /\ FinishJob(worker[w].job)
    /\ worker' = [worker EXCEPT ![w] = IdleWorker]
    /\ UNCHANGED <<accepted, faults>>

\* schedule_webhook_delivery_retry: by id alone, too.
RecordRetry(w) ==
    /\ worker[w].pc = "record" /\ worker[w].verdict = "retry"
    /\ row' = Written(Delivery(w), "pending", worker[w].attempt, Backoff[worker[w].attempt])
    /\ worker' = [worker EXCEPT ![w].pc = "enqueue"]
    /\ UNCHANGED <<jobs, results, accepted, faults>>

EnqueueRetry(w) ==
    /\ worker[w].pc = "enqueue"
    /\ LET new == {AttemptJob(Delivery(w), worker[w].attempt)}
                     \ (DOMAIN jobs \cup DOMAIN results)
       IN /\ jobs' = [i \in (DOMAIN jobs \ {worker[w].job}) \cup new |->
                        IF i \in new THEN Backoff[worker[w].attempt] ELSE jobs[i]]
          /\ results' = [i \in DOMAIN results \cup {worker[w].job} |->
                           IF i = worker[w].job THEN KeepResult ELSE results[i]]
    /\ worker' = [worker EXCEPT ![w] = IdleWorker]
    /\ UNCHANGED <<row, accepted, faults>>
-----------------------------------------------------------------------------
(* sweep_webhook_deliveries.                                                *)

\* Mutant: a row that was never attempted is not overdue.
OverdueOnceTried(d) ==
    row[d].status = "pending" /\ row[d].due = 0 /\ row[d].attempts > 0

Overdue(d) == row[d].status = "pending" /\ row[d].due = 0

Sweep(d) ==
    /\ Overdue(d) /\ ReclaimJob(d) \notin DOMAIN jobs \cup DOMAIN results
    /\ AddJob(ReclaimJob(d), 0)
    /\ UNCHANGED <<row, results, worker, accepted, faults>>
-----------------------------------------------------------------------------
(* Faults.                                                                  *)

Fault == faults > 0 /\ faults' = faults - 1

\* The worker dies: ARQ runs the job again.
Crash(w) ==
    /\ Fault /\ worker[w].pc # "idle"
    /\ worker' = [worker EXCEPT ![w] = IdleWorker]
    /\ UNCHANGED <<row, jobs, results, accepted>>

\* A write, the enqueueing of the retry or the job's timeout fails the job, and
\* the row stays as the claim left it.
JobFails(w) ==
    /\ Fault /\ worker[w].pc # "idle"
    /\ FinishJob(worker[w].job)
    /\ worker' = [worker EXCEPT ![w] = IdleWorker]
    /\ UNCHANGED <<row, accepted>>

\* The claim itself fails.
ClaimFails(j) ==
    /\ Fault /\ j \in DOMAIN jobs /\ jobs[j] = 0 /\ ~Running(j)
    /\ FinishJob(j)
    /\ UNCHANGED <<row, worker, accepted>>

\* run_integrations dies before it enqueues the first job.
FirstJobLost(d) ==
    /\ Fault /\ row[d].status # "none" /\ ~row[d].enqueued
    /\ row' = [row EXCEPT ![d].enqueued = TRUE]
    /\ UNCHANGED <<jobs, results, worker, accepted>>

\* Redis is flushed: what is queued is lost, what runs goes on.
Flush ==
    /\ Fault /\ DOMAIN jobs # {}
    /\ jobs' = [i \in {j \in DOMAIN jobs : Running(j)} |-> jobs[i]]
    /\ results' = [i \in {} |-> 0]
    /\ UNCHANGED <<row, worker, accepted>>
-----------------------------------------------------------------------------
Less(n) == IF n = 0 THEN 0 ELSE n - 1

Busy(w) == worker[w].pc \in {"send", "resend", "record"}

ForgetResults == results' = [i \in {j \in DOMAIN results : results[j] > 0} |-> results[i] - 1]

Tick ==
    /\ \A w \in Workers : Busy(w) => worker[w].age < MaxSend
    /\ \/ \E d \in Deliveries : row[d].due > 0
       \/ \E j \in DOMAIN jobs : jobs[j] > 0
       \/ DOMAIN results # {}
       \/ \E w \in Workers : Busy(w)
    /\ row' = [d \in Deliveries |-> [row[d] EXCEPT !.due = Less(@)]]
    /\ jobs' = [j \in DOMAIN jobs |-> Less(jobs[j])]
    /\ ForgetResults
    /\ worker' = [w \in Workers |-> IF Busy(w) THEN [worker[w] EXCEPT !.age = @ + 1]
                                    ELSE worker[w]]
    /\ UNCHANGED <<accepted, faults>>
-----------------------------------------------------------------------------
Attempt(w) ==
    \/ Accepted(w) \/ FailedTransiently(w) \/ Unauthorized(w) \/ FailedForGood(w)
    \/ RecordOutcome(w) \/ RecordRetry(w) \/ EnqueueRetry(w)

StartJob(j) == \E w \in Workers : Claim(w, j) \/ ClaimNothing(w, j)

Next ==
    \/ \E d \in Deliveries : Create(d) \/ EnqueueFirst(d) \/ Sweep(d) \/ FirstJobLost(d)
    \/ \E j \in DOMAIN jobs : StartJob(j) \/ ClaimFails(j)
    \/ \E w \in Workers : Attempt(w) \/ Crash(w) \/ JobFails(w)
    \/ Flush
    \/ Tick

Spec == Init /\ [][Next]_vars

\* Workers take jobs and finish attempts, the cron job runs, and time passes.
Fairness ==
    /\ \A d \in Deliveries : WF_vars(Sweep(d)) /\ WF_vars(EnqueueFirst(d))
    /\ WF_vars(\E j \in DOMAIN jobs : StartJob(j))
    /\ \A w \in Workers : WF_vars(Attempt(w))
    /\ WF_vars(Tick)

FairSpec == Spec /\ Fairness
-----------------------------------------------------------------------------
(* Properties.                                                              *)

TypeOK ==
    /\ row \in [Deliveries -> RowInfo]
    /\ DOMAIN jobs \subseteq JobIds /\ \A j \in DOMAIN jobs : jobs[j] \in Nat
    /\ DOMAIN results \subseteq JobIds /\ \A j \in DOMAIN results : results[j] \in Nat
    /\ worker \in [Workers -> WorkerInfo]
    /\ \A w \in Workers : worker[w].pc # "idle" => worker[w].job \in JobIds
    /\ accepted \subseteq Deliveries
    /\ faults \in 0..MaxFaults

\* "A duplicate enqueue or sweeper re-injection cannot double-send": no two
\* workers are between the claim of a delivery and the record of its outcome.
OneSender ==
    \A v, w \in Workers : Busy(v) /\ Busy(w) /\ Delivery(v) = Delivery(w) => v = w

\* A delivery that succeeded, or was parked as dead_letter ("never retried
\* again"), stays what it is.
TerminalIsFinal ==
    [][\A d \in Deliveries :
          row[d].status \in {"succeeded", "dead_letter"} => row'[d] = row[d]
             \/ row'[d] = [row[d] EXCEPT !.enqueued = TRUE]]_vars

\* Without faults a webhook that a receiver accepted is not sent again, whatever
\* the sweeper enqueued meanwhile.
AcceptedOnce ==
    faults = MaxFaults =>
        \A w \in Workers :
            worker[w].pc \in {"send", "resend"} => Delivery(w) \notin accepted

\* Every webhook of a finished run is delivered or parked: crashes, failing
\* writes and lost jobs only delay it (the sweeper's promise).
EveryDeliveryConcluded ==
    \A d \in Deliveries :
        row[d].status = "pending" ~> row[d].status \in {"succeeded", "dead_letter"}
-----------------------------------------------------------------------------
(* The inductive invariant behind OneSender and TerminalIsFinal.            *)

\* Whoever works on a row owns it: it is pending, and the lease runs.
LeaseHeld ==
    \A w \in Workers : Busy(w) =>
        /\ row[Delivery(w)].status = "pending"
        /\ row[Delivery(w)].due + worker[w].age >= Lease
        /\ worker[w].age <= MaxSend

\* What was delivered or parked is not scheduled any more.
ConcludedIsIdle ==
    \A d \in Deliveries :
        row[d].status \in {"succeeded", "dead_letter"} => row[d].due = 0

\* A row that may be claimed has an attempt left, and an attempt is counted once.
AttemptsLeft ==
    /\ \A d \in Deliveries :
          row[d].status \in {"none", "pending"} => row[d].attempts < MaxAttempts
    /\ \A w \in Workers : worker[w].pc # "idle" =>
          /\ worker[w].attempt >= 1
          /\ worker[w].verdict = "retry" => worker[w].attempt < MaxAttempts

\* A job enqueued for a row stands for a row that exists.
JobsHaveRows ==
    /\ \A j \in DOMAIN jobs : row[j.delivery].status # "none"
    /\ \A w \in Workers : worker[w].pc # "idle" => row[Delivery(w)].status # "none"

DeliveryInv ==
    TypeOK /\ AttemptsLeft /\ JobsHaveRows /\ LeaseHeld /\ ConcludedIsIdle /\ OneSender
=============================================================================

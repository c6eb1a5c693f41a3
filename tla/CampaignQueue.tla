---------------------------- MODULE CampaignQueue ----------------------------
(***************************************************************************)
(* The queued_runs of one campaign and who works on them: the sync task     *)
(* (campaign_tasks.sync_campaign_source), the batches                       *)
(* (campaign_tasks.process_campaign_batch and                               *)
(* campaign_call_dispatcher.process_batch), the provider's status callbacks *)
(* (status_processor.py), the circuit breaker's verdicts, and a user who    *)
(* pauses and resumes (runner.py).                                          *)
(*                                                                         *)
(* A batch runs between two awaits at a time: one action is one statement   *)
(* on the database, one published event or one call to the provider.        *)
(* Concurrency slots and caller ids are in CallConcurrency and              *)
(* FromNumberPool; here they are there or they are not.  Callbacks a user   *)
(* asked for are left out.  Who schedules batches is in                     *)
(* CampaignOrchestrator.                                                    *)
(***************************************************************************)
EXTENDS Integers, FiniteSets, Sequences

CONSTANTS
    Sources,        \* the rows of the source
    MaxRetries,     \* retry_config.max_retries
    NoRow,
    Workers,        \* ARQ workers, each with at most one batch of the campaign
    BatchSize,
    RetryDelay,     \* retry_delay_seconds, in ticks
    MaxExhausted,   \* MAX_PHONE_NUMBER_POOL_EXHAUSTED_ATTEMPTS
    MaxFaults,      \* BOUND: failing writes, cancellations, deaths, lost events
    MaxSurprises,   \* BOUND: pauses, verdicts of the breaker, repeated callbacks
    MaxTroubles,    \* BOUND: faults and surprises together
    MaxJobs,        \* BOUND: batches waiting for a worker
    MaxEvents       \* BOUND: events under way

\* (campaign_id, source_uuid, retry_count) is unique, and the source_uuid of a
\* retry is made of its parent's: a row is known by its source and its count.
Rows == Sources \X (0..MaxRetries)

ASSUME QueueAssumption ==
    /\ MaxRetries \in Nat /\ BatchSize \in Nat \ {0} /\ RetryDelay \in Nat
    /\ MaxExhausted \in Nat \ {0}
    /\ {MaxFaults, MaxSurprises, MaxTroubles, MaxJobs, MaxEvents} \subseteq Nat
    /\ NoRow \notin Rows /\ IsFiniteSet(Sources)

VARIABLES
    state,      \* campaign.state
    synced,     \* has the sync task ended?
    failedRows, \* campaign.failed_rows
    exhausted,  \* phone_number_pool_exhausted_attempts
    rows,       \* the table queued_runs
    call,       \* the workflow run of a row
    batch,      \* the batch of each worker and its local variables
    jobs,       \* process_campaign_batch jobs waiting in ARQ's queue
    events,     \* published and not yet received
    faults, surprises

queueVars == <<state, synced, failedRows, exhausted, rows, call, batch, jobs,
               events, faults, surprises>>

States == {"syncing", "running", "paused", "completed", "failed"}

\* wait: ticks until scheduled_for is reached.
RowInfo == [state : {"none", "queued", "processing", "processed", "failed"},
            wait : 0..RetryDelay]

\* "created": the workflow run exists and nothing was dialled.  "late": ringing since
\* before the last tick.  "unanswered": busy or no_answer, to be retried.  "failed":
\* never dialled, or refused by the provider.
CallStates == {"none", "created", "ringing", "late", "answered", "unanswered", "failed"}

\* "dispatch": has a slot.  "dial": the run exists.  "record", "count": the call is
\* placed, the row and the campaign are to be updated.  "completed", "failed": an
\* event is to be published.  "mark": the campaign is to be marked as failed.
PCs == {"idle", "claim", "init", "next", "dispatch", "dial", "record", "count",
        "completed", "exhausted", "failed", "mark"}

\* todo: claimed and not yet handled.  claims: claimed and not in processed_run_ids.
\* any: is processed_count positive?
BatchInfo == [pc : PCs, todo : SUBSET Rows, claims : SUBSET Rows, row : Rows \cup {NoRow},
              any : BOOLEAN]

Idle == [pc |-> "idle", todo |-> {}, claims |-> {}, row |-> NoRow, any |-> FALSE]

EventInfo == [kind : {"sync", "completed", "failed", "tripped"}, row : {NoRow}]
             \cup [kind : {"retry"}, row : Rows]

Event(k) == [kind |-> k, row |-> NoRow]

QueueInit ==
    /\ state = "syncing" /\ synced = FALSE
    /\ failedRows = 0 /\ exhausted = 0
    /\ rows = [r \in Rows |-> [state |-> "none", wait |-> 0]]
    /\ call = [r \in Rows |-> "none"]
    /\ batch = [w \in Workers |-> Idle]
    /\ jobs = 0 /\ events = <<>>
    /\ faults = 0 /\ surprises = 0
-----------------------------------------------------------------------------
Untroubled == faults + surprises < MaxTroubles

Fault == Untroubled /\ faults < MaxFaults /\ faults' = faults + 1

Surprise == Untroubled /\ surprises < MaxSurprises /\ surprises' = surprises + 1

Publish(es) == Len(events \o es) <= MaxEvents /\ events' = events \o es

Goto(w, pc) == batch' = [batch EXCEPT ![w].pc = pc]

\* The current row is done with, for better or worse.
Mark(w, s) == rows' = [rows EXCEPT ![batch[w].row].state = s]

\* Mutant: a claim is returned although its workflow run exists.
ReturnAlways(S) ==
    [r \in Rows |-> IF r \in S /\ rows[r].state = "processing"
                    THEN [rows[r] EXCEPT !.state = "queued"] ELSE rows[r]]

ReturnUnprocessed(S) ==
    [r \in Rows |-> IF r \in S /\ rows[r].state = "processing" /\ call[r] = "none"
                    THEN [rows[r] EXCEPT !.state = "queued"] ELSE rows[r]]

\* A failure to return claims is logged: the rows stay claimed.
ReturnClaims(w) ==
    \/ rows' = ReturnUnprocessed(batch[w].claims) /\ UNCHANGED faults
    \/ UNCHANGED rows /\ Fault

\* record_and_evaluate: the breaker may find that too many calls failed, pauses the
\* campaign and says so, before anything else is published.
Evaluate(es) ==
    \/ Publish(es) /\ UNCHANGED <<state, surprises>>
    \/ /\ state = "running" /\ Surprise
       /\ state' = "paused" /\ Publish(<<Event("tripped")>> \o es)
-----------------------------------------------------------------------------
(* The sync task and the user.                                              *)

\* Whatever the state is by now, a campaign with rows is running after its sync.
SyncSource ==
    /\ ~synced /\ synced' = TRUE
    /\ \E S \in SUBSET Sources :
          /\ rows' = [r \in Rows |-> IF r \in S \X {0} THEN [state |-> "queued", wait |-> 0]
                                     ELSE rows[r]]
          /\ \/ S = {} /\ state' = "completed" /\ UNCHANGED events
             \/ S # {} /\ state' = "running" /\ Publish(<<Event("sync")>>)
    /\ UNCHANGED <<failedRows, exhausted, call, batch, jobs, faults, surprises>>

SyncFails ==
    /\ ~synced /\ synced' = TRUE /\ Fault
    /\ state' = "failed"
    /\ UNCHANGED <<failedRows, exhausted, rows, call, batch, jobs, events, surprises>>

Pause ==
    /\ state \in {"running", "syncing"} /\ Surprise
    /\ state' = "paused"
    /\ UNCHANGED <<synced, failedRows, exhausted, rows, call, batch, jobs, events,
                   faults>>

Resume ==
    /\ state = "paused" /\ state' = "running"
    /\ UNCHANGED <<synced, failedRows, exhausted, rows, call, batch, jobs, events,
                   faults, surprises>>
-----------------------------------------------------------------------------
(* process_batch.                                                           *)

BeginBatch(w) ==
    /\ batch[w].pc = "idle" /\ jobs > 0 /\ jobs' = jobs - 1
    /\ batch' = [batch EXCEPT ![w] =
                    [Idle EXCEPT !.pc = IF state = "running" THEN "claim" ELSE "completed"]]
    /\ UNCHANGED <<state, synced, failedRows, exhausted, rows, call, events, faults,
                   surprises>>

Ready == {r \in Rows : rows[r].state = "queued" /\ rows[r].wait = 0}

Retries == {r \in Rows : r[2] > 0}      \* the rows with a scheduled_for

\* FOR UPDATE SKIP LOCKED: scheduled retries that are due, then the others.
Claimable ==
    {S \in SUBSET Ready :
        /\ Cardinality(S) <= BatchSize
        /\ S # Ready => Cardinality(S) = BatchSize
        /\ (Ready \ S) \cap Retries # {} => S \subseteq Retries}

Claim(w) ==
    /\ batch[w].pc = "claim"
    /\ \E S \in Claimable :
          /\ rows' = [r \in Rows |-> IF r \in S THEN [rows[r] EXCEPT !.state = "processing"]
                                     ELSE rows[r]]
          /\ batch' = [batch EXCEPT ![w].pc = IF S = {} THEN "completed" ELSE "init",
                                    ![w].todo = S, ![w].claims = S]
    /\ UNCHANGED <<state, synced, failedRows, exhausted, call, jobs, events, faults,
                   surprises>>

\* The caller ids of the campaign's provider; errors are logged.
InitNumbers(w) ==
    /\ batch[w].pc = "init" /\ Goto(w, "next")
    /\ UNCHANGED <<state, synced, failedRows, exhausted, rows, call, jobs, events,
                   faults, surprises>>

\* The rate limit lets the next row pass and a slot is free.
AcquireSlot(w) ==
    /\ batch[w].pc = "next"
    /\ \E r \in batch[w].todo :
          batch' = [batch EXCEPT ![w].pc = "dispatch", ![w].row = r, ![w].todo = @ \ {r}]
    /\ UNCHANGED <<state, synced, failedRows, exhausted, rows, call, jobs, events,
                   faults, surprises>>

\* Mutant: the claims of the batch are not returned.
SlotTimeoutKeepsClaims(w) ==
    /\ batch[w].pc = "next" /\ batch[w].todo # {}
    /\ Goto(w, "failed")
    /\ UNCHANGED <<state, synced, failedRows, exhausted, rows, call, jobs, events,
                   faults, surprises>>

\* ConcurrentSlotAcquisitionError
SlotTimeout(w) ==
    /\ batch[w].pc = "next" /\ batch[w].todo # {}
    /\ ReturnClaims(w) /\ Goto(w, "failed")
    /\ UNCHANGED <<state, synced, failedRows, exhausted, call, jobs, events, surprises>>

\* PhoneNumberPoolExhaustedError
PoolExhausted(w) ==
    /\ batch[w].pc = "dispatch"
    /\ ReturnClaims(w) /\ Goto(w, "exhausted")
    /\ UNCHANGED <<state, synced, failedRows, exhausted, call, jobs, events, surprises>>

\* No workflow, no phone number, or the workflow run could not be created.
DispatchFails(w) ==
    /\ batch[w].pc = "dispatch"
    /\ Mark(w, "failed") /\ Goto(w, "next")
    /\ UNCHANGED <<state, synced, failedRows, exhausted, call, jobs, events, faults,
                   surprises>>

CreateRun(w) ==
    /\ batch[w].pc = "dispatch"
    /\ call' = [call EXCEPT ![batch[w].row] = "created"]
    /\ Goto(w, "dial")
    /\ UNCHANGED <<state, synced, failedRows, exhausted, rows, jobs, events, faults,
                   surprises>>

Dial(w) ==
    /\ batch[w].pc = "dial"
    /\ call' = [call EXCEPT ![batch[w].row] = "ringing"]
    /\ Goto(w, "record")
    /\ UNCHANGED <<state, synced, failedRows, exhausted, rows, jobs, events, faults,
                   surprises>>

\* The slot is not bound, the quota is used up, or the provider refuses; only the
\* provider's refusal is counted by the breaker.
DialFails(w) ==
    /\ batch[w].pc = "dial"
    /\ call' = [call EXCEPT ![batch[w].row] = "failed"]
    /\ Mark(w, "failed") /\ Goto(w, "next")
    /\ Evaluate(<<>>)
    /\ UNCHANGED <<synced, failedRows, exhausted, jobs, faults>>

\* Mutant: with the first call that is placed the whole batch counts as processed.
RecordForgetsClaims(w) ==
    /\ batch[w].pc = "record"
    /\ Mark(w, "processed")
    /\ batch' = [batch EXCEPT ![w].pc = "count", ![w].any = TRUE, ![w].claims = {}]
    /\ UNCHANGED <<state, synced, failedRows, exhausted, call, jobs, events, faults,
                   surprises>>

Record(w) ==
    /\ batch[w].pc = "record"
    /\ Mark(w, "processed")
    /\ batch' = [batch EXCEPT ![w].pc = "count", ![w].any = TRUE,
                              ![w].claims = @ \ {batch[w].row}]
    /\ UNCHANGED <<state, synced, failedRows, exhausted, call, jobs, events, faults,
                   surprises>>

\* update_campaign: processed_rows, a counter that nothing decides by, is left out.
Count(w) ==
    /\ batch[w].pc = "count"
    /\ Goto(w, "next")
    /\ UNCHANGED <<state, synced, failedRows, exhausted, rows, call, jobs, events, faults,
                   surprises>>

\* The row or the campaign cannot be updated: the row of a placed call is failed,
\* or, if that cannot be written either, left as it is.
UpdateFails(w) ==
    /\ batch[w].pc \in {"record", "count"} /\ Fault
    /\ \/ Mark(w, "failed")
       \/ UNCHANGED rows
    /\ Goto(w, "next")
    /\ UNCHANGED <<state, synced, failedRows, exhausted, call, jobs, events, surprises>>

\* The campaign or the queue cannot be read.
ReadFails(w) ==
    /\ batch[w].pc = "claim" /\ Fault
    /\ Goto(w, "failed")
    /\ UNCHANGED <<state, synced, failedRows, exhausted, rows, call, jobs, events,
                   surprises>>
-----------------------------------------------------------------------------
(* process_campaign_batch, after process_batch.                             *)

Processed(w) ==
    \/ batch[w].pc = "completed"
    \/ batch[w].pc = "next" /\ batch[w].todo = {}

\* reset_campaign_metadata_counter
ResetExhausted(w) == IF batch[w].any THEN 0 ELSE exhausted

CompleteBatch(w) ==
    /\ Processed(w)
    /\ Publish(<<Event("completed")>>)
    /\ exhausted' = ResetExhausted(w)
    /\ batch' = [batch EXCEPT ![w] = Idle]
    /\ UNCHANGED <<state, synced, failedRows, rows, call, jobs, faults, surprises>>

\* The counter cannot be reset or the event not be published: the batch has failed.
CloseFails(w) ==
    /\ Processed(w) /\ Fault
    /\ exhausted' \in {exhausted, ResetExhausted(w)}
    /\ Goto(w, "failed")
    /\ UNCHANGED <<state, synced, failedRows, rows, call, jobs, events, surprises>>

CountExhausted(w) ==
    /\ batch[w].pc = "exhausted"
    /\ exhausted' = exhausted + 1
    /\ \/ /\ exhausted' < MaxExhausted
          /\ Publish(<<Event("completed")>>) /\ batch' = [batch EXCEPT ![w] = Idle]
       \/ /\ exhausted' >= MaxExhausted
          /\ Goto(w, "failed") /\ UNCHANGED events
    /\ UNCHANGED <<state, synced, failedRows, rows, call, jobs, faults, surprises>>

\* The event first, the state after it.
FailBatch(w) ==
    /\ batch[w].pc = "failed"
    /\ Publish(<<Event("failed")>>) /\ Goto(w, "mark")
    /\ UNCHANGED <<state, synced, failedRows, exhausted, rows, call, jobs, faults,
                   surprises>>

\* Whatever the state is by now.
MarkCampaign(w) ==
    /\ batch[w].pc = "mark"
    /\ state' = "failed" /\ batch' = [batch EXCEPT ![w] = Idle]
    /\ UNCHANGED <<synced, failedRows, exhausted, rows, call, jobs, events, faults,
                   surprises>>

InLoop(w) == batch[w].pc \in {"next", "dispatch", "dial", "record", "count"}

\* The job times out, or its worker shuts down and ARQ runs the job again; only
\* within the loop of process_batch are the claims returned.
Cancel(w) ==
    /\ batch[w].pc # "idle" /\ Fault
    /\ rows' = IF InLoop(w) THEN ReturnUnprocessed(batch[w].claims) ELSE rows
    /\ batch' = [batch EXCEPT ![w] = Idle]
    /\ jobs' \in {jobs, jobs + 1} /\ jobs' <= MaxJobs
    /\ UNCHANGED <<state, synced, failedRows, exhausted, call, events, surprises>>

\* The worker's process is killed.
Die(w) ==
    /\ batch[w].pc # "idle" /\ Fault
    /\ batch' = [batch EXCEPT ![w] = Idle]
    /\ jobs' \in {jobs, jobs + 1} /\ jobs' <= MaxJobs
    /\ UNCHANGED <<state, synced, failedRows, exhausted, rows, call, events, surprises>>
-----------------------------------------------------------------------------
(* Status callbacks of the provider.                                        *)

Outcome(r, o) ==
    /\ call[r] \in {"ringing", "late"}
    /\ call' = [call EXCEPT ![r] = o]
    /\ Evaluate(IF o = "unanswered" THEN <<[kind |-> "retry", row |-> r]>> ELSE <<>>)
    /\ UNCHANGED <<synced, failedRows, exhausted, rows, batch, jobs, faults>>

\* The callback of a call that was not answered comes again.
RepeatOutcome(r) ==
    /\ call[r] = "unanswered" /\ Surprise
    /\ Publish(<<[kind |-> "retry", row |-> r]>>)
    /\ UNCHANGED <<state, synced, failedRows, exhausted, rows, call, batch, jobs, faults>>

Ended == {"answered", "unanswered", "failed"}
-----------------------------------------------------------------------------
Advance(w) ==
    \/ BeginBatch(w) \/ Claim(w) \/ InitNumbers(w) \/ AcquireSlot(w)
    \/ SlotTimeout(w) \/ PoolExhausted(w) \/ DispatchFails(w) \/ CreateRun(w)
    \/ Dial(w) \/ DialFails(w) \/ Record(w) \/ Count(w)
    \/ CompleteBatch(w) \/ CountExhausted(w) \/ FailBatch(w) \/ MarkCampaign(w)

QueueNext ==
    \/ SyncSource \/ SyncFails \/ Pause \/ Resume
    \/ \E w \in Workers :
          Advance(w) \/ UpdateFails(w) \/ ReadFails(w) \/ CloseFails(w) \/ Cancel(w) \/ Die(w)
    \/ \E r \in Rows : RepeatOutcome(r) \/ \E o \in Ended : Outcome(r, o)
-----------------------------------------------------------------------------
(* Properties.                                                              *)

QueueTypeOK ==
    /\ state \in States /\ synced \in BOOLEAN
    /\ failedRows \in Nat /\ exhausted \in Nat
    /\ rows \in [Rows -> RowInfo]
    /\ call \in [Rows -> CallStates]
    /\ batch \in [Workers -> BatchInfo]
    /\ \A w \in Workers :
          batch[w].todo \subseteq batch[w].claims /\ Cardinality(batch[w].claims) <= BatchSize
    /\ jobs \in 0..MaxJobs
    /\ events \in Seq(EventInfo) /\ Len(events) <= MaxEvents
    /\ faults \in 0..MaxFaults /\ surprises \in 0..MaxSurprises

\* No row is dialled a second time: whatever fails, is cancelled or claimed again, a
\* row never gets a second workflow run (claim_queued_runs_for_processing,
\* return_processing_queued_runs_without_workflow).
OneRunPerRow ==
    [][\A w \in Workers :
          batch[w].pc = "dispatch" /\ batch'[w].pc = "dial" => call[batch[w].row] = "none"]_queueVars

\* Without faults a claimed row is in the hands of a batch or has a workflow run
\* (_return_unprocessed_claims).
NoClaimLost ==
    faults = 0 =>
        \A r \in Rows : rows[r].state = "processing" =>
            call[r] # "none" \/ \E w \in Workers : r \in batch[w].claims
=============================================================================

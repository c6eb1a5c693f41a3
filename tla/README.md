# Formal models of the voice agent's bookkeeping

The repository is a platform for voice agents: a FastAPI server and ARQ workers
(Python, `src/api`), a web application (`src/ui`) and SDKs.  Its own hard logic
is not the audio, which the pipecat framework runs, but the bookkeeping around calls,
spread over several processes that share PostgreSQL and Redis and nothing else:
who may start a call, from which number, which row of a campaign is dialled
next, who is told afterwards, what a text chat remembers when two tabs write to it,
which token a worker may still use.  Those are the parts modelled here.

Paths below are relative to `src/api` unless they start with `src/`.

| module | what it is |
|---|---|
| `CallConcurrency` | the concurrent-call slots of organizations (Redis) |
| `CallAdmission` | what those slots promise, the specification `CallConcurrency` implements |
| `CallConcurrencyProofs` | theorems about `CallConcurrency`: the counting; calls, runs, mappings and the refinement |
| `FromNumberPool` | the pool of caller ids (Redis) |
| `FromNumberPoolProofs` | theorems about `FromNumberPool` |
| `WebhookDelivery` | durable delivery of webhooks (PostgreSQL and ARQ) |
| `WebhookDeliveryProofs` | theorems about `WebhookDelivery` |
| `CampaignQueue` | the rows and batches of a campaign, the calls' outcomes, the user |
| `CampaignOrchestrator` | the orchestrator above them; composes with `CampaignQueue` |
| `CampaignProofs` | theorems about the two together |
| `TextChatSession` | a text chat with several tabs and the inactivity sweep (PostgreSQL and ARQ) |
| `TurnLog` | what a text chat promises, the specification `TextChatSession` implements |
| `TextChatSessionProofs` | theorems about `TextChatSession` |
| `OAuthTokenCache` | fetching, caching and invalidating access tokens (Redis) |
| `OAuthTokenCacheProofs` | theorems about `OAuthTokenCache` |
| `ScheduledCallback` | the callbacks a caller asked for (PostgreSQL and ARQ) |
| `CallTransfer` | the transfers of a call to a person (Redis keys and pub/sub) |
| `EngineToolProofs` | theorems about `CallTransfer` and `ScheduledCallback`, two tools of the conversation engine |
| `CircuitBreaker` | the failure window that pauses a campaign (Redis) |
| `MC*` | instances for TLC: symmetry sets, values a `.cfg` cannot write, and in `MCServices` four small components side by side |
| `ServicesProofs` | theorems about `CircuitBreaker` and about the four components of `MCServices` together |

## 1. Inventory

### Components with state of their own

**Call concurrency** (`services/call_concurrency/rate_limiter.py`, `service.py`).
State: three sorted sets in Redis (per organization, per campaign scope, for the
fleet), and a hash per workflow run that maps it to its slot.  Operations:
acquire (one Lua script, retried with a poll), bind to a run (`HSETNX`-like
script), release (read the mapping, three `ZREM`s, delete the mapping).
Callers: the campaign dispatcher, the telephony routes, the WebRTC signalling,
the ARI manager, the public agent routes; released from status callbacks,
`StasisEnd` and the pipeline's `finally` blocks.  Hard: every Redis command is
an await, clean-ups run several times and at any time, answers get lost,
coroutines are cancelled, entries go stale.  Right when: no organization or
campaign exceeds its limit, the fleet's counter never reads low, a run has one
call, a slot in use can always be given back, and no slot is lost without a fault.

**Caller-id pool** (`rate_limiter.py`, `campaign_call_dispatcher.py`).  State: a
sorted set per telephony configuration (score 0 is free, otherwise the time of
acquisition), and a hash per run.  Operations: initialize, acquire (a preferred
number first for callbacks, with a fallback), store the mapping, release.  Right
when: two calls never show one number at the same time, and a number comes back.

**Campaign queue and batches** (`tasks/campaign_tasks.py`,
`services/campaign/campaign_call_dispatcher.py`, `runner.py`,
`db/campaign_client.py`, `services/telephony/status_processor.py`).  State:
`campaigns.state` and counters, `queued_runs`, workflow runs, ARQ jobs, Redis
pub/sub events.  Operations: sync, claim (`FOR UPDATE SKIP LOCKED`), dispatch,
status callbacks that ask for retries, pause, resume, redial.  Hard: a batch is
a hundred awaits long, may be cancelled at each of them or killed, shares the
campaign's row with every other actor, and none of them locks it.  Right when: a
row is dialled once, no claimed row is lost, counters count.

**Campaign orchestrator** (`services/campaign/campaign_orchestrator.py`).  State:
three dictionaries in memory (last activity, locks, batch in progress).  One
coroutine handles events, another polls every minute.  Hard: events are lost
whenever it is away, and its memory is lost with it.  Right when: every running
campaign comes to an end, and none is ended while there is work.

**Webhook delivery** (`tasks/webhook_delivery.py`, `db/webhook_delivery_client.py`,
enqueued by `tasks/run_integrations.py`).  State: `webhook_deliveries` rows, ARQ
jobs.  Operations: create, claim under a lease, send, refresh a token after a
401, record the outcome, schedule a retry, sweep.  Hard: leases, job ids that ARQ
drops when it knows them, dead workers.  Right when: one sender at a time,
outcomes are final, every delivery is concluded.

**Circuit breaker** (`services/campaign/circuit_breaker.py`).  State: two sorted sets
per campaign with the instants of the outcomes of a window.  Operations: record and
evaluate (one script), evaluate before a batch, reset on resume.  Hard: each caller
reads its clock before its script runs and cuts the sets by its own reading; outcomes
are recorded while a user resumes.  Right when: a verdict is the failure rate of the
window since the last reset.

**Text chat sessions** (`services/workflow/text_chat_session_service.py`,
`db/workflow_run_text_session_client.py`, `tasks/text_chat_inactivity.py`).  State: a
row per chat with a revision, its turns, a cursor, checkpoints and the turns set aside;
the run's completion; ARQ jobs.  Operations: send (append, reload, answer, write), rewind,
end, sweep, the inactivity job, the completion job.  Hard: everybody loads the row,
computes for seconds and writes all of it back.  Right when: no turn is lost, an answer
belongs to the branch the user is on, none is opened after the end, an abandoned chat
ends and every end is processed.

**OAuth2 token cache** (`services/oauth2_token_cache.py`).  State: per credential a token
and a stamp in Redis, both expiring, and a lock per process.  Operations:
`get_or_fetch_token`, `invalidate_token`.  Hard: a fetch takes seconds during which the
credential changes; locks do not reach other workers.  Right when: no token outlives
an invalidation or its own expiry.

**User-requested callbacks** (`tasks/callback_tasks.py`, the tool, `routes/callbacks.py`,
`status_processor.py`).  State: rows of `scheduled_callbacks`, deferred ARQ jobs, a flag
of the conversation.  Operations: schedule, attempt, retry, give up, cancel; a retry after
a busy signal is meant and never comes about (section 2).  Hard: the job knows its run and
not its row, dials before it records, and is retried by itself and by ARQ; the tool may be
called twice at once.  Right when: the contact is called once, not at all once the callback
is cancelled, and no row is forgotten.

**Call transfer** (`services/telephony/call_transfer_manager.py`, the tool of the
conversation engine, the providers' callbacks and strategies).  State: a context per
transfer, an index per call, one-time claims, a pub/sub channel per transfer.  Hard:
answers of earlier destinations, repeated callbacks, answers before the subscription.
Right when: the caller leaves the conversation only for a destination that has
answered, and the legs find the transfer they belong to.

**Worker sync** (`services/worker_sync/manager.py`) and the **dispatch rate limit**
(`acquire_token`): smaller concurrent parts, see the plan.

### The rest

Telephony providers, the ARI websocket client, the voice pipeline, the workflow
graph and its validation, quota and billing, the knowledge base, configuration,
authentication, third-party integrations, the MCP server, the web application,
SDKs, deployment: listed in `PROJECT.json` with the reason each is left out.
They are adapters, CRUD, sequential I/O or schemas; where they touch the state
above (who releases a slot, who may start a run) the models say so.

### How they interact

    routes, ARI, WebRTC ──acquire/bind/release──▶ call concurrency ◀─┐
                                                                     │
    runner ──sync job──▶ campaign tasks ──events──▶ orchestrator     │
                             │   ▲                      │            │
                             │   └─────── batch jobs ◀──┘            │
                             ▼                                       │
                         dispatcher ──slot, caller id, workflow run──┤
                             │                                       │
                         provider ──status callbacks──▶ status_processor
                                                │ release, breaker, retry events
    pipeline ends ──▶ run_integrations ──rows and jobs──▶ webhook delivery

    tabs ──send, rewind, end──▶ text chat ◀──jobs── sweep
    tools, webhooks ──tokens, 401s──▶ token cache ◀──credential changes── routes

Components that share no state are modelled apart, each nondeterministic in what its
environment does (a dispatcher of `FromNumberPool` may ask, give up or dial at any time; a
slot or a number "is there or is not" in `CampaignQueue`, and the breaker's verdict is a
choice there, computed in `CircuitBreaker`).  The campaign's two modules share state and
are composed: `CampaignOrchestrator` extends `CampaignQueue`, and its `Next` interleaves
the steps of both.

## 2. The models

The grain of every model is the same: one action is one statement on the
database, one Redis command or script, one published event or one request, with
everything the coroutine computes up to its next await.  Between two actions of
a coroutine anybody else may act.

### CallConcurrency

`orgSet`, `scopeSet`, `fleet` are the members of the sorted sets (a slot carries
its own organization, scope and score, so one set of slots stands for all keys
of a kind); `mapping` the hashes; `proc` the coroutines' program counters and
locals; `call` and `mistaken` are history variables.  Acquisition: `Ask`, `Granted`, `Denied`,
`AskAgain`, `GiveUp`; binding: `Bind`, `BindRefused`; release: `BeginRelease`,
`ZremOrg`, `ZremFleet`, `ZremScope`, `Unmap`.  With `RedisFaults` each command may
fail with or without effect, with `Crashes` a coroutine may end anywhere, `Tick`
advances the clock and expires keys.  A script's clock is read when its coroutine begins
to ask (`at`), as in the code, so a script may run with an old clock.

A run may be started again when a call of it is over.  The clean-ups of the earlier call,
which know the run only, may come after that: one reads the mapping of the new call and
releases its slot, or, having read the old one, deletes by run id the mapping of the new
call (`service.py:279`).  Both are behaviours of the code and of the model.  `mistaken`
collects the runs to which either has happened, and the properties about calls speak of the
others (`Regular`): for a mistaken run each of them is false of the code.  Slots and limits
as Redis counts them are not excepted.

- *concurrency_faults*: one starter, two clean-ups, three slot ids, two runs,
  every command failing and every coroutine cancelled, no time.  `OrgWithinLimit`,
  `ScopeCapsOrgEntries`, `FleetNeverUndercounts`, `OneCallPerRun`, and
  `BoundSlotRecoverable`: a bound slot that any set counts is reachable from its run's
  mapping.  Two clean-ups are what it takes for one to overtake another; three slots let
  a slot leak and the limit of two still be reached.
- *concurrency_live*: no faults, a limit of one and two slots, the clock to 4 with a
  stale timeout of 3 and keys that outlive it by one: an entry goes stale, the key
  survives, both expire.  `CallsWithinLimit`, `NoSlotForgotten`, the refinement
  `ImplementsAdmission`, and `EndedCallsFreeTheirSlots`.  With faults and time together
  the state space is out of TLC's reach; there the theorems take over.

Assumption `CallsAreShort`, of these runs and of the theorems about calls:
`MaxSetup + MaxDuration + 1 < StaleTimeout`, a call with its ringing is shorter than the
stale timeout.  The code does not guarantee it:
`services/pipecat/run_pipeline.py:706-713` lets an organization set any duration, and
the schema's ceiling equals the timeout although the slot's age counts from before the
phone rings.  The comment at `schemas/workflow_configurations.py:12-14` accepts
equality; with `MaxSetup = 1`, `MaxDuration = 3`, `StaleTimeout = 3` TLC finds
`CallsWithinLimit` violated.

Fairness: a coroutine inside a release goes on (asyncio schedules it), and each
run's clean-up is called at least once (a status callback, or the pipeline's
`finally`).  Nothing is assumed of callers that ask for slots.

### FromNumberPool

`pool` is the sorted set as a function from numbers to scores, `poolUntil` and
`mapping[r].until` the expiry of the keys, `proc` and `call` as above.  A batch begins with
`InitializePool` (`ZADD NX`) and `RefreshPool` (`EXPIRE`); either may fail, and the batch
goes on, as the dispatcher ignores it.  `Acquire`, `TurnedDown` and `Fallback` are the two
scripts and the preference of callbacks, `StoreMapping`, `Dial`, `DialFails`, `Abandon` the
dispatcher, `DialForgotten` an error outside its `try` blocks or inside its handler, whose
number nobody returns (a "stray" call), `RecordFails` an error after the dial, whose handler
returns the number of a call that goes on; `StatusCallback`, `GetMapping`, `Release`,
`Unmap` are the clean-up.

Two history variables name what the code gives up.  `unrefreshed`: a batch has gone on
without renewing the key's expiry; if the key then runs out, the next `ZADD NX` frees every
number in use.  `spoilt`: the numbers whose scores went that way, and those that a repeated
callback or `RecordFails` sets out to free.

- *from_numbers_faults*: Redis fails, workers die, numbers grow stale, the key expires, one
  status callback per call, rows without a preferred caller id (*from_numbers_live* has
  them): `ExclusiveUnlessSpoilt`, two calls never show one number that is
  not spoilt.  Needs `MaxUse < StaleTimeout` (a number is not in use for longer than the
  timeout) and `MaxBatch + MaxUse < PoolTTL` (nor for longer than the key lives after a
  renewal).  Without the exception TLC finds a number shared after a failed `EXPIRE`.
- *from_numbers_live*: calls and clean-ups later than every timeout, repeated callbacks,
  database errors at every write of the dispatcher: `NoNumberForgotten`,
  `EndedCallsReturnNumbers`, whose exception is a stray call that takes the number next.
- *from_numbers_repeated* (violation, a code bug): two overlapping status callbacks
  of one call; the second frees a number another call has acquired meanwhile, as
  `release_from_number` does not check whose it is.

One number and two runs suffice for a race about one number.  Fairness: calls end, a
status callback comes sometime (strong, since a clean-up coroutine may be busy),
coroutines go on.

### WebhookDelivery

`rows` is the table, `jobs` ARQ's queue by job id (ARQ remembers the ids of
finished jobs for a while and drops what is enqueued under them), `worker` the
attempts.  `Create` and `EnqueueFirst` are `run_integrations`, `Claim`, the four
outcomes, `RecordOutcome`, `RecordRetry`, `EnqueueRetry` the delivery task,
`Sweep` the cron job.  Faults: `Crash` (ARQ runs the job again), `JobFails`,
`ClaimFails`, `Flush` (Redis loses the queue), `FirstJobLost`.

- *webhooks*: two workers, the sweeper, one fault: `OneSender`, `AcceptedOnce`,
  `TerminalIsFinal`, and `EveryDeliveryConcluded` under fairness of the sweeper,
  the workers and time.  One fault is the bound at which the retry limit of two
  is still reached with and without it.
- *webhooks_double_send* (violation, a code bug): an attempt may outlast its lease
  (httpx applies its timeout to each phase, and the 401 path sends twice).

### CampaignQueue and CampaignOrchestrator

One campaign.  `rows` is `queued_runs` (a row is its source and its retry count,
which the unique constraint makes its identity), `call` the workflow run of a
row and what became of it, `batch[w]` the local variables of the batch that worker
`w` executes, `jobs` the batches in ARQ's queue, `events` the channel, `state`,
`failedRows` and `exhausted` the columns of `campaigns`.
`batch[w].pc` is the statement that comes next: `BeginBatch`, `Claim`,
`InitNumbers`, then for every row `AcquireSlot`, `CreateRun`, `Dial`, `Record`,
`Count`, with the error paths of `process_batch` (`SlotTimeout`,
`PoolExhausted`, `DispatchFails`, `DialFails`, `UpdateFails`; the return of the claims may
itself fail, which is logged and loses them, `ReturnClaims`) and of
`process_campaign_batch` (`ResetExhausted`, `CloseFails`, `CountExhausted`, `FailBatch`,
`MarkCampaign`).
`Cancel` is a job's timeout or its worker's shutdown, `Die` a killed worker.

The orchestrator's listener (`RetryNeeded`, which inserts the row, and `Touch`, which notes
the activity; `BatchCompleted`, `BatchFailed`, `SyncCompleted`, `BreakerTripped`) and
monitor (`Look`, `Check`, `Recheck`, `Complete`, a read and a write each) are two
tasks that both schedule batches (`Schedule`, `Enqueue`, `SetFlag`,
`NothingToDo`, `PauseForBreaker`) between which everything else may happen;
`LoseEvent` and `Restart` are what pub/sub and memory do not survive.

Time is coarse: a tick is longer than a batch and than the handling of an event
(`OnTime`), so a retry delay is 1 and the completion timeout 2 ticks.  What the
code does not guarantee here is charged as a fault, so that it happens, but not
more often than `MaxFaults`: that a job waits for a worker for longer than a tick, that
the in-progress flag of a batch is declared stuck while the batch still waits
(after 300 s), that a lock of five seconds expires during the scheduling, and
that the enqueueing is answered after the batch began.  Pauses, verdicts of the
breaker and repeated callbacks are `surprises`; `MaxTroubles` bounds both together.

- *campaign*: two rows with a retry each, one worker, batches of two, one fault anywhere
  (a second worker is beyond TLC; the theorems are about any number).
  `OneRunPerRow`: however a batch fails, is cancelled, killed or run again, a row
  never gets a second workflow run.  `NoClaimLost` and `CompletedIsDrained` are stated
  for behaviours without faults (and pauses).  With a fault they are false of the
  code: a batch cancelled before its loop, or killed, leaves its rows in
  `processing`, where nobody looks for them; a campaign
  whose batch is slow can be completed under it.  Nor does `CompletedIsDrained` hold
  with a completion timeout that is no longer than the delay of a retry: see section 3.
- *campaign_live*: one row with a retry, one fault or surprise anywhere:
  `CampaignEnds`.  Two jobs and three events are the bounds at which no step that
  must happen is blocked by a bound.
Fairness: the listener, the scheduling and the batches go on (weak); every call is
reported (weak; a call whose report is lost is to the campaign what an answered
one is, since neither publishes anything); the monitor
looks again and again; strong fairness of `Tick` and of clearing a stuck flag,
because both are statements about time that polling interrupts again and again
but cannot stop.

Behaviour worth knowing, met while modelling and not findings against a stated
promise: the breaker's event pauses a campaign that completed or failed in the meantime
(`campaign_orchestrator.py:180`); the end of a sync overwrites a pause
(`campaign_tasks.py:58`); a pause is honoured only by the next batch; a repeated
no-answer callback of a row at its last retry counts its failure twice.  `processed_rows`
is written from a snapshot taken before the loop (`campaign_call_dispatcher.py:178`), so
that a batch of two counts one; the counter decides nothing and is left out.

### TextChatSession

`row` is the session's row, `run` the completion and state of its workflow run, `proc` the
coroutines, each with the row it has loaded.  A checkpoint is the set of the turns whose
messages it contains.  A request is `LoadForMessage`, `AppendTurn`, `Reload`, then
`Answered`, `AnsweredAndEnded` or `AnswerFailed`; or `LoadForRewind` and `Rewind`; or
`LoadForEnd`, `EndChat` and `Enqueue`.  Each write compares revisions (`Matches`) and
otherwise is a `Conflict`.  `Sweep`, `StartJob` and `JobConflict` are the cron job and
its ARQ jobs; `RequestDies`, `WorkerDies`, `JobFails` and missed sweeps are the faults.

- *text_chat*: two tabs, three turns, three requests besides the first, one fault.
  `SnapshotsAgree` (a revision that is still current means that nothing has changed: the
  compare-and-swap is enough), `NoTurnLost`, `AnsweredFromBranch`, the refinement of
  `TurnLog`, `AbandonedEnds`, `EndedIsProcessed`.  Three turns are a branch, a rewind and
  a second branch.  `AnsweredFromBranch` has one exception, where the greeting has gone
  unanswered: a first answer falls back on the row's checkpoint
  (`text_chat_runner.py:371-375`), which after a rewind is that of the discarded branch,
  so that it knows turns the user has taken back.  A sweep looks three hours back for
  chats idle for half an hour; here it looks one tick further than the timeout, so that
  one sweep may be missed or one job fail. The longest timeout that can be configured
  leaves a single sweep, and one missed sweep then keeps the chat open for ever.
- *text_chat_end_race* (violation, a code bug): a chat ended between the append and the
  second reading is read back as ended with its pending turn, and answered.

Fairness: the event loop runs requests and jobs on (weak), cron, ARQ and time go on.
Seen and left out: the usage of overlapping turns is overwritten from stale snapshots; the
completion job is lost if its enqueueing fails after the commit (`dropped`);
callers without an expected revision skip the check.

### The four services

`MCServices` holds `OAuthTokenCache`, `ScheduledCallback`, `CallTransfer` and
`CircuitBreaker` side by side.  They share no state; the initial state chooses by
`scene` the one that runs and the others stand still, so that the state space is their
sum and each is explored as if alone.  The run *services* has one property or more of each.

*OAuthTokenCache.*  One credential, any workers; a token is known by the instant its
fetch began and the instant it expires.  `Enter`, `Read`, `Lock`, `Recheck`, `Answer`,
`Write` (the Lua script) are a fetch; `ReadClock`, `Stamp`, `Delete` an invalidation.
`NoTokenOutlivesInvalidation`: no call that begins after an invalidation has ended gets a
token whose fetch began before it ("before the oldest that overlapped with it", since
two invalidations may overwrite each other's stamp).  `ServedTokensAreAlive` needs the
margin.  Two fetchers in two workers and two invalidators are the smallest instance with a
stale write and an overwritten stamp; `MaxGet <= StampTTL` and `MaxFetch <= Margin`
(an hour and 60 s against a fetch timeout of 10 s) are what the code's comments assume.
Seen: the secret is read by the caller before `fetch_start`, so the property speaks of
fetches and not of secrets; the module's docstring promises a floor of 30 s for the
TTL that the code does not have.

*ScheduledCallback.*  The callbacks of a call outside campaigns: the tool (`Ask`, `Save`,
`Enqueue`, `EnqueueFails`), the attempts (`RunJob`, `Check`, `PlaceCall`, `Mark`,
`GiveUpJob`), `CancelRead` and `CancelWrite`, `BusySignal`, and deaths and lost answers as
faults.  `CallsAreBounded`: the contact is called once, and once more at most for each fault
and for each call of the tool that overlaps with another.  `CancelledIsNotCalled` and
`PendingHasJob`.  Two rows are two calls of the tool, at once or after a failed enqueueing;
two faults let a retry fail too.

Where the code and `src/docs/callback_feature_spec.md` differ.  The document promises one
retry after a busy signal (lines 662-663, 877, 940).  The branch that would schedule it
reads `workflow_run.organization_id` (`status_processor.py:201`), an attribute that
`WorkflowRunModel` does not have; the `AttributeError` is swallowed at line 263.  So
`BusySignal` adds neither a row nor a job, and the contact is not called again.  The
document says that the flag stops a second call of the tool (lines 1043-1048); the tool
raises it after the enqueueing only (`pipecat_engine_custom_tools.py:1416`), so that two
overlapping calls both find it down and the contact is called twice (`overlaps`).  Seen as
well: `.first()` takes any row of the run, so that a cancelled row can hide a pending one
(the exception in `PendingHasJob`); a refused job and a failing enqueueing leave a row
pending without a job; a cancel may overwrite an outcome.

*CallTransfer.*  The transfers of one call over Plivo, one after another: the tool
(`Begin`, `Dial`, `Restore`, `Subscribe`, `GiveUp`), the callbacks of the destination's
leg (`Answered`, `StoreLeg`, `Ended`, `Claim`, `Announce`, `Ending`, each delivery a
coroutine and each possibly repeated), and `Redirect` and `Join` of the caller. A Redis
read that fails counts as finding nothing (a fault of `Answered`, `Ended`, `Redirect` and
`Join`).  `CallerFollowsAnswer`; `LegsFindTheTransfer` (a context is stored before the
provider is called).  Two transfers are what it takes for a late callback of the first to
meet the second.  Seen: such a report removes the index of the second transfer (the
exception in `LegsFindTheTransfer`); an answer published before the subscription is lost,
and the destination waits in the conference while the caller is told that the transfer
failed; late destinations share the conference's name.

*CircuitBreaker.*  Reports (`BeginReport`, `ReadReportClock`, `Record`, `Pause`), the
orchestrator's check, the user's `Resume` and `Reset`, commands that fail.
`VerdictIsExact`: whenever a verdict is given it is the failure rate of the instants
recorded since the last reset within the window, in whatever order readings arrive.  Needs
`MaxDelay < Window`: a script runs within the window of its clock reading.  Two outcomes
decide with `MinCalls = 2`, a window of two instants closes and reopens within the horizon
of four. Seen: reports of one call are counted again when a provider repeats them;
outcomes of one instant collapse into a member of the sorted set; an outcome recorded
between the resume and the reset is judged with the old failures, where `runner.py:96`
says "clean slate"; a pause decided before a resume is written after it.

## 3. Proofs

TLAPS proves for every value of the constants what the runs check on small ones.

`CallConcurrencyProofs`: `TypeCorrect`, `OrgLimitHolds`, `ScopeCapHolds`,
`FleetMirrorHolds`.  None of the last three is inductive; `CountInv` is.  Its
conjuncts: coroutines and mappings name minted slots only, clocks are
behind the clock, a coroutine that releases has removed the slot from the sets
behind it (`ReleasedInOrder`), so that whatever the organization's set still counts as
fresh is in the fleet's mirror and in its scope (`OrgCovered`), and the sets are
finite and within their limits.  The argument is the order of the three `ZREM`s:
the organization's entry goes first.  An expired slot is no longer fresh, a
script with an old clock prunes less, and the limits follow by cardinality.
The constants' assumption is only that keys live at least as long as entries.
`ScopeCapHolds` and `FleetMirrorHolds` are corollaries of `OrgCovered`.

The second half of the module, under `CallsAreShort` and with faults, crashes, time and
runs that are started again all together, which no run reaches: `CallsWithinLimitHolds`,
`OneCallPerRunHolds`, `BoundSlotRecoverableHolds`, `NoSlotForgottenHolds` and the
refinement `RefinesCallAdmission`.  `CallInv` adds to `CountInv` that nobody is late
(`InTime`), that a held slot is known to its holder alone (`HeldAlone`), that a slot is
released only for its own run, and while its call is in progress only by mistake
(`ReleasesOver`), that a mapping names a slot of its run (`MappingsTrue`), and that a call
in progress of a run that is not mistaken is counted and mapped to by its run
(`InProgressKept`).  A call in progress is then a fresh entry of the organization's set,
and its limit is the limit of the set.

`WebhookDeliveryProofs`: `RowInvariant`, `TypeCorrect` (with it: attempts never
exceed `max_attempts`, and a row is consistent in every combination of status,
lease and attempts), and under the assumption that an attempt is shorter than its
lease `SingleSender`, `OutcomeIsFinal` and `AcceptedOnceHolds`.  The lemma behind all is
that a sender's claim is younger than its lease, so that `Claimable` is false for
everybody else, and only the holder writes the row; `AcceptInv` adds that until a fault
what was accepted is succeeded or about to be recorded as such by its holder.

`FromNumberPoolProofs`: `TypeCorrect`, which needs no assumption, and
`PoolInvariant` and `OneUserPerNumber` (`ExclusiveUnlessSpoilt`) under two assumptions about
time: a use is shorter than the stale timeout, and a batch and a use together are shorter
than the pool's key.  Redis and database faults, crashes and repeated callbacks are not
excluded.  `ExclusiveUnlessSpoilt` alone is not inductive: it
does not say why a free number has no user.  `PoolInv` does.  A number's user is a
coroutine until its run exists, then the run until its release (`OneUser`); the score
is the time of the user's acquisition, and the key outlasts the use unless a batch left its
expiry as it was (`ScoresKnown`), so that an acquisition finds a
used number neither free nor stale; and a run has one coroutine that dials or cleans up
(`RunsHandled`), so that nobody else zeroes the score: each for numbers that are not spoilt.
`StoreMapping` hands the number from the coroutine to the run, `Release` ends the only use,
`Tick` spoils what it takes away, every other step leaves the users alone (`UsersLeft`).
`NoNumberForgottenHolds` has an invariant of its own, `KeptInv`, and the assumption that a
mapping lives as long as it takes a number to become stale: the mapping of a number in use
expires no earlier than the number's score does (`Leads`), and who is about to
delete a mapping has freed the number it names (`OwnNumber`).

`CampaignProofs`, for a source of any finite size, any number of workers and of faults:
`TypeCorrect`, `OneRunPerRowHolds` and `NoClaimLostHolds`.  TLC explores one worker only;
that two batches do not dial each other's rows is what the proof adds.  `ClaimInv` says
whose a row in `processing` is: what is claimed does not wait (`ClaimsTaken`), no row has
two claimants (`ClaimsApart`), what a batch holds is claimed and has no workflow run
(`HeldIsFresh`), the row it works on has left its list (`CurrentRow`), and without faults
somebody holds every processed row without a run (`NoneLost`).  What the proof rests on is
that a failing batch returns only rows it claimed itself and that have no run.

`CompletedIsDrainedHolds`, in the same module, has an invariant of its own, `DrainInv`,
and the hypothesis `RetriesInTime`: the completion timeout is longer than the delay of a
retry and than a tick.  The monitor does not look at calls in progress, at events under
way or at retries that are not due; it completes a campaign that has no row due, no batch
in progress and no activity for the timeout.  So the invariant has to say that everything
under way keeps the last activity young.  `SinceBatch` bounds the age in the database: 0
while there is a job, a batch or a ringing call, 1 while a call is late or a retry is
asked for, and while a retry waits its age and the remaining wait are at most `1 +
RetryDelay`.  `SinceActivity` bounds the age in the orchestrator's memory the same way,
where the delicate case is a call of a batch that the monitor scheduled when the last
activity was `RetryDelay` old: the age is reset before the next tick since the batch
reports and the listener hears of it (`ResetDue`).  Once the listener has inserted a retry
and has yet to note the activity, the age is bounded by that of the event (`Inserted`).
`ConcludedIsQuiet` then says that nothing is under way once the monitor is about to
complete, and nothing comes of what is left.  The hypothesis is tight: with one source
row, two retries and `RetryDelay = CompletionTimeout = 2` TLC finds a campaign completed
between the report of a batch and the listener's note of it, while a call of the batch
asks for its last retry.  The API allows such a delay (`routes/campaign.py:84` up to an
hour, the timeout of `campaign_orchestrator.py:45`); the default of two minutes is far
from it.

`TextChatSessionProofs`, without assumptions: `TypeCorrect`,
`CurrentRevisionIsCurrentSession`, `TurnsAreKept`, the refinement `RefinesTurnLog` and
`AnswersKnowTheBranch`, all from `SessionInv`, with which `AnsweredFromBranch` is
inductive once one adds what the row's checkpoint may contain (`CheckpointIsKnown`): turns
that are answered or were set aside, and never, set aside, the greeting's.  A loaded
revision never exceeds the row's, and if it equals it the loaded row is the row; so a
write that passes the comparison writes what it computed from the session as it is, and it
is enough to look at a write as if it were one step.

`OAuthTokenCacheProofs`: `NoTokenOutlivesInvalidationHolds` and `ServedTokensAreAliveHolds`
under `TokenTimesAssumption`.  `TokenInv`: the stamp in Redis, and every stamp on its way
there, is at least as late as what has been purged (`StampsProtect`), a call is no older
than the stamp lives, so a write that finds no stamp was begun after it was set, and what is
cached was fetched since (`CacheIsFresh`).

`EngineToolProofs`, about transfers: `CallerFollowsAnswerHolds`, for any number of
transfers and faults. An answer is announced only by the handler of a leg that was picked
up, nothing rings before its transfer has begun, and the tool listens to its own transfer
only. `LegsFindTheTransferHolds`, as long as nothing fails: only the report of a leg's end
removes a context, and a report tells the truth about its leg (`ReportsAreTrue`), so the
context lasts until the leg has ended (`ContextsLast`), and the caller's way to it is lost
only with such a leg (`WayIsKnown`).

The same module about callbacks: `CancelledIsNotCalledHolds`, `CallsAreBoundedHolds` and
`PendingHasJobHolds`, for any number of rows, attempts and faults, from `CallbackInv`.
Neither of the first two is inductive.  An attempt that began with every row cancelled
finds them all cancelled at its check, whichever of them it reads, unless a row was added
since (`VoidIsCancelled`).  The calls placed, those that a job may yet place (`Live`) and
those of the tool on their way to a row are counted together (`CallsAreCounted`): placing
a call moves it from the second to the first, or costs a fault when the answer is lost,
and only an overlap or an enqueueing that failed adds another; for calls of the tool that
follow one another it takes a second count, of the rows the tool has left while its flag
is down.

`ServicesProofs`: `VerdictIsExactHolds`, an action property, for any number of reports,
checks, pauses, resets and faults.  `SetsAreExact` says that each sorted set holds exactly
the instants of the outcomes recorded since the reset that lie in the window of the latest
reading that has cut it.  A script that comes late cuts with an older reading and removes
nothing more, and what it adds lies in that window still, because it runs within `MaxDelay
< Window` of its reading (`ScriptsAreTimely`).  `ServicesImplementEach`: the composition
that the run *services* explores implements the specification of each service, so that
what is proved of each holds in it; `ServicesTypeOKHolds` is the conjunction of their
types.

Every invariant and every action property that a passing run checks is proved.  Only
model-checked: the liveness properties (`EndedCallsFreeTheirSlots`, `EndedCallsReturnNumbers`,
`EveryDeliveryConcluded`, `CampaignEnds`, `AbandonedEnds`, `EndedIsProcessed`), since
fairness is about ENABLED, which the provers do not handle, and the violations.

## 4. Plan

Done: 1. call slots with abstract specification and proofs; 2. caller ids with
proofs; 3. webhooks with proofs; 4. campaign queue and orchestrator with proofs; 5. text
chats with abstract specification and proofs; 6. token cache with proofs; 7. callbacks with
proofs; 8. call transfer with proofs; 9. the breaker's window with proofs.

Next, in order:

10. Schedule windows, callbacks-only batches and the rows of callbacks in
    `CampaignQueue` and `CampaignOrchestrator`; redial of finished campaigns.
11. The other providers' transfers (conferences of Twilio, Telnyx and Cloudonix, bridges
    of Asterisk) as variants of `CallTransfer`.
12. The one-second dispatch window; worker sync.

Theorems worth proving next: abstract specifications of the caller ids and of the
webhooks, and that the components implement them.

### Not modelled, and why

Everything else in the inventory: adapters, CRUD, sequential I/O, generated code, or code
whose scheduling is the vendored framework's.  Behaviour at the borders of the models
that a reader should know of: WebRTC signalling starts a call without a slot when Redis
cannot be reached (`routes/webrtc_signaling.py`, about line 575), so the limits are about
calls that have asked for one; a caller who hangs up during a transfer, parallel tool
calls and the expiry of a transfer's keys (300 s against a wait of at most 120 s) are
not in `CallTransfer`; the eviction of idle locks is not in `OAuthTokenCache`.

## 5. Running it

    tlc -workers 2 -config Campaign.cfg MCCampaign
    tlapm CallConcurrencyProofs.tla

Every run ends within a few minutes.  Deadlock is not checked: clocks, faults and
rows are bounded, and when they are used up the system rightly stops.  Definitions
that begin with a comment "Mutant:" are deliberate bugs, one for each property; a
property counts as checked only if TLC finds it violated once the mutant stands in for the
definition next to it (`PROJECT.json`, "mutants").

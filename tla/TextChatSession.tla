-------------------------- MODULE TextChatSession --------------------------
(***************************************************************************)
(* One text chat: its session row, its workflow run, the requests of its   *)
(* user's tabs, and the sweep that ends it when nobody does                *)
(* (src/api/services/workflow/text_chat_session_service.py,                *)
(* src/api/db/workflow_run_text_session_client.py,                         *)
(* src/api/tasks/text_chat_inactivity.py).                                 *)
(*                                                                         *)
(* A request loads the row, computes for as long as the model takes to     *)
(* answer, and writes the whole row back if its revision is still the one  *)
(* it loaded.  Both clients of the repository send the revision they saw   *)
(* last; as revisions only grow, one that differs from the revision loaded *)
(* differs from every later one too: the request is then refused, a step   *)
(* the model leaves out.                                                   *)
(***************************************************************************)
EXTENDS Integers, Sequences, FiniteSetsExt, Functions

CONSTANTS
    Requests,       \* coroutines of the API servers
    Workers,        \* coroutines of the ARQ workers
    NoTurn,
    MaxTurns,       \* BOUND: turns ever opened
    MaxRequests,    \* BOUND: messages, asked and ends asked for
    Timeout,        \* ticks without activity after which a chat is ended
    Lookback,       \* TEXT_CHAT_INACTIVITY_SWEEP_LOOKBACK_SECONDS, in ticks
    MaxFaults       \* BOUND: deaths, failing jobs and missed sweeps

Turns == 1..MaxTurns
Coroutines == Requests \cup Workers

ASSUME ConstantsAssumption ==
    /\ MaxTurns \in Nat \ {0} /\ MaxRequests \in Nat /\ MaxFaults \in Nat
    /\ Timeout \in Nat \ {0} /\ Lookback \in Nat
    /\ Requests \cap Workers = {}
    /\ NoTurn \notin Turns

VARIABLES
    row,            \* the row of workflow_run_text_sessions
    run,            \* is_completed and state of the workflow run
    proc,           \* where each coroutine is, and the row it has loaded
    minted,         \* how many turns have been opened
    asked,          \* how many requests there were, after the first
    age,            \* ticks since updated_at, as far as the sweep can tell
    jobs,           \* ARQ: inactivity jobs queued or running, by their revision
    results,        \* ARQ: those finished whose ids it still remembers
    completion,     \* ARQ: the job workflow-completion of the run
    dropped,        \* history: an enqueueing of that job has failed
    faults          \* how many more faults may happen

vars == <<row, run, proc, minted, asked, age, jobs, results, completion, dropped, faults>>

Statuses == {"none", "pending", "completed", "failed"}

\* turns is the branch in the order of its turns; status, context and discarded
\* tell of every turn the row holds, on the branch or in discarded_future.
\* A checkpoint is the set of the turns whose messages it contains; context[t] is
\* checkpoint_after_turn.
RowInfo ==
    [revision : Nat, turns : Seq(Turns), status : [Turns -> Statuses],
     context : [Turns -> SUBSET Turns], discarded : SUBSET Turns,
     cursor : Turns \cup {NoTurn}, checkpoint : SUBSET Turns,
     phase : {"idle", "pending_assistant_turn", "rewound", "error", "completed"}]

RunInfo == [completed : BOOLEAN, state : {"initialized", "running", "completed"}]

Writing == {"append", "rewind", "end", "execute"}

\* pc names the statement that comes next; the row is kept while it is needed.
ProcInfo == [pc : Writing \cup {"idle", "reload", "update_run", "enqueue"},
             row : RowInfo, turn : Turns \cup {NoTurn}, job : Nat]

EmptyRow == [revision |-> 0, turns |-> <<>>, status |-> [t \in Turns |-> "none"],
             context |-> [t \in Turns |-> {}], discarded |-> {}, cursor |-> NoTurn,
             checkpoint |-> {}, phase |-> "idle"]

\* The session has been created; its request is about to open the greeting turn
\* (initialize_text_chat_session), which appends to an empty branch.
Init ==
    /\ row = EmptyRow
    /\ run = [completed |-> FALSE, state |-> "initialized"]
    /\ LET q == CHOOSE q \in Requests : TRUE IN
          proc = [p \in Coroutines |->
                     [pc |-> IF p = q THEN "append" ELSE "idle", row |-> EmptyRow,
                      turn |-> NoTurn, job |-> 0]]
    /\ minted = 0 /\ asked = 0
    /\ age = 0 /\ jobs = {} /\ results = {} /\ completion = "none"
    /\ dropped = FALSE /\ faults = MaxFaults
-----------------------------------------------------------------------------
(* The row: compare and swap.                                               *)

\* Mutant: a write checks nothing.
NoCheck(p) == TRUE

\* The condition under SELECT FOR UPDATE.
Matches(p) == row.revision = proc[p].row.revision

\* Mutant: the revision stays as it is.
Overwrite(new) == row' = new /\ age' = 0

Write(new) == row' = [new EXCEPT !.revision = row.revision + 1] /\ age' = 0

\* Past its write a coroutine has no use for the row.
Goto(p, pc) ==
    proc' = [proc EXCEPT ![p] = [pc |-> pc, row |-> EmptyRow, turn |-> NoTurn,
                                 job |-> IF pc = "idle" THEN 0 ELSE @.job]]

\* The request is answered 409, or its failure goes unrecorded.
Conflict(p) ==
    /\ proc[p].pc \in Writing /\ ~Matches(p)
    /\ Goto(p, "idle")
    /\ UNCHANGED <<row, run, minted, asked, age, jobs, results, completion, dropped, faults>>

\* The row and the run are read in one query.
Loaded(p, pc, turn) ==
    proc' = [proc EXCEPT ![p] = [pc |-> pc, row |-> row, turn |-> turn, job |-> 0]]

Ask == asked < MaxRequests /\ asked' = asked + 1
-----------------------------------------------------------------------------
(* A message.                                                               *)

Refused == run.completed \/ row.phase = "completed"

LoadForMessage(p) ==
    /\ proc[p].pc = "idle" /\ Ask /\ ~Refused
    /\ minted < MaxTurns
    /\ Loaded(p, "append", NoTurn)
    /\ UNCHANGED <<row, run, minted, age, jobs, results, completion, dropped, faults>>

\* truncate_text_chat_future_turns: the branch ends at the cursor, if there is one.
BranchEnd(r) ==
    IF r.cursor = NoTurn THEN Len(r.turns)
    ELSE CHOOSE i \in DOMAIN r.turns : r.turns[i] = r.cursor

\* Mutant: what lies behind the cursor is dropped.
Forget(r) == {}

Future(r) == {r.turns[i] : i \in (BranchEnd(r) + 1)..Len(r.turns)}

\* append_text_chat_user_message.
AppendTurn(p) ==
    LET r == proc[p].row
        t == minted + 1 IN
    /\ proc[p].pc = "append" /\ Matches(p)
    /\ minted' = t
    /\ Write([r EXCEPT !.turns = Append(SubSeq(r.turns, 1, BranchEnd(r)), t),
                       !.status[t] = "pending",
                       !.discarded = r.discarded \cup Future(r),
                       !.cursor = NoTurn,
                       !.phase = "pending_assistant_turn"])
    /\ Goto(p, "reload")
    /\ UNCHANGED <<run, asked, jobs, results, completion, dropped, faults>>

\* _reload_text_chat_session: by now the row may be somebody else's.
Reload(p) ==
    /\ proc[p].pc = "reload"
    /\ Loaded(p, "execute", NoTurn)
    /\ UNCHANGED <<row, run, minted, asked, age, jobs, results, completion, dropped, faults>>

HasPendingTurn(r) == r.turns # <<>> /\ r.status[r.turns[Len(r.turns)]] = "pending"

\* execute_text_chat_pending_turn raises, and there is no turn to mark as failed.
NothingPending(p) ==
    /\ proc[p].pc = "execute" /\ ~HasPendingTurn(proc[p].row)
    /\ Goto(p, "idle")
    /\ UNCHANGED <<row, run, minted, asked, age, jobs, results, completion, dropped, faults>>

\* Mutant: the row's checkpoint serves, whichever branch it comes from.
LatestCheckpoint(r) == r.checkpoint

\* _resolve_checkpoint_for_pending_turn.
BaseCheckpoint(r) ==
    LET done == {i \in 1..(Len(r.turns) - 1) : r.status[r.turns[i]] = "completed"} IN
    IF done = {} THEN r.checkpoint ELSE r.context[r.turns[Max(done)]]

Answer(r, phase) ==
    LET t == r.turns[Len(r.turns)]
        after == BaseCheckpoint(r) \cup {t} IN
    Write([r EXCEPT !.status[t] = "completed", !.context[t] = after,
                    !.checkpoint = after, !.phase = phase])

\* execute_pending_text_chat_turn, when the assistant has answered.
Answered(p) ==
    /\ proc[p].pc = "execute" /\ HasPendingTurn(proc[p].row) /\ Matches(p)
    /\ Answer(proc[p].row, "idle")
    /\ Goto(p, "update_run")
    /\ UNCHANGED <<run, minted, asked, jobs, results, completion, dropped, faults>>

\* The same, when the assistant has ended the chat.
AnsweredAndEnded(p) ==
    /\ proc[p].pc = "execute" /\ HasPendingTurn(proc[p].row) /\ Matches(p)
    /\ Answer(proc[p].row, "completed")
    /\ run' = [completed |-> TRUE, state |-> "completed"]
    /\ Goto(p, "enqueue")
    /\ UNCHANGED <<minted, asked, jobs, results, completion, dropped, faults>>

\* _mark_pending_turn_failed.
AnswerFailed(p) ==
    LET r == proc[p].row IN
    /\ proc[p].pc = "execute" /\ HasPendingTurn(r) /\ Matches(p)
    /\ Write([r EXCEPT !.status[r.turns[Len(r.turns)]] = "failed", !.phase = "error"])
    /\ Goto(p, "idle")
    /\ UNCHANGED <<run, minted, asked, jobs, results, completion, dropped, faults>>

\* update_workflow_run after a turn: a transaction of its own, by the run's id.
UpdateRun(p) ==
    /\ proc[p].pc = "update_run"
    /\ run' = [run EXCEPT !.state = "running"]
    /\ Goto(p, "idle")
    /\ UNCHANGED <<row, minted, asked, age, jobs, results, completion, dropped, faults>>
-----------------------------------------------------------------------------
(* A rewind.                                                                *)

LoadForRewind(p) ==
    /\ proc[p].pc = "idle" /\ Ask /\ ~Refused
    /\ \E cursor \in Range(row.turns) \cup {NoTurn} : Loaded(p, "rewind", cursor)
    /\ UNCHANGED <<row, run, minted, age, jobs, results, completion, dropped, faults>>

\* rewind_text_chat_session_state: nothing is dropped until the next message.
Rewind(p) ==
    /\ proc[p].pc = "rewind" /\ Matches(p)
    /\ Write([proc[p].row EXCEPT
                 !.cursor = proc[p].turn,
                 !.phase = IF proc[p].turn = NoTurn THEN "idle" ELSE "rewound"])
    /\ Goto(p, "idle")
    /\ UNCHANGED <<run, minted, asked, jobs, results, completion, dropped, faults>>
-----------------------------------------------------------------------------
(* The end of a chat.                                                       *)

\* Mutant: no second chance for a run that is completed.
EndAgain == "end"

\* complete_text_chat_session of a run that is completed only enqueues.
EndOrEnqueue == IF run.completed THEN "enqueue" ELSE "end"

LoadForEnd(p) ==
    /\ proc[p].pc = "idle" /\ Ask
    /\ Loaded(p, EndOrEnqueue, NoTurn)
    /\ UNCHANGED <<row, run, minted, age, jobs, results, completion, dropped, faults>>

\* complete_workflow_run_text_session: session and run in one transaction.
EndChat(p) ==
    /\ proc[p].pc = "end" /\ Matches(p)
    /\ Write([proc[p].row EXCEPT !.phase = "completed"])
    /\ run' = [completed |-> TRUE, state |-> "completed"]
    /\ Goto(p, "enqueue")
    /\ UNCHANGED <<minted, asked, jobs, results, completion, dropped, faults>>

\* _enqueue_text_chat_completion: one job id per run.
Enqueue(p) ==
    /\ proc[p].pc = "enqueue"
    /\ completion' = IF completion = "none" THEN "queued" ELSE completion
    /\ Goto(p, "idle")
    /\ IF p \in Workers
       THEN jobs' = jobs \ {proc[p].job} /\ results' = results \cup {proc[p].job}
       ELSE UNCHANGED <<jobs, results>>
    /\ UNCHANGED <<row, run, minted, asked, age, dropped, faults>>

\* process_workflow_completion; ARQ runs it again when its worker dies.
ProcessCompletion ==
    /\ completion = "queued" /\ completion' = "done"
    /\ UNCHANGED <<row, run, proc, minted, asked, age, jobs, results, dropped, faults>>
-----------------------------------------------------------------------------
(* The inactivity sweep.                                                    *)

\* Mutant: the deadline itself is too early.
InactiveLate == ~run.completed /\ age > Timeout /\ age <= Lookback

\* get_inactive_workflow_run_text_sessions and the deadline.
Inactive == ~run.completed /\ age >= Timeout /\ age <= Lookback

SweepDue == Inactive /\ row.revision \notin jobs \cup results

Sweep ==
    /\ SweepDue
    /\ jobs' = jobs \cup {row.revision}
    /\ UNCHANGED <<row, run, proc, minted, asked, age, results, completion, dropped, faults>>

Running(j) == \E w \in Workers : proc[w].pc # "idle" /\ proc[w].job = j

\* complete_inactive_text_chat_session: an active session is left alone.
StartJob(w, j) ==
    /\ proc[w].pc = "idle" /\ j \in jobs /\ ~Running(j)
    /\ IF EndOrEnqueue = "end" /\ row.revision # j
       THEN /\ jobs' = jobs \ {j} /\ results' = results \cup {j}
            /\ UNCHANGED proc
       ELSE /\ proc' = [proc EXCEPT ![w] =
                           [pc |-> EndOrEnqueue, row |-> row, turn |-> NoTurn, job |-> j]]
            /\ UNCHANGED <<jobs, results>>
    /\ UNCHANGED <<row, run, minted, asked, age, completion, dropped, faults>>

JobConflict(w) ==
    /\ proc[w].pc = "end" /\ ~Matches(w)
    /\ jobs' = jobs \ {proc[w].job} /\ results' = results \cup {proc[w].job}
    /\ Goto(w, "idle")
    /\ UNCHANGED <<row, run, minted, asked, age, completion, dropped, faults>>
-----------------------------------------------------------------------------
(* Faults and time.                                                         *)

Fault == faults > 0 /\ faults' = faults - 1

\* The API server dies, or the client's connection and with it the request.
RequestDies(p) ==
    /\ Fault /\ proc[p].pc # "idle"
    /\ dropped' = (dropped \/ proc[p].pc = "enqueue")
    /\ Goto(p, "idle")
    /\ UNCHANGED <<row, run, minted, asked, age, jobs, results, completion>>

\* ARQ runs the job of a dead worker again.
WorkerDies(w) ==
    /\ Fault /\ proc[w].pc # "idle"
    /\ Goto(w, "idle")
    /\ UNCHANGED <<row, run, minted, asked, age, jobs, results, completion, dropped>>

\* The job raises: ARQ keeps its result, and drops its id meanwhile.
JobFails(w) ==
    /\ Fault /\ proc[w].pc # "idle"
    /\ jobs' = jobs \ {proc[w].job} /\ results' = results \cup {proc[w].job}
    /\ dropped' = (dropped \/ proc[w].pc = "enqueue")
    /\ Goto(w, "idle")
    /\ UNCHANGED <<row, run, minted, asked, age, completion>>

\* A tick is as long as ARQ keeps results (an hour), and so longer than the sweep's
\* interval, than a job and than a request: that the sweep misses a tick is a fault.
Tick ==
    /\ age <= Lookback \/ results # {}
    /\ jobs = {} /\ \A p \in Requests : proc[p].pc = "idle"
    /\ IF SweepDue THEN Fault ELSE UNCHANGED faults
    /\ age' = IF age <= Lookback THEN age + 1 ELSE age
    /\ results' = {}
    /\ UNCHANGED <<row, run, proc, minted, asked, jobs, completion, dropped>>
-----------------------------------------------------------------------------
Turn(p) == AppendTurn(p) \/ Reload(p) \/ NothingPending(p) \/ Answered(p)
           \/ AnsweredAndEnded(p) \/ AnswerFailed(p) \/ UpdateRun(p)

RequestStep(p) == Turn(p) \/ Rewind(p) \/ EndChat(p) \/ Enqueue(p)
                  \/ Conflict(p)

JobStep(w) == EndChat(w) \/ JobConflict(w) \/ Enqueue(w) \/ \E j \in jobs : StartJob(w, j)

Next ==
    \/ \E p \in Requests : \/ LoadForMessage(p) \/ LoadForRewind(p) \/ LoadForEnd(p)
                           \/ RequestStep(p) \/ RequestDies(p)
    \/ \E w \in Workers : JobStep(w) \/ WorkerDies(w) \/ JobFails(w)
    \/ Sweep \/ ProcessCompletion \/ Tick

Spec == Init /\ [][Next]_vars

\* asyncio schedules every coroutine, the model answers or times out, the cron
\* job and the workers run; nobody has to send a message, to rewind or to end.
Fairness ==
    /\ \A p \in Requests : WF_vars(RequestStep(p))
    /\ \A w \in Workers : WF_vars(JobStep(w))
    /\ WF_vars(Sweep) /\ WF_vars(ProcessCompletion) /\ WF_vars(Tick)

FairSpec == Spec /\ Fairness
-----------------------------------------------------------------------------
TypeOK ==
    /\ row \in RowInfo /\ run \in RunInfo
    /\ proc \in [Coroutines -> ProcInfo]
    /\ minted \in 0..MaxTurns /\ asked \in 0..MaxRequests /\ faults \in 0..MaxFaults
    /\ age \in 0..(Lookback + 1)
    /\ jobs \subseteq Nat /\ results \subseteq Nat
    /\ completion \in {"none", "queued", "done"} /\ dropped \in BOOLEAN

(* What a coroutine is about to write back is the session as it is, if the  *)
(* revision it loaded is still current: comparing revisions is enough.      *)
SnapshotsAgree ==
    \A p \in Coroutines : proc[p].pc \in Writing /\ Matches(p) => proc[p].row = row

(* Every turn a request has saved is on the branch or set aside, and never  *)
(* on both, whatever tabs send, rewind and end at the same time.            *)
NoTurnLost ==
    /\ {t \in Turns : row.status[t] # "none"} = Range(row.turns) \cup row.discarded
    /\ Range(row.turns) \cap row.discarded = {}

(* The assistant answers from the branch the user is on: what it knew at an *)
(* answered turn are the answered turns of the branch up to it.  Only where *)
(* the greeting has gone unanswered may it know more: a first answer then   *)
(* falls back on the row's checkpoint, that of a branch set aside if there  *)
(* was one, and the answers that follow it know the same turns.             *)
AnsweredFromBranch ==
    LET answered == {i \in DOMAIN row.turns : row.status[row.turns[i]] = "completed"} IN
    \E old \in SUBSET row.discarded :
        /\ 1 \in answered => old = {}
        /\ \A j \in answered :
              row.context[row.turns[j]] = {row.turns[i] : i \in answered \cap (1..j)} \cup old

(* The session row is a log of turns: a turn is opened once, settled once   *)
(* and kept, and none is opened once the run is completed.                  *)
Log == INSTANCE TurnLog WITH
    turn <- row.status, aside <- row.discarded, ended <- run.completed

ImplementsTurnLog == Log!Spec

(* A chat that nobody ends is ended by the sweep, as long as jobs fail and  *)
(* sweeps are missed less often than there are ticks to look back.          *)
AbandonedEnds == <>run.completed

(* The completion of every chat that has ended is processed, a worker that  *)
(* dies at it included, unless enqueueing that failed.                      *)
EndedIsProcessed == run.completed ~> (completion = "done" \/ dropped)

(* "Whichever operation locks and updates the session first wins, and the   *)
(* other receives the normal revision conflict": an ended chat stays as it  *)
(* is.                                                                      *)
EndWins == [][run.completed => UNCHANGED row]_vars
-----------------------------------------------------------------------------
(* The inductive invariant behind NoTurnLost and the refinement: a write    *)
(* that passes the check writes what it computed from the session as it is. *)

Branch(r) == Range(r.turns)

\* Whoever may still append was let in before the chat ended.
WritesAreSound ==
    \A p \in Coroutines :
        /\ proc[p].row.revision <= row.revision
        /\ proc[p].pc = "append" /\ Matches(p) => ~run.completed /\ minted < MaxTurns
        /\ proc[p].pc = "rewind" => proc[p].turn \in Branch(proc[p].row) \cup {NoTurn}

BranchIsSound ==
    /\ \A i, j \in DOMAIN row.turns : row.turns[i] = row.turns[j] => i = j
    /\ row.cursor \in Branch(row) \cup {NoTurn}
    /\ \A t \in Turns : t > minted => row.status[t] = "none"

\* The row's checkpoint is that of the last answer, whose turns are answered or were
\* set aside; and the greeting's turn is never set aside.
CheckpointIsKnown ==
    /\ \A t \in row.checkpoint : t \in row.discarded \/ row.status[t] = "completed"
    /\ Len(row.turns) < 2 => row.discarded = {}

SessionInv == TypeOK /\ SnapshotsAgree /\ WritesAreSound /\ BranchIsSound /\ NoTurnLost
=============================================================================

---------------------------- MODULE CallTransfer ----------------------------
(***************************************************************************)
(* The transfers of one call to a person, over Plivo: the tool that the    *)
(* model of the conversation calls (pipecat_engine_custom_tools.py), the   *)
(* context it keeps in Redis (call_transfer_manager.py), the callbacks of  *)
(* the destination's leg (plivo/routes.py) and the redirection of the      *)
(* caller when the pipeline ends (plivo/strategies.py).                    *)
(*                                                                         *)
(* Answers are announced over pub/sub: whoever is not subscribed misses    *)
(* them.  All the transfers of a call share one conference and one index   *)
(* key, which leads from the call to the last context stored.  A transfer  *)
(* waits for 120 s at most and its keys live for 300 s: none expires here. *)
(***************************************************************************)
EXTENDS Naturals

CONSTANTS
    MaxTransfers,   \* BOUND: transfers of the call, one after another
    TransferFaults  \* BOUND: failing commands and requests, deaths, repeated callbacks

ASSUME TransferAssumption == {MaxTransfers, TransferFaults} \subseteq Nat

VARIABLES
    context,    \* the transfers whose context is in Redis
    index,      \* the transfer that the call's index key names, or 0
    claimed,    \* the one-time steps claimed, by transfer
    leg,        \* the destination's leg of each transfer, at Plivo
    callback,   \* where the handler of each delivery of a callback is
    attempt,    \* where the tool is, and with which transfer
    told,       \* what the tool has made of each transfer
    caller,     \* where the caller is, and the transfer whose XML the redirect names
    turnedAway, \* destinations that were told to hang up
    cleared,    \* history: contexts removed since the tool's transfer began
    mishaps     \* how many more faults may happen

transferVars == <<context, index, claimed, leg, callback, attempt, told, caller,
                  turnedAway, cleared, mishaps>>

Transfers == 1..MaxTransfers

\* The answer URL, or the hangup URL; a callback may be delivered twice.
Deliveries == Transfers \X {"answer", "hangup"} \X {1, 2}

TransferInit ==
    /\ context = {} /\ index = 0 /\ claimed = {}
    /\ leg = [t \in Transfers |-> "none"]
    /\ callback = [d \in Deliveries |-> "none"]
    /\ attempt = [pc |-> "idle", t |-> 0]
    /\ told = [t \in Transfers |-> "nothing"]
    /\ caller = [at |-> "talking", to |-> 0]
    /\ turnedAway = {} /\ cleared = {}
    /\ mishaps = TransferFaults

Mishap == mishaps > 0 /\ mishaps' = mishaps - 1
-----------------------------------------------------------------------------
(* CallTransferManager.  No command of another step tells the two SETEX of a *)
(* store apart, or the GET and the DEL of a removal.                         *)

Store(t) ==
    \/ context' = context \cup {t} /\ index' = t /\ UNCHANGED mishaps
    \/ context' \in {context, context \cup {t}} /\ UNCHANGED index /\ Mishap

\* The index goes with the context, whichever transfer it names by now.
Clear(t) ==
    /\ context' = context \ {t}
    /\ index' = IF t \in context THEN 0 ELSE index
    /\ cleared' = cleared \cup {t}

\* Mutant: the channel is the call's.
ListeningToCall(t) == attempt.pc = "wait"

Listening(t) == attempt = [pc |-> "wait", t |-> t]

Conclude(outcome, pc) ==
    /\ told' = [told EXCEPT ![attempt.t] = outcome]
    /\ attempt' = [attempt EXCEPT !.pc = pc]

Publish(t, outcome) ==
    IF Listening(t)
      THEN Conclude(outcome, IF outcome = "answered" THEN "ending" ELSE "idle")
      ELSE UNCHANGED <<told, attempt>>
-----------------------------------------------------------------------------
(* The tool transfer_call.                                                  *)

\* Mutant: the context is stored once the destination has been dialled.
BeginUnstored ==
    /\ attempt.pc = "idle" /\ attempt.t < MaxTransfers
    /\ attempt' = [pc |-> "dial", t |-> attempt.t + 1]
    /\ cleared' = {}
    /\ UNCHANGED <<context, index, claimed, leg, callback, told, caller, turnedAway, mishaps>>

Begin ==
    /\ attempt.pc = "idle" /\ attempt.t < MaxTransfers
    /\ attempt' = [pc |-> "dial", t |-> attempt.t + 1]
    /\ Store(attempt.t + 1)
    /\ cleared' = {}
    /\ UNCHANGED <<claimed, leg, callback, told, caller, turnedAway>>

Ring == leg' = [leg EXCEPT ![attempt.t] = "ringing"]

Dial ==
    /\ attempt.pc = "dial"
    /\ Ring
    /\ attempt' = [attempt EXCEPT !.pc = "restore"]
    /\ UNCHANGED <<context, index, claimed, callback, told, caller, turnedAway, cleared, mishaps>>

\* Plivo refuses, or its answer is lost.
DialFails ==
    /\ attempt.pc = "dial"
    /\ Ring \/ UNCHANGED leg
    /\ Clear(attempt.t)
    /\ Conclude("failed", "idle")
    /\ Mishap
    /\ UNCHANGED <<claimed, callback, caller, turnedAway>>

\* With the identifier of the leg: whatever has happened to the context by now.
Restore ==
    /\ attempt.pc = "restore"
    /\ Store(attempt.t)
    /\ attempt' = [attempt EXCEPT !.pc = "subscribe"]
    /\ UNCHANGED <<claimed, leg, callback, told, caller, turnedAway, cleared>>

Subscribe ==
    /\ attempt.pc = "subscribe"
    /\ attempt' = [attempt EXCEPT !.pc = "wait"]
    /\ UNCHANGED <<context, index, claimed, leg, callback, told, caller, turnedAway, cleared,
                   mishaps>>

\* The time is up, or the wait raises.
GiveUp ==
    /\ \/ attempt.pc = "wait" /\ UNCHANGED mishaps
       \/ attempt.pc = "subscribe" /\ Mishap
    /\ Conclude("failed", "idle")
    /\ UNCHANGED <<context, index, claimed, leg, callback, caller, turnedAway, cleared>>
-----------------------------------------------------------------------------
(* The destination's leg, and the callbacks about it.                       *)

Send(d) == callback' = [callback EXCEPT ![d] = "due"]

PickUp(t) ==
    /\ leg[t] = "ringing"
    /\ leg' = [leg EXCEPT ![t] = "answered"]
    /\ Send(<<t, "answer", 1>>)
    /\ UNCHANGED <<context, index, claimed, attempt, told, caller, turnedAway, cleared, mishaps>>

HangUp(t) ==
    /\ leg[t] \in {"ringing", "answered"}
    /\ leg' = [leg EXCEPT ![t] = IF leg[t] = "ringing" THEN "missed" ELSE "over"]
    /\ Send(<<t, "hangup", 1>>)
    /\ UNCHANGED <<context, index, claimed, attempt, told, caller, turnedAway, cleared, mishaps>>

Repeat(t, kind) ==
    /\ callback[<<t, kind, 1>>] # "none" /\ callback[<<t, kind, 2>>] = "none"
    /\ Send(<<t, kind, 2>>)
    /\ Mishap
    /\ UNCHANGED <<context, index, claimed, leg, attempt, told, caller, turnedAway, cleared>>

Go(d, pc) == callback' = [callback EXCEPT ![d] = pc]

\* The XML is asked for: a transfer without context is answered with a hang-up, and
\* so is one whose context cannot be read.
Answered(d) ==
    /\ d[2] = "answer" /\ callback[d] = "due"
    /\ \/ d[1] \in context /\ Go(d, "store") /\ UNCHANGED <<turnedAway, mishaps>>
       \/ /\ (d[1] \notin context /\ UNCHANGED mishaps) \/ Mishap
          /\ Go(d, "done") /\ turnedAway' = turnedAway \cup {d[1]}
    /\ UNCHANGED <<context, index, claimed, leg, attempt, told, caller, cleared>>

\* The context is stored again unless it has the leg's identifier already.
StoreLeg(d) ==
    /\ d[2] = "answer" /\ callback[d] = "store"
    /\ Store(d[1]) \/ UNCHANGED <<context, index, mishaps>>
    /\ Go(d, "claim")
    /\ UNCHANGED <<claimed, leg, attempt, told, caller, turnedAway, cleared>>

\* An answered leg ends normally or not, an unanswered one with a cause.
Ended(d) ==
    /\ d[2] = "hangup" /\ callback[d] = "due"
    /\ \/ d[1] \notin context /\ Go(d, "done") /\ UNCHANGED mishaps
       \/ d[1] \in context /\ leg[d[1]] = "over" /\ Go(d, "clear") /\ UNCHANGED mishaps
       \/ d[1] \in context /\ Go(d, "claim") /\ UNCHANGED mishaps
       \/ Go(d, "done") /\ Mishap
    /\ UNCHANGED <<context, index, claimed, leg, attempt, told, caller, turnedAway, cleared>>

\* SET NX.
Claim(d) ==
    /\ callback[d] = "claim"
    /\ Go(d, IF <<d[1], d[2]>> \in claimed THEN "done" ELSE "publish")
    /\ claimed' = claimed \cup {<<d[1], d[2]>>}
    /\ UNCHANGED <<context, index, leg, attempt, told, caller, turnedAway, cleared, mishaps>>

Announce(d) ==
    /\ callback[d] = "publish"
    /\ \/ UNCHANGED mishaps
          /\ Publish(d[1], IF d[2] = "answer" THEN "answered" ELSE "failed")
       \/ Mishap /\ UNCHANGED <<told, attempt>>
    /\ Go(d, IF d[2] = "answer" THEN "done" ELSE "clear")
    /\ UNCHANGED <<context, index, claimed, leg, caller, turnedAway, cleared>>

Ending(d) ==
    /\ callback[d] = "clear"
    /\ \/ Clear(d[1]) /\ UNCHANGED mishaps
       \/ Mishap /\ UNCHANGED <<context, index, cleared>>
    /\ Go(d, "done")
    /\ UNCHANGED <<claimed, leg, attempt, told, caller, turnedAway>>

\* The worker dies, or a command of the handler raises.
HandlerDies(d) ==
    /\ callback[d] \in {"store", "claim", "publish", "clear"}
    /\ Go(d, "done")
    /\ Mishap
    /\ UNCHANGED <<context, index, claimed, leg, attempt, told, caller, turnedAway, cleared>>
-----------------------------------------------------------------------------
(* The pipeline ends, the strategy redirects the caller, and Plivo asks for  *)
(* the XML of the caller's leg.                                              *)

Drop == [at |-> "dropped", to |-> 0]

Redirect ==
    /\ attempt.pc = "ending" /\ caller.at = "talking"
    /\ \/ /\ index \in context /\ UNCHANGED mishaps
          /\ caller' = [at |-> "redirected", to |-> index]
       \/ ((index \notin context /\ UNCHANGED mishaps) \/ Mishap) /\ caller' = Drop
    /\ UNCHANGED <<context, index, claimed, leg, callback, attempt, told, turnedAway, cleared>>

RedirectFails ==
    /\ attempt.pc = "ending" /\ caller.at = "talking"
    /\ index \in context
    /\ Clear(index)
    /\ caller' = Drop
    /\ Mishap
    /\ UNCHANGED <<claimed, leg, callback, attempt, told, turnedAway>>

Join ==
    /\ caller.at = "redirected"
    /\ \/ /\ caller.to \in context /\ UNCHANGED mishaps
          /\ caller' = [caller EXCEPT !.at = "joined"]
       \/ ((caller.to \notin context /\ UNCHANGED mishaps) \/ Mishap) /\ caller' = Drop
    /\ UNCHANGED <<context, index, claimed, leg, callback, attempt, told, turnedAway, cleared>>
-----------------------------------------------------------------------------
TransferNext ==
    \/ Begin \/ Dial \/ DialFails \/ Restore \/ Subscribe \/ GiveUp
    \/ Redirect \/ RedirectFails \/ Join
    \/ \E t \in Transfers :
         PickUp(t) \/ HangUp(t) \/ \E kind \in {"answer", "hangup"} : Repeat(t, kind)
    \/ \E d \in Deliveries :
         Answered(d) \/ StoreLeg(d) \/ Ended(d) \/ Claim(d) \/ Announce(d)
           \/ Ending(d) \/ HandlerDies(d)

TransferSpec == TransferInit /\ [][TransferNext]_transferVars
-----------------------------------------------------------------------------
TransferTypeOK ==
    /\ context \subseteq Transfers /\ index \in 0..MaxTransfers
    /\ claimed \subseteq Transfers \X {"answer", "hangup"}
    /\ leg \in [Transfers -> {"none", "ringing", "answered", "missed", "over"}]
    /\ callback \in [Deliveries -> {"none", "due", "store", "claim", "publish", "clear", "done"}]
    /\ attempt \in [pc : {"idle", "dial", "restore", "subscribe", "wait", "ending"},
                    t : 0..MaxTransfers]
    /\ told \in [Transfers -> {"nothing", "answered", "failed"}]
    /\ caller \in [at : {"talking", "redirected", "joined", "dropped"}, to : 0..MaxTransfers]
    /\ turnedAway \subseteq Transfers /\ cleared \subseteq Transfers
    /\ mishaps \in 0..TransferFaults

\* The caller leaves the conversation only for a conference that the destination
\* of the transfer under way has reached: neither the late answer of an earlier
\* destination nor a report of its end takes the caller out of the call.
CallerFollowsAnswer ==
    caller.at # "talking" => leg[attempt.t] \in {"answered", "over"}

\* "Store initial transfer context in Redis before provider call to avoid race
\* condition": unless something fails, a destination that answers is told to hang up
\* only after its leg has ended, and a caller whose destination has answered is
\* turned away only after the end of that leg, or of an earlier transfer's, was
\* reported during the transfer.
LegsFindTheTransfer ==
    mishaps = TransferFaults =>
      /\ \A t \in turnedAway : leg[t] \in {"missed", "over"}
      /\ caller.at = "dropped" => \E t \in cleared : leg[t] \in {"missed", "over"}
=============================================================================

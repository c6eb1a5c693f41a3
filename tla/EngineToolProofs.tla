-------------------------- MODULE EngineToolProofs --------------------------
(***************************************************************************)
(* Proofs about two tools of the conversation engine that start work the   *)
(* conversation does not wait for (pipecat_engine_custom_tools.py): the    *)
(* transfer of a call and the callback a user asks for.                    *)
(***************************************************************************)
EXTENDS CallTransfer, ScheduledCallback, FiniteSetTheorems, TLAPS
-----------------------------------------------------------------------------
(***************************************************************************)
(* CallTransfer, for any number of transfers and faults: the caller leaves *)
(* the conversation only for a destination that has answered.  What makes  *)
(* it inductive is that an answer is announced only by the handler of a    *)
(* leg that was picked up, that the tool hears the announcements of its    *)
(* own transfer only, and that nothing rings before its transfer has       *)
(* begun.  And, as long as nothing fails, the legs find their transfer:    *)
(* only the true report of a leg's end removes a context.                  *)
(***************************************************************************)

Reached == {"answered", "over"}

Unbegun(t) == t > attempt.t \/ (t = attempt.t /\ attempt.pc = "dial")

TransferInv ==
    /\ TransferTypeOK
    /\ attempt.pc # "idle" => attempt.t \in Transfers
    /\ \A t \in Transfers : Unbegun(t) => leg[t] = "none"
    /\ \A d \in Deliveries :
         d[2] = "answer" /\ callback[d] # "none" => leg[d[1]] \in Reached
    /\ attempt.pc = "ending" => leg[attempt.t] \in Reached
    /\ caller.at # "talking" => attempt.pc = "ending"

\* A fault leaves the counter of faults in its range.
LEMMA MishapType ==
    ASSUME mishaps \in 0..TransferFaults, Mishap \/ UNCHANGED mishaps
    PROVE  mishaps' \in 0..TransferFaults
  BY TransferAssumption DEF Mishap

\* A store, whatever fails, keeps the keys of Redis well typed.
LEMMA StoreType ==
    ASSUME TransferTypeOK, NEW t \in Transfers, Store(t)
    PROVE  /\ context' \subseteq Transfers /\ index' \in 0..MaxTransfers
           /\ mishaps' \in 0..TransferFaults
  <1>1. mishaps' \in 0..TransferFaults
    BY TransferAssumption DEF Store, Mishap, TransferTypeOK
  <1>2. context' = context \/ context' = context \cup {t}
    BY DEF Store
  <1>3. context' \subseteq Transfers
    BY <1>2 DEF TransferTypeOK
  <1>4. index' \in 0..MaxTransfers
    BY TransferAssumption DEF Store, TransferTypeOK, Transfers
  <1> QED
    BY <1>1, <1>3, <1>4

\* So does a removal.
LEMMA ClearType ==
    ASSUME TransferTypeOK, NEW t \in Transfers, Clear(t)
    PROVE  /\ context' \subseteq Transfers /\ index' \in 0..MaxTransfers
           /\ cleared' \subseteq Transfers
  BY TransferAssumption DEF Clear, TransferTypeOK, Transfers

\* A delivery names a transfer.
LEMMA DeliveryParts ==
    ASSUME NEW d \in Deliveries
    PROVE  d[1] \in Transfers /\ d[2] \in {"answer", "hangup"}
  BY DEF Deliveries

\* What the tool makes of a transfer is well typed.
LEMMA ConcludeType ==
    ASSUME TransferTypeOK, NEW outcome \in {"answered", "failed"},
           NEW pc \in {"idle", "ending"}, Conclude(outcome, pc)
    PROVE  /\ told' \in [Transfers -> {"nothing", "answered", "failed"}]
           /\ attempt' \in [pc : {"idle", "dial", "restore", "subscribe", "wait", "ending"},
                            t : 0..MaxTransfers]
           /\ attempt'.pc = pc /\ attempt'.t = attempt.t
  BY DEF Conclude, TransferTypeOK

\* The initial states.
LEMMA TransferInvInit ==
    ASSUME TransferInit
    PROVE  TransferInv
  BY TransferAssumption
     DEF TransferInit, TransferInv, TransferTypeOK, Transfers, Deliveries, Unbegun

\* The tool's actions.
LEMMA ToolSteps ==
    ASSUME TransferInv,
           Begin \/ Dial \/ DialFails \/ Restore \/ Subscribe \/ GiveUp
    PROVE  TransferInv'
  <1> USE TransferAssumption
  <1>1. CASE Begin
    <2>1. attempt.t + 1 \in Transfers
      BY <1>1 DEF Begin, TransferInv, TransferTypeOK, Transfers
    <2>2. /\ context' \subseteq Transfers /\ index' \in 0..MaxTransfers
          /\ mishaps' \in 0..TransferFaults
      BY <1>1, <2>1, StoreType DEF Begin, TransferInv
    <2>3. TransferTypeOK'
      BY <1>1, <2>1, <2>2 DEF Begin, TransferInv, TransferTypeOK, Transfers
    <2>4. \A t \in Transfers : Unbegun(t)' => leg'[t] = "none"
      BY <1>1 DEF Begin, TransferInv, TransferTypeOK, Unbegun, Transfers
    <2> QED
      BY <1>1, <2>1, <2>3, <2>4 DEF Begin, TransferInv
  <1>2. CASE Dial
    <2>1. attempt.t \in Transfers /\ leg[attempt.t] = "none"
      BY <1>2 DEF Dial, TransferInv, Unbegun
    <2>2. TransferTypeOK'
      BY <1>2, <2>1 DEF Dial, Ring, TransferInv, TransferTypeOK
    <2>3. \A t \in Transfers : Unbegun(t)' => leg'[t] = "none"
      BY <1>2, <2>1 DEF Dial, Ring, TransferInv, TransferTypeOK, Unbegun, Transfers
    <2>4. \A d \in Deliveries :
            d[2] = "answer" /\ callback'[d] # "none" => leg'[d[1]] \in Reached
      BY <1>2, <2>1, DeliveryParts DEF Dial, Ring, TransferInv, TransferTypeOK, Reached
    <2> QED
      BY <1>2, <2>1, <2>2, <2>3, <2>4 DEF Dial, Ring, TransferInv, TransferTypeOK
  <1>3. CASE DialFails
    <2>1. attempt.t \in Transfers /\ leg[attempt.t] = "none"
      BY <1>3 DEF DialFails, TransferInv, Unbegun
    <2>2. /\ told' \in [Transfers -> {"nothing", "answered", "failed"}]
          /\ attempt' \in [pc : {"idle", "dial", "restore", "subscribe", "wait", "ending"},
                           t : 0..MaxTransfers]
          /\ attempt'.pc = "idle" /\ attempt'.t = attempt.t
      BY <1>3, ConcludeType DEF DialFails, TransferInv
    <2>3. /\ context' \subseteq Transfers /\ index' \in 0..MaxTransfers
          /\ cleared' \subseteq Transfers /\ mishaps' \in 0..TransferFaults
      BY <1>3, <2>1, ClearType, MishapType DEF DialFails, TransferInv, TransferTypeOK
    <2>4. leg' \in [Transfers -> {"none", "ringing", "answered", "missed", "over"}]
      BY <1>3, <2>1 DEF DialFails, Ring, TransferInv, TransferTypeOK
    <2>5. \A t \in Transfers : t # attempt.t => leg'[t] = leg[t]
      BY <1>3, <2>1 DEF DialFails, Ring, TransferInv, TransferTypeOK
    <2>6. TransferTypeOK'
      BY <1>3, <2>2, <2>3, <2>4 DEF DialFails, TransferInv, TransferTypeOK
    <2>7. \A t \in Transfers : Unbegun(t)' => leg'[t] = "none"
      BY <2>2, <2>5 DEF TransferInv, TransferTypeOK, Unbegun, Transfers
    <2>8. \A d \in Deliveries :
            d[2] = "answer" /\ callback'[d] # "none" => leg'[d[1]] \in Reached
      BY <1>3, <2>1, <2>5, DeliveryParts DEF DialFails, TransferInv, Reached
    <2> QED
      BY <1>3, <2>2, <2>6, <2>7, <2>8 DEF DialFails, TransferInv
  <1>4. CASE Restore
    <2>1. attempt.t \in Transfers
      BY <1>4 DEF Restore, TransferInv
    <2>2. /\ context' \subseteq Transfers /\ index' \in 0..MaxTransfers
          /\ mishaps' \in 0..TransferFaults
      BY <1>4, <2>1, StoreType DEF Restore, TransferInv
    <2> QED
      BY <1>4, <2>1, <2>2 DEF Restore, TransferInv, TransferTypeOK, Unbegun
  <1>5. CASE Subscribe
    BY <1>5 DEF Subscribe, TransferInv, TransferTypeOK, Unbegun
  <1>6. CASE GiveUp
    <2>1. /\ told' \in [Transfers -> {"nothing", "answered", "failed"}]
          /\ attempt' \in [pc : {"idle", "dial", "restore", "subscribe", "wait", "ending"},
                           t : 0..MaxTransfers]
          /\ attempt'.pc = "idle" /\ attempt'.t = attempt.t
      BY <1>6, ConcludeType DEF GiveUp, TransferInv
    <2>2. mishaps' \in 0..TransferFaults
      BY <1>6, MishapType DEF GiveUp, TransferInv, TransferTypeOK
    <2> QED
      BY <1>6, <2>1, <2>2 DEF GiveUp, TransferInv, TransferTypeOK, Unbegun
  <1> QED
    BY <1>1, <1>2, <1>3, <1>4, <1>5, <1>6

\* The caller's.
LEMMA CallerSteps ==
    ASSUME TransferInv, Redirect \/ RedirectFails \/ Join
    PROVE  TransferInv'
  <1> USE TransferAssumption
  <1>1. CASE Redirect
    <2>1. mishaps' \in 0..TransferFaults
      BY <1>1, MishapType DEF Redirect, TransferInv, TransferTypeOK
    <2>2. caller' \in [at : {"talking", "redirected", "joined", "dropped"}, to : 0..MaxTransfers]
      BY <1>1 DEF Redirect, Drop, TransferInv, TransferTypeOK
    <2> QED
      BY <1>1, <2>1, <2>2 DEF Redirect, TransferInv, TransferTypeOK, Unbegun
  <1>2. CASE RedirectFails
    <2>1. index \in Transfers
      BY <1>2 DEF RedirectFails, TransferInv, TransferTypeOK
    <2>2. /\ context' \subseteq Transfers /\ index' \in 0..MaxTransfers
          /\ cleared' \subseteq Transfers /\ mishaps' \in 0..TransferFaults
      BY <1>2, <2>1, ClearType, MishapType DEF RedirectFails, TransferInv, TransferTypeOK
    <2> QED
      BY <1>2, <2>2 DEF RedirectFails, Drop, TransferInv, TransferTypeOK, Unbegun
  <1>3. CASE Join
    <2>1. mishaps' \in 0..TransferFaults
      BY <1>3, MishapType DEF Join, TransferInv, TransferTypeOK
    <2>2. caller' \in [at : {"talking", "redirected", "joined", "dropped"}, to : 0..MaxTransfers]
      BY <1>3 DEF Join, Drop, TransferInv, TransferTypeOK
    <2> QED
      BY <1>3, <2>1, <2>2 DEF Join, TransferInv, TransferTypeOK, Unbegun
  <1> QED
    BY <1>1, <1>2, <1>3

\* The destination's.
LEMMA LegSteps ==
    ASSUME TransferInv, NEW t \in Transfers,
           PickUp(t) \/ HangUp(t) \/ \E kind \in {"answer", "hangup"} : Repeat(t, kind)
    PROVE  TransferInv'
  <1> USE TransferAssumption
  <1>1. CASE PickUp(t)
    <2>1. <<t, "answer", 1>> \in Deliveries
      BY DEF Deliveries
    <2>2. TransferTypeOK'
      BY <1>1, <2>1 DEF PickUp, Send, TransferInv, TransferTypeOK
    <2>3. leg'[t] \in Reached /\ \A u \in Transfers : u # t => leg'[u] = leg[u]
      BY <1>1 DEF PickUp, TransferInv, TransferTypeOK, Reached
    <2>4. \A d \in Deliveries :
            d[2] = "answer" /\ callback'[d] # "none" => leg'[d[1]] \in Reached
      BY <1>1, <2>1, <2>3, DeliveryParts DEF PickUp, Send, TransferInv, TransferTypeOK
    <2>5. \A u \in Transfers : Unbegun(u)' => leg'[u] = "none"
      BY <1>1, <2>3 DEF PickUp, TransferInv, Unbegun
    <2> QED
      BY <1>1, <2>2, <2>3, <2>4, <2>5 DEF PickUp, TransferInv
  <1>2. CASE HangUp(t)
    <2>1. <<t, "hangup", 1>> \in Deliveries
      BY DEF Deliveries
    <2>2. TransferTypeOK'
      BY <1>2, <2>1 DEF HangUp, Send, TransferInv, TransferTypeOK
    <2>3. /\ leg[t] \in Reached => leg'[t] \in Reached
          /\ \A u \in Transfers : u # t => leg'[u] = leg[u]
          /\ leg[t] # "none"
      BY <1>2 DEF HangUp, TransferInv, TransferTypeOK, Reached
    <2>4. \A d \in Deliveries : d[2] = "answer" => callback'[d] = callback[d]
      BY <1>2, <2>1 DEF HangUp, Send, TransferInv, TransferTypeOK
    <2>5. \A d \in Deliveries :
            d[2] = "answer" /\ callback'[d] # "none" => leg'[d[1]] \in Reached
      BY <2>3, <2>4, DeliveryParts DEF TransferInv
    <2>6. \A u \in Transfers : Unbegun(u)' => leg'[u] = "none"
      BY <1>2, <2>3 DEF HangUp, TransferInv, Unbegun
    <2> QED
      BY <1>2, <2>2, <2>3, <2>5, <2>6 DEF HangUp, TransferInv
  <1>3. ASSUME NEW kind \in {"answer", "hangup"}, Repeat(t, kind)
        PROVE  TransferInv'
    <2>1. <<t, kind, 1>> \in Deliveries /\ <<t, kind, 2>> \in Deliveries
      BY DEF Deliveries
    <2>2. mishaps' \in 0..TransferFaults
      BY <1>3, MishapType DEF Repeat, TransferInv, TransferTypeOK
    <2>3. TransferTypeOK'
      BY <1>3, <2>1, <2>2 DEF Repeat, Send, TransferInv, TransferTypeOK
    <2>4. \A d \in Deliveries :
            d[2] = "answer" /\ callback'[d] # "none" => leg'[d[1]] \in Reached
      BY <1>3, <2>1 DEF Repeat, Send, TransferInv, TransferTypeOK
    <2> QED
      BY <1>3, <2>3, <2>4 DEF Repeat, TransferInv, Unbegun
  <1> QED
    BY <1>1, <1>2, <1>3

\* A handler that goes on with a delivery leaves the invariant on deliveries alone.
LEMMA GoKeeps ==
    ASSUME TransferInv, NEW d \in Deliveries, callback[d] # "none",
           NEW pc \in {"store", "claim", "publish", "clear", "done"}, Go(d, pc), leg' = leg
    PROVE  /\ callback' \in [Deliveries -> {"none", "due", "store", "claim", "publish",
                                            "clear", "done"}]
           /\ \A e \in Deliveries :
                e[2] = "answer" /\ callback'[e] # "none" => leg'[e[1]] \in Reached
  BY DEF TransferInv, TransferTypeOK, Go

\* The handlers'.
LEMMA HandlerSteps ==
    ASSUME TransferInv, NEW d \in Deliveries,
           Answered(d) \/ StoreLeg(d) \/ Ended(d) \/ Claim(d) \/ Announce(d)
             \/ Ending(d) \/ HandlerDies(d)
    PROVE  TransferInv'
  <1> USE TransferAssumption
  <1>0. d[1] \in Transfers /\ d[2] \in {"answer", "hangup"}
    BY DeliveryParts
  <1>1. CASE Answered(d)
    <2>1. mishaps' \in 0..TransferFaults
      BY <1>1, MishapType DEF Answered, TransferInv, TransferTypeOK
    <2> QED
      BY <1>0, <1>1, <2>1, GoKeeps DEF Answered, TransferInv, TransferTypeOK, Unbegun
  <1>2. CASE StoreLeg(d)
    <2>1. /\ context' \subseteq Transfers /\ index' \in 0..MaxTransfers
          /\ mishaps' \in 0..TransferFaults
      BY <1>0, <1>2, StoreType DEF StoreLeg, TransferInv, TransferTypeOK
    <2> QED
      BY <1>2, <2>1, GoKeeps DEF StoreLeg, TransferInv, TransferTypeOK, Unbegun
  <1>3. CASE Ended(d)
    <2>1. mishaps' \in 0..TransferFaults
      BY <1>3, MishapType DEF Ended, TransferInv, TransferTypeOK
    <2> QED
      BY <1>3, <2>1, GoKeeps DEF Ended, TransferInv, TransferTypeOK, Unbegun
  <1>4. CASE Claim(d)
    <2>1. claimed' \subseteq Transfers \X {"answer", "hangup"}
      BY <1>0, <1>4 DEF Claim, TransferInv, TransferTypeOK
    <2> QED
      BY <1>4, <2>1, GoKeeps DEF Claim, TransferInv, TransferTypeOK, Unbegun
  <1>5. CASE Announce(d)
    <2>1. mishaps' \in 0..TransferFaults
      BY <1>5, MishapType DEF Announce, TransferInv, TransferTypeOK
    <2>2. /\ callback' \in [Deliveries -> {"none", "due", "store", "claim", "publish",
                                           "clear", "done"}]
          /\ \A e \in Deliveries :
               e[2] = "answer" /\ callback'[e] # "none" => leg'[e[1]] \in Reached
      BY <1>5, GoKeeps DEF Announce
    <2>3. CASE UNCHANGED <<told, attempt>>
      BY <1>5, <2>1, <2>2, <2>3 DEF Announce, TransferInv, TransferTypeOK, Unbegun
    <2>4. CASE ~UNCHANGED <<told, attempt>>
      <3> DEFINE outcome == IF d[2] = "answer" THEN "answered" ELSE "failed"
                 pc == IF outcome = "answered" THEN "ending" ELSE "idle"
      <3>1. Listening(d[1]) /\ Conclude(outcome, pc)
        BY <1>5, <2>4 DEF Announce, Publish
      <3>2. attempt.t = d[1] /\ attempt.pc = "wait"
        BY <3>1 DEF Listening
      <3>3. /\ told' \in [Transfers -> {"nothing", "answered", "failed"}]
            /\ attempt' \in [pc : {"idle", "dial", "restore", "subscribe", "wait", "ending"},
                             t : 0..MaxTransfers]
            /\ attempt'.pc = pc /\ attempt'.t = attempt.t
        BY <3>1, ConcludeType DEF TransferInv
      <3>4. pc = "ending" => leg[attempt.t] \in Reached
        BY <1>5, <3>2 DEF Announce, TransferInv
      <3>5. \A t \in Transfers : Unbegun(t)' => Unbegun(t)
        BY <3>3 DEF Unbegun
      <3>6. attempt'.pc # "idle" => attempt'.t \in Transfers
        BY <1>0, <3>2, <3>3
      <3> QED
        BY <1>5, <2>1, <2>2, <3>2, <3>3, <3>4, <3>5, <3>6 DEF Announce, TransferInv, TransferTypeOK
    <2> QED
      BY <2>3, <2>4
  <1>6. CASE Ending(d)
    <2>1. /\ context' \subseteq Transfers /\ index' \in 0..MaxTransfers
          /\ cleared' \subseteq Transfers /\ mishaps' \in 0..TransferFaults
      BY <1>0, <1>6, ClearType, MishapType DEF Ending, TransferInv, TransferTypeOK
    <2> QED
      BY <1>6, <2>1, GoKeeps DEF Ending, TransferInv, TransferTypeOK, Unbegun
  <1>7. CASE HandlerDies(d)
    <2>1. mishaps' \in 0..TransferFaults
      BY <1>7, MishapType DEF HandlerDies, TransferInv, TransferTypeOK
    <2> QED
      BY <1>7, <2>1, GoKeeps DEF HandlerDies, TransferInv, TransferTypeOK, Unbegun
  <1> QED
    BY <1>1, <1>2, <1>3, <1>4, <1>5, <1>6, <1>7

\* The invariant of the transfers, for any number of transfers and faults.
THEOREM TransferInvariant == TransferSpec => []TransferInv
  <1>1. TransferInit => TransferInv
    BY TransferInvInit
  <1>2. TransferInv /\ [TransferNext]_transferVars => TransferInv'
    <2> SUFFICES ASSUME TransferInv, [TransferNext]_transferVars
                 PROVE  TransferInv'
      OBVIOUS
    <2>1. CASE UNCHANGED transferVars
      BY <2>1 DEF transferVars, TransferInv, TransferTypeOK, Unbegun
    <2>2. CASE TransferNext
      BY <2>2, ToolSteps, CallerSteps, LegSteps, HandlerSteps DEF TransferNext
    <2> QED
      BY <2>1, <2>2
  <1> QED
    BY <1>1, <1>2, PTL DEF TransferSpec

\* The caller is taken out of the conversation only for a destination that has
\* answered, whichever answers of earlier transfers arrive late.
THEOREM CallerFollowsAnswerHolds == TransferSpec => []CallerFollowsAnswer
  <1>1. TransferInv => CallerFollowsAnswer
    BY DEF TransferInv, CallerFollowsAnswer, Reached
  <1> QED
    BY <1>1, TransferInvariant, PTL
-----------------------------------------------------------------------------
(* The legs find their transfer, as long as nothing fails.                  *)

\* The leg has ended.
Gone(t) == leg[t] \in {"missed", "over"}

\* A leg's end has been reported since the transfer under way began.
Excused == \E t \in cleared : Gone(t)

\* Only the report of a leg's end removes a context.
ReportsAreTrue ==
    \A d \in Deliveries :
        /\ d[2] = "hangup" /\ callback[d] # "none" => Gone(d[1])
        /\ callback[d] = "clear" => d[2] = "hangup"

\* A transfer has its context from before it rings until its leg has ended.
ContextsLast ==
    /\ attempt.pc = "dial" => attempt.t \in context
    /\ \A t \in Transfers : leg[t] # "none" => t \in context \/ Gone(t)
    /\ \A t \in turnedAway : Gone(t)

\* The caller's way to the context is lost only with a leg that has ended.
WayIsKnown ==
    /\ attempt.pc # "idle" => index \in context \/ Excused
    /\ caller.at = "redirected" => caller.to \in context \/ Excused
    /\ caller.at = "dropped" => Excused

LegFacts == ReportsAreTrue /\ ContextsLast /\ WayIsKnown

\* A fault is remembered.
LEMMA NoMishap ==
    ASSUME TransferInv, mishaps' = TransferFaults,
           Mishap \/ UNCHANGED mishaps
    PROVE  ~Mishap /\ mishaps = TransferFaults
  BY TransferAssumption DEF TransferInv, TransferTypeOK, Mishap

\* The caller's way after a step that removes no context and lets no leg ring again.
LEMMA WayStays ==
    ASSUME WayIsKnown, context \subseteq context', index' = index \/ index' \in context',
           \A t \in cleared : Gone(t) => Gone(t)', cleared' = cleared,
           attempt'.pc # "idle" => attempt.pc # "idle", caller' = caller
    PROVE  WayIsKnown'
  BY DEF WayIsKnown, Excused

\* The tool's actions, without a fault.
LEMMA ToolLegs ==
    ASSUME TransferInv, LegFacts, mishaps' = TransferFaults,
           Begin \/ Dial \/ DialFails \/ Restore \/ Subscribe \/ GiveUp
    PROVE  LegFacts'
  <1> USE TransferAssumption
  <1>1. CASE Begin
    <2>1. /\ context' = context \cup {attempt.t + 1} /\ index' = attempt.t + 1
          /\ attempt.pc = "idle" /\ attempt' = [pc |-> "dial", t |-> attempt.t + 1]
          /\ UNCHANGED <<leg, callback, caller, turnedAway>>
      BY <1>1, NoMishap DEF Begin, Store
    <2>2. caller.at = "talking"
      BY <2>1 DEF TransferInv
    <2> QED
      BY <2>1, <2>2 DEF LegFacts, ReportsAreTrue, ContextsLast, WayIsKnown, Gone
  <1>2. CASE Dial
    <2>1. /\ attempt.t \in Transfers /\ leg[attempt.t] = "none" /\ attempt.pc = "dial"
          /\ leg' = [leg EXCEPT ![attempt.t] = "ringing"]
          /\ attempt'.pc = "restore" /\ attempt'.t = attempt.t
          /\ UNCHANGED <<context, index, callback, caller, turnedAway, cleared>>
      BY <1>2 DEF Dial, Ring, TransferInv, TransferTypeOK, Unbegun
    <2>2. \A t \in Transfers : (Gone(t) => Gone(t)') /\ (t # attempt.t => leg'[t] = leg[t])
      BY <2>1 DEF Gone, TransferInv, TransferTypeOK
    <2>3. ReportsAreTrue'
      BY <2>1, <2>2, DeliveryParts DEF LegFacts, ReportsAreTrue
    <2>4. ContextsLast'
      BY <2>1, <2>2 DEF LegFacts, ContextsLast, TransferInv, TransferTypeOK
    <2>5. WayIsKnown'
      BY <2>1, <2>2, WayStays DEF LegFacts, TransferInv, TransferTypeOK
    <2> QED
      BY <2>3, <2>4, <2>5 DEF LegFacts
  <1>3. CASE DialFails
    BY <1>3, NoMishap DEF DialFails
  <1>4. CASE Restore
    <2>1. /\ context' = context \cup {attempt.t} /\ index' = attempt.t
          /\ attempt.pc # "idle" /\ attempt'.pc = "subscribe"
          /\ UNCHANGED <<leg, callback, caller, turnedAway, cleared>>
      BY <1>4, NoMishap DEF Restore, Store, TransferInv, TransferTypeOK
    <2>2. WayIsKnown'
      BY <2>1, WayStays DEF LegFacts, Gone
    <2> QED
      BY <2>1, <2>2 DEF LegFacts, ReportsAreTrue, ContextsLast, Gone
  <1>5. CASE Subscribe \/ GiveUp
    <2>1. /\ attempt'.pc \in {"wait", "idle"} /\ attempt.pc # "idle"
          /\ UNCHANGED <<context, index, leg, callback, caller, turnedAway, cleared>>
      BY <1>5 DEF Subscribe, GiveUp, Conclude, TransferInv, TransferTypeOK
    <2>2. WayIsKnown'
      BY <2>1, WayStays DEF LegFacts, Gone
    <2> QED
      BY <2>1, <2>2 DEF LegFacts, ReportsAreTrue, ContextsLast, Gone
  <1> QED
    BY <1>1, <1>2, <1>3, <1>4, <1>5

\* The caller's.
LEMMA CallerLegs ==
    ASSUME TransferInv, LegFacts, mishaps' = TransferFaults,
           Redirect \/ RedirectFails \/ Join
    PROVE  LegFacts'
  <1>1. CASE Redirect \/ Join
    <2>1. UNCHANGED <<context, index, leg, callback, attempt, turnedAway, cleared>>
      BY <1>1 DEF Redirect, Join
    <2>2. (caller'.at = "redirected" => caller'.to \in context \/ Excused)
          /\ (caller'.at = "dropped" => Excused)
      BY <1>1, NoMishap
         DEF Redirect, Join, Drop, LegFacts, WayIsKnown, TransferInv, TransferTypeOK
    <2> QED
      BY <2>1, <2>2 DEF LegFacts, ReportsAreTrue, ContextsLast, WayIsKnown, Excused, Gone
  <1>2. CASE RedirectFails
    BY <1>2, NoMishap DEF RedirectFails
  <1> QED
    BY <1>1, <1>2

\* The destination's.
LEMMA DestinationLegs ==
    ASSUME TransferInv, LegFacts, mishaps' = TransferFaults,
           NEW t \in Transfers,
           PickUp(t) \/ HangUp(t) \/ \E kind \in {"answer", "hangup"} : Repeat(t, kind)
    PROVE  LegFacts'
  <1>1. CASE PickUp(t) \/ HangUp(t)
    <2>1. PICK kind \in {"answer", "hangup"} :
            /\ callback' = [callback EXCEPT ![<<t, kind, 1>>] = "due"]
            /\ kind = "hangup" => Gone(t)'
      BY <1>1 DEF PickUp, HangUp, Send, Gone, TransferInv, TransferTypeOK
    <2>2. /\ UNCHANGED <<context, index, attempt, caller, turnedAway, cleared>>
          /\ \A u \in Transfers : u # t => leg'[u] = leg[u]
          /\ leg[t] # "none" /\ ~Gone(t)
      BY <1>1 DEF PickUp, HangUp, Gone, TransferInv, TransferTypeOK
    <2>3. \A u \in Transfers : Gone(u) => Gone(u)'
      BY <2>2 DEF Gone
    <2>4. <<t, kind, 1>> \in Deliveries
      BY DEF Deliveries
    <2>5. ReportsAreTrue'
      <3>1. \A d \in Deliveries : d # <<t, kind, 1>> => callback'[d] = callback[d]
        BY <2>1, <2>4 DEF TransferInv, TransferTypeOK
      <3>2. callback'[<<t, kind, 1>>] = "due"
        BY <2>1, <2>4 DEF TransferInv, TransferTypeOK
      <3> QED
        BY <2>1, <2>3, <3>1, <3>2, DeliveryParts DEF LegFacts, ReportsAreTrue
    <2>6. ContextsLast'
      BY <2>2, <2>3 DEF LegFacts, ContextsLast, TransferInv, TransferTypeOK
    <2>7. WayIsKnown'
      BY <2>2, <2>3, WayStays DEF LegFacts, TransferInv, TransferTypeOK
    <2> QED
      BY <2>5, <2>6, <2>7 DEF LegFacts
  <1>2. CASE \E kind \in {"answer", "hangup"} : Repeat(t, kind)
    BY <1>2, NoMishap DEF Repeat
  <1> QED
    BY <1>1, <1>2

\* The handlers'.
LEMMA HandlerLegs ==
    ASSUME TransferInv, LegFacts, mishaps' = TransferFaults,
           NEW d \in Deliveries,
           Answered(d) \/ StoreLeg(d) \/ Ended(d) \/ Claim(d) \/ Announce(d)
             \/ Ending(d) \/ HandlerDies(d)
    PROVE  LegFacts'
  <1>0. d[1] \in Transfers /\ d[2] \in {"answer", "hangup"}
    BY DeliveryParts
  <1>1. ASSUME NEW pc \in {"store", "claim", "publish", "clear", "done"}, Go(d, pc),
               callback[d] # "none", pc = "clear" => d[2] = "hangup", leg' = leg
        PROVE  ReportsAreTrue'
    BY <1>1 DEF Go, LegFacts, ReportsAreTrue, Gone, TransferInv, TransferTypeOK
  <1>2. CASE Answered(d)
    <2>1. ReportsAreTrue'
      BY <1>1, <1>2 DEF Answered
    <2>2. ContextsLast'
      <3>1. UNCHANGED <<context, leg, attempt>>
        BY <1>2 DEF Answered
      <3>2. leg[d[1]] # "none"
        BY <1>2 DEF Answered, TransferInv, Reached
      <3>3. turnedAway' = turnedAway
            \/ (turnedAway' = turnedAway \cup {d[1]} /\ d[1] \notin context)
        BY <1>2, NoMishap DEF Answered
      <3> QED
        BY <1>0, <3>1, <3>2, <3>3 DEF LegFacts, ContextsLast, Gone
    <2>3. WayIsKnown'
      BY <1>2 DEF Answered, LegFacts, WayIsKnown, Excused, Gone
    <2> QED
      BY <2>1, <2>2, <2>3 DEF LegFacts
  <1>3. CASE StoreLeg(d)
    <2>1. /\ context \subseteq context' /\ (index' = index \/ index' \in context')
          /\ UNCHANGED <<leg, attempt, caller, turnedAway, cleared>>
      BY <1>3, NoMishap DEF StoreLeg, Store
    <2>2. ReportsAreTrue'
      BY <1>1, <1>3 DEF StoreLeg
    <2>3. WayIsKnown'
      BY <2>1, WayStays DEF LegFacts, Gone
    <2> QED
      BY <2>1, <2>2, <2>3 DEF LegFacts, ContextsLast, Gone
  <1>4. CASE Ended(d) \/ Claim(d)
    <2>1. UNCHANGED <<context, index, leg, attempt, caller, turnedAway, cleared>>
      BY <1>4 DEF Ended, Claim
    <2>2. ReportsAreTrue'
      BY <1>1, <1>4 DEF Ended, Claim
    <2> QED
      BY <2>1, <2>2 DEF LegFacts, ContextsLast, WayIsKnown, Excused, Gone
  <1>5. CASE Announce(d)
    <2>1. /\ UNCHANGED <<context, index, leg, caller, turnedAway, cleared>>
          /\ attempt' = attempt \/ (attempt.pc = "wait" /\ attempt'.pc \in {"ending", "idle"})
      BY <1>5 DEF Announce, Publish, Conclude, Listening, TransferInv, TransferTypeOK
    <2>2. ReportsAreTrue'
      BY <1>0, <1>1, <1>5 DEF Announce
    <2> QED
      BY <2>1, <2>2 DEF LegFacts, ContextsLast, WayIsKnown, Excused, Gone
  <1>6. CASE Ending(d)
    <2>1. /\ context' = context \ {d[1]} /\ cleared' = cleared \cup {d[1]}
          /\ index' = IF d[1] \in context THEN 0 ELSE index
          /\ UNCHANGED <<leg, attempt, caller, turnedAway>>
      BY <1>6, NoMishap DEF Ending, Clear
    <2>2. Gone(d[1])
      BY <1>6 DEF Ending, LegFacts, ReportsAreTrue
    <2>3. ReportsAreTrue'
      BY <1>1, <1>6 DEF Ending
    <2>4. attempt.pc = "dial" => attempt.t # d[1]
      BY <2>2 DEF TransferInv, Unbegun, Gone
    <2>5. ContextsLast'
      BY <2>1, <2>2, <2>4 DEF LegFacts, ContextsLast, Gone
    <2>6. WayIsKnown'
      BY <2>1, <2>2 DEF WayIsKnown, Excused, Gone
    <2> QED
      BY <2>3, <2>5, <2>6 DEF LegFacts
  <1>7. CASE HandlerDies(d)
    BY <1>7, NoMishap DEF HandlerDies
  <1> QED
    BY <1>2, <1>3, <1>4, <1>5, <1>6, <1>7

\* Without faults every step keeps the legs and the contexts together.
LEMMA LegStep ==
    ASSUME TransferInv, mishaps = TransferFaults => LegFacts,
           [TransferNext]_transferVars, mishaps' = TransferFaults
    PROVE  LegFacts'
  <1>1. Mishap \/ UNCHANGED mishaps
    BY DEF transferVars, TransferNext, Begin, Dial, DialFails, Restore, Subscribe, GiveUp, Redirect,
           RedirectFails, Join, PickUp, HangUp, Repeat, Answered, StoreLeg, Ended, Claim,
           Announce, Ending, HandlerDies, Store
  <1>2. LegFacts
    BY <1>1, NoMishap
  <1>3. CASE UNCHANGED transferVars
    BY <1>2, <1>3 DEF transferVars, LegFacts, ReportsAreTrue, ContextsLast, WayIsKnown,
                      Excused, Gone
  <1>4. CASE TransferNext
    BY <1>2, <1>4, ToolLegs, CallerLegs, DestinationLegs, HandlerLegs DEF TransferNext
  <1> QED
    BY <1>3, <1>4

\* As long as nothing fails, however many transfers there are and however late their
\* reports, a destination that answers finds its context, and so does the caller, until
\* the end of a leg is reported.
THEOREM LegsFindTheTransferHolds == TransferSpec => []LegsFindTheTransfer
  <1>1. TransferInit => LegFacts
    BY DEF TransferInit, LegFacts, ReportsAreTrue, ContextsLast, WayIsKnown
  <1>2. /\ TransferInv /\ (mishaps = TransferFaults => LegFacts) /\ [TransferNext]_transferVars
        => (mishaps = TransferFaults => LegFacts)'
    BY LegStep
  <1>3. (mishaps = TransferFaults => LegFacts) => LegsFindTheTransfer
    BY DEF LegFacts, ContextsLast, WayIsKnown, Excused, Gone, LegsFindTheTransfer
  <1> QED
    BY <1>1, <1>2, <1>3, TransferInvariant, PTL DEF TransferSpec

-----------------------------------------------------------------------------
(***************************************************************************)
(* ScheduledCallback, for any number of rows, attempts and faults: no     *)
(* attempt that begins after every row was cancelled places a call, one    *)
(* request is called once, but for faults and calls of the tool that       *)
(* overlap, and a pending row has its job.  The argument for the count is  *)
(* that the calls placed, the rows whose job may yet place one and the     *)
(* tool's calls on their way to a row are together no more; for its calls  *)
(* that follow one another it takes a second count, of the rows that the   *)
(* tool has given up while the flag is down.  For the cancelled ones, that *)
(* an attempt which began with every row cancelled finds a cancelled row,  *)
(* whichever it reads first.                                               *)
(***************************************************************************)

\* A row that waits for its job has none; a job has its row; an attempt is counted.
JobsHaveRows ==
    /\ \A r \in unqueued : job[r].pc = "none"
    /\ \A j \in Records : job[j].pc # "none" => record[j] # "none"
    /\ \A j \in Records : Running(j) => job[j].try > 0

\* While an attempt is void every row is cancelled, and so it ends at its check.
VoidIsCancelled ==
    \A j \in Records : job[j].void =>
        /\ job[j].pc = "check" => \A r \in Saved : record[r] = "cancelled"
        /\ job[j].pc # "dial"

\* The rows whose job may yet place a call, and those of them the tool has left.
Live == {r \in Saved : job[r].pc \notin {"mark", "giveup", "done", "refused"}}

Left == Live \ unqueued

\* The calls placed and to come; as long as the flag is down every row that the tool
\* has left is one whose job it could not enqueue.
CallsAreCounted ==
    /\ IsFiniteSet(placed)
    /\ Cardinality(placed) + Cardinality(Live) + asking
          <= 1 + overlaps + (CallbackFaults - troubles)
    /\ ~scheduled => Cardinality(placed) + Cardinality(Left) <= CallbackFaults - troubles

CallbackInv ==
    /\ CallbackTypeOK /\ JobsHaveRows
    /\ VoidIsCancelled /\ CancelledIsNotCalled
    /\ CallsAreCounted /\ PendingHasJob

LEMMA CallbackInvInit == CallbackInit => CallbackInv
<1> SUFFICES ASSUME CallbackInit PROVE CallbackInv
    OBVIOUS
<1> USE CallbackAssumption DEF CallbackInit
<1>1. CallbackTypeOK
  <2>1. job \in [Records -> JobInfo]
    BY DEF JobInfo, JobStates
  <2>3. /\ unqueued \subseteq Saved /\ cancelling \subseteq Saved
        /\ placed \subseteq Records \X (1..ArqTries) \X BOOLEAN /\ busy \subseteq placed
    OBVIOUS
  <2>4. troubles \in 0..CallbackFaults
    OBVIOUS
  <2>5. record \in [Records -> {"none", "pending", "completed", "failed", "cancelled"}]
    OBVIOUS
  <2> QED
    BY <2>1, <2>3, <2>4, <2>5 DEF CallbackTypeOK
<1>2. JobsHaveRows /\ VoidIsCancelled /\ CancelledIsNotCalled /\ PendingHasJob
    BY DEF JobsHaveRows, VoidIsCancelled, CancelledIsNotCalled, PendingHasJob, Running
<1>3. Live = {} /\ Left = {}
    BY DEF Live, Left, Saved
<1>4. CallsAreCounted
    BY <1>3, FS_EmptySet DEF CallsAreCounted
<1> QED
    BY <1>1, <1>2, <1>4 DEF CallbackInv

LEMMA TroubleType ==
    ASSUME troubles \in 0..CallbackFaults, Trouble \/ UNCHANGED troubles
    PROVE  troubles' \in 0..CallbackFaults /\ troubles' <= troubles
BY CallbackAssumption DEF Trouble

LEMMA JobMoves ==
    ASSUME CallbackTypeOK, NEW j \in Records, NEW pc \in JobStates, JobAt(j, pc)
    PROVE  /\ job' \in [Records -> JobInfo]
           /\ job'[j].pc = pc /\ job'[j].try = job[j].try /\ job'[j].void = job[j].void
           /\ \A i \in Records \ {j} : job'[i] = job[i]
BY DEF CallbackTypeOK, JobInfo, JobAt

LEMMA OneMore ==
    ASSUME NEW S, IsFiniteSet(S), NEW x
    PROVE  /\ IsFiniteSet(S \cup {x})
           /\ Cardinality(S) \in Nat /\ Cardinality(S \cup {x}) \in Nat
           /\ Cardinality(S \cup {x}) <= Cardinality(S) + 1
           /\ x \notin S => Cardinality(S \cup {x}) = Cardinality(S) + 1
<1>1. /\ IsFiniteSet(S \cup {x})
      /\ Cardinality(S \cup {x}) = IF x \in S THEN Cardinality(S) ELSE Cardinality(S) + 1
    BY FS_AddElement
<1>2. Cardinality(S) \in Nat /\ Cardinality(S \cup {x}) \in Nat
    BY <1>1, FS_CardinalityType
<1> QED
    BY <1>1, <1>2

LEMMA RowsAreFinite ==
    ASSUME NEW S, S \subseteq Records
    PROVE  IsFiniteSet(S) /\ Cardinality(S) \in Nat
<1>1. IsFiniteSet(Records)
    BY FS_Interval, CallbackAssumption DEF Records
<1>2. IsFiniteSet(S)
    BY <1>1, FS_Subset
<1> QED
    BY <1>2, FS_CardinalityType

LEMMA LiveIsFinite ==
    /\ IsFiniteSet(Live) /\ Cardinality(Live) \in Nat
    /\ IsFiniteSet(Left) /\ Cardinality(Left) \in Nat
BY RowsAreFinite DEF Live, Left, Saved

\* At most one more row of a set that is part of another with one more.
LEMMA AtMostOneMore ==
    ASSUME NEW S, NEW T, S \subseteq Records, T \subseteq Records, NEW x \in Records,
           T \subseteq S \cup {x}
    PROVE  Cardinality(T) <= Cardinality(S) + 1
<1>1. /\ IsFiniteSet(S \cup {x}) /\ Cardinality(S \cup {x}) \in Nat
      /\ Cardinality(S \cup {x}) <= Cardinality(S) + 1
    BY RowsAreFinite, OneMore
<1>2. Cardinality(T) <= Cardinality(S \cup {x})
    BY <1>1, FS_Subset
<1> QED
    BY <1>1, <1>2, RowsAreFinite

\* No call is placed, and no job comes alive or is left by the tool, but for a trouble.
LEMMA CallsStayCounted ==
    ASSUME CallbackTypeOK, CallsAreCounted, placed' = placed, UNCHANGED toolVars,
           Trouble \/ UNCHANGED troubles,
           \/ Live' \subseteq Live /\ Left' \subseteq Left
           \/ Trouble /\ \E j \in Records : /\ Live' \subseteq Live \cup {j}
                                           /\ Left' \subseteq Left \cup {j}
    PROVE  CallsAreCounted'
<1>1. /\ Live \subseteq Records /\ Live' \subseteq Records
      /\ Left \subseteq Records /\ Left' \subseteq Records
    BY DEF Live, Left, Saved
<1>2. /\ Cardinality(Live') \in Nat /\ Cardinality(Left') \in Nat
      /\ Cardinality(Live) \in Nat /\ Cardinality(Left) \in Nat
      /\ IsFiniteSet(Live) /\ IsFiniteSet(Left) /\ Cardinality(placed) \in Nat
    BY <1>1, RowsAreFinite, FS_CardinalityType DEF CallsAreCounted
<1>3. CASE Live' \subseteq Live /\ Left' \subseteq Left
  <2>1. Cardinality(Live') <= Cardinality(Live) /\ Cardinality(Left') <= Cardinality(Left)
    BY <1>2, <1>3, FS_Subset
  <2> QED
    BY <1>2, <2>1, TroubleType, CallbackAssumption
       DEF CallsAreCounted, CallbackTypeOK, toolVars
<1>4. ASSUME NEW j \in Records, Trouble,
             Live' \subseteq Live \cup {j}, Left' \subseteq Left \cup {j}
      PROVE  CallsAreCounted'
  <2>1. /\ Cardinality(Live') <= Cardinality(Live) + 1
        /\ Cardinality(Left') <= Cardinality(Left) + 1
    BY <1>1, <1>4, AtMostOneMore
  <2>2. troubles' = troubles - 1
    BY <1>4 DEF Trouble
  <2> QED
    BY <1>2, <2>1, <2>2, CallbackAssumption DEF CallsAreCounted, CallbackTypeOK, toolVars
<1> QED
    BY <1>3, <1>4
-----------------------------------------------------------------------------
\* The flag is down: what was begun before has ended, and its rows were left.
LEMMA AskStep ==
    ASSUME CallbackInv, Ask
    PROVE  CallbackInv'
  <1>1. /\ UNCHANGED <<record, unqueued, job, scheduled, cancelling, placed, busy, troubles>>
        /\ Saved' = Saved /\ Live' = Live /\ Left' = Left
    BY DEF Ask, Saved, Live, Left
  <1>2. CallbackTypeOK'
    BY <1>1 DEF Ask, CallbackInv, CallbackTypeOK
  <1>3. JobsHaveRows' /\ VoidIsCancelled' /\ CancelledIsNotCalled' /\ PendingHasJob'
    BY <1>1 DEF CallbackInv, JobsHaveRows, VoidIsCancelled, CancelledIsNotCalled,
                PendingHasJob, Running
  <1>4. CallsAreCounted'
    <2>1. asking = 0 /\ unqueued = {} => Left = Live
      BY DEF Left
    <2>2. Cardinality(placed) \in Nat
      BY FS_CardinalityType DEF CallbackInv, CallsAreCounted
    <2>3. asking \in Nat /\ overlaps \in Nat /\ troubles \in 0..CallbackFaults
      BY DEF CallbackInv, CallbackTypeOK
    <2>4. CASE asking > 0 \/ unqueued # {}
      BY <1>1, <2>2, <2>3, <2>4, LiveIsFinite, CallbackAssumption
         DEF Ask, CallbackInv, CallsAreCounted
    <2>5. CASE ~(asking > 0 \/ unqueued # {})
      BY <1>1, <2>1, <2>2, <2>3, <2>5, LiveIsFinite, CallbackAssumption
         DEF Ask, CallbackInv, CallsAreCounted
    <2> QED
      BY <2>4, <2>5
  <1> QED
    BY <1>2, <1>3, <1>4 DEF CallbackInv

LEMMA SaveStep ==
    ASSUME CallbackInv, NEW r \in Records, Save(r)
    PROVE  CallbackInv'
  <1>1. UNCHANGED <<overlaps, scheduled, cancelling, placed, busy, troubles>>
    BY DEF Save
  <1>2. /\ asking' = asking - 1 /\ asking' \in Nat
        /\ record[r] = "none" /\ record' = [record EXCEPT ![r] = "pending"]
        /\ unqueued' = unqueued \cup {r}
        /\ Saved' = Saved \cup {r}
    BY DEF Save, Saved, CallbackInv, CallbackTypeOK
  <1>3. /\ job' \in [Records -> JobInfo]
        /\ \A j \in Records : /\ job'[j].pc = job[j].pc /\ job'[j].try = job[j].try
                              /\ job'[j].void = FALSE
    BY DEF Save, CallbackInv, CallbackTypeOK, JobInfo
  <1>4. CallbackTypeOK'
    <2>1. record' \in [Records -> {"none", "pending", "completed", "failed", "cancelled"}]
      BY <1>2 DEF CallbackInv, CallbackTypeOK
    <2> QED
      BY <1>1, <1>2, <1>3, <2>1 DEF CallbackInv, CallbackTypeOK
  <1>5. JobsHaveRows'
    BY <1>2, <1>3 DEF CallbackInv, CallbackTypeOK, JobsHaveRows, Running, Saved
  <1>6. VoidIsCancelled' /\ CancelledIsNotCalled'
    BY <1>1, <1>3 DEF CallbackInv, VoidIsCancelled, CancelledIsNotCalled
  <1>7. CallsAreCounted'
    <2>1. /\ Live \subseteq Records /\ Live' \subseteq Records
          /\ Live' \subseteq Live \cup {r} /\ Left' = Left
      BY <1>2, <1>3 DEF Live, Left, Saved
    <2>2. Cardinality(Live') <= Cardinality(Live) + 1
      BY <2>1, AtMostOneMore
    <2>3. Cardinality(placed) \in Nat /\ Cardinality(Live') \in Nat
      BY <2>1, RowsAreFinite, FS_CardinalityType DEF CallbackInv, CallsAreCounted
    <2> QED
      BY <1>1, <1>2, <2>1, <2>2, <2>3, LiveIsFinite, CallbackAssumption
         DEF CallbackInv, CallbackTypeOK, CallsAreCounted
  <1>8. PendingHasJob'
    BY <1>1, <1>2, <1>3 DEF CallbackInv, CallbackTypeOK, PendingHasJob
  <1> QED
    BY <1>4, <1>5, <1>6, <1>7, <1>8 DEF CallbackInv

LEMMA EnqueueSteps ==
    ASSUME CallbackInv, NEW r \in Records, Enqueue(r) \/ EnqueueFails(r)
    PROVE  CallbackInv'
  <1>1. /\ r \in unqueued /\ unqueued' = unqueued \ {r}
        /\ UNCHANGED <<record, asking, overlaps, cancelling, placed, busy>>
        /\ Saved' = Saved
    BY DEF Enqueue, EnqueueFails, Saved, toolVars
  <1>2. /\ job' \in [Records -> JobInfo]
        /\ job'[r].pc \in {"none", "queued"}
        /\ job'[r].try = job[r].try /\ job'[r].void = job[r].void
        /\ \A i \in Records \ {r} : job'[i] = job[i]
    BY <1>1, JobMoves
       DEF Enqueue, EnqueueFails, CallbackInv, CallbackTypeOK, JobStates, JobsHaveRows
  <1>3. job[r].pc = "none" /\ r \in Saved
    BY <1>1 DEF CallbackInv, JobsHaveRows, CallbackTypeOK
  <1>4. \/ Trouble /\ UNCHANGED toolVars
        \/ UNCHANGED troubles /\ job'[r].pc = "queued" /\ scheduled' = TRUE
    BY JobMoves DEF Enqueue, EnqueueFails, CallbackInv, JobStates
  <1>5. CallbackTypeOK'
    BY <1>1, <1>2, <1>4, TroubleType DEF CallbackInv, CallbackTypeOK, toolVars
  <1>6. JobsHaveRows'
    BY <1>1, <1>2, <1>3 DEF CallbackInv, CallbackTypeOK, JobsHaveRows, Running, Saved
  <1>7. VoidIsCancelled' /\ CancelledIsNotCalled'
    BY <1>1, <1>2, <1>3 DEF CallbackInv, CallbackTypeOK, VoidIsCancelled, CancelledIsNotCalled
  <1>8. CallsAreCounted'
    <2>1. Live' = Live /\ Left' \subseteq Left \cup {r}
      <3>1. Saved \subseteq Records
        BY DEF Saved
      <3>2. \A q \in Saved : q \in Live' <=> q \in Live
        BY <1>1, <1>2, <1>3, <3>1 DEF Live
      <3> QED
        BY <1>1, <3>2 DEF Live, Left
    <2>2. CASE Trouble /\ UNCHANGED toolVars
      <3>1. \E j \in Records : Live' \subseteq Live \cup {j} /\ Left' \subseteq Left \cup {j}
        BY <2>1
      <3> QED
        BY <1>1, <2>2, <3>1, CallsStayCounted DEF CallbackInv
    <2>3. CASE UNCHANGED troubles /\ scheduled' = TRUE
      BY <1>1, <2>1, <2>3 DEF CallbackInv, CallsAreCounted
    <2> QED
      BY <1>4, <2>2, <2>3
  <1>9. PendingHasJob'
    BY <1>1, <1>2, <1>4, CallbackAssumption
       DEF CallbackInv, CallbackTypeOK, PendingHasJob, Trouble
  <1> QED
    BY <1>5, <1>6, <1>7, <1>8, <1>9 DEF CallbackInv

\* The report of a busy signal changes nothing.
LEMMA BusyStep ==
    ASSUME CallbackInv, NEW call \in placed, BusySignal(call)
    PROVE  CallbackInv'
  <1>1. /\ UNCHANGED <<record, unqueued, job, asking, overlaps, scheduled, cancelling,
                       placed, troubles>>
        /\ busy' \subseteq placed
        /\ Saved' = Saved /\ Live' = Live /\ Left' = Left
    BY DEF BusySignal, toolVars, CallbackInv, CallbackTypeOK, Saved, Live, Left
  <1> QED
    BY <1>1 DEF CallbackInv, CallbackTypeOK, JobsHaveRows, VoidIsCancelled,
                CancelledIsNotCalled, CallsAreCounted, PendingHasJob, Running

LEMMA CancelSteps ==
    ASSUME CallbackInv, NEW r \in Records, CancelRead(r) \/ CancelWrite(r)
    PROVE  CallbackInv'
  <1>1. /\ UNCHANGED <<unqueued, job, toolVars, placed, busy, troubles>>
        /\ Saved' = Saved /\ cancelling' \subseteq Saved
        /\ record' \in [Records -> {"none", "pending", "completed", "failed", "cancelled"}]
        /\ \A q \in Records : record'[q] \in {record[q], "cancelled"}
    BY DEF CancelRead, CancelWrite, CallbackInv, CallbackTypeOK, Saved
  <1>2. CallbackTypeOK'
    BY <1>1 DEF CallbackInv, CallbackTypeOK, toolVars
  <1>3. JobsHaveRows' /\ VoidIsCancelled' /\ CancelledIsNotCalled'
    BY <1>1 DEF CallbackInv, CallbackTypeOK, JobsHaveRows, VoidIsCancelled, CancelledIsNotCalled,
                Running, Saved
  <1>4. CallsAreCounted' /\ PendingHasJob'
    BY <1>1, CallsStayCounted DEF CallbackInv, CallbackTypeOK, Live, Left, PendingHasJob
  <1> QED
    BY <1>2, <1>3, <1>4 DEF CallbackInv

\* A job goes on without a call; what its step does to the rows, it does to those
\* that are pending.
LEMMA JobGoesOn ==
    ASSUME CallbackInv, NEW j \in Records, NEW pc \in JobStates \ {"none"},
           job[j].pc \notin {"none", "done", "refused"}, JobAt(j, pc),
           UNCHANGED <<unqueued, toolVars, cancelling, placed, busy>>,
           Trouble \/ UNCHANGED troubles,
           \/ UNCHANGED record
           \/ \E s \in {"completed", "failed"} : Settle(s),
           pc \in {"check", "dial", "mark", "giveup"} => Running(j),
           pc = "check" => job[j].pc = "check",
           pc = "dial" => job[j].pc = "check" /\ ~job[j].void,
           job[j].pc \in {"mark", "giveup"}
              => pc \in {"mark", "giveup", "done", "refused"} \/ Trouble,
           pc = "done" => \/ Trouble
                          \/ \E q \in Records : record[q] = "cancelled"
                          \/ \E s \in {"completed", "failed"} : Settle(s)
    PROVE  CallbackInv'
  <1>1. /\ job' \in [Records -> JobInfo]
        /\ job'[j].pc = pc /\ job'[j].try = job[j].try /\ job'[j].void = job[j].void
        /\ \A i \in Records \ {j} : job'[i] = job[i]
    BY JobMoves DEF CallbackInv
  <1>2. /\ record' \in [Records -> {"none", "pending", "completed", "failed", "cancelled"}]
        /\ \A r \in Records : record[r] # "pending" => record'[r] = record[r]
        /\ \A r \in Records : record'[r] = "none" <=> record[r] = "none"
        /\ \A r \in Records : record'[r] = "pending" => record[r] = "pending"
        /\ Saved' = Saved
    BY DEF Settle, CallbackInv, CallbackTypeOK, Saved
  <1>3. CallbackTypeOK'
    BY <1>1, <1>2, TroubleType DEF CallbackInv, CallbackTypeOK, toolVars
  <1>4. JobsHaveRows'
    BY <1>1, <1>2 DEF CallbackInv, CallbackTypeOK, JobsHaveRows, Running, Saved
  <1>5. VoidIsCancelled' /\ CancelledIsNotCalled'
    BY <1>1, <1>2 DEF CallbackInv, CallbackTypeOK, VoidIsCancelled, CancelledIsNotCalled, Saved
  <1>6. CallsAreCounted'
    <2>1. Live' \subseteq Live \cup {j} /\ Left' \subseteq Left \cup {j}
      <3>1. \A q \in Saved \ {j} : q \in Live' => q \in Live
        BY <1>1, <1>2 DEF Live, Saved
      <3> QED
        BY <1>2, <3>1 DEF Live, Left, toolVars
    <2>2. j \notin Live => j \notin Live' \/ Trouble
      BY <1>1, <1>2 DEF Live
    <2>3. j \notin unqueued
      BY DEF CallbackInv, JobsHaveRows
    <2>4. \/ Live' \subseteq Live /\ Left' \subseteq Left
          \/ Trouble
      BY <2>1, <2>2, <2>3 DEF Left
    <2> QED
      BY <2>1, <2>4, CallsStayCounted DEF CallbackInv
  <1>7. PendingHasJob'
    <2> SUFFICES ASSUME troubles' = CallbackFaults, NEW r \in Records, record'[r] = "pending"
                 PROVE  \/ r \in unqueued'
                        \/ job'[r].pc \notin {"none", "done"}
                        \/ \E q \in Records : record'[q] = "cancelled"
      BY DEF PendingHasJob
    <2>1. ~Trouble /\ troubles = CallbackFaults
      BY CallbackAssumption DEF Trouble, CallbackInv, CallbackTypeOK
    <2>2. \/ r \in unqueued
          \/ job[r].pc \notin {"none", "done"}
          \/ \E q \in Records : record[q] = "cancelled"
      BY <2>1, <1>2 DEF PendingHasJob, CallbackInv
    <2>3. \A s \in {"completed", "failed"} : ~Settle(s)
      BY DEF Settle
    <2> QED
      BY <2>1, <2>2, <2>3, <1>1, <1>2
  <1> QED
    BY <1>3, <1>4, <1>5, <1>6, <1>7 DEF CallbackInv

LEMMA RunSteps ==
    ASSUME CallbackInv, NEW j \in Records, RunJob(j)
    PROVE  CallbackInv'
  <1>1. /\ job[j].pc = "queued"
        /\ UNCHANGED <<record, unqueued, toolVars, cancelling, placed, busy, troubles>>
        /\ Saved' = Saved
    BY DEF RunJob, Saved
  <1>2. /\ job' \in [Records -> JobInfo]
        /\ job'[j].pc \in {"check", "refused"}
        /\ job'[j].pc = "check" =>
              /\ job'[j].try > 0
              /\ job'[j].void => \A r \in Saved : record[r] = "cancelled"
        /\ \A i \in Records \ {j} : job'[i] = job[i]
    BY CallbackAssumption DEF RunJob, CallbackInv, CallbackTypeOK, JobInfo, JobStates
  <1>3. CallbackTypeOK'
    BY <1>1, <1>2 DEF CallbackInv, CallbackTypeOK, toolVars
  <1>4. JobsHaveRows'
    BY <1>1, <1>2 DEF CallbackInv, CallbackTypeOK, JobsHaveRows, Running, Saved
  <1>6. VoidIsCancelled' /\ CancelledIsNotCalled'
    BY <1>1, <1>2 DEF CallbackInv, CallbackTypeOK, VoidIsCancelled, CancelledIsNotCalled
  <1>5. CallsAreCounted'
    <2>1. \A q \in Saved : q \in Live' => q \in Live
      BY <1>1, <1>2 DEF Live, Saved
    <2>2. Live' \subseteq Live /\ Left' \subseteq Left
      BY <1>1, <2>1 DEF Live, Left
    <2> QED
      BY <1>1, <2>2, CallsStayCounted DEF CallbackInv
  <1>7. PendingHasJob'
    BY <1>1, <1>2 DEF CallbackInv, CallbackTypeOK, PendingHasJob
  <1> QED
    BY <1>3, <1>4, <1>5, <1>6, <1>7 DEF CallbackInv

LEMMA CallSteps ==
    ASSUME CallbackInv, NEW j \in Records, PlaceCall(j)
    PROVE  CallbackInv'
  <1> DEFINE call == <<j, job[j].try, job[j].void>>
  <1>1. /\ job[j].pc = "dial" /\ placed' = placed \cup {call}
        /\ UNCHANGED <<record, unqueued, toolVars, cancelling, busy>>
        /\ Saved' = Saved
    BY DEF PlaceCall, Saved
  <1>2. PICK pc \in {"mark", "queued", "giveup"} :
          JobAt(j, pc) /\ ((pc = "mark" /\ UNCHANGED troubles) \/ Trouble)
    BY DEF PlaceCall, Raise
  <1>3. /\ job' \in [Records -> JobInfo]
        /\ job'[j].pc = pc /\ job'[j].try = job[j].try /\ job'[j].void = job[j].void
        /\ \A i \in Records \ {j} : job'[i] = job[i]
    BY <1>2, JobMoves DEF CallbackInv, JobStates
  <1>4. ~job[j].void /\ job[j].try \in 1..ArqTries
    BY <1>1, CallbackAssumption
       DEF CallbackInv, VoidIsCancelled, JobsHaveRows, Running, CallbackTypeOK, JobInfo
  <1>5. CallbackTypeOK'
    BY <1>1, <1>2, <1>3, <1>4, TroubleType
       DEF CallbackInv, CallbackTypeOK, JobInfo, toolVars
  <1>6. JobsHaveRows' /\ VoidIsCancelled'
    BY <1>1, <1>2, <1>3, <1>4
       DEF CallbackInv, CallbackTypeOK, JobsHaveRows, VoidIsCancelled, Running, Saved
  <1>9. CancelledIsNotCalled'
    <2>1. ~call[3]
      BY <1>4
    <2> QED
      BY <1>1, <2>1 DEF CallbackInv, CancelledIsNotCalled
  <1>7. CallsAreCounted'
    <2>1. IsFiniteSet(placed') /\ Cardinality(placed') <= Cardinality(placed) + 1
          /\ Cardinality(placed') \in Nat /\ Cardinality(placed) \in Nat
      BY <1>1, OneMore DEF CallbackInv, CallsAreCounted
    <2>2. /\ j \in Live /\ j \in Left
          /\ Live' \subseteq Live /\ Left' \subseteq Left
          /\ pc = "mark" => Live' \subseteq Live \ {j} /\ Left' \subseteq Left \ {j}
      BY <1>1, <1>3 DEF Live, Left, Saved, CallbackInv, JobsHaveRows
    <2>3. Cardinality(Live') \in Nat /\ Cardinality(Left') \in Nat
      BY RowsAreFinite DEF Live, Left, Saved
    <2>4. CASE pc = "mark" /\ UNCHANGED troubles
      <3>1. /\ Cardinality(Live \ {j}) = Cardinality(Live) - 1
            /\ Cardinality(Left \ {j}) = Cardinality(Left) - 1
        BY <2>2, LiveIsFinite, FS_RemoveElement
      <3>2. /\ Cardinality(Live') <= Cardinality(Live \ {j})
            /\ Cardinality(Left') <= Cardinality(Left \ {j})
        <4>1. IsFiniteSet(Live \ {j}) /\ IsFiniteSet(Left \ {j})
          BY LiveIsFinite, FS_Subset
        <4> QED
          BY <2>2, <2>4, <4>1, FS_Subset
      <3> QED
        BY <1>1, <2>1, <2>3, <2>4, <3>1, <3>2, LiveIsFinite, CallbackAssumption
           DEF CallbackInv, CallsAreCounted, CallbackTypeOK, toolVars
    <2>5. CASE Trouble
      <3>1. /\ Cardinality(Live') <= Cardinality(Live)
            /\ Cardinality(Left') <= Cardinality(Left)
            /\ troubles' = troubles - 1
        BY <2>2, <2>5, LiveIsFinite, FS_Subset DEF Trouble
      <3> QED
        BY <1>1, <2>1, <2>3, <3>1, LiveIsFinite, CallbackAssumption
           DEF CallbackInv, CallsAreCounted, CallbackTypeOK, toolVars
    <2> QED
      BY <1>2, <2>4, <2>5
  <1>8. PendingHasJob'
    BY <1>1, <1>2, <1>3, CallbackAssumption
       DEF CallbackInv, CallbackTypeOK, PendingHasJob, Trouble
  <1> QED
    BY <1>5, <1>6, <1>9, <1>7, <1>8 DEF CallbackInv

LEMMA JobSteps ==
    ASSUME CallbackInv, NEW j \in Records,
           Check(j) \/ Refuse(j) \/ PlaceFails(j) \/ Mark(j) \/ GiveUpJob(j) \/ Die(j)
    PROVE  CallbackInv'
  <1> USE DEF JobStates, Running
  <1>1. CASE Check(j)
    <2>1. PICK first \in Saved : JobAt(j, IF Cancelled(first) THEN "done" ELSE "dial")
      BY <1>1 DEF Check
    <2>2. CASE Cancelled(first)
      <3>1. \E q \in Records : record[q] = "cancelled"
        BY <2>2 DEF Cancelled, Saved
      <3> QED
        BY <1>1, <2>1, <2>2, <3>1, JobGoesOn DEF Check
    <2>3. CASE ~Cancelled(first)
      <3>1. ~job[j].void
        BY <1>1, <2>3 DEF Check, Cancelled, CallbackInv, VoidIsCancelled, CallbackTypeOK, JobInfo
      <3> QED
        BY <1>1, <2>1, <2>3, <3>1, JobGoesOn DEF Check
    <2> QED
      BY <2>2, <2>3
  <1>2. CASE Refuse(j)
    BY <1>2, JobGoesOn DEF Refuse
  <1>3. CASE PlaceFails(j)
    BY <1>3, JobGoesOn DEF PlaceFails, Raise
  <1>4. CASE Mark(j)
    BY <1>4, JobGoesOn DEF Mark
  <1>5. CASE GiveUpJob(j)
    BY <1>5, JobGoesOn DEF GiveUpJob
  <1>6. CASE Die(j)
    BY <1>6, JobGoesOn DEF Die
  <1> QED
    BY <1>1, <1>2, <1>3, <1>4, <1>5, <1>6

THEOREM CallbackInvariant == CallbackSpec => []CallbackInv
  <1>1. CallbackInv /\ [CallbackNext]_callbackVars => CallbackInv'
    <2> SUFFICES ASSUME CallbackInv, [CallbackNext]_callbackVars PROVE CallbackInv'
      OBVIOUS
    <2>1. CASE UNCHANGED callbackVars
      BY <2>1 DEF callbackVars, CallbackInv, CallbackTypeOK, JobsHaveRows, VoidIsCancelled,
                  CancelledIsNotCalled, CallsAreCounted, PendingHasJob, Saved, Live, Left,
                  Running
    <2>2. CASE CallbackNext
      BY <2>2, AskStep, SaveStep, EnqueueSteps, BusyStep, CancelSteps, RunSteps,
         CallSteps, JobSteps DEF CallbackNext
    <2> QED
      BY <2>1, <2>2
  <1> QED
    BY <1>1, CallbackInvInit, PTL DEF CallbackSpec

\* cancel_callback: an attempt that begins after every row of the run has been
\* cancelled places no call, however many rows, jobs and retries there are.
THEOREM CancelledIsNotCalledHolds == CallbackSpec => []CancelledIsNotCalled
  <1>1. CallbackInv => CancelledIsNotCalled
    BY DEF CallbackInv
  <1> QED
    BY <1>1, CallbackInvariant, PTL

\* schedule_callback and execute_callback: the contact is called once, and once more
\* at most for every fault and every call of the tool that began before another had
\* ended; for any number of rows, attempts and reports of a busy signal.
THEOREM CallsAreBoundedHolds == CallbackSpec => []CallsAreBounded
  <1>1. CallbackInv => CallsAreBounded
    <2> SUFFICES ASSUME CallbackInv PROVE CallsAreBounded
      OBVIOUS
    <2>1. Cardinality(placed) \in Nat
      BY FS_CardinalityType DEF CallbackInv, CallsAreCounted
    <2> QED
      BY <2>1, LiveIsFinite, CallbackAssumption
         DEF CallbackInv, CallsAreCounted, CallsAreBounded, CallbackTypeOK
  <1> QED
    BY <1>1, CallbackInvariant, PTL

\* execute_callback: as long as nothing goes wrong no pending row is forgotten,
\* unless a cancelled row of its run was taken for it.
THEOREM PendingHasJobHolds == CallbackSpec => []PendingHasJob
  <1>1. CallbackInv => PendingHasJob
    BY DEF CallbackInv
  <1> QED
    BY <1>1, CallbackInvariant, PTL
=============================================================================

------------------------------ MODULE TurnLog ------------------------------
(***************************************************************************)
(* What a text chat promises its two sides: a log of turns.  A turn is     *)
(* opened once, settled at most once and never forgotten; turns may be set *)
(* aside for good; and once the chat has ended no turn is opened.          *)
(***************************************************************************)
CONSTANT Turns

VARIABLES
    turn,       \* what has become of each turn
    aside,      \* the turns on branches the user went back from
    ended       \* whether the chat has ended

vars == <<turn, aside, ended>>

Init ==
    /\ turn = [t \in Turns |-> "none"]
    /\ aside = {}
    /\ ended = FALSE

Open(t) ==
    /\ ~ended /\ turn[t] = "none"
    /\ turn' = [turn EXCEPT ![t] = "pending"]
    /\ aside \subseteq aside'
    /\ \A u \in aside' : turn[u] # "none"
    /\ UNCHANGED ended

\* A turn that the assistant ends the chat with settles and ends at once.
Settle(t) ==
    /\ turn[t] = "pending"
    /\ \E s \in {"completed", "failed"} : turn' = [turn EXCEPT ![t] = s]
    /\ ended' \in {ended, TRUE}
    /\ UNCHANGED aside

End ==
    /\ ended' = TRUE
    /\ UNCHANGED <<turn, aside>>

Next == End \/ \E t \in Turns : Open(t) \/ Settle(t)

Spec == Init /\ [][Next]_vars
=============================================================================

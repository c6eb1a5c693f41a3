----------------------------- MODULE MCServices -----------------------------
(***************************************************************************)
(* Small instances of the four services that share no state with the rest  *)
(* of the system or with each other: the token cache, the callbacks, the   *)
(* transfers and the circuit breaker.  The initial state chooses the one   *)
(* that runs, and the others stand still.                                  *)
(***************************************************************************)
EXTENDS OAuthTokenCache, ScheduledCallback, CallTransfer, CircuitBreaker, TLC

VARIABLE scene      \* the service that runs

\* Every fetcher runs in a process of its own.
OwnWorker == [f \in Fetchers |-> f]

TokenSymmetry == Permutations(Fetchers) \cup Permutations(Invalidators)

ServicesInit ==
    /\ scene \in {"tokens", "callbacks", "transfers", "breaker"}
    /\ Init /\ CallbackInit /\ TransferInit /\ BreakerInit

TokensRun ==
    /\ scene = "tokens" /\ Next
    /\ UNCHANGED <<scene, callbackVars, transferVars, breakerVars>>

CallbacksRun ==
    /\ scene = "callbacks" /\ CallbackNext
    /\ UNCHANGED <<scene, tokenVars, transferVars, breakerVars>>

TransfersRun ==
    /\ scene = "transfers" /\ TransferNext
    /\ UNCHANGED <<scene, tokenVars, callbackVars, breakerVars>>

BreakerRuns ==
    /\ scene = "breaker" /\ BreakerNext
    /\ UNCHANGED <<scene, tokenVars, callbackVars, transferVars>>

ServicesNext == TokensRun \/ CallbacksRun \/ TransfersRun \/ BreakerRuns

ServicesSpec == ServicesInit /\ [][ServicesNext]_<<scene, tokenVars, callbackVars,
                                                   transferVars, breakerVars>>
-----------------------------------------------------------------------------
\* The type of the service that runs.
ServicesTypeOK ==
    /\ scene = "tokens" => TypeOK
    /\ scene = "callbacks" => CallbackTypeOK
    /\ scene = "transfers" => TransferTypeOK
    /\ scene = "breaker" => BreakerTypeOK
=============================================================================

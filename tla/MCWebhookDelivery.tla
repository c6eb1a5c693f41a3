------------------------- MODULE MCWebhookDelivery -------------------------
(* Small instances of WebhookDelivery for TLC. *)
EXTENDS WebhookDelivery, TLC

\* _backoff_seconds: min(base * 2^(attempt - 1), cap), with base 1 and cap 2.
BackoffSeconds ==
    [a \in 1..MaxAttempts |-> IF 2^(a - 1) <= 2 THEN 2^(a - 1) ELSE 2]

WorkerSymmetry == Permutations(Workers)
=============================================================================

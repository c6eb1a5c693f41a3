--------------------------- MODULE CallAdmission ---------------------------
(***************************************************************************)
(* What call_concurrency promises the routes, the dispatcher and the       *)
(* signaling server, without Redis, slots, mappings, clocks or coroutines: *)
(* a call of a run is admitted while its organization has fewer calls in   *)
(* progress than its limit, a run has one call at a time, and a call that  *)
(* ends makes room for another.                                            *)
(***************************************************************************)
EXTENDS Integers, FiniteSets

CONSTANTS Orgs, Runs, OrgLimits

VARIABLE calls      \* the calls in progress: pairs of a run and an organization

RunsOf(o) == {r \in Runs : <<r, o>> \in calls}

Init == calls = {}

Admit(r, o) ==
    /\ \A q \in Orgs : r \notin RunsOf(q)
    /\ \E l \in OrgLimits : Cardinality(RunsOf(o)) < l
    /\ calls' = calls \cup {<<r, o>>}

End(r, o) ==
    /\ r \in RunsOf(o)
    /\ calls' = calls \ {<<r, o>>}

Next == \E r \in Runs, o \in Orgs : Admit(r, o) \/ End(r, o)

Spec == Init /\ [][Next]_calls
=============================================================================

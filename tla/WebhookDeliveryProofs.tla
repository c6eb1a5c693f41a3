----------------------- MODULE WebhookDeliveryProofs -----------------------
(***************************************************************************)
(* Proofs about WebhookDelivery, for every number of deliveries, workers,  *)
(* attempts and faults.  The type invariant needs nothing; that a delivery *)
(* has one sender and one outcome needs that an attempt is shorter than    *)
(* its lease.                                                              *)
(***************************************************************************)
EXTENDS WebhookDelivery, TLAPS

-----------------------------------------------------------------------------
(* Types, and the attempts a row has left.                                  *)

RowInv == TypeOK /\ AttemptsLeft /\ JobsHaveRows

\* The empty table.
LEMMA InitRow == Init => RowInv
<1> SUFFICES ASSUME Init PROVE RowInv
    OBVIOUS
<1> USE ConstantsAssumption
<1>1. row \in [Deliveries -> RowInfo]
    BY DEF Init, RowInfo
<1>2. worker \in [Workers -> WorkerInfo]
    BY DEF Init, WorkerInfo, IdleWorker, Verdicts
<1>3. TypeOK
    BY <1>1, <1>2 DEF Init, TypeOK, IdleWorker
<1>4. AttemptsLeft /\ JobsHaveRows
    BY DEF Init, AttemptsLeft, JobsHaveRows, IdleWorker
<1> QED
    BY <1>3, <1>4 DEF RowInv

\* A worker without a job.
LEMMA IdleWorkerType == IdleWorker \in WorkerInfo
BY ConstantsAssumption DEF IdleWorker, WorkerInfo, Verdicts

\* The job ids ARQ stores name deliveries.
LEMMA JobIdTypes ==
    ASSUME NEW d \in Deliveries, NEW n \in Nat
    PROVE  AttemptJob(d, n) \in JobIds
BY DEF AttemptJob, JobIds

\* Writing to a row changes that row only.
LEMMA WrittenRow ==
    ASSUME NEW d \in Deliveries, TypeOK,
           NEW s \in {"pending", "succeeded", "dead_letter"},
           NEW n \in 0..MaxAttempts, NEW t \in Nat
    PROVE  /\ Written(d, s, n, t) \in [Deliveries -> RowInfo]
           /\ \A e \in Deliveries : e # d => Written(d, s, n, t)[e] = row[e]
           /\ Written(d, s, n, t)[d].status = s
           /\ Written(d, s, n, t)[d].attempts = n
           /\ Written(d, s, n, t)[d].due = t
<1>1. row[d].enqueued \in BOOLEAN /\ row[d].gen \in Nat
    BY DEF TypeOK, RowInfo
<1>2. [status |-> s, enqueued |-> row[d].enqueued, attempts |-> n, due |-> t,
       gen |-> row[d].gen + 1] \in RowInfo
    BY <1>1 DEF RowInfo
<1> QED
    BY <1>2 DEF Written, TypeOK

\* A claim leases its row and changes nothing else of it.
LEMMA LeasedRow ==
    ASSUME NEW d \in Deliveries, TypeOK
    PROVE  LET leased == Written(d, "pending", row[d].attempts, Lease)
           IN  /\ leased \in [Deliveries -> RowInfo]
               /\ \A e \in Deliveries : e # d => leased[e] = row[e]
               /\ leased[d].status = "pending" /\ leased[d].attempts = row[d].attempts
               /\ leased[d].due = Lease
<1>1. row[d].attempts \in 0..MaxAttempts
    BY DEF TypeOK, RowInfo
<1>2. Lease \in Nat
    BY ConstantsAssumption
<1> QED
    BY <1>1, <1>2, WrittenRow

\* Every step keeps the types, the attempts left and the rows of the jobs.
LEMMA RowStep == RowInv /\ [Next]_vars => RowInv'
<1> SUFFICES ASSUME RowInv, [Next]_vars PROVE RowInv'
    OBVIOUS
<1> USE ConstantsAssumption, IdleWorkerType DEF RowInv
<1>1. ASSUME NEW d \in Deliveries, Create(d) PROVE RowInv'
    <2>1. TypeOK'
        BY <1>1 DEF Create, TypeOK, RowInfo
    <2>2. AttemptsLeft' /\ JobsHaveRows'
        BY <1>1 DEF Create, TypeOK, AttemptsLeft, JobsHaveRows, Delivery, JobIds, RowInfo
    <2> QED
        BY <2>1, <2>2
<1>2. ASSUME NEW d \in Deliveries, EnqueueFirst(d) PROVE RowInv'
    <2>1. AttemptJob(d, 0) \in JobIds /\ AttemptJob(d, 0).delivery = d
        BY DEF AttemptJob, JobIds
    <2>2. TypeOK'
        BY <1>2, <2>1 DEF EnqueueFirst, AddJob, TypeOK, RowInfo
    <2>3. AttemptsLeft' /\ JobsHaveRows'
        BY <1>2, <2>1 DEF EnqueueFirst, AddJob, TypeOK, AttemptsLeft, JobsHaveRows, Delivery,
                          JobIds, RowInfo
    <2> QED
        BY <2>2, <2>3
<1>3. ASSUME NEW d \in Deliveries, Sweep(d) PROVE RowInv'
    <2>1. ReclaimJob(d) \in JobIds /\ ReclaimJob(d).delivery = d
        BY DEF ReclaimJob, JobIds, TypeOK, RowInfo
    <2>2. TypeOK'
        BY <1>3, <2>1 DEF Sweep, AddJob, TypeOK
    <2>3. AttemptsLeft' /\ JobsHaveRows'
        BY <1>3, <2>1 DEF Sweep, AddJob, Overdue, AttemptsLeft, JobsHaveRows, Delivery
    <2> QED
        BY <2>2, <2>3
<1>4. ASSUME NEW d \in Deliveries, FirstJobLost(d) PROVE RowInv'
    <2>1. faults' \in 0..MaxFaults
        BY <1>4 DEF FirstJobLost, Fault, TypeOK
    <2>4. row' \in [Deliveries -> RowInfo]
        BY <1>4 DEF FirstJobLost, TypeOK, RowInfo
    <2>3. TypeOK'
        BY <1>4, <2>1, <2>4 DEF FirstJobLost, TypeOK
    <2>2. AttemptsLeft' /\ JobsHaveRows'
        BY <1>4 DEF FirstJobLost, TypeOK, AttemptsLeft, JobsHaveRows, Delivery, JobIds, RowInfo
    <2> QED
        BY <2>2, <2>3
<1>5. ASSUME NEW w \in Workers, NEW j \in DOMAIN jobs, Claim(w, j) PROVE RowInv'
    <2>1. j \in JobIds /\ j.delivery \in Deliveries
        BY DEF TypeOK, JobIds
    <2>2. row[j.delivery].attempts + 1 \in 1..MaxAttempts
        BY <1>5, <2>1 DEF Claim, Claimable, AttemptsLeft, TypeOK, RowInfo
    <2>3. /\ row' = Written(j.delivery, "pending", row[j.delivery].attempts, Lease)
          /\ row[j.delivery].attempts \in 0..MaxAttempts
        BY <1>5, <2>1 DEF Claim, TypeOK, RowInfo
    <2>4. /\ row' \in [Deliveries -> RowInfo]
          /\ \A d \in Deliveries : d # j.delivery => row'[d] = row[d]
          /\ row'[j.delivery].status = "pending"
          /\ row'[j.delivery].attempts = row[j.delivery].attempts
        BY <2>1, <2>3, LeasedRow
    <2>5. /\ worker' \in [Workers -> WorkerInfo]
          /\ \A v \in Workers : v # w => worker'[v] = worker[v]
          /\ worker'[w] = [pc |-> "send", job |-> j, attempt |-> row[j.delivery].attempts + 1,
                           age |-> 0, verdict |-> "none"]
        BY <1>5, <2>1, <2>2 DEF Claim, TypeOK, WorkerInfo, Verdicts
    <2>6. TypeOK'
        BY <1>5, <2>1, <2>4, <2>5 DEF Claim, TypeOK
    <2>7. AttemptsLeft'
        <3>1. row[j.delivery].attempts < MaxAttempts
            BY <1>5, <2>1 DEF Claim, Claimable, AttemptsLeft
        <3>2. \A d \in Deliveries :
                 row'[d].status \in {"none", "pending"} => row'[d].attempts < MaxAttempts
            BY <2>1, <2>4, <3>1 DEF AttemptsLeft
        <3>3. worker'[w].attempt >= 1 /\ worker'[w].verdict # "retry"
            BY <2>2, <2>5
        <3> QED
            BY <2>5, <3>2, <3>3 DEF AttemptsLeft
    <2>8. JobsHaveRows'
        BY <1>5, <2>1, <2>4, <2>5 DEF Claim, TypeOK, JobsHaveRows, Delivery, JobIds
    <2> QED
        BY <2>6, <2>7, <2>8
<1>6. ASSUME NEW w \in Workers, NEW j \in DOMAIN jobs, ClaimNothing(w, j) PROVE RowInv'
    <2>1. TypeOK'
        BY <1>6 DEF ClaimNothing, FinishJob, TypeOK
    <2>2. AttemptsLeft' /\ JobsHaveRows'
        BY <1>6 DEF ClaimNothing, FinishJob, AttemptsLeft, JobsHaveRows, Delivery
    <2> QED
        BY <2>1, <2>2
<1>7. ASSUME NEW j \in DOMAIN jobs, ClaimFails(j) PROVE RowInv'
    <2>1. TypeOK'
        BY <1>7 DEF ClaimFails, FinishJob, Fault, TypeOK
    <2>2. AttemptsLeft' /\ JobsHaveRows'
        <3>1. AttemptsLeft'
            BY <1>7 DEF ClaimFails, AttemptsLeft
        <3>2. DOMAIN jobs' \subseteq DOMAIN jobs /\ UNCHANGED <<row, worker>>
            BY <1>7 DEF ClaimFails, FinishJob
        <3>3. JobsHaveRows'
            BY <3>2 DEF JobsHaveRows, Delivery
        <3> QED
            BY <3>1, <3>3
    <2> QED
        BY <2>1, <2>2
<1>8. ASSUME NEW w \in Workers, Accepted(w) PROVE RowInv'
    <2>1. TypeOK'
        <3>1. Delivery(w) \in Deliveries
            BY <1>8 DEF Accepted, TypeOK, WorkerInfo, Delivery, JobIds
        <3>2. worker' \in [Workers -> WorkerInfo]
            BY <1>8 DEF Accepted, Conclude, TypeOK, WorkerInfo, Verdicts
        <3>3. \A v \in Workers : worker'[v].pc # "idle" => worker'[v].job \in JobIds
            BY <1>8 DEF Accepted, Conclude, TypeOK, WorkerInfo
        <3> QED
            BY <1>8, <3>1, <3>2, <3>3 DEF Accepted, TypeOK
    <2>2. AttemptsLeft' /\ JobsHaveRows'
        BY <1>8 DEF Accepted, Conclude, TypeOK, WorkerInfo, AttemptsLeft, JobsHaveRows, Delivery
    <2> QED
        BY <2>1, <2>2
<1>9. ASSUME NEW w \in Workers, FailedTransiently(w) PROVE RowInv'
    <2>1. /\ AfterTransient(w) \in {"retry", "dead_letter"}
          /\ AfterTransient(w) = "retry" => worker[w].attempt < MaxAttempts
        BY DEF AfterTransient, TypeOK, WorkerInfo
    <2>2. TypeOK'
        BY <1>9, <2>1 DEF FailedTransiently, Conclude, TypeOK, WorkerInfo, Verdicts
    <2>3. AttemptsLeft' /\ JobsHaveRows'
        BY <1>9, <2>1 DEF FailedTransiently, Conclude, TypeOK, WorkerInfo, AttemptsLeft,
                          JobsHaveRows, Delivery
    <2> QED
        BY <2>2, <2>3
<1>10. ASSUME NEW w \in Workers, Unauthorized(w) PROVE RowInv'
    <2>1. TypeOK'
        BY <1>10 DEF Unauthorized, TypeOK, WorkerInfo
    <2>2. AttemptsLeft' /\ JobsHaveRows'
        BY <1>10 DEF Unauthorized, TypeOK, WorkerInfo, AttemptsLeft, JobsHaveRows, Delivery
    <2> QED
        BY <2>1, <2>2
<1>11. ASSUME NEW w \in Workers, FailedForGood(w) PROVE RowInv'
    <2>1. TypeOK'
        BY <1>11 DEF FailedForGood, Conclude, TypeOK, WorkerInfo, Verdicts
    <2>2. AttemptsLeft' /\ JobsHaveRows'
        BY <1>11 DEF FailedForGood, Conclude, TypeOK, WorkerInfo, AttemptsLeft, JobsHaveRows,
                     Delivery
    <2> QED
        BY <2>1, <2>2
<1>12. ASSUME NEW w \in Workers, RecordOutcome(w) PROVE RowInv'
    <2>1. Delivery(w) \in Deliveries
        BY <1>12 DEF RecordOutcome, Delivery, TypeOK, JobIds
    <2>2. /\ worker[w].verdict \in {"succeeded", "dead_letter"}
          /\ worker[w].attempt \in 0..MaxAttempts
          /\ row' = Written(Delivery(w), worker[w].verdict, worker[w].attempt, 0)
        BY <1>12 DEF RecordOutcome, TypeOK, WorkerInfo
    <2>3. row' \in [Deliveries -> RowInfo]
        BY <2>1, <2>2, WrittenRow
    <2>4. /\ \A d \in Deliveries : d # Delivery(w) => row'[d] = row[d]
          /\ row'[Delivery(w)].status = worker[w].verdict
        BY <2>1, <2>2, WrittenRow, SMTT(30)
    <2>5. TypeOK'
        BY <1>12, <2>3 DEF RecordOutcome, FinishJob, TypeOK, IdleWorker
    <2>6. AttemptsLeft'
        BY <1>12, <2>2, <2>4 DEF RecordOutcome, AttemptsLeft, IdleWorker, TypeOK
    <2>7. JobsHaveRows'
        BY <1>12, <2>2, <2>4 DEF RecordOutcome, FinishJob, JobsHaveRows, IdleWorker, TypeOK, JobIds,
                           Delivery
    <2> QED
        BY <2>5, <2>6, <2>7
<1>13. ASSUME NEW w \in Workers, RecordRetry(w) PROVE RowInv'
    <2>1. /\ Delivery(w) \in Deliveries
          /\ worker[w].attempt \in 1..MaxAttempts /\ worker[w].attempt < MaxAttempts
          /\ Backoff[worker[w].attempt] \in Nat
        BY <1>13 DEF RecordRetry, Delivery, TypeOK, JobIds, AttemptsLeft, WorkerInfo
    <2>2. /\ worker[w].attempt \in 0..MaxAttempts
          /\ row' = Written(Delivery(w), "pending", worker[w].attempt,
                            Backoff[worker[w].attempt])
        BY <1>13 DEF RecordRetry, TypeOK, WorkerInfo
    <2>3. row' \in [Deliveries -> RowInfo]
        BY <2>1, <2>2, WrittenRow
    <2>4. /\ \A d \in Deliveries : d # Delivery(w) => row'[d] = row[d]
          /\ row'[Delivery(w)].status = "pending"
          /\ row'[Delivery(w)].attempts = worker[w].attempt
        BY <2>1, <2>2, WrittenRow
    <2>5. /\ worker' \in [Workers -> WorkerInfo]
          /\ \A v \in Workers : v # w => worker'[v] = worker[v]
          /\ worker'[w] = [worker[w] EXCEPT !.pc = "enqueue"]
          /\ worker'[w].job = worker[w].job
        BY <1>13 DEF RecordRetry, TypeOK, WorkerInfo
    <2>6. TypeOK'
        BY <1>13, <2>3, <2>5 DEF RecordRetry, TypeOK, WorkerInfo
    <2>7. AttemptsLeft'
        BY <1>13, <2>1, <2>4, <2>5 DEF RecordRetry, AttemptsLeft, TypeOK, WorkerInfo
    <2>8. JobsHaveRows'
        BY <1>13, <2>1, <2>4, <2>5 DEF RecordRetry, JobsHaveRows, TypeOK, JobIds, Delivery
    <2> QED
        BY <2>6, <2>7, <2>8
<1>14. ASSUME NEW w \in Workers, EnqueueRetry(w) PROVE RowInv'
    <2>1. /\ Delivery(w) \in Deliveries
          /\ worker[w].attempt \in 1..MaxAttempts
          /\ Backoff[worker[w].attempt] \in Nat
          /\ row[Delivery(w)].status # "none"
        BY <1>14 DEF EnqueueRetry, Delivery, TypeOK, JobIds, AttemptsLeft, WorkerInfo, JobsHaveRows
    <2>2. /\ AttemptJob(Delivery(w), worker[w].attempt) \in JobIds
          /\ AttemptJob(Delivery(w), worker[w].attempt).delivery = Delivery(w)
        BY <2>1 DEF AttemptJob, JobIds
    <2>3. PICK new \in SUBSET {AttemptJob(Delivery(w), worker[w].attempt)} :
             jobs' = [i \in (DOMAIN jobs \ {worker[w].job}) \cup new |->
                        IF i \in new THEN Backoff[worker[w].attempt] ELSE jobs[i]]
        BY <1>14 DEF EnqueueRetry
    <2>4. TypeOK'
        BY <1>14, <2>1, <2>2, <2>3 DEF EnqueueRetry, TypeOK, IdleWorker
    <2>5. AttemptsLeft' /\ JobsHaveRows'
        BY <1>14, <2>1, <2>2, <2>3 DEF EnqueueRetry, TypeOK, AttemptsLeft, JobsHaveRows,
                                       Delivery, IdleWorker
    <2> QED
        BY <2>4, <2>5
<1>15. ASSUME NEW w \in Workers, Crash(w) PROVE RowInv'
    <2>1. TypeOK'
        BY <1>15 DEF Crash, Fault, TypeOK, IdleWorker
    <2>2. AttemptsLeft' /\ JobsHaveRows'
        BY <1>15 DEF Crash, TypeOK, IdleWorker, AttemptsLeft, JobsHaveRows, Delivery
    <2> QED
        BY <2>1, <2>2
<1>16. ASSUME NEW w \in Workers, JobFails(w) PROVE RowInv'
    <2>1. TypeOK'
        BY <1>16 DEF JobFails, FinishJob, Fault, TypeOK, IdleWorker
    <2>2. AttemptsLeft' /\ JobsHaveRows'
        BY <1>16 DEF JobFails, FinishJob, TypeOK, IdleWorker, AttemptsLeft, JobsHaveRows, Delivery
    <2> QED
        BY <2>1, <2>2
<1>17. ASSUME Flush PROVE RowInv'
    <2>1. TypeOK'
        BY <1>17 DEF Flush, Fault, TypeOK
    <2>2. AttemptsLeft' /\ JobsHaveRows'
        BY <1>17 DEF Flush, AttemptsLeft, JobsHaveRows, Delivery
    <2> QED
        BY <2>1, <2>2
<1>18. ASSUME Tick PROVE RowInv'
    <2>1. \A n \in Nat : Less(n) \in Nat
        BY DEF Less
    <2>2. \A d \in Deliveries : [row[d] EXCEPT !.due = Less(@)] \in RowInfo
        BY <2>1 DEF TypeOK, RowInfo
    <2>3. \A d \in Deliveries :
             row'[d].status = row[d].status /\ row'[d].attempts = row[d].attempts
        BY <1>18 DEF Tick, TypeOK, RowInfo
    <2>4. \A w \in Workers : [worker[w] EXCEPT !.age = @ + 1] \in WorkerInfo
        BY DEF TypeOK, WorkerInfo
    <2>5. worker' \in [Workers -> WorkerInfo]
        BY <1>18, <2>4 DEF Tick, TypeOK
    <2>6. \A w \in Workers :
             /\ worker'[w].pc = worker[w].pc /\ worker'[w].job = worker[w].job
             /\ worker'[w].attempt = worker[w].attempt
             /\ worker'[w].verdict = worker[w].verdict
        BY <1>18 DEF Tick, TypeOK, WorkerInfo
    <2>7. row' \in [Deliveries -> RowInfo]
        BY <1>18, <2>2 DEF Tick
    <2>8. TypeOK'
        BY <1>18, <2>1, <2>5, <2>6, <2>7 DEF Tick, ForgetResults, TypeOK
    <2>9. AttemptsLeft'
        BY <2>3, <2>6 DEF AttemptsLeft
    <2>10. JobsHaveRows'
        BY <1>18, <2>3, <2>6 DEF Tick, TypeOK, JobsHaveRows, Delivery, JobIds
    <2> QED
        BY <2>8, <2>9, <2>10
<1>19. CASE UNCHANGED vars
    BY <1>19 DEF vars, TypeOK, AttemptsLeft, JobsHaveRows, Delivery
<1> QED
    BY <1>1, <1>2, <1>3, <1>4, <1>5, <1>6, <1>7, <1>8, <1>9, <1>10, <1>11, <1>12, <1>13,
       <1>14, <1>15, <1>16, <1>17, <1>18, <1>19 DEF Next, StartJob, Attempt

\* The table, the queue and the workers only ever hold what they should, and no
\* delivery is attempted more often than max_attempts allows.
THEOREM RowInvariant == Spec => []RowInv
<1> QED
    BY InitRow, RowStep, PTL DEF Spec

\* The table, the queue and the workers hold what they are declared to hold; in
\* particular attempt_count never passes max_attempts.
THEOREM TypeCorrect == Spec => []TypeOK
<1>1. RowInv => TypeOK
    BY DEF RowInv
<1> QED
    BY <1>1, RowInvariant, PTL
-----------------------------------------------------------------------------
(* One sender, one outcome.                                                 *)

\* What the lease protects.  A step that leaves the rows, and the busy workers'
\* jobs and ages, alone keeps it.
LeaseInv == LeaseHeld /\ ConcludedIsIdle /\ OneSender

\* Nobody works yet.
LEMMA InitLease == Init => LeaseInv
BY DEF Init, LeaseInv, LeaseHeld, ConcludedIsIdle, OneSender, Busy, IdleWorker

\* A step that writes neither status nor scheduled_for, and makes nobody busy, keeps
\* what the lease protects.
LEMMA QuietStep ==
    ASSUME LeaseInv,
           \A d \in Deliveries : row'[d].status = row[d].status /\ row'[d].due = row[d].due,
           \A w \in Workers : Busy(w)' =>
               Busy(w) /\ worker'[w].job = worker[w].job /\ worker'[w].age = worker[w].age,
           \A w \in Workers : Busy(w) => Delivery(w) \in Deliveries
    PROVE  LeaseInv'
<1>1. LeaseHeld'
    BY DEF LeaseInv, LeaseHeld, Delivery
<1>2. ConcludedIsIdle'
    BY DEF LeaseInv, ConcludedIsIdle
<1>3. OneSender'
    BY DEF LeaseInv, OneSender, Delivery
<1> QED
    BY <1>1, <1>2, <1>3 DEF LeaseInv

\* A lease that loses a tick while its attempt gains one is still covered.
LEMMA OneTickOlder ==
    ASSUME NEW x \in Nat, NEW y \in Nat, NEW a \in Nat,
           y + 1 >= x, x + a >= Lease, a < MaxSend
    PROVE  y + (a + 1) >= Lease /\ a + 1 <= MaxSend
<1>1. Lease \in Nat /\ MaxSend \in Nat
    BY ConstantsAssumption
<1> QED
    BY <1>1

\* The only writes to a row: a claim waits for the lease of the previous one to run
\* out, and an outcome is written by the one worker that holds the lease.
LEMMA LeaseStep ==
    ASSUME MaxSend < Lease, TypeOK, AttemptsLeft, LeaseInv, [Next]_vars
    PROVE  LeaseInv'
<1> USE ConstantsAssumption
<1>0. \A w \in Workers : Busy(w) => Delivery(w) \in Deliveries
    BY DEF Busy, Delivery, TypeOK, JobIds
<1>1. ASSUME NEW d \in Deliveries, Create(d) PROVE LeaseInv'
    <2>1. row[d].status = "none" /\ row'[d].status = "pending" /\ row'[d].due = row[d].due
        BY <1>1 DEF Create, TypeOK, RowInfo
    <2>2. \A e \in Deliveries : e # d => row'[e] = row[e]
        BY <1>1 DEF Create, TypeOK
    <2>3. UNCHANGED worker
        BY <1>1 DEF Create
    <2>4. LeaseHeld'
        BY <1>0, <2>1, <2>2, <2>3 DEF LeaseInv, LeaseHeld, Busy, Delivery
    <2>5. ConcludedIsIdle' /\ OneSender'
        BY <2>1, <2>2, <2>3 DEF LeaseInv, ConcludedIsIdle, OneSender, Busy, Delivery
    <2> QED
        BY <2>4, <2>5 DEF LeaseInv
<1>2. ASSUME NEW d \in Deliveries, EnqueueFirst(d) \/ FirstJobLost(d) PROVE LeaseInv'
    <2>3. row' = [row EXCEPT ![d].enqueued = TRUE]
        BY <1>2 DEF EnqueueFirst, FirstJobLost
    <2>1. \A e \in Deliveries : row'[e].status = row[e].status /\ row'[e].due = row[e].due
        BY <2>3 DEF TypeOK, RowInfo
    <2>2. UNCHANGED worker
        BY <1>2 DEF EnqueueFirst, FirstJobLost
    <2> QED
        BY <1>0, <2>1, <2>2, QuietStep DEF Busy
<1>3. ASSUME UNCHANGED <<row, worker>> PROVE LeaseInv'
    BY <1>0, <1>3, QuietStep DEF Busy
<1>4. ASSUME NEW w \in Workers, NEW j \in DOMAIN jobs, Claim(w, j) PROVE LeaseInv'
    <2>1. j.delivery \in Deliveries
        BY DEF TypeOK, JobIds
    <2>2. row[j.delivery].status = "pending" /\ row[j.delivery].due = 0 /\ worker[w].pc = "idle"
        BY <1>4 DEF Claim, Claimable
    <2>3. ASSUME NEW v \in Workers, Busy(v) PROVE Delivery(v) # j.delivery
        <3>1. worker[v].age \in Nat /\ worker[v].age <= MaxSend
            BY <2>3 DEF TypeOK, WorkerInfo, LeaseInv, LeaseHeld
        <3>2. row[Delivery(v)].due + worker[v].age >= Lease
            BY <2>3 DEF LeaseInv, LeaseHeld
        <3> QED
            BY <2>2, <3>1, <3>2
    <2>4. /\ row' = Written(j.delivery, "pending", row[j.delivery].attempts, Lease)
          /\ row[j.delivery].attempts \in 0..MaxAttempts
        BY <1>4, <2>1 DEF Claim, TypeOK, RowInfo
    <2>5. /\ \A d \in Deliveries : d # j.delivery => row'[d] = row[d]
          /\ row'[j.delivery].status = "pending" /\ row'[j.delivery].due = Lease
        BY <2>1, <2>4, LeasedRow
    <2>6. /\ \A v \in Workers : v # w => worker'[v] = worker[v]
          /\ worker'[w].job = j /\ worker'[w].age = 0
        BY <1>4 DEF Claim, TypeOK
    <2>7. LeaseHeld'
        BY <1>0, <2>1, <2>3, <2>5, <2>6 DEF LeaseInv, LeaseHeld, Busy, Delivery
    <2>8. ConcludedIsIdle'
        BY <2>1, <2>5 DEF LeaseInv, ConcludedIsIdle
    <2>9. OneSender'
        BY <2>3, <2>6 DEF LeaseInv, OneSender, Busy, Delivery
    <2> QED
        BY <2>7, <2>8, <2>9 DEF LeaseInv
<1>5. ASSUME NEW w \in Workers,
             Accepted(w) \/ FailedTransiently(w) \/ Unauthorized(w) \/ FailedForGood(w)
      PROVE  LeaseInv'
    <2>1. UNCHANGED row
        BY <1>5 DEF Accepted, FailedTransiently, Unauthorized, FailedForGood
    <2>2. Busy(w)
        BY <1>5 DEF Accepted, FailedTransiently, Unauthorized, FailedForGood, Busy
    <2>3. \A v \in Workers : Busy(v)' =>
              Busy(v) /\ worker'[v].job = worker[v].job /\ worker'[v].age = worker[v].age
        <3>1. CASE Unauthorized(w)
            BY <2>2, <3>1 DEF Unauthorized, Busy, TypeOK, WorkerInfo
        <3>2. ASSUME NEW q, Conclude(w, q)
              PROVE  \A v \in Workers : Busy(v)' =>
                         /\ Busy(v) /\ worker'[v].job = worker[v].job
                         /\ worker'[v].age = worker[v].age
            BY <2>2, <3>2 DEF Conclude, Busy, TypeOK, WorkerInfo
        <3> QED
            BY <1>5, <3>1, <3>2 DEF Accepted, FailedTransiently, FailedForGood
    <2> QED
        BY <1>0, <2>1, <2>3, QuietStep
<1>6. ASSUME NEW w \in Workers, NEW s \in {"pending", "succeeded", "dead_letter"},
             NEW t \in Nat, s # "pending" => t = 0,
             Busy(w), row' = Written(Delivery(w), s, worker[w].attempt, t),
             \A v \in Workers : v # w => worker'[v] = worker[v], ~Busy(w)'
      PROVE  LeaseInv'
    <2>1. Delivery(w) \in Deliveries /\ worker[w].attempt \in 0..MaxAttempts
        BY <1>0, <1>6 DEF TypeOK, WorkerInfo
    <2>2. /\ \A d \in Deliveries : d # Delivery(w) => row'[d] = row[d]
          /\ row'[Delivery(w)].status = s /\ row'[Delivery(w)].due = t
        BY <1>6, <2>1, WrittenRow, SMTT(30)
    <2>3. \A v \in Workers : Busy(v)' => v # w /\ Busy(v) /\ Delivery(v) # Delivery(w)
        BY <1>6 DEF LeaseInv, OneSender, Busy
    <2>4. LeaseHeld'
        BY <1>0, <1>6, <2>2, <2>3 DEF LeaseInv, LeaseHeld, Delivery
    <2>5. ConcludedIsIdle'
        BY <1>6, <2>1, <2>2 DEF LeaseInv, ConcludedIsIdle
    <2>6. OneSender'
        BY <1>6, <2>3 DEF LeaseInv, OneSender, Delivery
    <2> QED
        BY <2>4, <2>5, <2>6 DEF LeaseInv
<1>7. ASSUME NEW w \in Workers, RecordOutcome(w) PROVE LeaseInv'
    <2>1. /\ worker[w].verdict \in {"succeeded", "dead_letter"} /\ Busy(w)
          /\ row' = Written(Delivery(w), worker[w].verdict, worker[w].attempt, 0)
        BY <1>7 DEF RecordOutcome, Busy
    <2>2. (\A v \in Workers : v # w => worker'[v] = worker[v]) /\ ~Busy(w)'
        BY <1>7 DEF RecordOutcome, Busy, IdleWorker, TypeOK
    <2> QED
        BY <2>1, <2>2, <1>6
<1>8. ASSUME NEW w \in Workers, RecordRetry(w) PROVE LeaseInv'
    <2>1. worker[w].attempt \in 1..MaxAttempts
        BY <1>8 DEF RecordRetry, AttemptsLeft, TypeOK, WorkerInfo
    <2>2. /\ Backoff[worker[w].attempt] \in Nat /\ Busy(w)
          /\ row' = Written(Delivery(w), "pending", worker[w].attempt,
                            Backoff[worker[w].attempt])
        BY <1>8, <2>1 DEF RecordRetry, Busy
    <2>3. (\A v \in Workers : v # w => worker'[v] = worker[v]) /\ ~Busy(w)'
        BY <1>8 DEF RecordRetry, Busy, TypeOK, WorkerInfo
    <2> QED
        BY <2>2, <2>3, <1>6
<1>9. ASSUME NEW w \in Workers, EnqueueRetry(w) \/ Crash(w) \/ JobFails(w) PROVE LeaseInv'
    <2>1. UNCHANGED row
        BY <1>9 DEF EnqueueRetry, Crash, JobFails
    <2>2. \A v \in Workers : Busy(v)' => worker'[v] = worker[v]
        BY <1>9 DEF EnqueueRetry, Crash, JobFails, TypeOK, Busy, IdleWorker
    <2> QED
        BY <1>0, <2>1, <2>2, QuietStep DEF Busy
<1>10. ASSUME Tick PROVE LeaseInv'
    <2>1. \A d \in Deliveries :
             row'[d].status = row[d].status /\ row'[d].due = Less(row[d].due)
        BY <1>10 DEF Tick, TypeOK, RowInfo
    <2>2. \A d \in Deliveries : row[d].due \in Nat
        BY DEF TypeOK, RowInfo
    <2>3. \A w \in Workers : Busy(w)' =>
              /\ Busy(w) /\ worker'[w].job = worker[w].job
              /\ worker'[w].age = worker[w].age + 1
              /\ worker[w].age < MaxSend /\ worker[w].age \in Nat
        BY <1>10 DEF Tick, TypeOK, WorkerInfo, Busy
    <2>4. LeaseHeld'
        <3> SUFFICES ASSUME NEW w \in Workers, Busy(w)'
                     PROVE  /\ row'[Delivery(w)'].status = "pending"
                            /\ row'[Delivery(w)'].due + worker'[w].age >= Lease
                            /\ worker'[w].age <= MaxSend
            BY DEF LeaseHeld
        <3>1. Busy(w) /\ Delivery(w)' = Delivery(w) /\ Delivery(w) \in Deliveries
            BY <1>0, <2>3 DEF Delivery
        <3>2. /\ row[Delivery(w)].status = "pending"
              /\ row[Delivery(w)].due + worker[w].age >= Lease
            BY <3>1 DEF LeaseInv, LeaseHeld
        <3>3. PICK d \in Deliveries : d = Delivery(w) /\ d = Delivery(w)'
            BY <3>1
        <3>4. row[d].due \in Nat /\ row'[d].due \in Nat /\ row'[d].due + 1 >= row[d].due
            BY <2>1, <2>2 DEF Less
        <3>5. row'[d].status = "pending" /\ row[d].due + worker[w].age >= Lease
            BY <2>1, <3>2, <3>3
        <3>6. /\ worker'[w].age = worker[w].age + 1
              /\ worker[w].age < MaxSend /\ worker[w].age \in Nat
            BY <2>3
        <3>7. row'[d].due + worker'[w].age >= Lease /\ worker'[w].age <= MaxSend
            BY <3>4, <3>5, <3>6, OneTickOlder
        <3> QED
            BY <3>3, <3>5, <3>7
    <2>5. ConcludedIsIdle'
        BY <2>1 DEF LeaseInv, ConcludedIsIdle, Less
    <2>6. OneSender'
        BY <2>3 DEF LeaseInv, OneSender, Delivery
    <2> QED
        BY <2>4, <2>5, <2>6 DEF LeaseInv
<1>11. CASE UNCHANGED vars
    BY <1>3, <1>11 DEF vars
<1> QED
    BY <1>1, <1>2, <1>3, <1>4, <1>5, <1>7, <1>8, <1>9, <1>10, <1>11
       DEF Next, StartJob, Attempt, ClaimNothing, ClaimFails, Sweep, Flush

\* Both halves of the invariant, as long as an attempt is shorter than its lease.
LEMMA LeaseInvariant ==
    ASSUME MaxSend < Lease
    PROVE  Spec => [](RowInv /\ LeaseInv)
<1>1. Init => RowInv /\ LeaseInv
    BY InitRow, InitLease
<1>2. RowInv /\ LeaseInv /\ [Next]_vars => (RowInv /\ LeaseInv)'
    BY RowStep, LeaseStep DEF RowInv
<1> QED
    BY <1>1, <1>2, PTL DEF Spec

\* As long as an attempt is shorter than its lease, no delivery has two senders.
THEOREM SingleSender ==
    ASSUME MaxSend < Lease
    PROVE  Spec => []OneSender
<1>1. LeaseInv => OneSender
    BY DEF LeaseInv
<1> QED
    BY <1>1, LeaseInvariant, PTL

\* As long as an attempt is shorter than its lease, an outcome is never overwritten,
\* although it is written by the id of the row alone.
THEOREM OutcomeIsFinal ==
    ASSUME MaxSend < Lease
    PROVE  Spec => TerminalIsFinal
<1>1. ASSUME RowInv, LeaseInv, [Next]_vars, NEW d \in Deliveries,
             row[d].status \in {"succeeded", "dead_letter"}
      PROVE  row'[d] = row[d] \/ row'[d] = [row[d] EXCEPT !.enqueued = TRUE]
    <2> USE DEF RowInv
    <2>1. row \in [Deliveries -> RowInfo]
        BY <1>1 DEF TypeOK
    <2>2. ASSUME NEW w \in Workers, RecordOutcome(w) \/ RecordRetry(w)
          PROVE  row'[d] = row[d]
        <3>1. Delivery(w) # d
            BY <1>1, <2>2 DEF LeaseInv, LeaseHeld, Busy, RecordOutcome, RecordRetry
        <3> QED
            BY <2>1, <2>2, <3>1 DEF RecordOutcome, RecordRetry, Written
    <2>3. ASSUME NEW w \in Workers, NEW j \in DOMAIN jobs, Claim(w, j) PROVE row'[d] = row[d]
        <3>1. j.delivery # d
            BY <1>1, <2>3 DEF Claim, Claimable
        <3> QED
            BY <2>1, <2>3, <3>1 DEF Claim, Written
    <2>4. ASSUME NEW e \in Deliveries, Create(e) PROVE row'[d] = row[d]
        BY <1>1, <2>1, <2>4 DEF Create
    <2>5. ASSUME NEW e \in Deliveries, EnqueueFirst(e) \/ FirstJobLost(e)
          PROVE  row'[d] = row[d] \/ row'[d] = [row[d] EXCEPT !.enqueued = TRUE]
        BY <2>1, <2>5 DEF EnqueueFirst, FirstJobLost
    <2>6. CASE Tick
        <3>1. row'[d] = [row[d] EXCEPT !.due = Less(row[d].due)]
            BY <2>6 DEF Tick
        <3>2. row[d].due = 0
            BY <1>1 DEF LeaseInv, ConcludedIsIdle
        <3> QED
            BY <2>1, <3>1, <3>2 DEF Less, RowInfo
    <2>7. ASSUME UNCHANGED row PROVE row'[d] = row[d]
        BY <2>7
    <2> QED
        BY <1>1, <2>2, <2>3, <2>4, <2>5, <2>6, <2>7
           DEF Next, StartJob, Attempt, ClaimNothing, ClaimFails, Sweep, Flush, Accepted,
               FailedTransiently, Unauthorized, FailedForGood, EnqueueRetry, Crash, JobFails, vars
<1>2. RowInv /\ LeaseInv /\ [Next]_vars =>
         [\A d \in Deliveries :
             row[d].status \in {"succeeded", "dead_letter"} => row'[d] = row[d]
                \/ row'[d] = [row[d] EXCEPT !.enqueued = TRUE]]_vars
    BY <1>1
<1> QED
    BY <1>2, LeaseInvariant, PTL DEF Spec, TerminalIsFinal
-----------------------------------------------------------------------------
(* What a receiver accepted.                                                *)

\* The worker is about to record that the receiver accepted the delivery.
Recording(w, d) ==
    worker[w].pc = "record" /\ worker[w].verdict = "succeeded" /\ Delivery(w) = d

\* Without faults, what is accepted is recorded or about to be.
AcceptInv ==
    faults = MaxFaults =>
        \A d \in accepted : row[d].status = "succeeded" \/ \E w \in Workers : Recording(w, d)

\* A row in the hands of a recording worker is pending, and not due.
LEMMA RecordingIsLeased ==
    ASSUME MaxSend < Lease, TypeOK, LeaseInv, NEW w \in Workers, NEW d, Recording(w, d)
    PROVE  row[d].status = "pending" /\ row[d].due # 0 /\ Busy(w) /\ d \in Deliveries
<1>1. Busy(w) /\ Delivery(w) = d
    BY DEF Recording, Busy
<1>2. worker[w].age \in Nat /\ worker[w].age <= MaxSend /\ row[d].due + worker[w].age >= Lease
    BY <1>1 DEF LeaseInv, LeaseHeld, TypeOK, WorkerInfo
<1>3. d \in Deliveries /\ row[d].status = "pending"
    BY <1>1 DEF LeaseInv, LeaseHeld, TypeOK, JobIds, Busy, Delivery
<1>4. row[d].due # 0
    BY <1>2, ConstantsAssumption
<1> QED
    BY <1>1, <1>3, <1>4

\* Who records an acceptance goes on to, or has done so; nobody else writes the row.
LEMMA AcceptStep ==
    ASSUME MaxSend < Lease, TypeOK, LeaseInv, AcceptInv, [Next]_vars
    PROVE  AcceptInv'
<1> USE ConstantsAssumption
<1>1. faults \in 0..MaxFaults
    BY DEF TypeOK
<1>2. \A d \in accepted : d \in Deliveries
    BY DEF TypeOK
<1>3. ASSUME Fault PROVE faults' # MaxFaults
    BY <1>1, <1>3 DEF Fault
<1>4. ASSUME accepted' = accepted, faults' = faults,
             \A d \in accepted : row[d].status = "succeeded" => row'[d].status = "succeeded",
             \A w \in Workers, d \in accepted : Recording(w, d) =>
                 Recording(w, d)' \/ row'[d].status = "succeeded"
      PROVE  AcceptInv'
    BY <1>4 DEF AcceptInv
<1>5. ASSUME NEW d \in Deliveries, Create(d) PROVE AcceptInv'
    <2>1. row[d].status = "none" /\ UNCHANGED <<worker, accepted, faults>>
        BY <1>5 DEF Create
    <2>2. \A e \in Deliveries : e # d => row'[e] = row[e]
        BY <1>5 DEF Create, TypeOK
    <2>3. \A w \in Workers, e \in accepted : Recording(w, e)' <=> Recording(w, e)
        BY <2>1 DEF Recording, Delivery
    <2> QED
        BY <1>2, <1>4, <2>1, <2>2, <2>3
<1>6. ASSUME NEW d \in Deliveries, EnqueueFirst(d) PROVE AcceptInv'
    <2>1. row' = [row EXCEPT ![d].enqueued = TRUE] /\ UNCHANGED <<worker, accepted, faults>>
        BY <1>6 DEF EnqueueFirst
    <2>2. \A e \in Deliveries : row'[e].status = row[e].status
        BY <2>1 DEF TypeOK, RowInfo
    <2>3. \A w \in Workers, e \in accepted : Recording(w, e)' <=> Recording(w, e)
        BY <2>1 DEF Recording, Delivery
    <2> QED
        BY <1>2, <1>4, <2>1, <2>2, <2>3
<1>7. ASSUME NEW w \in Workers, NEW j \in DOMAIN jobs, Claim(w, j) PROVE AcceptInv'
    <2>1. j.delivery \in Deliveries /\ UNCHANGED <<accepted, faults>>
        BY <1>7 DEF Claim, TypeOK, JobIds
    <2>2. row[j.delivery].status = "pending" /\ row[j.delivery].due = 0 /\ worker[w].pc = "idle"
        BY <1>7 DEF Claim, Claimable
    <2>3. \A e \in Deliveries : e # j.delivery => row'[e] = row[e]
        BY <1>7, <2>1 DEF Claim, Written, TypeOK
    <2>4. \A v \in Workers : v # w => worker'[v] = worker[v]
        BY <1>7 DEF Claim, TypeOK
    <2>5. \A v \in Workers, d \in accepted : Recording(v, d) => Recording(v, d)'
        BY <2>2, <2>4 DEF Recording, Delivery
    <2> QED
        BY <1>2, <1>4, <2>1, <2>2, <2>3, <2>5
<1>8. ASSUME NEW w \in Workers, Accepted(w) PROVE AcceptInv'
    <2>1. /\ accepted' = accepted \cup {Delivery(w)} /\ UNCHANGED <<row, faults>>
          /\ worker[w].pc \in {"send", "resend"} /\ Conclude(w, "succeeded")
        BY <1>8 DEF Accepted
    <2>2. Recording(w, Delivery(w))'
        BY <2>1 DEF Conclude, Recording, Delivery, TypeOK, WorkerInfo
    <2>3. \A v \in Workers : v # w => worker'[v] = worker[v]
        BY <2>1 DEF Conclude, TypeOK
    <2>4. Delivery(w)' = Delivery(w)
        BY <2>1 DEF Conclude, Delivery, TypeOK, WorkerInfo
    <2>5. \A v \in Workers, d \in accepted : Recording(v, d) => Recording(v, d)'
        BY <2>1, <2>3 DEF Recording, Delivery
    <2> QED
        BY <2>1, <2>2, <2>4, <2>5 DEF AcceptInv
<1>9. ASSUME NEW w \in Workers, FailedTransiently(w) \/ Unauthorized(w) \/ FailedForGood(w)
      PROVE  AcceptInv'
    <2>1. UNCHANGED <<row, accepted, faults>> /\ worker[w].pc \in {"send", "resend"}
        BY <1>9 DEF FailedTransiently, Unauthorized, FailedForGood
    <2>2. \A v \in Workers : v # w => worker'[v] = worker[v]
        BY <1>9 DEF FailedTransiently, Unauthorized, FailedForGood, Conclude, TypeOK
    <2>3. \A v \in Workers, d \in accepted : Recording(v, d) => Recording(v, d)'
        BY <2>1, <2>2 DEF Recording, Delivery
    <2> QED
        BY <1>4, <2>1, <2>3
<1>10. ASSUME NEW w \in Workers, RecordOutcome(w) \/ RecordRetry(w) PROVE AcceptInv'
    <2>1. /\ UNCHANGED <<accepted, faults>> /\ Busy(w) /\ worker[w].pc = "record"
          /\ \A v \in Workers : v # w => worker'[v] = worker[v]
        BY <1>10 DEF RecordOutcome, RecordRetry, Busy, TypeOK
    <2>2. \A e \in Deliveries : e # Delivery(w) => row'[e] = row[e]
        BY <1>10 DEF RecordOutcome, RecordRetry, Written, TypeOK
    <2>3. row[Delivery(w)].status = "pending"
        BY <2>1 DEF LeaseInv, LeaseHeld
    <2>4. ASSUME NEW v \in Workers, NEW d \in accepted, Recording(v, d)
          PROVE  Recording(v, d)' \/ row'[d].status = "succeeded"
        <3>1. CASE v # w
            BY <2>1, <2>4, <3>1 DEF Recording, Delivery
        <3>2. CASE v = w
            <4>1. RecordOutcome(w) /\ worker[w].verdict = "succeeded" /\ Delivery(w) = d
                BY <1>10, <2>4, <3>2 DEF Recording, RecordRetry
            <4>2. row' = Written(d, "succeeded", worker[w].attempt, 0)
                BY <4>1 DEF RecordOutcome
            <4> QED
                BY <1>2, <4>2 DEF Written, TypeOK
        <3> QED
            BY <3>1, <3>2
    <2> QED
        BY <1>2, <1>4, <2>1, <2>2, <2>3, <2>4
<1>11. ASSUME NEW w \in Workers, EnqueueRetry(w) PROVE AcceptInv'
    <2>1. UNCHANGED <<row, accepted, faults>> /\ worker[w].pc = "enqueue"
        BY <1>11 DEF EnqueueRetry
    <2>2. \A v \in Workers : v # w => worker'[v] = worker[v]
        BY <1>11 DEF EnqueueRetry, TypeOK
    <2>3. \A v \in Workers, d \in accepted : Recording(v, d) => Recording(v, d)'
        BY <2>1, <2>2 DEF Recording, Delivery
    <2> QED
        BY <1>4, <2>1, <2>3
<1>12. ASSUME Tick PROVE AcceptInv'
    <2>1. \A d \in Deliveries : row'[d].status = row[d].status
        BY <1>12 DEF Tick, TypeOK, RowInfo
    <2>2. \A w \in Workers : /\ worker'[w].pc = worker[w].pc /\ worker'[w].job = worker[w].job
                             /\ worker'[w].verdict = worker[w].verdict
        BY <1>12 DEF Tick, TypeOK, WorkerInfo
    <2>3. \A v \in Workers, d \in accepted : Recording(v, d) => Recording(v, d)'
        BY <2>2 DEF Recording, Delivery
    <2> QED
        BY <1>2, <1>4, <1>12, <2>1, <2>3 DEF Tick
<1>13. ASSUME UNCHANGED <<row, worker, accepted, faults>> PROVE AcceptInv'
    BY <1>13 DEF AcceptInv, Recording, Delivery
<1>14. ASSUME Fault PROVE AcceptInv'
    BY <1>3, <1>14 DEF AcceptInv
<1> QED
    BY <1>5, <1>6, <1>7, <1>8, <1>9, <1>10, <1>11, <1>12, <1>13, <1>14
       DEF Next, StartJob, Attempt, ClaimNothing, ClaimFails, Sweep, Flush, FirstJobLost,
           Crash, JobFails, vars

\* As long as an attempt is shorter than its lease, and unless something fails, what a
\* receiver has accepted is not sent again: neither the retry of a failed attempt nor a
\* job of the sweeper follows it.
THEOREM AcceptedOnceHolds ==
    ASSUME MaxSend < Lease
    PROVE  Spec => []AcceptedOnce
<1>1. Init => AcceptInv
    BY DEF Init, AcceptInv
<1>2. RowInv /\ LeaseInv /\ AcceptInv /\ [Next]_vars => AcceptInv'
    BY AcceptStep DEF RowInv
<1>3. RowInv /\ LeaseInv /\ AcceptInv => AcceptedOnce
    <2> SUFFICES ASSUME RowInv, LeaseInv, AcceptInv, faults = MaxFaults, NEW w \in Workers,
                        worker[w].pc \in {"send", "resend"}, Delivery(w) \in accepted
                 PROVE  FALSE
        BY DEF AcceptedOnce
    <2>1. Busy(w) /\ row[Delivery(w)].status = "pending"
        BY DEF Busy, LeaseInv, LeaseHeld
    <2>2. PICK v \in Workers : Recording(v, Delivery(w))
        BY <2>1 DEF AcceptInv
    <2>3. Busy(v) /\ v = w
        BY <2>1, <2>2 DEF Recording, Busy, LeaseInv, OneSender
    <2> QED
        BY <2>2, <2>3 DEF Recording
<1> QED
    BY <1>1, <1>2, <1>3, LeaseInvariant, PTL DEF Spec
=============================================================================

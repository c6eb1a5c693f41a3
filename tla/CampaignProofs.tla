--------------------------- MODULE CampaignProofs ---------------------------
(***************************************************************************)
(* Proofs about the queue of a campaign under its orchestrator, for any    *)
(* number of workers, rows, retries and faults: the types, that no row     *)
(* gets a second workflow run, that no claim is lost without a fault, and  *)
(* that a campaign is drained when it is completed.                        *)
(*                                                                         *)
(* The first invariant says whose a row in "processing" is.  Two batches   *)
(* may run at once, and a batch that fails returns what it claimed;        *)
(* nothing else keeps it from returning a row that another batch is about  *)
(* to dial.  The second, further below, says what is under way.            *)
(***************************************************************************)
EXTENDS CampaignOrchestrator, FiniteSetTheorems, TLAPS

\* The batch has claims and has not returned them.
Claiming(w) == batch[w].pc \in {"init", "next", "dispatch", "dial", "record", "count"}

\* The row is the batch's to dial.
Holds(w, r) ==
    /\ Claiming(w)
    /\ r \in batch[w].todo \/ (batch[w].pc = "dispatch" /\ r = batch[w].row)

\* The sync inserts rows that do not exist.
Unsynced == ~synced => \A s \in Sources : rows[<<s, 0>>].state = "none"

\* What waits has no workflow run.
QueuedIsFresh ==
    \A r \in Rows : rows[r].state \in {"none", "queued"} => call[r] = "none"

\* What is claimed does not wait.
ClaimsTaken ==
    \A w \in Workers : Claiming(w) =>
        \A r \in batch[w].claims : rows[r].state \notin {"none", "queued"}

\* No row has two claimants.
ClaimsApart ==
    \A v, w \in Workers :
        v # w /\ Claiming(v) /\ Claiming(w) => batch[v].claims \cap batch[w].claims = {}

\* What a batch holds is claimed and has no workflow run.
HeldIsFresh ==
    \A w \in Workers : \A r \in Rows : Holds(w, r) =>
        r \in batch[w].claims /\ rows[r].state = "processing" /\ call[r] = "none"

\* The row a batch works on.
CurrentRow ==
    \A w \in Workers :
        /\ batch[w].pc \in {"dispatch", "dial", "record", "count"} =>
              batch[w].row \in Rows /\ batch[w].row \notin batch[w].todo
        /\ batch[w].pc \in {"dial", "record", "count"} => call[batch[w].row] # "none"

\* Without faults somebody holds what is processed and has no workflow run.
NoneLost ==
    faults = 0 =>
        \A r \in Rows : rows[r].state = "processing" /\ call[r] = "none" =>
            \E w \in Workers : Holds(w, r)

ClaimInv ==
    /\ Unsynced /\ QueuedIsFresh /\ ClaimsTaken /\ ClaimsApart
    /\ HeldIsFresh /\ CurrentRow /\ NoneLost

CampaignInv == TypeOK /\ ClaimInv
-----------------------------------------------------------------------------
(* Steps that leave the rows, the calls and the claims alone.               *)

LEMMA Untouched ==
    ASSUME ClaimInv, rows' = rows, call' = call, batch' = batch,
           ~synced' => ~synced, faults' = 0 => faults = 0
    PROVE  ClaimInv'
  <1>1. \A w \in Workers : \A r \in Rows : Holds(w, r)' <=> Holds(w, r)
    BY DEF Holds, Claiming
  <1>2. Unsynced' /\ QueuedIsFresh' /\ ClaimsTaken' /\ ClaimsApart'
    BY DEF ClaimInv, Unsynced, QueuedIsFresh, ClaimsTaken, ClaimsApart, Claiming
  <1>3. HeldIsFresh' /\ CurrentRow'
    BY <1>1 DEF ClaimInv, HeldIsFresh, CurrentRow
  <1>4. NoneLost'
    BY <1>1 DEF ClaimInv, NoneLost
  <1> QED
    BY <1>2, <1>3, <1>4 DEF ClaimInv

\* A batch ends that holds nothing, or it ends by a fault.
LEMMA LetGo ==
    ASSUME ClaimInv, NEW w \in Workers, rows' = rows, call' = call, synced' = synced,
           \A v \in Workers \ {w} : batch'[v] = batch[v],
           batch'[w].pc \notin {"init", "next", "dispatch", "dial", "record", "count"},
           (\A r \in Rows : ~Holds(w, r)) \/ faults' # 0,
           faults' = 0 => faults = 0
    PROVE  ClaimInv'
  <1>1. ~Claiming(w)' /\ \A r \in Rows : ~Holds(w, r)'
    BY DEF Holds, Claiming
  <1>2. \A v \in Workers \ {w} :
          /\ Claiming(v)' <=> Claiming(v)
          /\ \A r \in Rows : Holds(v, r)' <=> Holds(v, r)
    BY DEF Holds, Claiming
  <1>3. Unsynced' /\ QueuedIsFresh'
    BY DEF ClaimInv, Unsynced, QueuedIsFresh
  <1>4. ClaimsTaken' /\ ClaimsApart'
    BY <1>1, <1>2 DEF ClaimInv, ClaimsTaken, ClaimsApart
  <1>5. HeldIsFresh'
    BY <1>1, <1>2 DEF ClaimInv, HeldIsFresh
  <1>6. CurrentRow'
    BY DEF ClaimInv, CurrentRow
  <1>7. NoneLost'
    BY <1>1, <1>2 DEF ClaimInv, NoneLost
  <1> QED
    BY <1>3, <1>4, <1>5, <1>6, <1>7 DEF ClaimInv

\* A batch returns its claims and ends.
LEMMA Returned ==
    ASSUME TypeOK, ClaimInv, NEW w \in Workers, Claiming(w),
           rows' = ReturnUnprocessed(batch[w].claims), call' = call, synced' = synced,
           \A v \in Workers \ {w} : batch'[v] = batch[v],
           batch'[w].pc \notin {"init", "next", "dispatch", "dial", "record", "count"},
           faults' = 0 => faults = 0
    PROVE  ClaimInv'
  <1>1. ~Claiming(w)' /\ \A r \in Rows : ~Holds(w, r)'
    BY DEF Holds, Claiming
  <1>2. \A v \in Workers \ {w} :
          /\ Claiming(v)' <=> Claiming(v)
          /\ \A r \in Rows : Holds(v, r)' <=> Holds(v, r)
    BY DEF Holds, Claiming
  <1>3. \A r \in Rows :
          IF r \in batch[w].claims /\ rows[r].state = "processing" /\ call[r] = "none"
            THEN rows'[r].state = "queued"
            ELSE rows'[r] = rows[r]
    BY DEF ReturnUnprocessed, TypeOK, QueueTypeOK, RowInfo
  <1>4. Unsynced'
    <2> SUFFICES ASSUME ~synced, NEW s \in Sources PROVE rows'[<<s, 0>>].state = "none"
      BY DEF Unsynced
    <2>1. <<s, 0>> \in Rows
      BY QueueAssumption DEF Rows
    <2> QED
      BY <2>1, <1>3 DEF ClaimInv, Unsynced
  <1>5. QueuedIsFresh'
    BY <1>3 DEF ClaimInv, QueuedIsFresh
  <1>6. \A v \in Workers \ {w} : Claiming(v) =>
          \A r \in batch[v].claims : r \in Rows /\ rows'[r] = rows[r]
    BY <1>3 DEF ClaimInv, ClaimsApart, TypeOK, QueueTypeOK, BatchInfo
  <1>7. ClaimsTaken' /\ ClaimsApart'
    BY <1>1, <1>2, <1>6 DEF ClaimInv, ClaimsTaken, ClaimsApart
  <1>8. HeldIsFresh'
    BY <1>1, <1>2, <1>6 DEF ClaimInv, HeldIsFresh, Holds
  <1>9. CurrentRow'
    BY DEF ClaimInv, CurrentRow
  <1>10. NoneLost'
    <2> SUFFICES ASSUME faults' = 0, NEW r \in Rows,
                        rows'[r].state = "processing", call[r] = "none"
                 PROVE  \E v \in Workers : Holds(v, r)'
      BY DEF NoneLost
    <2>1. rows[r].state = "processing" /\ r \notin batch[w].claims
      BY <1>3
    <2>2. PICK v \in Workers : Holds(v, r)
      BY <2>1 DEF ClaimInv, NoneLost
    <2>3. v # w
      BY <2>1, <2>2 DEF ClaimInv, HeldIsFresh
    <2> QED
      BY <2>2, <2>3, <1>2
  <1> QED
    BY <1>4, <1>5, <1>7, <1>8, <1>9, <1>10 DEF ClaimInv
-----------------------------------------------------------------------------
(* Steps that move a row.                                                   *)

\* Another batch's claims, and what it holds, stand as long as its record does.
LEMMA OthersStand ==
    ASSUME NEW w \in Workers, \A v \in Workers \ {w} : batch'[v] = batch[v]
    PROVE  \A v \in Workers \ {w} :
             /\ Claiming(v)' <=> Claiming(v)
             /\ \A r \in Rows : Holds(v, r)' <=> Holds(v, r)
  BY DEF Holds, Claiming

\* A batch goes on to another statement.
LEMMA GotoOthers ==
    ASSUME TypeOK, NEW w \in Workers, NEW pc, Goto(w, pc)
    PROVE  /\ \A v \in Workers \ {w} : batch'[v] = batch[v]
           /\ batch'[w].pc = pc /\ batch'[w].row = batch[w].row
           /\ batch'[w].todo = batch[w].todo /\ batch'[w].claims = batch[w].claims
  BY DEF Goto, TypeOK, QueueTypeOK, BatchInfo

\* Claimed rows were queued, so nobody else has claimed them.
LEMMA ClaimStep ==
    ASSUME TypeOK, ClaimInv, NEW w \in Workers, Claim(w)
    PROVE  ClaimInv'
  <1>1. PICK S \in Claimable :
          /\ rows' = [r \in Rows |-> IF r \in S THEN [rows[r] EXCEPT !.state = "processing"]
                                     ELSE rows[r]]
          /\ batch' = [batch EXCEPT ![w].pc = IF S = {} THEN "completed" ELSE "init",
                                    ![w].todo = S, ![w].claims = S]
    BY DEF Claim
  <1>2. S \subseteq Rows /\ \A r \in S : rows[r].state = "queued" /\ call[r] = "none"
    BY <1>1 DEF Claimable, Ready, ClaimInv, QueuedIsFresh
  <1>3. /\ batch'[w].pc = IF S = {} THEN "completed" ELSE "init"
        /\ batch'[w].todo = S /\ batch'[w].claims = S
        /\ \A v \in Workers \ {w} : batch'[v] = batch[v]
    BY <1>1 DEF TypeOK, QueueTypeOK, BatchInfo
  <1>4. \A r \in Rows : IF r \in S THEN rows'[r].state = "processing" ELSE rows'[r] = rows[r]
    BY <1>1 DEF TypeOK, QueueTypeOK, RowInfo
  <1>5. call' = call /\ synced' = synced /\ faults' = faults
    BY DEF Claim
  <1>6. \A v \in Workers \ {w} : /\ Claiming(v)' <=> Claiming(v)
                                 /\ \A r \in Rows : Holds(v, r)' <=> Holds(v, r)
    BY <1>3, OthersStand
  <1>7. \A v \in Workers \ {w} : Claiming(v) =>
          batch[v].claims \subseteq Rows /\ batch[v].claims \cap S = {}
    BY <1>2 DEF ClaimInv, ClaimsTaken, TypeOK, QueueTypeOK, BatchInfo
  <1>8. \A r \in Rows : Holds(w, r)' => r \in S
    BY <1>3 DEF Holds, Claiming
  <1>9. \A r \in S : Holds(w, r)'
    BY <1>3 DEF Holds, Claiming
  <1>10. ~Claiming(w)
    BY DEF Claim, Claiming
  <1>11. Unsynced'
    <2>1. \A s \in Sources : <<s, 0>> \in Rows
      BY QueueAssumption DEF Rows
    <2> QED
      BY <2>1, <1>2, <1>4, <1>5 DEF ClaimInv, Unsynced
  <1>12. QueuedIsFresh'
    BY <1>4, <1>5 DEF ClaimInv, QueuedIsFresh
  <1>13. ClaimsTaken'
    BY <1>2, <1>3, <1>4, <1>6, <1>7 DEF ClaimInv, ClaimsTaken
  <1>14. ClaimsApart'
    BY <1>3, <1>6, <1>7 DEF ClaimInv, ClaimsApart
  <1>15. HeldIsFresh'
    <2>1. ASSUME NEW r \in Rows, Holds(w, r)'
          PROVE  r \in batch'[w].claims /\ rows'[r].state = "processing" /\ call'[r] = "none"
      BY <2>1, <1>2, <1>3, <1>4, <1>5, <1>8
    <2>2. ASSUME NEW v \in Workers \ {w}, NEW r \in Rows, Holds(v, r)'
          PROVE  r \in batch'[v].claims /\ rows'[r].state = "processing" /\ call'[r] = "none"
      BY <2>2, <1>3, <1>4, <1>5, <1>6, <1>7 DEF ClaimInv, HeldIsFresh, Holds
    <2> QED
      BY <2>1, <2>2 DEF HeldIsFresh
  <1>16. CurrentRow'
    BY <1>3, <1>5 DEF ClaimInv, CurrentRow
  <1>17. NoneLost'
    <2> SUFFICES ASSUME faults' = 0, NEW r \in Rows,
                        rows'[r].state = "processing", call'[r] = "none"
                 PROVE  \E v \in Workers : Holds(v, r)'
      BY DEF NoneLost
    <2>1. CASE r \in S
      BY <2>1, <1>9
    <2>2. CASE r \notin S
      <3>1. PICK v \in Workers : Holds(v, r)
        BY <2>2, <1>4, <1>5 DEF ClaimInv, NoneLost
      <3>2. v # w
        BY <3>1, <1>10 DEF Holds
      <3> QED
        BY <3>1, <3>2, <1>6
    <2> QED
      BY <2>1, <2>2
  <1> QED
    BY <1>11, <1>12, <1>13, <1>14, <1>15, <1>16, <1>17 DEF ClaimInv

\* A batch that goes on with what it holds, or takes the next row of it in hand.
LEMMA HoldsOn ==
    ASSUME TypeOK, ClaimInv, NEW w \in Workers, Claiming(w), Claiming(w)',
           rows' = rows, call' = call, synced' = synced, faults' = faults,
           \A v \in Workers \ {w} : batch'[v] = batch[v],
           batch'[w].claims = batch[w].claims,
           \A r \in Rows : Holds(w, r)' <=> Holds(w, r),
           batch'[w].pc = "dispatch" =>
              batch'[w].row \in Rows /\ batch'[w].row \notin batch'[w].todo,
           batch'[w].pc \notin {"dial", "record", "count"}
    PROVE  ClaimInv'
  <1>1. \A v \in Workers : /\ Claiming(v)' <=> Claiming(v)
                           /\ batch'[v].claims = batch[v].claims
                           /\ \A r \in Rows : Holds(v, r)' <=> Holds(v, r)
    BY OthersStand
  <1>2. Unsynced' /\ QueuedIsFresh' /\ ClaimsTaken' /\ ClaimsApart'
    BY <1>1 DEF ClaimInv, Unsynced, QueuedIsFresh, ClaimsTaken, ClaimsApart
  <1>3. HeldIsFresh' /\ NoneLost'
    BY <1>1 DEF ClaimInv, HeldIsFresh, NoneLost
  <1>4. CurrentRow'
    BY DEF ClaimInv, CurrentRow, Claiming
  <1> QED
    BY <1>2, <1>3, <1>4 DEF ClaimInv

LEMMA InitNumbersStep ==
    ASSUME TypeOK, ClaimInv, NEW w \in Workers, InitNumbers(w)
    PROVE  ClaimInv'
  <1>1. Goto(w, "next") /\ batch[w].pc = "init"
    BY DEF InitNumbers
  <1>2. \A r \in Rows : Holds(w, r)' <=> Holds(w, r)
    BY <1>1, GotoOthers DEF Holds, Claiming
  <1>3. Claiming(w) /\ Claiming(w)'
    BY <1>1, GotoOthers DEF Claiming
  <1> QED
    BY <1>1, <1>2, <1>3, GotoOthers, HoldsOn DEF InitNumbers

LEMMA AcquireSlotStep ==
    ASSUME TypeOK, ClaimInv, NEW w \in Workers, AcquireSlot(w)
    PROVE  ClaimInv'
  <1>1. PICK r \in batch[w].todo :
          batch' = [batch EXCEPT ![w].pc = "dispatch", ![w].row = r, ![w].todo = @ \ {r}]
    BY DEF AcquireSlot
  <1>2. /\ batch'[w].pc = "dispatch" /\ batch'[w].row = r
        /\ batch'[w].todo = batch[w].todo \ {r} /\ batch'[w].claims = batch[w].claims
        /\ \A v \in Workers \ {w} : batch'[v] = batch[v]
    BY <1>1 DEF TypeOK, QueueTypeOK, BatchInfo
  <1>3. r \in Rows
    BY <1>1 DEF TypeOK, QueueTypeOK, BatchInfo
  <1>4. batch[w].pc = "next"
    BY DEF AcquireSlot
  <1>5. Claiming(w) /\ Claiming(w)'
    BY <1>2, <1>4 DEF Claiming
  <1>6. \A q \in Rows : Holds(w, q)' <=> Holds(w, q)
    BY <1>1, <1>2, <1>4, <1>5 DEF Holds
  <1> QED
    BY <1>2, <1>3, <1>5, <1>6, HoldsOn DEF AcquireSlot

\* A batch does something with the row it has in hand, and with nothing else.
Handles(w) ==
    LET q == batch[w].row
    IN  /\ batch[w].pc \in {"dispatch", "dial", "record", "count"}
        /\ \A r \in Rows \ {q} : rows'[r] = rows[r] /\ call'[r] = call[r]
        /\ rows'[q] = rows[q] \/ rows'[q].state \in {"processed", "failed"}
        /\ call'[q] = "none" => call[q] = "none" /\ rows'[q].state = "failed"
        /\ synced' = synced /\ (faults' = 0 => faults = 0)
        /\ \A v \in Workers \ {w} : batch'[v] = batch[v]
        /\ batch'[w].pc \in {"next", "dial", "record", "count"}
        /\ batch'[w].pc # "next" => call'[q] # "none"
        /\ batch'[w].row = q /\ batch'[w].todo = batch[w].todo
        /\ \/ batch'[w].claims = batch[w].claims
           \/ call[q] # "none" /\ batch'[w].claims = batch[w].claims \ {q}

LEMMA Handled ==
    ASSUME TypeOK, ClaimInv, NEW w \in Workers, NEW q \in Rows, q = batch[w].row,
           Handles(w)
    PROVE  ClaimInv'
  <1> USE DEF Handles
  <1>1. q \notin batch[w].todo
    BY DEF ClaimInv, CurrentRow
  <1>2. rows[q].state \notin {"none", "queued"}
    <2>1. CASE batch[w].pc = "dispatch"
      BY <2>1 DEF ClaimInv, HeldIsFresh, Holds, Claiming
    <2>2. CASE batch[w].pc # "dispatch"
      BY <2>2 DEF ClaimInv, CurrentRow, QueuedIsFresh
    <2> QED
      BY <2>1, <2>2
  <1>3. rows'[q].state \notin {"none", "queued"}
    BY <1>2
  <1>4. \A v \in Workers \ {w} : ~Holds(v, q)
    <2>1. CASE batch[w].pc = "dispatch"
      <3>1. Holds(w, q)
        BY <2>1 DEF Holds, Claiming
      <3>2. Claiming(w) /\ q \in batch[w].claims
        BY <3>1 DEF ClaimInv, HeldIsFresh, Holds
      <3> QED
        BY <3>2 DEF ClaimInv, HeldIsFresh, ClaimsApart, Holds
    <2>2. CASE batch[w].pc # "dispatch"
      BY <2>2 DEF ClaimInv, CurrentRow, HeldIsFresh
    <2> QED
      BY <2>1, <2>2
  <1>5. Claiming(w) /\ Claiming(w)'
    BY DEF Claiming
  <1>6. \A v \in Workers \ {w} : /\ Claiming(v)' <=> Claiming(v)
                                 /\ \A r \in Rows : Holds(v, r)' <=> Holds(v, r)
    BY OthersStand
  <1>7. \A r \in Rows : Holds(w, r)' <=> r \in batch[w].todo
    BY <1>5 DEF Holds
  <1>8. \A r \in Rows : r # q => (Holds(w, r) <=> r \in batch[w].todo)
    BY <1>5 DEF Holds
  <1>9. Unsynced'
    <2> SUFFICES ASSUME ~synced, NEW s \in Sources PROVE rows'[<<s, 0>>].state = "none"
      BY DEF Unsynced
    <2>1. <<s, 0>> \in Rows
      BY QueueAssumption DEF Rows
    <2>2. rows[<<s, 0>>].state = "none"
      BY DEF ClaimInv, Unsynced
    <2> QED
      BY <2>1, <2>2, <1>2
  <1>10. QueuedIsFresh'
    BY <1>3 DEF ClaimInv, QueuedIsFresh
  <1>11. batch'[w].claims \subseteq batch[w].claims
    OBVIOUS
  <1>12. ClaimsTaken'
    <2>1. ASSUME NEW v \in Workers, Claiming(v)', NEW r \in batch'[v].claims
          PROVE  rows'[r].state \notin {"none", "queued"}
      <3>1. Claiming(v) /\ r \in batch[v].claims
        BY <2>1, <1>5, <1>6, <1>11
      <3>2. rows[r].state \notin {"none", "queued"} /\ r \in Rows
        BY <3>1 DEF ClaimInv, ClaimsTaken, TypeOK, QueueTypeOK, BatchInfo
      <3> QED
        BY <3>2, <1>3
    <2> QED
      BY <2>1 DEF ClaimsTaken
  <1>13. ClaimsApart'
    <2>1. \A v \in Workers : Claiming(v)' => Claiming(v) /\ batch'[v].claims \subseteq batch[v].claims
      BY <1>5, <1>6, <1>11
    <2> QED
      BY <2>1 DEF ClaimInv, ClaimsApart
  <1>14. HeldIsFresh'
    <2>1. ASSUME NEW v \in Workers, NEW r \in Rows, Holds(v, r)'
          PROVE  Holds(v, r) /\ r # q
      BY <2>1, <1>1, <1>4, <1>6, <1>7, <1>8
    <2>2. ASSUME NEW v \in Workers, NEW r \in Rows, r # q, r \in batch[v].claims
          PROVE  r \in batch'[v].claims
      BY <2>2
    <2> QED
      BY <2>1, <2>2 DEF ClaimInv, HeldIsFresh
  <1>15. CurrentRow'
    <2>1. \A v \in Workers \ {w} :
            batch[v].pc \in {"dial", "record", "count"} =>
              batch[v].row \in Rows /\ call'[batch[v].row] # "none"
      <3> SUFFICES ASSUME NEW v \in Workers \ {w}, batch[v].pc \in {"dial", "record", "count"}
                   PROVE  batch[v].row \in Rows /\ call'[batch[v].row] # "none"
        OBVIOUS
      <3>1. batch[v].row \in Rows /\ call[batch[v].row] # "none"
        BY DEF ClaimInv, CurrentRow
      <3>2. CASE batch[v].row # q
        BY <3>1, <3>2
      <3>3. CASE batch[v].row = q
        BY <3>1, <3>3
      <3> QED
        BY <3>2, <3>3
    <2> QED
      BY <2>1, <1>1 DEF ClaimInv, CurrentRow
  <1>16. NoneLost'
    <2> SUFFICES ASSUME faults' = 0, NEW r \in Rows,
                        rows'[r].state = "processing", call'[r] = "none"
                 PROVE  \E v \in Workers : Holds(v, r)'
      BY DEF NoneLost
    <2>1. r # q
      OBVIOUS
    <2>2. PICK v \in Workers : Holds(v, r)
      BY <2>1 DEF ClaimInv, NoneLost
    <2> QED
      BY <2>1, <2>2, <1>6, <1>7, <1>8
  <1> QED
    BY <1>9, <1>10, <1>12, <1>13, <1>14, <1>15, <1>16 DEF ClaimInv

\* The row in hand changes its state, and no other.
LEMMA MarkRow ==
    ASSUME TypeOK, NEW w \in Workers, batch[w].row \in Rows, NEW s, Mark(w, s)
    PROVE  /\ \A r \in Rows \ {batch[w].row} : rows'[r] = rows[r]
           /\ rows'[batch[w].row].state = s
  BY DEF Mark, TypeOK, QueueTypeOK, RowInfo

\* A fault is counted.
LEMMA FaultCounts ==
    ASSUME TypeOK
    PROVE  /\ Fault => faults' # 0 /\ faults' \in 0..MaxFaults
           /\ Surprise => surprises' \in 0..MaxSurprises
  BY QueueAssumption DEF TypeOK, QueueTypeOK, Fault, Surprise

LEMMA RowSteps ==
    ASSUME TypeOK, ClaimInv, NEW w \in Workers,
           DispatchFails(w) \/ CreateRun(w) \/ Dial(w) \/ DialFails(w)
             \/ Record(w) \/ Count(w) \/ UpdateFails(w)
    PROVE  ClaimInv'
  <1> DEFINE q == batch[w].row
             Onward(pc) ==
               /\ batch'[w].pc = pc /\ batch'[w].row = q
               /\ batch'[w].todo = batch[w].todo /\ batch'[w].claims = batch[w].claims
               /\ \A v \in Workers \ {w} : batch'[v] = batch[v]
  <1>1. batch[w].pc \in {"dispatch", "dial", "record", "count"}
    BY DEF DispatchFails, CreateRun, Dial, DialFails, Record, Count, UpdateFails
  <1>2. q \in Rows /\ (batch[w].pc # "dispatch" => call[q] # "none")
    BY <1>1 DEF ClaimInv, CurrentRow
  <1>3. call \in [Rows -> CallStates]
    BY DEF TypeOK, QueueTypeOK
  <1>4. ASSUME DispatchFails(w) PROVE Handles(w)
    <2>1. /\ Mark(w, "failed") /\ Goto(w, "next") /\ call' = call /\ synced' = synced
          /\ faults' = faults /\ batch[w].pc = "dispatch"
      BY <1>4 DEF DispatchFails
    <2>2. call[q] = "none"
      BY <2>1, <1>2 DEF ClaimInv, HeldIsFresh, Holds, Claiming
    <2>3. rows'[q].state = "failed" /\ \A r \in Rows \ {q} : rows'[r] = rows[r]
      BY <1>2, <2>1, MarkRow
    <2>4. Onward("next")
      BY <2>1, GotoOthers
    <2> QED
      BY <1>1, <1>2, <2>1, <2>2, <2>3, <2>4 DEF Handles
  <1>5. ASSUME CreateRun(w) PROVE Handles(w)
    <2>1. /\ call' = [call EXCEPT ![q] = "created"] /\ Goto(w, "dial") /\ rows' = rows
          /\ synced' = synced /\ faults' = faults
      BY <1>5 DEF CreateRun
    <2>2. call'[q] # "none" /\ \A r \in Rows \ {q} : call'[r] = call[r]
      BY <1>2, <1>3, <2>1
    <2>3. Onward("dial")
      BY <2>1, GotoOthers
    <2> QED
      BY <1>1, <1>2, <2>1, <2>2, <2>3 DEF Handles
  <1>6. ASSUME Dial(w) PROVE Handles(w)
    <2>1. /\ call' = [call EXCEPT ![q] = "ringing"] /\ Goto(w, "record") /\ rows' = rows
          /\ synced' = synced /\ faults' = faults
      BY <1>6 DEF Dial
    <2>2. call'[q] # "none" /\ \A r \in Rows \ {q} : call'[r] = call[r]
      BY <1>2, <1>3, <2>1
    <2>3. Onward("record")
      BY <2>1, GotoOthers
    <2> QED
      BY <1>1, <1>2, <2>1, <2>2, <2>3 DEF Handles
  <1>7. ASSUME DialFails(w) PROVE Handles(w)
    <2>1. /\ call' = [call EXCEPT ![q] = "failed"] /\ Mark(w, "failed") /\ Goto(w, "next")
          /\ synced' = synced /\ faults' = faults
      BY <1>7 DEF DialFails
    <2>2. call'[q] # "none" /\ \A r \in Rows \ {q} : call'[r] = call[r]
      BY <1>2, <1>3, <2>1
    <2>3. rows'[q].state = "failed" /\ \A r \in Rows \ {q} : rows'[r] = rows[r]
      BY <1>2, <2>1, MarkRow
    <2>4. Onward("next")
      BY <2>1, GotoOthers
    <2> QED
      BY <1>1, <1>2, <2>1, <2>2, <2>3, <2>4 DEF Handles
  <1>8. ASSUME Record(w) PROVE Handles(w)
    <2>1. /\ Mark(w, "processed") /\ call' = call /\ synced' = synced /\ faults' = faults
          /\ batch[w].pc = "record"
      BY <1>8 DEF Record
    <2>2. /\ batch'[w].pc = "count" /\ batch'[w].row = q
          /\ batch'[w].todo = batch[w].todo /\ batch'[w].claims = batch[w].claims \ {q}
          /\ \A v \in Workers \ {w} : batch'[v] = batch[v]
      BY <1>8 DEF Record, TypeOK, QueueTypeOK, BatchInfo
    <2>3. rows'[q].state = "processed" /\ \A r \in Rows \ {q} : rows'[r] = rows[r]
      BY <1>2, <2>1, MarkRow
    <2> QED
      BY <1>1, <1>2, <2>1, <2>2, <2>3 DEF Handles
  <1>9. ASSUME Count(w) PROVE Handles(w)
    <2>1. /\ Goto(w, "next") /\ rows' = rows /\ call' = call /\ synced' = synced
          /\ faults' = faults /\ batch[w].pc # "dispatch"
      BY <1>9 DEF Count
    <2>2. Onward("next")
      BY <2>1, GotoOthers
    <2> QED
      BY <1>1, <1>2, <2>1, <2>2 DEF Handles
  <1>10. ASSUME UpdateFails(w) PROVE Handles(w)
    <2>1. /\ Goto(w, "next") /\ call' = call /\ synced' = synced /\ faults' # 0
          /\ Mark(w, "failed") \/ rows' = rows
          /\ batch[w].pc # "dispatch"
      BY <1>10, FaultCounts DEF UpdateFails
    <2>2. \/ rows' = rows
          \/ rows'[q].state = "failed" /\ \A r \in Rows \ {q} : rows'[r] = rows[r]
      BY <1>2, <2>1, MarkRow
    <2>3. Onward("next")
      BY <2>1, GotoOthers
    <2> QED
      BY <1>1, <1>2, <2>1, <2>2, <2>3 DEF Handles
  <1>11. Handles(w)
    BY <1>4, <1>5, <1>6, <1>7, <1>8, <1>9, <1>10
  <1> QED
    BY <1>2, <1>11, Handled
-----------------------------------------------------------------------------
(* The sync, the calls' outcomes, retries and time.                         *)

\* Rows are inserted.
LEMMA RowsArrive ==
    ASSUME TypeOK, ClaimInv, Unsynced', call' = call, batch' = batch, faults' = faults,
           \A r \in Rows :
              rows'[r] = rows[r] \/ (rows[r].state = "none" /\ rows'[r].state = "queued")
    PROVE  ClaimInv'
  <1>1. \A w \in Workers : /\ Claiming(w)' <=> Claiming(w)
                           /\ \A r \in Rows : Holds(w, r)' <=> Holds(w, r)
    BY DEF Holds, Claiming
  <1>2. QueuedIsFresh'
    BY DEF ClaimInv, QueuedIsFresh
  <1>3. \A w \in Workers : Claiming(w) =>
          \A r \in batch[w].claims : r \in Rows /\ rows'[r] = rows[r]
    BY DEF ClaimInv, ClaimsTaken, TypeOK, QueueTypeOK, BatchInfo
  <1>4. ClaimsTaken' /\ ClaimsApart'
    BY <1>1, <1>3 DEF ClaimInv, ClaimsTaken, ClaimsApart
  <1>5. HeldIsFresh' /\ CurrentRow' /\ NoneLost'
    BY <1>1 DEF ClaimInv, HeldIsFresh, CurrentRow, NoneLost
  <1> QED
    BY <1>2, <1>4, <1>5 DEF ClaimInv

LEMMA SyncStep ==
    ASSUME TypeOK, ClaimInv, SyncSource
    PROVE  ClaimInv'
  <1>1. PICK S \in SUBSET Sources :
          rows' = [r \in Rows |-> IF r \in S \X {0} THEN [state |-> "queued", wait |-> 0]
                                  ELSE rows[r]]
    BY DEF SyncSource
  <1>2. ~synced /\ synced' = TRUE /\ call' = call /\ batch' = batch /\ faults' = faults
    BY DEF SyncSource
  <1>3. \A r \in Rows :
          rows'[r] = rows[r] \/ (rows[r].state = "none" /\ rows'[r].state = "queued")
    BY <1>1, <1>2 DEF ClaimInv, Unsynced
  <1>4. Unsynced'
    BY <1>2 DEF Unsynced
  <1> QED
    BY <1>2, <1>3, <1>4, RowsArrive

\* The event of a retry names a row.
LEMMA RetryNames ==
    ASSUME TypeOK, Receive("retry")
    PROVE  Head(events).row \in Rows
  <1>1. events \in Seq(EventInfo) /\ events # <<>>
    BY DEF TypeOK, QueueTypeOK, Receive
  <1>2. Head(events) \in EventInfo
    BY <1>1
  <1> QED
    BY <1>2 DEF Receive, EventInfo

\* A retry is inserted once, as another row than any of the source.
LEMMA RetryStep ==
    ASSUME TypeOK, ClaimInv, RetryNeeded
    PROVE  ClaimInv'
  <1> DEFINE r == Head(events).row
             child == <<r[1], r[2] + 1>>
  <1>1. call' = call /\ batch' = batch /\ faults' = faults /\ synced' = synced
    BY DEF RetryNeeded
  <1>2. r \in Rows
    BY RetryNames DEF RetryNeeded
  <1>3. CASE rows' = rows
    BY <1>1, <1>3, Untouched
  <1>4. CASE /\ r[2] < MaxRetries /\ rows[child].state = "none"
             /\ rows' = [rows EXCEPT ![child] = [state |-> "queued", wait |-> RetryDelay]]
    <2>1. child \in Rows /\ \A s \in Sources : <<s, 0>> \in Rows /\ <<s, 0>> # child
      BY <1>2, <1>4, QueueAssumption DEF Rows
    <2>2. /\ \A q \in Rows \ {child} : rows'[q] = rows[q]
          /\ rows'[child].state = "queued"
      BY <1>4, <2>1 DEF TypeOK, QueueTypeOK
    <2>3. Unsynced'
      BY <1>1, <2>1, <2>2 DEF ClaimInv, Unsynced
    <2> QED
      BY <1>1, <1>4, <2>2, <2>3, RowsArrive
  <1> QED
    BY <1>3, <1>4 DEF RetryNeeded

\* Runs go on, and what they are for is not asked any more.
LEMMA CallsMove ==
    ASSUME TypeOK, ClaimInv, batch' = batch, synced' = synced, faults' = 0 => faults = 0,
           \A r \in Rows : rows'[r].state = rows[r].state,
           \A r \in Rows : call'[r] = "none" <=> call[r] = "none"
    PROVE  ClaimInv'
  <1>1. \A w \in Workers : /\ Claiming(w)' <=> Claiming(w)
                           /\ \A r \in Rows : Holds(w, r)' <=> Holds(w, r)
    BY DEF Holds, Claiming
  <1>2. \A s \in Sources : <<s, 0>> \in Rows
    BY QueueAssumption DEF Rows
  <1>3. Unsynced' /\ QueuedIsFresh'
    BY <1>2 DEF ClaimInv, Unsynced, QueuedIsFresh
  <1>4. HeldIsFresh' /\ CurrentRow' /\ NoneLost'
    BY <1>1 DEF ClaimInv, HeldIsFresh, CurrentRow, NoneLost
  <1>5. ClaimsTaken' /\ ClaimsApart'
    BY <1>1 DEF ClaimInv, ClaimsTaken, ClaimsApart, TypeOK, QueueTypeOK, BatchInfo
  <1> QED
    BY <1>3, <1>4, <1>5 DEF ClaimInv

LEMMA OutcomeStep ==
    ASSUME TypeOK, ClaimInv, NEW r \in Rows, NEW o \in Ended, Outcome(r, o)
    PROVE  ClaimInv'
  <1>1. call' = [call EXCEPT ![r] = o] /\ call[r] # "none" /\ o # "none"
    BY DEF Outcome, Ended
  <1>2. \A q \in Rows : call'[q] = "none" <=> call[q] = "none"
    BY <1>1 DEF TypeOK, QueueTypeOK
  <1>3. batch' = batch /\ synced' = synced /\ faults' = faults /\ rows' = rows
    BY DEF Outcome
  <1> QED
    BY <1>2, <1>3, CallsMove

LEMMA TickStep ==
    ASSUME TypeOK, ClaimInv, Tick
    PROVE  ClaimInv'
  <1>1. /\ rows' = [r \in Rows |-> [rows[r] EXCEPT !.wait = IF @ = 0 THEN 0 ELSE @ - 1]]
        /\ call' = [r \in Rows |-> IF call[r] = "ringing" THEN "late" ELSE call[r]]
        /\ batch' = batch /\ synced' = synced /\ (faults' = faults \/ Fault)
    BY DEF Tick
  <1>2. \A r \in Rows : rows'[r].state = rows[r].state
    BY <1>1 DEF TypeOK, QueueTypeOK, RowInfo
  <1>3. \A r \in Rows : call'[r] = "none" <=> call[r] = "none"
    BY <1>1
  <1>4. faults' = 0 => faults = 0
    BY <1>1, FaultCounts
  <1> QED
    BY <1>1, <1>2, <1>3, <1>4, CallsMove
-----------------------------------------------------------------------------
(* The batches' other steps.                                                *)

LEMMA BatchSteps ==
    ASSUME TypeOK, ClaimInv, NEW w \in Workers,
           \/ BeginBatch(w) \/ ReadFails(w) \/ CompleteBatch(w) \/ CloseFails(w)
           \/ CountExhausted(w) \/ FailBatch(w) \/ MarkCampaign(w) \/ Die(w)
    PROVE  ClaimInv'
  <1> DEFINE Out(b) == b.pc \notin {"init", "next", "dispatch", "dial", "record", "count"}
             Others == \A v \in Workers \ {w} : batch'[v] = batch[v]
             Loose == /\ rows' = rows /\ call' = call /\ synced' = synced
                      /\ Others /\ Out(batch'[w])
                      /\ (\A r \in Rows : ~Holds(w, r)) \/ faults' # 0
                      /\ faults' = 0 => faults = 0
  <1>2. Out(batch[w]) => \A r \in Rows : ~Holds(w, r)
    BY DEF Holds, Claiming
  <1>3. Out(Idle)
    BY DEF Idle
  <1>4. ASSUME BeginBatch(w) PROVE Loose
    <2>1. /\ batch' = [batch EXCEPT ![w] =
                [Idle EXCEPT !.pc = IF state = "running" THEN "claim" ELSE "completed"]]
          /\ Out(batch[w]) /\ rows' = rows /\ call' = call /\ synced' = synced
          /\ faults' = faults
      BY <1>4 DEF BeginBatch
    <2>2. Others /\ Out(batch'[w])
      BY <2>1 DEF TypeOK, QueueTypeOK, Idle
    <2> QED
      BY <1>2, <2>1, <2>2
  <1>5. ASSUME ReadFails(w) PROVE Loose
    <2>1. /\ Goto(w, "failed") /\ Out(batch[w]) /\ rows' = rows /\ call' = call
          /\ synced' = synced /\ faults' # 0
      BY <1>5, FaultCounts DEF ReadFails
    <2>2. Others /\ Out(batch'[w])
      BY <2>1, GotoOthers
    <2> QED
      BY <2>1, <2>2
  <1>6. ASSUME CompleteBatch(w) PROVE Loose
    <2>1. /\ batch' = [batch EXCEPT ![w] = Idle] /\ rows' = rows /\ call' = call
          /\ synced' = synced /\ faults' = faults
          /\ Out(batch[w]) \/ (batch[w].pc = "next" /\ batch[w].todo = {})
      BY <1>6 DEF CompleteBatch, Processed
    <2>2. Others /\ Out(batch'[w])
      BY <2>1, <1>3 DEF TypeOK, QueueTypeOK
    <2>3. \A r \in Rows : ~Holds(w, r)
      BY <2>1, <1>2 DEF Holds
    <2> QED
      BY <2>1, <2>2, <2>3
  <1>7. ASSUME CountExhausted(w) PROVE Loose
    <2>1. /\ batch' = [batch EXCEPT ![w] = Idle] \/ Goto(w, "failed")
          /\ rows' = rows /\ call' = call /\ synced' = synced /\ faults' = faults
          /\ Out(batch[w])
      BY <1>7 DEF CountExhausted
    <2>2. CASE batch' = [batch EXCEPT ![w] = Idle]
      <3>1. Others /\ Out(batch'[w])
        BY <2>2, <1>3 DEF TypeOK, QueueTypeOK
      <3> QED
        BY <3>1, <2>1, <1>2
    <2>3. CASE Goto(w, "failed")
      <3>1. Others /\ Out(batch'[w])
        BY <2>3, GotoOthers
      <3> QED
        BY <3>1, <2>1, <1>2
    <2> QED
      BY <2>1, <2>2, <2>3
  <1>8. ASSUME FailBatch(w) PROVE Loose
    <2>1. /\ Goto(w, "mark") /\ Out(batch[w]) /\ rows' = rows /\ call' = call
          /\ synced' = synced /\ faults' = faults
      BY <1>8 DEF FailBatch
    <2>2. Others /\ Out(batch'[w])
      BY <2>1, GotoOthers
    <2> QED
      BY <1>2, <2>1, <2>2
  <1>9. ASSUME MarkCampaign(w) PROVE Loose
    <2>1. /\ batch' = [batch EXCEPT ![w] = Idle] /\ Out(batch[w]) /\ rows' = rows
          /\ call' = call /\ synced' = synced /\ faults' = faults
      BY <1>9 DEF MarkCampaign
    <2>2. Others /\ Out(batch'[w])
      BY <2>1, <1>3 DEF TypeOK, QueueTypeOK
    <2> QED
      BY <1>2, <2>1, <2>2
  <1>10. ASSUME Die(w) PROVE Loose
    <2>1. /\ batch' = [batch EXCEPT ![w] = Idle] /\ rows' = rows /\ call' = call
          /\ synced' = synced /\ faults' # 0
      BY <1>10, FaultCounts DEF Die
    <2>2. Others /\ Out(batch'[w])
      BY <2>1, <1>3 DEF TypeOK, QueueTypeOK
    <2> QED
      BY <2>1, <2>2
  <1>11. ASSUME CloseFails(w) PROVE Loose
    <2>1. /\ Goto(w, "failed") /\ rows' = rows /\ call' = call /\ synced' = synced
          /\ faults' # 0
      BY <1>11, FaultCounts DEF CloseFails
    <2>2. Others /\ Out(batch'[w])
      BY <2>1, GotoOthers
    <2> QED
      BY <2>1, <2>2
  <1>12. Loose
    BY <1>4, <1>5, <1>6, <1>7, <1>8, <1>9, <1>10, <1>11
  <1> QED
    BY <1>12, LetGo

\* A batch that cannot go on returns its claims, or fails to.
LEMMA Returns ==
    ASSUME TypeOK, ClaimInv, NEW w \in Workers, Claiming(w), ReturnClaims(w),
           NEW pc \in {"failed", "exhausted"}, Goto(w, pc), call' = call, synced' = synced
    PROVE  ClaimInv'
  <1>1. /\ \A v \in Workers \ {w} : batch'[v] = batch[v]
        /\ batch'[w].pc \notin {"init", "next", "dispatch", "dial", "record", "count"}
    BY GotoOthers
  <1>2. CASE rows' = ReturnUnprocessed(batch[w].claims) /\ faults' = faults
    BY <1>1, <1>2, Returned
  <1>3. CASE rows' = rows /\ Fault
    BY <1>1, <1>3, FaultCounts, LetGo
  <1> QED
    BY <1>2, <1>3 DEF ReturnClaims

LEMMA ReturnSteps ==
    ASSUME TypeOK, ClaimInv, NEW w \in Workers,
           SlotTimeout(w) \/ PoolExhausted(w) \/ Cancel(w)
    PROVE  ClaimInv'
  <1> DEFINE Out(b) == b.pc \notin {"init", "next", "dispatch", "dial", "record", "count"}
             Others == \A v \in Workers \ {w} : batch'[v] = batch[v]
  <1>1. CASE SlotTimeout(w)
    BY <1>1, Returns DEF SlotTimeout, Claiming
  <1>2. CASE PoolExhausted(w)
    BY <1>2, Returns DEF PoolExhausted, Claiming
  <1>3. CASE Cancel(w)
    <2>1. /\ batch' = [batch EXCEPT ![w] = Idle] /\ call' = call /\ synced' = synced
          /\ faults' # 0
          /\ rows' = IF InLoop(w) THEN ReturnUnprocessed(batch[w].claims) ELSE rows
      BY <1>3, FaultCounts DEF Cancel
    <2>2. Others /\ Out(batch'[w])
      BY <2>1 DEF TypeOK, QueueTypeOK, Idle
    <2>3. CASE InLoop(w)
      BY <2>1, <2>2, <2>3, Returned DEF InLoop, Claiming
    <2>4. CASE ~InLoop(w)
      BY <2>1, <2>2, <2>4, LetGo
    <2> QED
      BY <2>3, <2>4
  <1> QED
    BY <1>1, <1>2, <1>3
-----------------------------------------------------------------------------
(* Types, a part of the state at a time.                                    *)

RowsOK == rows \in [Rows -> RowInfo]
CallsOK == call \in [Rows -> CallStates]
EventsOK == events \in Seq(EventInfo) /\ Len(events) <= MaxEvents
BatchOK ==
    /\ batch \in [Workers -> BatchInfo]
    /\ \A w \in Workers :
          batch[w].todo \subseteq batch[w].claims /\ Cardinality(batch[w].claims) <= BatchSize
CampaignOK ==
    /\ state \in States /\ synced \in BOOLEAN
    /\ failedRows \in Nat /\ exhausted \in Nat /\ jobs \in 0..MaxJobs
    /\ faults \in 0..MaxFaults /\ surprises \in 0..MaxSurprises
MemoryOK ==
    /\ flag \in BOOLEAN /\ lock \in BOOLEAN
    /\ active \in {NoTime} \cup (0..CompletionTimeout)
    /\ dbActive \in 0..CompletionTimeout
    /\ task \in [Tasks -> TaskPCs]

LEMMA TypeParts ==
    /\ TypeOK <=> RowsOK /\ CallsOK /\ EventsOK /\ BatchOK /\ CampaignOK /\ MemoryOK
    /\ RowsOK' /\ CallsOK' /\ EventsOK' /\ BatchOK' /\ CampaignOK' /\ MemoryOK' => TypeOK'
  BY DEF TypeOK, QueueTypeOK, RowsOK, CallsOK, EventsOK, BatchOK, CampaignOK, MemoryOK

\* Zero is in the range of every counter and age.
LEMMA Zero ==
    /\ 0 \in 0..MaxFaults /\ 0 \in 0..MaxSurprises /\ 0 \in 0..MaxJobs /\ 0 <= MaxEvents
    /\ 0 \in 0..CompletionTimeout /\ 0 <= BatchSize /\ 0 \in 0..RetryDelay
  <1>1. /\ MaxFaults \in Nat /\ MaxSurprises \in Nat /\ MaxJobs \in Nat /\ MaxEvents \in Nat
        /\ BatchSize \in Nat /\ RetryDelay \in Nat
    BY QueueAssumption
  <1>2. CompletionTimeout \in Nat
    BY OrchestratorAssumption
  <1> QED
    BY <1>1, <1>2

LEMMA FiniteRows ==
    ASSUME NEW S \in SUBSET Rows
    PROVE  IsFiniteSet(S)
  <1>1. IsFiniteSet(0..MaxRetries)
    BY FS_Interval, QueueAssumption
  <1>2. IsFiniteSet(Rows)
    BY <1>1, FS_Product, QueueAssumption DEF Rows
  <1> QED
    BY <1>2, FS_Subset

\* One batch's record changes.
LEMMA BatchType ==
    ASSUME BatchOK, NEW w \in Workers, NEW b \in BatchInfo,
           b.todo \subseteq b.claims, Cardinality(b.claims) <= BatchSize,
           batch' = [batch EXCEPT ![w] = b]
    PROVE  BatchOK'
  BY DEF BatchOK

LEMMA GotoType ==
    ASSUME BatchOK, NEW w \in Workers, NEW pc \in PCs, Goto(w, pc)
    PROVE  BatchOK'
  <1>1. [batch[w] EXCEPT !.pc = pc] \in BatchInfo
    BY DEF BatchOK, BatchInfo
  <1>2. batch' = [batch EXCEPT ![w] = [batch[w] EXCEPT !.pc = pc]]
    BY DEF Goto
  <1>3. /\ [batch[w] EXCEPT !.pc = pc].todo = batch[w].todo
        /\ [batch[w] EXCEPT !.pc = pc].claims = batch[w].claims
    BY DEF BatchOK, BatchInfo
  <1> QED
    BY <1>1, <1>2, <1>3, BatchType DEF BatchOK

LEMMA IdleType ==
    ASSUME BatchOK, NEW w \in Workers, NEW b \in BatchInfo, b.todo = {}, b.claims = {},
           batch' = [batch EXCEPT ![w] = b]
    PROVE  BatchOK'
  <1>1. Cardinality({}) <= BatchSize
    BY FS_EmptySet, QueueAssumption
  <1> QED
    BY <1>1, BatchType

LEMMA BeginType ==
    ASSUME BatchOK, NEW w \in Workers, NEW pc \in PCs,
           batch' = [batch EXCEPT ![w] = [Idle EXCEPT !.pc = pc]]
    PROVE  BatchOK'
  <1> DEFINE b == [Idle EXCEPT !.pc = pc]
  <1>1. b \in BatchInfo /\ b.todo = {} /\ b.claims = {}
    BY DEF Idle, BatchInfo
  <1> QED
    BY <1>1, IdleType

LEMMA EndType ==
    ASSUME BatchOK, NEW w \in Workers, batch' = [batch EXCEPT ![w] = Idle]
    PROVE  BatchOK'
  <1>1. Idle \in BatchInfo /\ Idle.todo = {} /\ Idle.claims = {}
    BY DEF Idle, BatchInfo, PCs
  <1> QED
    BY <1>1, IdleType

\* An event is published.
LEMMA PublishType ==
    ASSUME EventsOK, NEW es \in Seq(EventInfo), Publish(es)
    PROVE  EventsOK'
  BY DEF EventsOK, Publish

\* The first event is received or lost.
LEMMA TailType ==
    ASSUME EventsOK, events # <<>>, events' = Tail(events)
    PROVE  EventsOK'
  BY QueueAssumption DEF EventsOK

LEMMA EventTypes ==
    /\ \A k \in {"sync", "completed", "failed", "tripped"} : Event(k) \in EventInfo
    /\ \A r \in Rows : [kind |-> "retry", row |-> r] \in EventInfo
  BY DEF Event, EventInfo

LEMMA EvaluateType ==
    ASSUME EventsOK, CampaignOK, NEW es \in Seq(EventInfo), Evaluate(es)
    PROVE  EventsOK' /\ state' \in States /\ surprises' \in 0..MaxSurprises
  <1>1. CASE Publish(es) /\ UNCHANGED <<state, surprises>>
    BY <1>1, PublishType DEF CampaignOK
  <1>2. CASE Surprise /\ state' = "paused" /\ Publish(<<Event("tripped")>> \o es)
    <2>1. <<Event("tripped")>> \o es \in Seq(EventInfo)
      BY EventTypes
    <2>2. EventsOK'
      BY <1>2, <2>1, PublishType
    <2> QED
      BY <1>2, <2>2, QueueAssumption DEF CampaignOK, Surprise, States
  <1> QED
    BY <1>1, <1>2 DEF Evaluate

\* The row in hand is marked.
LEMMA MarkType ==
    ASSUME RowsOK, NEW w \in Workers, batch[w].row \in Rows,
           NEW s \in {"processed", "failed"}, Mark(w, s)
    PROVE  RowsOK'
  BY DEF RowsOK, Mark, RowInfo

LEMMA ReturnType ==
    ASSUME RowsOK, NEW S, rows' = ReturnUnprocessed(S)
    PROVE  RowsOK'
  BY DEF RowsOK, ReturnUnprocessed, RowInfo
-----------------------------------------------------------------------------
(* Every step keeps the types.                                              *)

LEMMA UserTypes ==
    ASSUME TypeOK, UNCHANGED orchestratorVars, SyncSource \/ SyncFails \/ Pause \/ Resume
    PROVE  TypeOK'
  <1> USE TypeParts
  <1>1. BatchOK' /\ CallsOK' /\ MemoryOK'
    BY DEF SyncSource, SyncFails, Pause, Resume, BatchOK, CallsOK, MemoryOK, orchestratorVars
  <1>2. CASE SyncSource
    <2>1. RowsOK'
      BY <1>2, QueueAssumption DEF SyncSource, RowsOK, RowInfo
    <2>2. EventsOK'
      <3>1. <<Event("sync")>> \in Seq(EventInfo)
        BY EventTypes
      <3> QED
        BY <1>2, <3>1, PublishType DEF SyncSource, EventsOK
    <2>3. CampaignOK'
      BY <1>2 DEF SyncSource, CampaignOK, States
    <2> QED
      BY <1>1, <2>1, <2>2, <2>3
  <1>3. CASE SyncFails
    BY <1>1, <1>3, QueueAssumption DEF SyncFails, CampaignOK, States, Fault, RowsOK, EventsOK
  <1>4. CASE Pause \/ Resume
    BY <1>1, <1>4, QueueAssumption
    DEF Pause, Resume, CampaignOK, States, Surprise, RowsOK, EventsOK
  <1> QED
    BY <1>2, <1>3, <1>4

\* A batch's step changes its record and, at most, the rows and the calls.
LEMMA LoopTypes ==
    ASSUME TypeOK, ClaimInv, UNCHANGED orchestratorVars, NEW w \in Workers,
           \/ Claim(w) \/ InitNumbers(w) \/ AcquireSlot(w) \/ SlotTimeout(w)
           \/ PoolExhausted(w) \/ DispatchFails(w) \/ CreateRun(w) \/ Dial(w)
           \/ Record(w) \/ Count(w)
    PROVE  TypeOK'
  <1> USE TypeParts
  <1>1. EventsOK' /\ CampaignOK' /\ MemoryOK'
    <2>1. EventsOK' /\ MemoryOK'
      BY DEF Claim, InitNumbers, AcquireSlot, SlotTimeout, PoolExhausted, DispatchFails,
             CreateRun, Dial, Record, Count, EventsOK, MemoryOK, orchestratorVars
    <2>2. /\ UNCHANGED <<state, synced, failedRows, exhausted, jobs, surprises>>
          /\ faults' = faults \/ Fault
      BY DEF Claim, InitNumbers, AcquireSlot, SlotTimeout, PoolExhausted, ReturnClaims,
             DispatchFails, CreateRun, Dial, Record, Count
    <2>3. CampaignOK'
      BY <2>2, FaultCounts DEF CampaignOK
    <2> QED
      BY <2>1, <2>3
  <1>2. batch[w] \in BatchInfo /\ batch[w].todo \subseteq batch[w].claims
    BY DEF BatchOK
  <1>3. batch[w].pc \in {"dispatch", "dial", "record", "count"} =>
          batch[w].row \in Rows /\ batch[w].row \notin batch[w].todo
    BY DEF ClaimInv, CurrentRow
  <1>4. CASE Claim(w)
    <2>1. PICK S \in Claimable :
            /\ rows' = [r \in Rows |-> IF r \in S THEN [rows[r] EXCEPT !.state = "processing"]
                                       ELSE rows[r]]
            /\ batch' = [batch EXCEPT ![w].pc = IF S = {} THEN "completed" ELSE "init",
                                      ![w].todo = S, ![w].claims = S]
      BY <1>4 DEF Claim
    <2>2. S \subseteq Rows /\ Cardinality(S) <= BatchSize
      BY DEF Claimable, Ready
    <2>3. RowsOK'
      BY <2>1 DEF RowsOK, RowInfo
    <2> DEFINE b == [batch[w] EXCEPT !.pc = IF S = {} THEN "completed" ELSE "init",
                                     !.todo = S, !.claims = S]
    <2>4. b \in BatchInfo /\ b.todo = S /\ b.claims = S
      BY <1>2, <2>2 DEF BatchInfo, PCs
    <2>5. batch' = [batch EXCEPT ![w] = b]
      BY <2>1
    <2>6. BatchOK'
      BY <2>2, <2>4, <2>5, BatchType
    <2>7. CallsOK'
      BY <1>4 DEF Claim, CallsOK
    <2> QED
      BY <1>1, <2>3, <2>6, <2>7
  <1>5. CASE InitNumbers(w) \/ Count(w)
    <2>1. Goto(w, "next") /\ "next" \in PCs /\ rows' = rows /\ call' = call
      BY <1>5 DEF InitNumbers, Count, PCs
    <2> QED
      BY <1>1, <2>1, GotoType DEF RowsOK, CallsOK
  <1>6. CASE AcquireSlot(w)
    <2>1. PICK r \in batch[w].todo :
            batch' = [batch EXCEPT ![w].pc = "dispatch", ![w].row = r, ![w].todo = @ \ {r}]
      BY <1>6 DEF AcquireSlot
    <2> DEFINE b == [batch[w] EXCEPT !.pc = "dispatch", !.row = r, !.todo = @ \ {r}]
    <2>2. b \in BatchInfo /\ b.todo = batch[w].todo \ {r} /\ b.claims = batch[w].claims
      BY <1>2 DEF BatchInfo, PCs
    <2>3. batch' = [batch EXCEPT ![w] = b]
      BY <2>1
    <2>4. b.todo \subseteq b.claims /\ Cardinality(b.claims) <= BatchSize
      BY <1>2, <2>2 DEF BatchOK
    <2>5. BatchOK'
      BY <2>2, <2>3, <2>4, BatchType
    <2> QED
      BY <1>1, <1>6, <2>5 DEF AcquireSlot, RowsOK, CallsOK
  <1>7. CASE SlotTimeout(w) \/ PoolExhausted(w)
    <2>1. /\ Goto(w, "failed") \/ Goto(w, "exhausted")
          /\ rows' = ReturnUnprocessed(batch[w].claims) \/ rows' = rows
          /\ call' = call
      BY <1>7 DEF SlotTimeout, PoolExhausted, ReturnClaims
    <2>2. BatchOK'
      BY <2>1, GotoType DEF PCs
    <2>3. RowsOK'
      BY <2>1, ReturnType DEF RowsOK
    <2> QED
      BY <1>1, <2>1, <2>2, <2>3 DEF CallsOK
  <1>8. CASE DispatchFails(w)
    <2>1. Mark(w, "failed") /\ Goto(w, "next") /\ call' = call /\ batch[w].pc = "dispatch"
      BY <1>8 DEF DispatchFails
    <2>2. RowsOK'
      BY <1>3, <2>1, MarkType
    <2>3. BatchOK'
      BY <2>1, GotoType DEF PCs
    <2> QED
      BY <1>1, <2>1, <2>2, <2>3 DEF CallsOK
  <1>9. CASE CreateRun(w)
    <2>1. Goto(w, "dial") /\ call' = [call EXCEPT ![batch[w].row] = "created"] /\ rows' = rows
      BY <1>9 DEF CreateRun
    <2>2. BatchOK'
      BY <2>1, GotoType DEF PCs
    <2> QED
      BY <1>1, <2>1, <2>2 DEF RowsOK, CallsOK, CallStates
  <1>10. CASE Dial(w)
    <2>1. Goto(w, "record") /\ call' = [call EXCEPT ![batch[w].row] = "ringing"] /\ rows' = rows
      BY <1>10 DEF Dial
    <2>2. BatchOK'
      BY <2>1, GotoType DEF PCs
    <2> QED
      BY <1>1, <2>1, <2>2 DEF RowsOK, CallsOK, CallStates
  <1>11. CASE Record(w)
    <2>1. /\ Mark(w, "processed") /\ call' = call /\ batch[w].pc = "record"
          /\ batch' = [batch EXCEPT ![w].pc = "count", ![w].any = TRUE,
                                    ![w].claims = @ \ {batch[w].row}]
      BY <1>11 DEF Record
    <2>2. RowsOK'
      BY <1>3, <2>1, MarkType
    <2> DEFINE b == [batch[w] EXCEPT !.pc = "count", !.any = TRUE,
                                     !.claims = @ \ {batch[w].row}]
    <2>3. /\ b \in BatchInfo /\ b.todo = batch[w].todo
          /\ b.claims = batch[w].claims \ {batch[w].row}
      BY <1>2 DEF BatchInfo, PCs
    <2>4. IsFiniteSet(batch[w].claims)
      BY <1>2, FiniteRows DEF BatchInfo
    <2>5. Cardinality(b.claims) <= Cardinality(batch[w].claims)
      BY <2>3, <2>4, FS_Subset
    <2>6. Cardinality(b.claims) \in Nat /\ Cardinality(batch[w].claims) \in Nat
      BY <2>3, <2>4, FS_Subset, FS_CardinalityType
    <2>7. Cardinality(b.claims) <= BatchSize
      BY <2>5, <2>6, QueueAssumption DEF BatchOK
    <2>8. b.todo \subseteq b.claims
      BY <1>2, <1>3, <2>1, <2>3
    <2>9. batch' = [batch EXCEPT ![w] = b]
      BY <2>1
    <2>10. BatchOK'
      BY <2>3, <2>7, <2>8, <2>9, BatchType
    <2> QED
      BY <1>1, <2>1, <2>2, <2>10 DEF CallsOK
  <1> QED
    BY <1>4, <1>5, <1>6, <1>7, <1>8, <1>9, <1>10, <1>11

\* The steps that publish, count a fault, or end the batch.
LEMMA EndTypes ==
    ASSUME TypeOK, ClaimInv, UNCHANGED orchestratorVars, NEW w \in Workers,
           \/ BeginBatch(w) \/ DialFails(w) \/ UpdateFails(w) \/ ReadFails(w)
           \/ CompleteBatch(w) \/ CloseFails(w) \/ CountExhausted(w) \/ FailBatch(w)
           \/ MarkCampaign(w) \/ Cancel(w) \/ Die(w)
    PROVE  TypeOK'
  <1> USE TypeParts
  <1>1. MemoryOK'
    BY DEF MemoryOK, orchestratorVars
  <1>2. batch[w].pc \in {"dispatch", "dial", "record", "count"} => batch[w].row \in Rows
    BY DEF ClaimInv, CurrentRow
  <1>3. \A k \in {"completed", "failed"} : <<Event(k)>> \in Seq(EventInfo)
    BY EventTypes
  <1>4. CASE BeginBatch(w)
    <2>1. PICK pc \in PCs : batch' = [batch EXCEPT ![w] = [Idle EXCEPT !.pc = pc]]
      BY <1>4 DEF BeginBatch, PCs
    <2>2. BatchOK'
      BY <2>1, BeginType
    <2>3. CampaignOK'
      BY <1>4, QueueAssumption DEF BeginBatch, CampaignOK
    <2> QED
      BY <1>1, <1>4, <2>2, <2>3 DEF BeginBatch, RowsOK, CallsOK, EventsOK
  <1>5. CASE DialFails(w)
    <2>1. /\ call' = [call EXCEPT ![batch[w].row] = "failed"] /\ batch[w].pc = "dial"
          /\ Mark(w, "failed") /\ Goto(w, "next") /\ Evaluate(<<>>)
          /\ UNCHANGED <<synced, failedRows, exhausted, jobs, faults>>
      BY <1>5 DEF DialFails
    <2>2. RowsOK'
      BY <1>2, <2>1, MarkType
    <2>3. BatchOK'
      BY <2>1, GotoType DEF PCs
    <2>4. <<>> \in Seq(EventInfo)
      OBVIOUS
    <2>5. EventsOK' /\ state' \in States /\ surprises' \in 0..MaxSurprises
      BY <2>1, <2>4, EvaluateType
    <2>6. CampaignOK'
      BY <2>1, <2>5 DEF CampaignOK
    <2>7. CallsOK'
      BY <2>1 DEF CallsOK, CallStates
    <2> QED
      BY <1>1, <2>2, <2>3, <2>5, <2>6, <2>7
  <1>6. CASE UpdateFails(w)
    <2>1. /\ Goto(w, "next") /\ batch[w].pc \in {"record", "count"}
          /\ Mark(w, "failed") \/ rows' = rows
      BY <1>6 DEF UpdateFails
    <2>2. BatchOK'
      BY <2>1, GotoType DEF PCs
    <2>3. RowsOK'
      <3>1. CASE Mark(w, "failed")
        BY <1>2, <2>1, <3>1, MarkType
      <3>2. CASE rows' = rows
        BY <3>2 DEF RowsOK
      <3> QED
        BY <2>1, <3>1, <3>2
    <2>4. CampaignOK'
      BY <1>6, FaultCounts DEF UpdateFails, CampaignOK
    <2> QED
      BY <1>1, <1>6, <2>2, <2>3, <2>4 DEF UpdateFails, CallsOK, EventsOK
  <1>7. CASE ReadFails(w)
    <2>1. BatchOK'
      BY <1>7, GotoType DEF ReadFails, PCs
    <2>2. CampaignOK'
      BY <1>7, FaultCounts DEF ReadFails, CampaignOK
    <2> QED
      BY <1>1, <1>7, <2>1, <2>2 DEF ReadFails, RowsOK, CallsOK, EventsOK
  <1>8. CASE CompleteBatch(w)
    <2>1. EventsOK'
      BY <1>3, <1>8, PublishType DEF CompleteBatch
    <2>2. BatchOK'
      BY <1>8, EndType DEF CompleteBatch
    <2>3. CampaignOK'
      BY <1>8 DEF CompleteBatch, ResetExhausted, CampaignOK
    <2> QED
      BY <1>1, <1>8, <2>1, <2>2, <2>3 DEF CompleteBatch, RowsOK, CallsOK
  <1>9. CASE CountExhausted(w)
    <2>1. EventsOK'
      BY <1>3, <1>9, PublishType DEF CountExhausted, EventsOK
    <2>2. batch' = [batch EXCEPT ![w] = Idle] \/ Goto(w, "failed")
      BY <1>9 DEF CountExhausted
    <2>3. BatchOK'
      BY <2>2, EndType, GotoType DEF PCs
    <2>4. CampaignOK'
      BY <1>9 DEF CountExhausted, CampaignOK
    <2> QED
      BY <1>1, <1>9, <2>1, <2>3, <2>4 DEF CountExhausted, RowsOK, CallsOK
  <1>10. CASE FailBatch(w)
    <2>1. EventsOK'
      BY <1>3, <1>10, PublishType DEF FailBatch
    <2>2. BatchOK'
      BY <1>10, GotoType DEF FailBatch, PCs
    <2> QED
      BY <1>1, <1>10, <2>1, <2>2 DEF FailBatch, RowsOK, CallsOK, CampaignOK
  <1>11. CASE MarkCampaign(w)
    <2>1. BatchOK'
      BY <1>11, EndType DEF MarkCampaign
    <2> QED
      BY <1>1, <1>11, <2>1 DEF MarkCampaign, RowsOK, CallsOK, EventsOK, CampaignOK, States
  <1>12. CASE Cancel(w) \/ Die(w)
    <2>1. /\ batch' = [batch EXCEPT ![w] = Idle] /\ Fault
          /\ rows' = rows \/ rows' = ReturnUnprocessed(batch[w].claims)
          /\ jobs' \in {jobs, jobs + 1} /\ jobs' <= MaxJobs
          /\ UNCHANGED <<state, synced, failedRows, exhausted, call, events, surprises>>
      BY <1>12 DEF Cancel, Die
    <2>2. BatchOK'
      BY <2>1, EndType
    <2>3. RowsOK'
      BY <2>1, ReturnType DEF RowsOK
    <2>4. CampaignOK'
      BY <2>1, FaultCounts, QueueAssumption DEF CampaignOK
    <2> QED
      BY <1>1, <2>1, <2>2, <2>3, <2>4 DEF CallsOK, EventsOK
  <1>13. CASE CloseFails(w)
    <2>1. BatchOK'
      BY <1>13, GotoType DEF CloseFails, PCs
    <2>2. CampaignOK'
      BY <1>13, FaultCounts DEF CloseFails, ResetExhausted, CampaignOK
    <2> QED
      BY <1>1, <1>13, <2>1, <2>2 DEF CloseFails, RowsOK, CallsOK, EventsOK
  <1> QED
    BY <1>4, <1>5, <1>6, <1>7, <1>8, <1>9, <1>10, <1>11, <1>12, <1>13

LEMMA CallTypes ==
    ASSUME TypeOK, UNCHANGED orchestratorVars, NEW r \in Rows,
           RepeatOutcome(r) \/ \E o \in Ended : Outcome(r, o)
    PROVE  TypeOK'
  <1> USE TypeParts
  <1>1. MemoryOK' /\ RowsOK' /\ BatchOK'
    BY DEF MemoryOK, orchestratorVars, RepeatOutcome, Outcome, RowsOK, BatchOK
  <1>2. <<[kind |-> "retry", row |-> r]>> \in Seq(EventInfo) /\ <<>> \in Seq(EventInfo)
    BY EventTypes
  <1>3. CASE RepeatOutcome(r)
    <2>1. EventsOK'
      BY <1>2, <1>3, PublishType DEF RepeatOutcome
    <2>2. CampaignOK'
      BY <1>3, FaultCounts DEF RepeatOutcome, CampaignOK
    <2> QED
      BY <1>1, <1>3, <2>1, <2>2 DEF RepeatOutcome, CallsOK
  <1>4. ASSUME NEW o \in Ended, Outcome(r, o) PROVE TypeOK'
    <2>1. PICK es \in Seq(EventInfo) : Evaluate(es)
      BY <1>2, <1>4 DEF Outcome
    <2>2. EventsOK' /\ state' \in States /\ surprises' \in 0..MaxSurprises
      BY <2>1, EvaluateType
    <2>3. CallsOK'
      BY <1>4 DEF Outcome, CallsOK, CallStates, Ended
    <2>4. CampaignOK'
      BY <1>4, <2>2 DEF Outcome, CampaignOK
    <2> QED
      BY <1>1, <2>2, <2>3, <2>4
  <1> QED
    BY <1>3, <1>4
-----------------------------------------------------------------------------
(* The orchestrator.                                                        *)

LEMMA ProceedType ==
    ASSUME MemoryOK, NEW t \in Tasks, NEW pc \in TaskPCs, Proceed(t, pc)
    PROVE  task' \in [Tasks -> TaskPCs]
  BY DEF MemoryOK, Proceed

LEMMA ScheduleEndsType ==
    ASSUME MemoryOK, NEW t \in Tasks, ScheduleEnds(t)
    PROVE  /\ task' \in [Tasks -> TaskPCs]
           /\ active' \in {NoTime} \cup (0..CompletionTimeout)
  <1>1. task' \in [Tasks -> TaskPCs]
    BY ProceedType DEF ScheduleEnds, TaskPCs
  <1> QED
    BY <1>1, OrchestratorAssumption DEF ScheduleEnds, MemoryOK

LEMMA MonitorTypes ==
    ASSUME TypeOK, Look \/ Check \/ Recheck \/ Complete \/ LockExpires
    PROVE  TypeOK'
  <1> USE TypeParts
  <1>1. RowsOK' /\ CallsOK' /\ EventsOK' /\ BatchOK'
    BY DEF Look, Check, Recheck, Complete, LockExpires, queueVars, RowsOK, CallsOK, EventsOK, BatchOK
  <1>2. CampaignOK'
    BY FaultCounts DEF Look, Check, Recheck, Complete, LockExpires, queueVars, CampaignOK, States
  <1>3. /\ "monitor" \in Tasks
        /\ \A pc \in {"idle", "check", "schedule", "complete", "write"} : pc \in TaskPCs
    BY DEF Tasks, TaskPCs
  <1>4. CASE Look
    BY <1>1, <1>2, <1>3, <1>4, ProceedType DEF Look, MemoryOK, memory
  <1>5. CASE Check
    <2>1. PICK pc \in TaskPCs : Proceed("monitor", pc)
      BY <1>3, <1>5 DEF Check
    <2>2. task' \in [Tasks -> TaskPCs]
      BY <1>3, <2>1, ProceedType
    <2> QED
      BY <1>1, <1>2, <1>5, <2>2 DEF Check, MemoryOK
  <1>6. CASE Complete
    <2>1. task' \in [Tasks -> TaskPCs]
      BY <1>3, <1>6, ProceedType DEF Complete
    <2> QED
      BY <1>1, <1>2, <1>6, <2>1 DEF Complete, MemoryOK, memory, ClearCampaignState
  <1>7. CASE LockExpires
    BY <1>1, <1>2, <1>7 DEF LockExpires, MemoryOK
  <1>8. CASE Recheck
    <2>1. PICK pc \in TaskPCs : Proceed("monitor", pc)
      BY <1>3, <1>8 DEF Recheck
    <2>2. task' \in [Tasks -> TaskPCs]
      BY <1>3, <2>1, ProceedType
    <2> QED
      BY <1>1, <1>2, <1>8, <2>2 DEF Recheck, MemoryOK, memory
  <1> QED
    BY <1>4, <1>5, <1>6, <1>7, <1>8

LEMMA ScheduleTypes ==
    ASSUME TypeOK, NEW t \in Tasks, Schedules(t) \/ PauseForBreaker(t)
    PROVE  TypeOK'
  <1> USE TypeParts
  <1>1. RowsOK' /\ CallsOK' /\ BatchOK'
    BY DEF Schedules, Schedule, Enqueue, NothingToDo, SetFlag, PauseForBreaker, queueVars,
           RowsOK, CallsOK, BatchOK
  <1>2. "work" \in TaskPCs /\ "flag" \in TaskPCs /\ "idle" \in TaskPCs
    BY DEF TaskPCs
  <1>3. CASE Schedule(t)
    <2>1. task' \in [Tasks -> TaskPCs] /\ active' \in {NoTime} \cup (0..CompletionTimeout)
      <3>1. \/ ScheduleEnds(t)
            \/ Proceed(t, "work") /\ active' = active
        BY <1>3 DEF Schedule
      <3>2. CASE ScheduleEnds(t)
        BY <3>2, ScheduleEndsType
      <3>3. CASE Proceed(t, "work") /\ active' = active
        BY <1>2, <3>3, ProceedType DEF MemoryOK
      <3> QED
        BY <3>1, <3>2, <3>3
    <2> QED
      BY <1>1, <1>3, <2>1 DEF Schedule, queueVars, MemoryOK, CampaignOK, EventsOK
  <1>4. CASE Enqueue(t)
    <2>1. task' \in [Tasks -> TaskPCs] /\ active' \in {NoTime} \cup (0..CompletionTimeout)
      <3>1. \/ ScheduleEnds(t)
            \/ Proceed(t, "flag") /\ active' = active
        BY <1>4 DEF Enqueue
      <3>2. CASE ScheduleEnds(t)
        BY <3>2, ScheduleEndsType
      <3>3. CASE Proceed(t, "flag") /\ active' = active
        BY <1>2, <3>3, ProceedType DEF MemoryOK
      <3> QED
        BY <3>1, <3>2, <3>3
    <2>2. MemoryOK'
      BY <1>4, <2>1, Zero DEF Enqueue, MemoryOK
    <2>3. CampaignOK'
      BY <1>4, FaultCounts, QueueAssumption DEF Enqueue, CampaignOK
    <2> QED
      BY <1>1, <1>4, <2>2, <2>3 DEF Enqueue, EventsOK
  <1>5. CASE NothingToDo(t) \/ SetFlag(t)
    <2>1. task' \in [Tasks -> TaskPCs] /\ active' \in {NoTime} \cup (0..CompletionTimeout)
      BY <1>5, ScheduleEndsType DEF NothingToDo, SetFlag
    <2> QED
      BY <1>1, <1>5, <2>1, Zero
      DEF NothingToDo, SetFlag, queueVars, MemoryOK, CampaignOK, EventsOK
  <1>6. CASE PauseForBreaker(t)
    <2>1. task' \in [Tasks -> TaskPCs]
      BY <1>2, <1>6, ProceedType DEF PauseForBreaker
    <2>2. MemoryOK'
      BY <1>6, <2>1, Zero DEF PauseForBreaker, MemoryOK
    <2>3. <<Event("tripped")>> \in Seq(EventInfo)
      BY EventTypes
    <2>4. EventsOK'
      BY <1>6, <2>3, PublishType DEF PauseForBreaker
    <2>5. CampaignOK'
      BY <1>6, FaultCounts DEF PauseForBreaker, CampaignOK, States
    <2> QED
      BY <1>1, <2>2, <2>4, <2>5
  <1> QED
    BY <1>3, <1>4, <1>5, <1>6 DEF Schedules

LEMMA ListenTypes ==
    ASSUME TypeOK, Listen
    PROVE  TypeOK'
  <1> USE TypeParts
  <1>1. CallsOK' /\ BatchOK'
    BY DEF Listen, RetryNeeded, Touch, BatchCompleted, BatchFailed, SyncCompleted,
           BreakerTripped, queueVars, CallsOK, BatchOK
  <1>2. EventsOK'
    <2>1. CASE Touch
      BY <2>1 DEF Touch, queueVars, EventsOK
    <2> QED
      BY <2>1, TailType DEF Listen, RetryNeeded, BatchCompleted, BatchFailed, SyncCompleted,
                            BreakerTripped, Receive
  <1>3. CampaignOK'
    BY DEF Listen, RetryNeeded, Touch, BatchCompleted, BatchFailed, SyncCompleted,
           BreakerTripped, queueVars, CampaignOK, States
  <1>4. MemoryOK'
    <2>1. CASE task' = task
      BY <2>1, Zero
      DEF Listen, RetryNeeded, Touch, BatchCompleted, BatchFailed, SyncCompleted, BreakerTripped,
          MemoryOK, memory, ClearCampaignState
    <2>2. CASE \E pc \in {"idle", "schedule", "touch"} : Proceed("listener", pc)
      <3>1. task' \in [Tasks -> TaskPCs]
        BY <2>2, ProceedType DEF Tasks, TaskPCs
      <3> QED
        BY <3>1, Zero
        DEF Listen, RetryNeeded, Touch, BatchCompleted, BatchFailed, SyncCompleted, BreakerTripped,
            MemoryOK, memory, ClearCampaignState
    <2> QED
      BY <2>1, <2>2
      DEF Listen, RetryNeeded, Touch, BatchCompleted, BatchFailed, SyncCompleted, BreakerTripped
  <1>5. RowsOK'
    <2>1. CASE rows' = rows
      BY <2>1 DEF RowsOK
    <2>2. CASE RetryNeeded
      BY <2>2, QueueAssumption DEF RetryNeeded, RowsOK, RowInfo
    <2> QED
      BY <2>1, <2>2
      DEF Listen, Touch, BatchCompleted, BatchFailed, SyncCompleted, BreakerTripped, queueVars
  <1> QED
    BY <1>1, <1>2, <1>3, <1>4, <1>5

LEMMA FaultTypes ==
    ASSUME TypeOK, LoseEvent \/ Restart \/ Tick
    PROVE  TypeOK'
  <1> USE TypeParts
  <1>1. BatchOK'
    BY DEF LoseEvent, Restart, Tick, BatchOK
  <1>2. CampaignOK'
    BY FaultCounts DEF LoseEvent, Restart, Tick, CampaignOK
  <1>3. CASE LoseEvent
    <2>1. EventsOK'
      BY <1>3, TailType DEF LoseEvent
    <2> QED
      BY <1>1, <1>2, <1>3, <2>1 DEF LoseEvent, orchestratorVars, RowsOK, CallsOK, MemoryOK
  <1>4. CASE Restart
    <2>1. EventsOK'
      BY <1>4, QueueAssumption DEF Restart, EventsOK
    <2>2. MemoryOK'
      BY <1>4 DEF Restart, MemoryOK, ClearCampaignState, TaskPCs
    <2> QED
      BY <1>1, <1>2, <1>4, <2>1, <2>2 DEF Restart, RowsOK, CallsOK
  <1>5. CASE Tick
    <2>1. RowsOK'
      <3>1. \A n \in 0..RetryDelay : (IF n = 0 THEN 0 ELSE n - 1) \in 0..RetryDelay
        BY QueueAssumption
      <3>2. \A r \in Rows :
              [rows[r] EXCEPT !.wait = IF @ = 0 THEN 0 ELSE @ - 1] \in RowInfo
        BY <3>1 DEF RowsOK, RowInfo
      <3> QED
        BY <1>5, <3>2 DEF Tick, RowsOK
    <2>2. CallsOK'
      BY <1>5 DEF Tick, CallsOK, CallStates
    <2>3. \A n \in 0..CompletionTimeout : Older(n) \in 0..CompletionTimeout
      BY OrchestratorAssumption DEF Older
    <2>4. MemoryOK'
      BY <1>5, <2>3 DEF Tick, MemoryOK
    <2> QED
      BY <1>1, <1>2, <1>5, <2>1, <2>2, <2>4 DEF Tick, EventsOK
  <1> QED
    BY <1>3, <1>4, <1>5
-----------------------------------------------------------------------------
(* The theorems.                                                            *)

LEMMA CampaignInit ==
    ASSUME Init
    PROVE  CampaignInv
  <1>1. TypeOK
    <2>1. RowsOK /\ CallsOK
      BY QueueAssumption DEF Init, QueueInit, RowsOK, CallsOK, RowInfo, CallStates
    <2>2. EventsOK
      BY Zero DEF Init, QueueInit, EventsOK
    <2>3. CampaignOK
      BY Zero DEF Init, QueueInit, CampaignOK, States
    <2>4. MemoryOK
      BY Zero DEF Init, MemoryOK, Tasks, TaskPCs
    <2>5. Idle \in BatchInfo /\ Idle.todo = {} /\ Idle.claims = {}
      BY DEF Idle, BatchInfo, PCs
    <2>6. BatchOK
      BY <2>5, FS_EmptySet, Zero DEF Init, QueueInit, BatchOK
    <2> QED
      BY <2>1, <2>2, <2>3, <2>4, <2>6, TypeParts
  <1>2. \A w \in Workers : ~Claiming(w) /\ batch[w].pc = "idle"
    BY DEF Init, QueueInit, Claiming, Idle
  <1>3. Unsynced /\ QueuedIsFresh
    BY QueueAssumption DEF Init, QueueInit, Unsynced, QueuedIsFresh, Rows
  <1>4. ClaimsTaken /\ ClaimsApart /\ HeldIsFresh /\ CurrentRow
    BY <1>2 DEF ClaimsTaken, ClaimsApart, HeldIsFresh, CurrentRow, Holds
  <1>5. NoneLost
    BY DEF Init, QueueInit, NoneLost
  <1> QED
    BY <1>1, <1>3, <1>4, <1>5 DEF CampaignInv, ClaimInv

LEMMA TypeStep ==
    ASSUME CampaignInv, [Next]_vars
    PROVE  TypeOK'
  <1> USE DEF CampaignInv
  <1>1. CASE QueueNext /\ UNCHANGED orchestratorVars
    BY <1>1, UserTypes, LoopTypes, EndTypes, CallTypes DEF QueueNext, Advance
  <1>2. CASE Next /\ ~QueueNext
    BY <1>2, ListenTypes, ScheduleTypes, MonitorTypes, FaultTypes DEF Next
  <1>3. CASE UNCHANGED vars
    BY <1>3 DEF vars, queueVars, orchestratorVars, TypeOK, QueueTypeOK
  <1> QED
    BY <1>1, <1>2, <1>3, ListenTypes, ScheduleTypes, MonitorTypes, FaultTypes DEF Next

LEMMA ClaimInvStep ==
    ASSUME CampaignInv, [Next]_vars
    PROVE  ClaimInv'
  <1> USE DEF CampaignInv
  <1>1. ASSUME NEW w \in Workers,
               \/ Advance(w) \/ UpdateFails(w) \/ ReadFails(w) \/ CloseFails(w)
               \/ Cancel(w) \/ Die(w)
        PROVE  ClaimInv'
    BY <1>1, ClaimStep, InitNumbersStep, AcquireSlotStep, RowSteps, BatchSteps, ReturnSteps
    DEF Advance
  <1>2. CASE SyncFails \/ Pause \/ Resume
    <2>1. /\ rows' = rows /\ call' = call /\ batch' = batch /\ (~synced' => ~synced)
          /\ faults' = faults \/ Fault
      BY <1>2 DEF SyncFails, Pause, Resume
    <2> QED
      BY <2>1, FaultCounts, Untouched
  <1>3. ASSUME NEW r \in Rows, RepeatOutcome(r) \/ \E o \in Ended : Outcome(r, o)
        PROVE  ClaimInv'
    <2>1. CASE RepeatOutcome(r)
      BY <2>1, Untouched DEF RepeatOutcome
    <2> QED
      BY <1>3, <2>1, OutcomeStep
  <1>4. CASE QueueNext
    BY <1>1, <1>2, <1>3, <1>4, SyncStep DEF QueueNext
  <1>5. CASE \/ Touch \/ BatchCompleted \/ BatchFailed \/ SyncCompleted \/ BreakerTripped
             \/ \E t \in Tasks : Schedules(t) \/ PauseForBreaker(t)
             \/ Look \/ Check \/ Recheck \/ Complete \/ LockExpires \/ LoseEvent \/ Restart
             \/ UNCHANGED vars
    <2>1. /\ rows' = rows /\ call' = call /\ batch' = batch /\ synced' = synced
          /\ faults' = faults \/ Fault
      BY <1>5 DEF Touch, BatchCompleted, BatchFailed, SyncCompleted, BreakerTripped, Schedules,
                  Schedule, Enqueue, NothingToDo, SetFlag, PauseForBreaker, Look, Check,
                  Recheck, Complete, LockExpires, LoseEvent, Restart, vars, queueVars
    <2> QED
      BY <2>1, FaultCounts, Untouched
  <1> QED
    BY <1>4, <1>5, RetryStep, TickStep DEF Next, Listen

\* The campaign's variables keep their types, and the invariant of the claims holds,
\* for a source of any finite size, any number of workers and any number of faults.
THEOREM CampaignInvariant ==
    Spec => []CampaignInv
  <1>1. Init => CampaignInv
    BY CampaignInit
  <1>2. CampaignInv /\ [Next]_vars => CampaignInv'
    BY TypeStep, ClaimInvStep DEF CampaignInv
  <1> QED
    BY <1>1, <1>2, PTL DEF Spec

\* Every variable of the queue and of the orchestrator keeps its type.
THEOREM TypeCorrect ==
    Spec => []TypeOK
  <1>1. CampaignInv => TypeOK
    BY DEF CampaignInv
  <1> QED
    BY <1>1, CampaignInvariant, PTL

\* A row that is dialled has no workflow run yet: however many batches run at once,
\* whatever of them fails, times out or is killed, no row is dialled twice
\* (claim_queued_runs_for_processing, return_processing_queued_runs_without_workflow).
THEOREM OneRunPerRowHolds ==
    Spec => OneRunPerRow
  <1>1. CampaignInv => \A w \in Workers :
          batch[w].pc = "dispatch" => call[batch[w].row] = "none"
    BY DEF CampaignInv, ClaimInv, CurrentRow, HeldIsFresh, Holds, Claiming
  <1>2. CampaignInv =>
          [\A w \in Workers : batch[w].pc = "dispatch" /\ batch'[w].pc = "dial" =>
              call[batch[w].row] = "none"]_queueVars
    BY <1>1
  <1> QED
    BY <1>2, CampaignInvariant, PTL DEF OneRunPerRow

\* As long as no write fails and nobody is cancelled or killed, every claimed row is in
\* the hands of a batch or has its workflow run (_return_unprocessed_claims).
THEOREM NoClaimLostHolds ==
    Spec => []NoClaimLost
  <1>1. CampaignInv => NoClaimLost
    BY DEF CampaignInv, ClaimInv, NoneLost, HeldIsFresh, NoClaimLost
  <1> QED
    BY <1>1, CampaignInvariant, PTL
-----------------------------------------------------------------------------
(***************************************************************************)
(* A campaign that is completed is drained, as long as nothing has gone    *)
(* wrong and nobody has interfered.  The monitor gives a campaign up that  *)
(* has no row due, no batch in progress and has seen no activity for the   *)
(* completion timeout: it does not look at calls in progress, events under *)
(* way or retries that are scheduled for later.  The argument is that each *)
(* of these keeps the last activity young, in the memory of the            *)
(* orchestrator or, where there is none, in the database: a batch counts   *)
(* as activity, its calls end within a tick, and a retry is due RetryDelay *)
(* later.                                                                  *)
(*                                                                         *)
(* So the completion timeout has to be longer than the delay of a retry.   *)
(* If it is not, the monitor may schedule the batch of a retry when the    *)
(* last activity is that old already, and complete the campaign when the   *)
(* batch has reported but the listener has yet to note its activity, while *)
(* the batch's calls ring or ask for another retry.                        *)
(***************************************************************************)

RetriesInTime == RetryDelay < CompletionTimeout /\ 1 < CompletionTimeout

\* Nothing has gone wrong and nobody has interfered.
Calm == faults = 0 /\ surprises = 0

Carries(k) == \E i \in 1..Len(events) : events[i].kind = k

\* A batch waits for a worker or has one.
Working == jobs > 0 \/ \E w \in Workers : batch[w].pc # "idle"

Calling(c) == \E r \in Rows : call[r] = c

\* Somebody is to schedule a batch, or will.
Engaged == state = "running" \/ Carries("sync") \/ \E t \in Tasks : task[t] # "idle"

\* The listener is to see activity, or to forget it.
ResetDue ==
    \/ \E w \in Workers : batch[w].pc \notin {"idle", "mark"}
    \/ Carries("completed") \/ Carries("failed")
    \/ task["listener"] # "idle"

\* A retry is inserted, and the listener has yet to note it.
Inserted == task["listener"] = "touch"

\* The monitor has seen the last of the campaign.
Concluded == task["monitor"] \in {"complete", "write"} \/ state = "completed"

\* Nothing is left to do, and nothing can come of what is under way.
Quiet ==
    /\ synced /\ ~Working /\ ~Calling("ringing") /\ ~Calling("late") /\ ~Carries("retry")
    /\ \A r \in Rows : rows[r].state # "queued"

\* Before the sync has ended there is nothing.
NothingYet ==
    ~synced =>
        /\ state = "syncing" /\ events = <<>> /\ ~Working /\ ~lock /\ active = NoTime
        /\ \A t \in Tasks : task[t] = "idle"
        /\ \A r \in Rows : rows[r].state = "none" /\ call[r] = "none"

NotPaused == state # "paused" /\ ~Carries("tripped")

OnlyRetriesWait == \A r \in Rows : rows[r].state # "queued" => rows[r].wait = 0

\* How long ago a batch was enqueued, as the database has it.
SinceBatch ==
    /\ Working \/ Calling("ringing") => dbActive = 0
    /\ Calling("late") \/ Carries("retry") => dbActive <= 1
    /\ \A r \in Rows : rows[r].state = "queued" /\ rows[r].wait > 0 =>
         dbActive + rows[r].wait <= 1 + RetryDelay

ActiveWithin(n) == active = NoTime \/ active <= n

\* How long ago the orchestrator saw activity.
RecentActivity ==
    /\ \A r \in Rows : Engaged /\ rows[r].state = "queued" =>
         active = NoTime \/ active + rows[r].wait <= RetryDelay
    /\ Working => ActiveWithin(RetryDelay)
    /\ Calling("ringing") => ActiveWithin(0) \/ (ActiveWithin(RetryDelay) /\ ResetDue)
    /\ Calling("late") => ActiveWithin(1)
    /\ Carries("retry") => ActiveWithin(CompletionTimeout - 1)

\* What has come of a retry before the listener notes it is no older than the event was.
SinceActivity == IF Inserted THEN ActiveWithin(CompletionTimeout - 1) ELSE RecentActivity

ConcludedIsQuiet == Concluded => Quiet

DrainParts == NothingYet /\ NotPaused /\ OnlyRetriesWait /\ SinceBatch /\ SinceActivity
              /\ ConcludedIsQuiet

DrainInv == Calm => DrainParts

\* The numbers the invariant is about.
LEMMA Ages ==
    ASSUME TypeOK
    PROVE  /\ dbActive \in Nat /\ (active \in Nat \/ active = NoTime)
           /\ \A r \in Rows : rows[r].wait \in Nat /\ rows[r].wait <= RetryDelay
           /\ RetryDelay \in Nat /\ CompletionTimeout \in Nat /\ NoTime \notin Nat
           /\ dbActive <= CompletionTimeout /\ (active # NoTime => active <= CompletionTimeout)
  <1>1. /\ dbActive \in 0..CompletionTimeout /\ active \in {NoTime} \cup (0..CompletionTimeout)
        /\ \A r \in Rows : rows[r].wait \in 0..RetryDelay
    BY DEF TypeOK, QueueTypeOK, RowInfo
  <1> QED
    BY <1>1, QueueAssumption, OrchestratorAssumption

\* A step in calm that neither ends the sync nor lets time pass.
Ordinary ==
    /\ synced /\ synced' /\ NotPaused' /\ OnlyRetriesWait'
    /\ active' \in {active, 0, NoTime} /\ dbActive' \in {dbActive, 0}
    /\ Engaged' => Engaged \/ Inserted'
    /\ Inserted' => Inserted \/ Carries("retry")
    /\ Inserted => Inserted' \/ active' \in {0, NoTime}
    /\ Working' => Working \/ (Engaged /\ Ready # {} /\ dbActive' = 0)
    /\ Calling("ringing")' => Calling("ringing") \/ (Working /\ ResetDue)
    /\ Calling("late")' => Calling("late")
    /\ Carries("retry")' => Carries("retry") \/ Calling("ringing") \/ Calling("late")
    /\ ResetDue => ResetDue' \/ active' \in {0, NoTime}
    /\ \A r \in Rows : rows'[r].state = "queued" =>
         \/ rows[r].state = "queued" /\ rows'[r].wait = rows[r].wait
         \/ Working /\ rows'[r].wait = 0
         \/ Carries("retry") /\ Inserted'
    /\ Concluded' => Concluded \/ Quiet

LEMMA OrdinaryStep ==
    ASSUME TypeOK, TypeOK', RetriesInTime, DrainParts, Ordinary
    PROVE  DrainParts'
  <1> USE DEF Ordinary, DrainParts
  <1>1. /\ dbActive \in Nat /\ (active \in Nat \/ active = NoTime)
        /\ \A r \in Rows : rows[r].wait \in Nat /\ rows[r].wait <= RetryDelay
        /\ RetryDelay \in Nat /\ CompletionTimeout \in Nat /\ NoTime \notin Nat
        /\ \A r \in Rows : rows'[r].wait \in Nat /\ rows'[r].wait <= RetryDelay
    <2>1. \A r \in Rows : rows'[r].wait \in 0..RetryDelay
      BY DEF TypeOK, QueueTypeOK, RowInfo
    <2> QED
      BY <2>1, Ages
  <1>2. NothingYet'
    BY DEF NothingYet
  <1>3. SinceBatch'
    <2>1. Working' \/ Calling("ringing")' => dbActive' = 0
      BY <1>1 DEF SinceBatch
    <2>2. Calling("late")' \/ Carries("retry")' => dbActive' <= 1
      BY <1>1 DEF SinceBatch
    <2>3. ASSUME NEW r \in Rows, rows'[r].state = "queued", rows'[r].wait > 0
          PROVE  dbActive' + rows'[r].wait <= 1 + RetryDelay
      BY <1>1, <2>3 DEF SinceBatch
    <2> QED
      BY <2>1, <2>2, <2>3 DEF SinceBatch
  <1>4. SinceActivity'
    <2>1. CASE Inserted'
      <3>1. ActiveWithin(CompletionTimeout - 1)
        BY <2>1 DEF SinceActivity, RecentActivity
      <3> QED
        BY <1>1, <2>1, <3>1 DEF SinceActivity, ActiveWithin, RetriesInTime
    <2>2. CASE ~Inserted' /\ Inserted
      <3>1. active' \in {0, NoTime}
        BY <2>2
      <3> QED
        BY <1>1, <2>2, <3>1 DEF SinceActivity, RecentActivity, ActiveWithin, RetriesInTime
    <2>3. CASE ~Inserted' /\ ~Inserted
      <3> USE <2>3 DEF SinceActivity, RecentActivity
      <3>1. ASSUME NEW r \in Rows, Engaged', rows'[r].state = "queued"
            PROVE  active' = NoTime \/ active' + rows'[r].wait <= RetryDelay
        BY <1>1, <3>1 DEF ActiveWithin
      <3>2. Working' => ActiveWithin(RetryDelay)'
        <4>1. ASSUME Engaged, Ready # {}
              PROVE  ActiveWithin(RetryDelay)
          <5>1. PICK r \in Rows : rows[r].state = "queued" /\ rows[r].wait = 0
            BY <4>1 DEF Ready
          <5> QED
            BY <1>1, <4>1, <5>1 DEF ActiveWithin
        <4> QED
          BY <1>1, <4>1 DEF ActiveWithin
      <3>3. Calling("ringing")' => ActiveWithin(0)' \/ (ActiveWithin(RetryDelay)' /\ ResetDue')
        BY <1>1 DEF ActiveWithin
      <3>4. Calling("late")' => ActiveWithin(1)'
        BY <1>1 DEF ActiveWithin
      <3>5. Carries("retry")' => ActiveWithin(CompletionTimeout - 1)'
        BY <1>1 DEF ActiveWithin, RetriesInTime
      <3> QED
        BY <3>1, <3>2, <3>3, <3>4, <3>5
    <2> QED
      BY <2>1, <2>2, <2>3
  <1>5. ConcludedIsQuiet'
    <2>1. Quiet => Ready = {}
      BY DEF Quiet, Ready
    <2>2. Quiet => Quiet'
      BY <2>1 DEF Quiet
    <2> QED
      BY <2>2 DEF ConcludedIsQuiet
  <1> QED
    BY <1>2, <1>3, <1>4, <1>5
-----------------------------------------------------------------------------
(* Ordinary steps: the events, the batches and the calls.                   *)

\* In calm there is neither a fault nor a surprise.
LEMMA CalmSteps ==
    ASSUME TypeOK, Calm'
    PROVE  ~Fault /\ ~Surprise
  BY FaultCounts, QueueAssumption DEF Calm, TypeOK, QueueTypeOK, Surprise

LEMMA PublishCarries ==
    ASSUME TypeOK, NEW es \in Seq(EventInfo), Publish(es), NEW k
    PROVE  Carries(k)' <=> Carries(k) \/ \E i \in 1..Len(es) : es[i].kind = k
  <1>1. events \in Seq(EventInfo) /\ events' = events \o es
    BY DEF TypeOK, QueueTypeOK, Publish
  <1>2. /\ Len(events') = Len(events) + Len(es)
        /\ \A i \in 1..Len(events) : events'[i] = events[i]
        /\ \A i \in 1..Len(es) : events'[Len(events) + i] = es[i]
        /\ \A i \in 1..Len(events') : i > Len(events) => events'[i] = es[i - Len(events)]
        /\ Len(events) \in Nat /\ Len(es) \in Nat
    BY <1>1
  <1>3. Carries(k) => Carries(k)'
    BY <1>2 DEF Carries
  <1>4. ASSUME NEW i \in 1..Len(es), es[i].kind = k PROVE Carries(k)'
    <2>1. Len(events) + i \in 1..Len(events')
      BY <1>2
    <2> QED
      BY <1>2, <1>4, <2>1 DEF Carries
  <1>5. ASSUME Carries(k)', ~Carries(k) PROVE \E i \in 1..Len(es) : es[i].kind = k
    <2>1. PICK i \in 1..Len(events') : events'[i].kind = k
      BY <1>5 DEF Carries
    <2>2. i > Len(events)
      BY <1>2, <1>5, <2>1 DEF Carries
    <2>3. i - Len(events) \in 1..Len(es)
      BY <1>2, <2>2
    <2> QED
      BY <1>2, <2>1, <2>2, <2>3
  <1> QED
    BY <1>3, <1>4, <1>5

LEMMA PublishOne ==
    ASSUME TypeOK, NEW e \in EventInfo, Publish(<<e>>), NEW k
    PROVE  Carries(k)' <=> Carries(k) \/ e.kind = k
  <1>1. <<e>> \in Seq(EventInfo) /\ Len(<<e>>) = 1 /\ <<e>>[1] = e
    OBVIOUS
  <1>2. Carries(k)' <=> Carries(k) \/ \E i \in 1..Len(<<e>>) : <<e>>[i].kind = k
    BY <1>1, PublishCarries
  <1>3. (\E i \in 1..Len(<<e>>) : <<e>>[i].kind = k) <=> e.kind = k
    BY <1>1
  <1> QED
    BY <1>2, <1>3

LEMMA PublishNone ==
    ASSUME TypeOK, Publish(<<>>)
    PROVE  events' = events
  BY DEF TypeOK, QueueTypeOK, Publish

LEMMA ReceiveCarries ==
    ASSUME TypeOK, NEW k, Receive(k)
    PROVE  /\ Carries(k) /\ events # <<>>
           /\ \A m : Carries(m)' => Carries(m)
           /\ \A m : Carries(m) /\ m # k => Carries(m)'
  <1>1. /\ events \in Seq(EventInfo) /\ events # <<>> /\ events' = Tail(events)
        /\ events[1].kind = k
    BY DEF TypeOK, QueueTypeOK, Receive
  <1>2. /\ Len(events) \in Nat /\ Len(events) >= 1 /\ Len(events') = Len(events) - 1
        /\ \A i \in 1..Len(events') : events'[i] = events[i + 1]
    BY <1>1
  <1>3. ASSUME NEW m, Carries(m)' PROVE Carries(m)
    <2>1. PICK i \in 1..Len(events') : events'[i].kind = m
      BY <1>3 DEF Carries
    <2>2. i + 1 \in 1..Len(events)
      BY <1>2
    <2> QED
      BY <1>2, <2>1, <2>2 DEF Carries
  <1>4. ASSUME NEW m, Carries(m), m # k PROVE Carries(m)'
    <2>1. PICK i \in 1..Len(events) : events[i].kind = m
      BY <1>4 DEF Carries
    <2>2. i # 1
      BY <1>1, <1>4, <2>1
    <2>3. i - 1 \in 1..Len(events')
      BY <1>2, <2>2
    <2>4. events'[i - 1] = events[i]
      BY <1>2, <2>2, <2>3
    <2> QED
      BY <2>1, <2>3, <2>4 DEF Carries
  <1> QED
    BY <1>1, <1>2, <1>3, <1>4 DEF Carries

\* The rows wait as they did; only rows that need not wait change their state.
RowsSteady ==
    \A r \in Rows : /\ rows'[r].wait = rows[r].wait
                    /\ rows'[r].state = rows[r].state \/ rows[r].wait = 0

\* What a batch does.
BatchMoves(w) ==
    /\ synced' = synced /\ UNCHANGED orchestratorVars /\ RowsSteady
    /\ state' \in {state, "failed"}
    /\ \A v \in Workers \ {w} : batch'[v] = batch[v]
    /\ \A k \in {"sync", "retry", "tripped"} : Carries(k)' => Carries(k)
    /\ \A k \in {"completed", "failed"} : Carries(k) => Carries(k)'
    /\ \A r \in Rows : call'[r] \in {"ringing", "late"} =>
         call'[r] = call[r] \/ (call'[r] = "ringing" /\ batch[w].pc = "dial")
    /\ \/ batch[w].pc \in {"idle", "mark"} \/ batch'[w].pc \notin {"idle", "mark"}
       \/ Carries("completed")' \/ Carries("failed")'

LEMMA BatchOrdinary ==
    ASSUME TypeOK, DrainParts, NEW w \in Workers,
           jobs > 0 \/ batch[w].pc # "idle", BatchMoves(w)
    PROVE  Ordinary
  <1> USE DEF BatchMoves, DrainParts
  <1>1. Working /\ synced /\ synced'
    BY DEF Working, NothingYet
  <1>2. NotPaused'
    BY DEF NotPaused
  <1>3. OnlyRetriesWait'
    BY DEF OnlyRetriesWait, RowsSteady
  <1>4. (Engaged' => Engaged) /\ (Inserted' <=> Inserted)
    BY DEF Engaged, Inserted, orchestratorVars
  <1>5. ResetDue => ResetDue'
    BY DEF ResetDue, orchestratorVars
  <1>6. /\ Calling("ringing")' => Calling("ringing") \/ ResetDue
        /\ Calling("late")' => Calling("late")
    BY DEF Calling, ResetDue
  <1>7. \A r \in Rows : rows'[r].state = "queued" =>
          \/ rows[r].state = "queued" /\ rows'[r].wait = rows[r].wait
          \/ rows'[r].wait = 0
    BY DEF RowsSteady
  <1>8. Concluded' => Concluded
    BY DEF Concluded, orchestratorVars
  <1>9. active' = active /\ dbActive' = dbActive
    BY DEF orchestratorVars, memory
  <1> QED
    BY <1>1, <1>2, <1>3, <1>4, <1>5, <1>6, <1>7, <1>8, <1>9 DEF Ordinary

\* A claim takes rows that need not wait.
LEMMA ClaimMoves ==
    ASSUME TypeOK, NEW w \in Workers, Claim(w), UNCHANGED orchestratorVars
    PROVE  BatchMoves(w)
  <1>1. PICK S \in Claimable :
          /\ rows' = [r \in Rows |-> IF r \in S THEN [rows[r] EXCEPT !.state = "processing"]
                                     ELSE rows[r]]
          /\ batch' = [batch EXCEPT ![w].pc = IF S = {} THEN "completed" ELSE "init",
                                    ![w].todo = S, ![w].claims = S]
    BY DEF Claim
  <1>2. \A r \in S : r \in Rows /\ rows[r].wait = 0
    BY DEF Claimable, Ready
  <1>3. RowsSteady
    BY <1>1, <1>2 DEF RowsSteady, TypeOK, QueueTypeOK, RowInfo
  <1>4. /\ batch'[w].pc = IF S = {} THEN "completed" ELSE "init"
        /\ \A v \in Workers \ {w} : batch'[v] = batch[v]
    BY <1>1 DEF TypeOK, QueueTypeOK, BatchInfo
  <1>5. events' = events /\ call' = call /\ state' = state /\ synced' = synced
    BY DEF Claim
  <1> QED
    BY <1>3, <1>4, <1>5 DEF BatchMoves, Carries

\* The row in hand does not wait, so its state may change.
LEMMA MarkSteady ==
    ASSUME TypeOK, ClaimInv, OnlyRetriesWait, NEW w \in Workers, NEW s, Mark(w, s),
           batch[w].pc \in {"dispatch", "dial", "record", "count"}
    PROVE  RowsSteady
  <1>1. batch[w].row \in Rows
    BY DEF ClaimInv, CurrentRow
  <1>2. rows[batch[w].row].state # "queued"
    <2>1. CASE batch[w].pc = "dispatch"
      <3>1. Holds(w, batch[w].row)
        BY <2>1 DEF Holds, Claiming
      <3> QED
        BY <1>1, <3>1 DEF ClaimInv, HeldIsFresh
    <2>2. CASE batch[w].pc # "dispatch"
      BY <1>1, <2>2 DEF ClaimInv, CurrentRow, QueuedIsFresh
    <2> QED
      BY <2>1, <2>2
  <1>3. rows[batch[w].row].wait = 0
    BY <1>1, <1>2 DEF OnlyRetriesWait
  <1> QED
    BY <1>3 DEF RowsSteady, Mark, TypeOK, QueueTypeOK, RowInfo

\* Claims that are returned do not wait.
LEMMA ReturnSteady ==
    ASSUME TypeOK, OnlyRetriesWait, NEW S, rows' = ReturnUnprocessed(S)
    PROVE  RowsSteady
  BY DEF RowsSteady, ReturnUnprocessed, OnlyRetriesWait, TypeOK, QueueTypeOK, RowInfo

\* The batch at work on its rows.
LEMMA LoopMoves ==
    ASSUME TypeOK, ClaimInv, OnlyRetriesWait, Calm', NEW w \in Workers,
           UNCHANGED orchestratorVars,
           \/ BeginBatch(w) \/ InitNumbers(w) \/ AcquireSlot(w) \/ SlotTimeout(w)
           \/ PoolExhausted(w) \/ DispatchFails(w) \/ CreateRun(w) \/ Dial(w)
           \/ DialFails(w) \/ Record(w) \/ Count(w)
    PROVE  BatchMoves(w)
  <1>1. \A pc : Goto(w, pc) => /\ batch'[w].pc = pc
                               /\ \A v \in Workers \ {w} : batch'[v] = batch[v]
    BY GotoOthers
  <1>2. events' = events /\ state' = state /\ synced' = synced
    <2>1. CASE DialFails(w)
      BY <2>1, CalmSteps, PublishNone DEF DialFails, Evaluate
    <2> QED
      BY <2>1 DEF BeginBatch, InitNumbers, AcquireSlot, SlotTimeout, PoolExhausted,
                  DispatchFails, CreateRun, Dial, Record, Count
  <1>3. RowsSteady
    <2>1. CASE rows' = rows
      BY <2>1 DEF RowsSteady
    <2>2. CASE DispatchFails(w) \/ DialFails(w) \/ Record(w)
      BY <2>2, MarkSteady DEF DispatchFails, DialFails, Record
    <2>3. CASE SlotTimeout(w) \/ PoolExhausted(w)
      <3>1. rows' = ReturnUnprocessed(batch[w].claims)
        BY <2>3, CalmSteps DEF SlotTimeout, PoolExhausted, ReturnClaims
      <3> QED
        BY <3>1, ReturnSteady
    <2> QED
      BY <2>1, <2>2, <2>3 DEF BeginBatch, InitNumbers, AcquireSlot, CreateRun, Dial, Count
  <1>4. /\ \A v \in Workers \ {w} : batch'[v] = batch[v]
        /\ batch'[w].pc \notin {"idle", "mark"}
    <2>1. CASE BeginBatch(w)
      <3>1. /\ batch'[w] = [Idle EXCEPT !.pc = IF state = "running" THEN "claim" ELSE "completed"]
            /\ \A v \in Workers \ {w} : batch'[v] = batch[v]
        BY <2>1 DEF BeginBatch, TypeOK, QueueTypeOK
      <3> QED
        BY <3>1 DEF Idle
    <2>2. CASE AcquireSlot(w)
      <3>1. PICK r : batch' = [batch EXCEPT ![w].pc = "dispatch", ![w].row = r,
                                            ![w].todo = @ \ {r}]
        BY <2>2 DEF AcquireSlot
      <3> QED
        BY <3>1 DEF TypeOK, QueueTypeOK, BatchInfo
    <2>3. CASE Record(w)
      BY <2>3 DEF Record, TypeOK, QueueTypeOK, BatchInfo
    <2>4. CASE \/ InitNumbers(w) \/ SlotTimeout(w) \/ PoolExhausted(w) \/ DispatchFails(w)
               \/ CreateRun(w) \/ Dial(w) \/ DialFails(w) \/ Count(w)
      BY <1>1, <2>4 DEF InitNumbers, SlotTimeout, PoolExhausted, DispatchFails, CreateRun,
                        Dial, DialFails, Count
    <2> QED
      BY <2>1, <2>2, <2>3, <2>4
  <1>5. \A r \in Rows : call'[r] \in {"ringing", "late"} =>
          call'[r] = call[r] \/ (call'[r] = "ringing" /\ batch[w].pc = "dial")
    <2>1. CASE CreateRun(w) \/ Dial(w) \/ DialFails(w)
      <3>1. PICK c \in {"created", "ringing", "failed"} :
              /\ call' = [call EXCEPT ![batch[w].row] = c]
              /\ c = "ringing" => batch[w].pc = "dial"
        BY <2>1 DEF CreateRun, Dial, DialFails
      <3> QED
        BY <3>1 DEF TypeOK, QueueTypeOK
    <2>2. CASE call' = call
      BY <2>2
    <2> QED
      BY <2>1, <2>2 DEF BeginBatch, InitNumbers, AcquireSlot, SlotTimeout, PoolExhausted,
                        DispatchFails, Record, Count
  <1> QED
    BY <1>2, <1>3, <1>4, <1>5 DEF BatchMoves, Carries

\* The batch ends, and says so before it does.
LEMMA EndMoves ==
    ASSUME TypeOK, NEW w \in Workers, UNCHANGED orchestratorVars,
           CompleteBatch(w) \/ CountExhausted(w) \/ FailBatch(w) \/ MarkCampaign(w)
    PROVE  BatchMoves(w)
  <1>1. /\ rows' = rows /\ call' = call /\ synced' = synced /\ RowsSteady
        /\ state' \in {state, "failed"}
    BY DEF CompleteBatch, CountExhausted, FailBatch, MarkCampaign, RowsSteady
  <1>2. \A v \in Workers \ {w} : batch'[v] = batch[v]
    BY GotoOthers DEF CompleteBatch, CountExhausted, FailBatch, MarkCampaign, TypeOK, QueueTypeOK
  <1>3. \/ /\ \E k \in {"completed", "failed"} : Publish(<<Event(k)>>)
        \/ /\ events' = events
           /\ batch[w].pc \in {"idle", "mark"} \/ batch'[w].pc \notin {"idle", "mark"}
    <2>1. CASE CompleteBatch(w) \/ FailBatch(w)
      BY <2>1 DEF CompleteBatch, FailBatch
    <2>2. CASE CountExhausted(w)
      BY <2>2, GotoOthers DEF CountExhausted
    <2>3. CASE MarkCampaign(w)
      BY <2>3 DEF MarkCampaign
    <2> QED
      BY <2>1, <2>2, <2>3
  <1>4. CASE \E k \in {"completed", "failed"} : Publish(<<Event(k)>>)
    <2>1. PICK k \in {"completed", "failed"} : Publish(<<Event(k)>>)
      BY <1>4
    <2>2. Event(k) \in EventInfo /\ Event(k).kind = k
      BY EventTypes DEF Event
    <2>3. \A m : Carries(m)' <=> Carries(m) \/ k = m
      BY <2>1, <2>2, PublishOne
    <2> QED
      BY <1>1, <1>2, <2>3 DEF BatchMoves
  <1>5. CASE /\ events' = events
             /\ batch[w].pc \in {"idle", "mark"} \/ batch'[w].pc \notin {"idle", "mark"}
    BY <1>1, <1>2, <1>5 DEF BatchMoves, Carries
  <1> QED
    BY <1>3, <1>4, <1>5

LEMMA AdvanceOrdinary ==
    ASSUME CampaignInv, DrainParts, Calm', NEW w \in Workers, Advance(w),
           UNCHANGED orchestratorVars
    PROVE  Ordinary
  <1>1. TypeOK /\ ClaimInv /\ OnlyRetriesWait
    BY DEF CampaignInv, DrainParts
  <1>2. BatchMoves(w)
    BY <1>1, ClaimMoves, LoopMoves, EndMoves DEF Advance
  <1>3. jobs > 0 \/ batch[w].pc # "idle"
    <2>1. CASE BeginBatch(w)
      BY <2>1 DEF BeginBatch
    <2>2. CASE ~BeginBatch(w)
      BY <2>2 DEF Advance, Claim, InitNumbers, AcquireSlot, SlotTimeout, PoolExhausted,
                  DispatchFails, CreateRun, Dial, DialFails, Record, Count, CompleteBatch,
                  Processed, CountExhausted, FailBatch, MarkCampaign
    <2> QED
      BY <2>1, <2>2
  <1> QED
    BY <1>1, <1>2, <1>3, BatchOrdinary

\* A call ends; one that was not answered asks for a retry.
LEMMA OutcomeOrdinary ==
    ASSUME CampaignInv, DrainParts, Calm', NEW r \in Rows, NEW o \in Ended, Outcome(r, o),
           UNCHANGED orchestratorVars
    PROVE  Ordinary
  <1> USE DEF DrainParts, CampaignInv
  <1>1. /\ call[r] \in {"ringing", "late"} /\ call' = [call EXCEPT ![r] = o]
        /\ UNCHANGED <<synced, rows, batch, jobs, state>>
        /\ o = "unanswered" => Publish(<<[kind |-> "retry", row |-> r]>>)
        /\ o # "unanswered" => events' = events
    BY CalmSteps, PublishNone DEF Outcome, Evaluate
  <1>2. \A k : /\ Carries(k) => Carries(k)'
               /\ Carries(k)' => Carries(k) \/ k = "retry"
    <2>1. CASE o = "unanswered"
      <3>1. [kind |-> "retry", row |-> r] \in EventInfo
        BY EventTypes
      <3> QED
        BY <1>1, <2>1, <3>1, PublishOne
    <2>2. CASE o # "unanswered"
      BY <1>1, <2>2 DEF Carries
    <2> QED
      BY <2>1, <2>2
  <1>3. synced /\ synced' /\ (Calling("ringing") \/ Calling("late"))
    BY <1>1 DEF NothingYet, Calling
  <1>4. /\ Calling("ringing")' => Calling("ringing")
        /\ Calling("late")' => Calling("late")
    BY <1>1 DEF Calling, Ended, TypeOK, QueueTypeOK
  <1>5. NotPaused' /\ OnlyRetriesWait'
    BY <1>1, <1>2 DEF NotPaused, OnlyRetriesWait
  <1>6. /\ Engaged' => Engaged
        /\ Inserted' <=> Inserted
        /\ Working' => Working
        /\ ResetDue => ResetDue'
        /\ Concluded' => Concluded
        /\ active' = active /\ dbActive' = dbActive
    BY <1>1, <1>2 DEF Engaged, Inserted, Working, ResetDue, Concluded, orchestratorVars, memory
  <1> QED
    BY <1>1, <1>2, <1>3, <1>4, <1>5, <1>6 DEF Ordinary
-----------------------------------------------------------------------------
(* Ordinary steps: the orchestrator.                                        *)

\* Nothing but the orchestrator's own state changes.
LEMMA OwnSteps ==
    ASSUME DrainParts, synced, UNCHANGED <<synced, state, rows, call, batch, jobs>>,
           \A k : Carries(k)' => Carries(k),
           Engaged' => Engaged, Inserted' => Inserted,
           Inserted => Inserted' \/ active' \in {0, NoTime},
           active' \in {active, 0, NoTime}, dbActive' \in {dbActive, 0},
           ResetDue => ResetDue' \/ active' \in {0, NoTime},
           Concluded' => Concluded \/ Quiet
    PROVE  Ordinary
  <1> USE DEF DrainParts
  <1>1. NotPaused' /\ OnlyRetriesWait'
    BY DEF NotPaused, OnlyRetriesWait
  <1>2. /\ Working' => Working
        /\ Calling("ringing")' => Calling("ringing")
        /\ Calling("late")' => Calling("late")
    BY DEF Working, Calling
  <1> QED
    BY <1>1, <1>2 DEF Ordinary

\* The listener notes what it has inserted, and keeps the time of it.
LEMMA TouchOrdinary ==
    ASSUME CampaignInv, DrainParts, Touch
    PROVE  Ordinary
  <1> USE DEF DrainParts, CampaignInv
  <1>1. synced /\ Engaged
    BY DEF Touch, NothingYet, Engaged, Tasks
  <1>2. /\ UNCHANGED <<synced, state, rows, call, batch, jobs, events, dbActive>>
        /\ active' = 0
    BY DEF Touch, queueVars
  <1>3. task'["listener"] = "idle" /\ task'["monitor"] = task["monitor"]
    BY DEF Touch, Proceed, TypeOK, Tasks
  <1>4. ~Inserted' /\ (Concluded' => Concluded)
    BY <1>2, <1>3 DEF Inserted, Concluded
  <1>5. \A k : Carries(k)' => Carries(k)
    BY <1>2 DEF Carries
  <1> QED
    BY <1>1, <1>2, <1>4, <1>5, OwnSteps

\* The listener of a batch's end, of the sync's, of a verdict.
LEMMA ReportOrdinary ==
    ASSUME CampaignInv, DrainParts,
           BatchCompleted \/ BatchFailed \/ SyncCompleted \/ BreakerTripped
    PROVE  Ordinary
  <1> USE DEF DrainParts, CampaignInv
  <1>1. PICK k \in {"completed", "failed", "sync", "tripped"} : Receive(k)
    BY DEF BatchCompleted, BatchFailed, SyncCompleted, BreakerTripped
  <1>2. /\ Carries(k) /\ events # <<>>
        /\ \A m : Carries(m)' => Carries(m)
        /\ \A m : Carries(m) /\ m # k => Carries(m)'
    BY <1>1, ReceiveCarries
  <1>3. synced
    BY <1>2 DEF NothingYet
  <1>4. ~BreakerTripped
    BY ReceiveCarries DEF BreakerTripped, NotPaused
  <1>5. /\ UNCHANGED <<synced, state, rows, call, batch, jobs, dbActive>>
        /\ active' \in {active, 0, NoTime}
    BY <1>4 DEF BatchCompleted, BatchFailed, SyncCompleted, memory, ClearCampaignState
  <1>6. \/ task' = task /\ active' \in {0, NoTime}
        \/ Proceed("listener", "schedule") /\ Engaged
    BY <1>4, ReceiveCarries
       DEF BatchCompleted, BatchFailed, SyncCompleted, ClearCampaignState, Engaged
  <1>7. CASE task' = task /\ active' \in {0, NoTime}
    <2>1. (Engaged' => Engaged) /\ (Concluded' => Concluded) /\ (Inserted' <=> Inserted)
      BY <1>2, <1>5, <1>7 DEF Engaged, Concluded, Inserted
    <2> QED
      BY <1>2, <1>3, <1>5, <1>7, <2>1, OwnSteps
  <1>8. CASE Proceed("listener", "schedule") /\ Engaged
    <2>1. task'["listener"] = "schedule" /\ task'["monitor"] = task["monitor"]
      BY <1>8 DEF Proceed, TypeOK, Tasks
    <2>2. ResetDue' /\ (Concluded' => Concluded)
      BY <1>5, <2>1 DEF ResetDue, Concluded
    <2>3. ~Inserted /\ ~Inserted'
      BY <1>1, <2>1 DEF Inserted, Receive
    <2> QED
      BY <1>2, <1>3, <1>5, <1>8, <2>2, <2>3, OwnSteps
  <1> QED
    BY <1>6, <1>7, <1>8

\* A retry that is inserted is about to be noted.
LEMMA RetryOrdinary ==
    ASSUME CampaignInv, DrainParts, RetryNeeded
    PROVE  Ordinary
  <1> USE DEF DrainParts, CampaignInv
  <1> DEFINE r == Head(events).row
             child == <<r[1], r[2] + 1>>
  <1>1. /\ Carries("retry") /\ events # <<>>
        /\ \A m : Carries(m)' => Carries(m)
        /\ \A m : Carries(m) /\ m # "retry" => Carries(m)'
    BY ReceiveCarries DEF RetryNeeded
  <1>2. synced /\ ~Inserted
    BY <1>1 DEF NothingYet, RetryNeeded, Receive, Inserted
  <1>3. UNCHANGED <<synced, state, call, batch, jobs, active, dbActive>>
    BY DEF RetryNeeded, memory
  <1>4. CASE rows' = rows /\ task' = task
    <2>1. /\ Engaged' => Engaged
          /\ Inserted' <=> Inserted
          /\ ResetDue => ResetDue'
          /\ Concluded' => Concluded
      BY <1>1, <1>3, <1>4 DEF Engaged, Inserted, ResetDue, Concluded
    <2> QED
      BY <1>1, <1>2, <1>3, <1>4, <2>1, OwnSteps
  <1>5. CASE /\ r[2] < MaxRetries
             /\ rows' = [rows EXCEPT ![child] = [state |-> "queued", wait |-> RetryDelay]]
             /\ Proceed("listener", "touch")
    <2>1. child \in Rows
      BY <1>5, RetryNames, QueueAssumption DEF RetryNeeded, Rows
    <2>2. /\ rows'[child].state = "queued"
          /\ \A q \in Rows \ {child} : rows'[q] = rows[q]
      BY <1>5, <2>1 DEF TypeOK, QueueTypeOK
    <2>3. task'["listener"] = "touch" /\ task'["monitor"] = task["monitor"]
      BY <1>5 DEF Proceed, TypeOK, Tasks
    <2>4. Inserted' /\ ResetDue' /\ (Concluded' => Concluded)
      BY <1>3, <2>3 DEF Inserted, ResetDue, Concluded
    <2>5. NotPaused' /\ OnlyRetriesWait'
      BY <1>1, <1>3, <2>2 DEF NotPaused, OnlyRetriesWait
    <2>6. \A q \in Rows : rows'[q].state = "queued" =>
            \/ rows[q].state = "queued" /\ rows'[q].wait = rows[q].wait
            \/ Carries("retry") /\ Inserted'
      BY <1>1, <2>2, <2>4
    <2>7. /\ Working' => Working
          /\ Calling("ringing")' => Calling("ringing")
          /\ Calling("late")' => Calling("late")
      BY <1>3 DEF Working, Calling
    <2> QED
      BY <1>1, <1>2, <1>3, <2>4, <2>5, <2>6, <2>7 DEF Ordinary
  <1> QED
    BY <1>4, <1>5 DEF RetryNeeded

\* A coroutine schedules a batch, or finds that it need not.
LEMMA ScheduleOrdinary ==
    ASSUME CampaignInv, DrainParts, Calm', NEW t \in Tasks, Schedules(t)
    PROVE  Ordinary
  <1> USE DEF DrainParts, CampaignInv
  <1>1. task[t] # "idle" /\ synced /\ Engaged
    BY DEF Schedules, Schedule, Enqueue, NothingToDo, SetFlag, NothingYet, Engaged
  <1>2. /\ UNCHANGED <<synced, state, rows, call, batch, events>>
        /\ dbActive' \in {dbActive, 0}
        /\ ScheduleEnds(t) \/ (Proceed(t, "work") /\ active' = active)
    BY CalmSteps DEF Schedules, Schedule, Enqueue, NothingToDo, SetFlag, queueVars
  <1>3. /\ active' \in {active, 0}
        /\ task'["monitor"] \in {"complete", "write"} => task'["monitor"] = task["monitor"]
        /\ task["listener"] # "idle" => task'["listener"] # "idle" \/ active' = 0
    BY <1>2 DEF ScheduleEnds, Proceed, TypeOK, Tasks
  <1>4. /\ ResetDue => ResetDue' \/ active' = 0
        /\ Inserted' <=> Inserted
    <2>1. task[t] \in {"schedule", "work", "flag"} /\ (t # "listener" => task'["listener"] = task["listener"])
      BY <1>2 DEF Schedules, Schedule, Enqueue, NothingToDo, SetFlag, ScheduleEnds, Proceed,
                  TypeOK, Tasks
    <2>2. t = "listener" => task'["listener"] \in {"idle", "work"} \/ task'["listener"] = "flag"
      BY <1>2 DEF ScheduleEnds, Proceed, TypeOK, Tasks
    <2> QED
      BY <1>2, <1>3, <2>1, <2>2 DEF ResetDue, Carries, Inserted
  <1>5. Concluded' => Concluded
    BY <1>2, <1>3 DEF Concluded
  <1>6. \A k : Carries(k)' => Carries(k)
    BY <1>2 DEF Carries
  <1>7. CASE jobs' = jobs
    BY <1>1, <1>2, <1>3, <1>4, <1>5, <1>6, <1>7, OwnSteps
  <1>8. CASE Enqueue(t)
    <2>1. Ready # {} /\ dbActive' = 0
      BY <1>8, CalmSteps DEF Enqueue, HasPendingWork
    <2>2. NotPaused' /\ OnlyRetriesWait'
      BY <1>2, <1>6 DEF NotPaused, OnlyRetriesWait
    <2>3. /\ Calling("ringing")' => Calling("ringing")
          /\ Calling("late")' => Calling("late")
      BY <1>2 DEF Calling
    <2> QED
      BY <1>1, <1>2, <1>3, <1>4, <1>5, <1>6, <2>1, <2>2, <2>3 DEF Ordinary
  <1> QED
    BY <1>7, <1>8 DEF Schedules, Schedule, NothingToDo, SetFlag, queueVars

\* What has no row due and has seen no activity for so long is drained.
LEMMA TimeoutIsQuiet ==
    ASSUME CampaignInv, DrainParts, RetriesInTime, synced, task["monitor"] # "idle",
           ~HasPendingWork, Timeout
    PROVE  Quiet
  <1> USE DEF DrainParts, CampaignInv
  <1>1. /\ dbActive \in Nat /\ (active \in Nat \/ active = NoTime)
        /\ \A r \in Rows : rows[r].wait \in Nat /\ rows[r].wait <= RetryDelay
        /\ RetryDelay \in Nat /\ CompletionTimeout \in Nat /\ NoTime \notin Nat
    BY Ages
  <1>2. Engaged
    BY DEF Engaged, Tasks
  <1>3. \A r \in Rows : rows[r].state = "queued" => rows[r].wait > 0
    BY <1>1 DEF HasPendingWork, Ready
  <1>4. CASE active # NoTime
    BY <1>1, <1>2, <1>3, <1>4
    DEF Timeout, SinceActivity, RecentActivity, ActiveWithin, RetriesInTime, Quiet
  <1>5. CASE active = NoTime
    BY <1>1, <1>3, <1>5 DEF Timeout, SinceBatch, RetriesInTime, Quiet
  <1> QED
    BY <1>4, <1>5

LEMMA MonitorOrdinary ==
    ASSUME CampaignInv, DrainParts, RetriesInTime, Calm',
           Look \/ Check \/ Recheck \/ Complete \/ LockExpires
    PROVE  Ordinary
  <1> USE DEF DrainParts, CampaignInv
  <1>1. synced
    BY DEF Look, Check, Recheck, Complete, LockExpires, NothingYet, Tasks
  <1>2. /\ UNCHANGED <<synced, rows, call, batch, jobs, events, dbActive>>
        /\ active' \in {active, NoTime}
        /\ active' # NoTime => active' = active
        /\ Engaged
           \/ LockExpires
    BY CalmSteps DEF Look, Check, Recheck, Complete, LockExpires, queueVars, memory,
                     ClearCampaignState, Engaged, Tasks
  <1>3. \A k : Carries(k)' <=> Carries(k)
    BY <1>2 DEF Carries
  <1>4. task'["listener"] = task["listener"]
    BY DEF Look, Check, Recheck, Complete, LockExpires, Proceed, TypeOK, Tasks
  <1>5. (ResetDue => ResetDue') /\ (Inserted' <=> Inserted)
    BY <1>2, <1>3, <1>4 DEF ResetDue, Inserted
  <1>6. CASE Complete
    <2>1. Concluded /\ Quiet
      BY <1>6 DEF Complete, Concluded, ConcludedIsQuiet
    <2>2. state' \in {state, "completed"}
      BY <1>6 DEF Complete
    <2>3. NotPaused' /\ OnlyRetriesWait'
      BY <1>2, <1>3, <2>2 DEF NotPaused, OnlyRetriesWait
    <2>4. /\ Working' => Working
          /\ Calling("ringing")' => Calling("ringing")
          /\ Calling("late")' => Calling("late")
      BY <1>2 DEF Working, Calling
    <2>5. Engaged
      BY <1>6 DEF Complete, Engaged, Tasks
    <2> QED
      BY <1>1, <1>2, <1>3, <1>5, <2>1, <2>3, <2>4, <2>5 DEF Ordinary
  <1>7. CASE ~Complete
    <2>1. state' = state
      BY <1>7 DEF Look, Check, Recheck, LockExpires, queueVars
    <2>2. Engaged' => Engaged
      BY <1>2, <1>3, <1>7, <2>1 DEF LockExpires, Engaged
    <2>3. Concluded' => Concluded \/ Quiet
      <3>1. CASE Look
        BY <2>1, <3>1 DEF Look, Proceed, Concluded, TypeOK, Tasks
      <3>2. CASE Check
        <4>1. task'["monitor"] \in {"complete", "write"} => ~HasPendingWork /\ Timeout
          BY <3>2 DEF Check, Proceed, TypeOK, Tasks
        <4>2. task["monitor"] # "idle"
          BY <3>2 DEF Check
        <4> QED
          BY <1>1, <2>1, <4>1, <4>2, TimeoutIsQuiet DEF Concluded
      <3>3. CASE LockExpires
        BY <2>1, <3>3 DEF LockExpires, Concluded
      <3>4. CASE Recheck
        BY <3>4 DEF Recheck, Concluded
      <3> QED
        BY <1>7, <3>1, <3>2, <3>3, <3>4
    <2> QED
      BY <1>1, <1>2, <1>3, <1>5, <2>1, <2>2, <2>3, OwnSteps
  <1> QED
    BY <1>6, <1>7
-----------------------------------------------------------------------------
(* The sync, and time.                                                      *)

LEMMA SyncDrains ==
    ASSUME CampaignInv, DrainParts, SyncSource, UNCHANGED orchestratorVars
    PROVE  DrainParts'
  <1> USE DEF DrainParts, CampaignInv
  <1>1. /\ ~synced /\ synced' /\ UNCHANGED <<call, batch, jobs, active, dbActive, task>>
        /\ events = <<>> /\ ~Working /\ active = NoTime
        /\ \A t \in Tasks : task[t] = "idle"
        /\ \A r \in Rows : rows[r].state = "none" /\ rows[r].wait = 0 /\ call[r] = "none"
    BY DEF SyncSource, NothingYet, OnlyRetriesWait, orchestratorVars, memory
  <1>2. PICK S \in SUBSET Sources :
          /\ rows' = [r \in Rows |-> IF r \in S \X {0} THEN [state |-> "queued", wait |-> 0]
                                     ELSE rows[r]]
          /\ \/ S = {} /\ state' = "completed" /\ UNCHANGED events
             \/ S # {} /\ state' = "running" /\ Publish(<<Event("sync")>>)
    BY DEF SyncSource
  <1>3. \A r \in Rows : /\ rows'[r].wait = 0
                        /\ S = {} => rows'[r].state # "queued"
    BY <1>1, <1>2
  <1>4. \A k : Carries(k)' => k = "sync"
    <2>1. \A k : ~Carries(k)
      BY <1>1 DEF Carries
    <2>2. CASE UNCHANGED events
      BY <2>1, <2>2 DEF Carries
    <2>3. CASE Publish(<<Event("sync")>>)
      <3>1. Event("sync") \in EventInfo /\ Event("sync").kind = "sync"
        BY EventTypes DEF Event
      <3> QED
        BY <2>1, <2>3, <3>1, PublishOne
    <2> QED
      BY <1>2, <2>2, <2>3
  <1>5. ~Working' /\ ~Calling("ringing")' /\ ~Calling("late")'
    BY <1>1 DEF Working, Calling
  <1>6. NothingYet' /\ NotPaused' /\ OnlyRetriesWait'
    BY <1>1, <1>2, <1>3, <1>4 DEF NothingYet, NotPaused, OnlyRetriesWait
  <1>7. SinceBatch'
    BY <1>3, <1>4, <1>5 DEF SinceBatch
  <1>8. SinceActivity'
    BY <1>1, <1>4, <1>5 DEF SinceActivity, RecentActivity, Inserted, Tasks
  <1>9. ConcludedIsQuiet'
    BY <1>1, <1>2, <1>3, <1>4, <1>5 DEF ConcludedIsQuiet, Concluded, Quiet, Tasks
  <1> QED
    BY <1>6, <1>7, <1>8, <1>9

LEMMA TickDrains ==
    ASSUME CampaignInv, DrainParts, RetriesInTime, Calm', Tick
    PROVE  DrainParts'
  <1> USE DEF DrainParts, CampaignInv
  <1>1. /\ dbActive \in Nat /\ (active \in Nat \/ active = NoTime)
        /\ \A r \in Rows : rows[r].wait \in Nat /\ rows[r].wait <= RetryDelay
        /\ RetryDelay \in Nat /\ CompletionTimeout \in Nat /\ NoTime \notin Nat
    BY Ages
  <1>2. /\ jobs = 0 /\ (\A w \in Workers : batch[w].pc = "idle") /\ events = <<>>
        /\ \A t \in Tasks : task[t] = "idle"
        /\ state = "running" => Ready = {}
        /\ ~Calling("late")
    BY CalmSteps DEF Tick, OnTime, Settled, HasPendingWork, Calling, Tasks
  <1>3. /\ UNCHANGED <<state, synced, events, batch, jobs, lock, task>>
        /\ dbActive' = Older(dbActive)
        /\ active' = IF active = NoTime THEN NoTime ELSE Older(active)
        /\ \A r \in Rows : /\ rows'[r].state = rows[r].state
                           /\ rows'[r].wait = IF rows[r].wait = 0 THEN 0 ELSE rows[r].wait - 1
        /\ \A r \in Rows : call'[r] = IF call[r] = "ringing" THEN "late" ELSE call[r]
    BY DEF Tick, TypeOK, QueueTypeOK, RowInfo
  <1>4. /\ dbActive' <= dbActive + 1 /\ dbActive' \in Nat
        /\ active' = NoTime \/ (active # NoTime /\ active' \in Nat /\ active' <= active + 1)
    BY <1>1, <1>3 DEF Older
  <1>5. \A k : ~Carries(k) /\ ~Carries(k)'
    BY <1>2, <1>3 DEF Carries
  <1>6. ~Working' /\ ~Calling("ringing")' /\ (Calling("late")' => Calling("ringing"))
    BY <1>2, <1>3 DEF Working, Calling
  <1>7. NothingYet' /\ NotPaused' /\ OnlyRetriesWait'
    BY <1>2, <1>3, <1>5, <1>6 DEF NothingYet, NotPaused, OnlyRetriesWait
  <1>8. SinceBatch'
    BY <1>1, <1>3, <1>4, <1>5, <1>6 DEF SinceBatch
  <1>9. SinceActivity'
    <2> ~Inserted /\ ~Inserted'
      BY <1>2, <1>3 DEF Inserted, Tasks
    <2> USE DEF SinceActivity, RecentActivity
    <2>1. ASSUME NEW r \in Rows, Engaged', rows'[r].state = "queued"
          PROVE  active' = NoTime \/ active' + rows'[r].wait <= RetryDelay
      <3>1. state = "running" /\ Engaged
        BY <1>2, <1>3, <1>5, <2>1 DEF Engaged
      <3>2. rows[r].state = "queued" /\ rows[r].wait > 0
        BY <1>1, <1>2, <1>3, <2>1, <3>1 DEF Ready
      <3> QED
        BY <1>1, <1>3, <1>4, <3>1, <3>2 DEF SinceActivity
    <2>2. Calling("late")' => ActiveWithin(1)'
      <3>1. ~ResetDue
        BY <1>2, <1>5 DEF ResetDue, Tasks
      <3> QED
        BY <1>1, <1>4, <1>6, <3>1 DEF SinceActivity, ActiveWithin
    <2> QED
      BY <1>5, <1>6, <2>1, <2>2 DEF SinceActivity
  <1>10. ConcludedIsQuiet'
    BY <1>3, <1>5, <1>6 DEF ConcludedIsQuiet, Concluded, Quiet
  <1> QED
    BY <1>7, <1>8, <1>9, <1>10
-----------------------------------------------------------------------------
(* The campaign is drained.                                                 *)

\* What has gone wrong stays so.
LEMMA CalmBefore ==
    ASSUME TypeOK, [Next]_vars, Calm'
    PROVE  faults' = faults /\ surprises' = surprises /\ Calm
  <1>1. ~Fault /\ ~Surprise
    BY CalmSteps
  <1>2. ASSUME QueueNext PROVE faults' = faults /\ surprises' = surprises
    <2>1. ASSUME NEW w \in Workers, Advance(w) PROVE faults' = faults /\ surprises' = surprises
      BY <1>1, <2>1 DEF Advance, BeginBatch, Claim, InitNumbers, AcquireSlot, SlotTimeout,
         PoolExhausted, ReturnClaims, DispatchFails, CreateRun, Dial, DialFails, Evaluate, Record, Count,
         CompleteBatch, CountExhausted, FailBatch, MarkCampaign
    <2> QED
      BY <1>1, <1>2, <2>1 DEF QueueNext, SyncSource, SyncFails, Pause, Resume, UpdateFails,
         ReadFails, CloseFails, Cancel, Die, RepeatOutcome, Outcome, Evaluate
  <1>3. ASSUME Listen \/ \E t \in Tasks : Schedules(t) \/ PauseForBreaker(t)
        PROVE  faults' = faults /\ surprises' = surprises
    BY <1>1, <1>3 DEF Listen, RetryNeeded, Touch, BatchCompleted, BatchFailed, SyncCompleted,
       BreakerTripped, Schedules, Schedule, Enqueue, NothingToDo, SetFlag, PauseForBreaker,
       queueVars
  <1>4. ASSUME Look \/ Check \/ Recheck \/ Complete \/ LockExpires \/ LoseEvent \/ Restart \/ Tick
        PROVE  faults' = faults /\ surprises' = surprises
    BY <1>1, <1>4 DEF Look, Check, Recheck, Complete, LockExpires, LoseEvent, Restart, Tick, queueVars
  <1>5. CASE UNCHANGED vars
    BY <1>5 DEF vars, queueVars, Calm
  <1> QED
    BY <1>2, <1>3, <1>4, <1>5 DEF Next, Calm

LEMMA DrainStep ==
    ASSUME CampaignInv, CampaignInv', RetriesInTime, DrainInv, [Next]_vars
    PROVE  DrainInv'
  <1> SUFFICES ASSUME Calm' PROVE DrainParts'
    BY DEF DrainInv
  <1> USE DEF CampaignInv
  <1>1. DrainParts /\ ~Fault /\ ~Surprise
    BY CalmBefore, CalmSteps DEF DrainInv
  <1>2. CASE Ordinary
    BY <1>1, <1>2, OrdinaryStep
  <1>3. CASE QueueNext /\ UNCHANGED orchestratorVars
    <2>1. ~Resume
      BY <1>1 DEF Resume, DrainParts, NotPaused
    <2>2. \/ SyncSource
          \/ \E w \in Workers : Advance(w)
          \/ \E r \in Rows, o \in Ended : Outcome(r, o)
      BY <1>1, <1>3, <2>1 DEF QueueNext, SyncFails, Pause, UpdateFails, ReadFails, CloseFails,
         Cancel, Die, RepeatOutcome
    <2> QED
      BY <1>1, <1>2, <1>3, <2>2, SyncDrains, AdvanceOrdinary, OutcomeOrdinary
  <1>4. CASE Listen \/ \E t \in Tasks : Schedules(t) \/ PauseForBreaker(t)
    BY <1>1, <1>2, <1>4, ReportOrdinary, RetryOrdinary, TouchOrdinary, ScheduleOrdinary
    DEF Listen, PauseForBreaker
  <1>5. CASE Look \/ Check \/ Recheck \/ Complete \/ LockExpires \/ LoseEvent \/ Restart \/ Tick
    BY <1>1, <1>2, <1>5, MonitorOrdinary, TickDrains DEF LoseEvent, Restart
  <1>6. CASE UNCHANGED vars
    <2> USE <1>6 DEF vars, queueVars, orchestratorVars, memory
    <2>1. NothingYet' /\ NotPaused' /\ OnlyRetriesWait'
      BY <1>1 DEF DrainParts, NothingYet, NotPaused, OnlyRetriesWait, Working, Carries
    <2>2. SinceBatch' /\ SinceActivity'
      BY <1>1 DEF DrainParts, SinceBatch, SinceActivity, RecentActivity, Inserted,
                  ActiveWithin, Working, Carries, Calling, Engaged, ResetDue
    <2>3. ConcludedIsQuiet'
      BY <1>1 DEF DrainParts, ConcludedIsQuiet, Concluded, Quiet, Working, Carries, Calling
    <2> QED
      BY <2>1, <2>2, <2>3 DEF DrainParts
  <1> QED
    BY <1>3, <1>4, <1>5, <1>6 DEF Next

LEMMA DrainInit ==
    ASSUME Init
    PROVE  DrainInv
  <1> USE DEF Init, QueueInit
  <1>1. ~Working /\ (\A c \in {"ringing", "late"} : ~Calling(c)) /\ \A k : ~Carries(k)
    BY DEF Working, Calling, Carries, Idle
  <1>2. NothingYet /\ NotPaused /\ OnlyRetriesWait
    BY <1>1 DEF NothingYet, NotPaused, OnlyRetriesWait
  <1>3. SinceBatch /\ SinceActivity
    BY <1>1 DEF SinceBatch, SinceActivity, RecentActivity, Inserted, Tasks
  <1>4. ConcludedIsQuiet
    BY DEF ConcludedIsQuiet, Concluded, Tasks
  <1> QED
    BY <1>2, <1>3, <1>4 DEF DrainInv, DrainParts

\* What keeps a campaign from being completed too early: as long as nothing has gone
\* wrong, what is under way keeps the last activity within the completion timeout.
THEOREM DrainInvariant ==
    ASSUME RetriesInTime
    PROVE  Spec => []DrainInv
  <1>1. Init => DrainInv
    BY DrainInit
  <1>2. CampaignInv /\ CampaignInv' /\ DrainInv /\ [Next]_vars => DrainInv'
    BY DrainStep
  <1> QED
    BY <1>1, <1>2, CampaignInvariant, PTL DEF Spec

\* _should_mark_complete, _complete_campaign: without faults and pauses a campaign is
\* completed only when nothing is left to dial, for any number of rows, retries,
\* workers and batches, if a retry is due within the completion timeout.
THEOREM CompletedIsDrainedHolds ==
    ASSUME RetriesInTime
    PROVE  Spec => []CompletedIsDrained
  <1>1. CampaignInv /\ DrainInv => CompletedIsDrained
    <2> SUFFICES ASSUME CampaignInv, DrainInv, faults = 0, surprises = 0,
                        state = "completed", NEW r \in Rows
                 PROVE  rows[r].state \notin {"queued", "processing"} \/ call[r] # "none"
      BY DEF CompletedIsDrained
    <2>1. Quiet
      BY DEF DrainInv, DrainParts, Calm, ConcludedIsQuiet, Concluded
    <2>2. \A w \in Workers : ~Holds(w, r)
      BY <2>1 DEF Quiet, Working, Holds, Claiming
    <2> QED
      BY <2>1, <2>2 DEF Quiet, CampaignInv, ClaimInv, NoneLost
  <1> QED
    BY <1>1, CampaignInvariant, DrainInvariant, PTL
=============================================================================

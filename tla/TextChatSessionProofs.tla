----------------------- MODULE TextChatSessionProofs -----------------------
(***************************************************************************)
(* For any number of tabs, workers, turns, requests and faults a text chat *)
(* keeps its types and its turns, and its row implements the log of turns  *)
(* in TurnLog; and every answer was computed from its branch of turns.     *)
(* The argument is the one of compare and swap: revisions only grow, so a  *)
(* coroutine whose revision is current holds the session as it is          *)
(* (SnapshotsAgree), and whatever it computed from its copy it computed    *)
(* from the row itself.                                                    *)
(***************************************************************************)
EXTENDS TextChatSession, SequenceTheorems, WellFoundedInduction, TLAPS

PCs == Writing \cup {"idle", "reload", "update_run", "enqueue"}

LEMMA EmptyRowType == EmptyRow \in RowInfo /\ EmptyRow.revision = 0
<1>1. <<>> \in Seq(Turns)
    OBVIOUS
<1> QED
    BY <1>1 DEF EmptyRow, RowInfo, Statuses

LEMMA FirstTurn == Turns \subseteq Nat \ {0} /\ Requests \subseteq Coroutines
    BY ConstantsAssumption DEF Turns, Coroutines
-----------------------------------------------------------------------------
(* The coroutines.                                                          *)

\* Past its write, or ended, a coroutine writes nothing.
LEMMA GotoProc ==
    ASSUME TypeOK, NEW p \in Coroutines, NEW pc \in PCs, Goto(p, pc)
    PROVE  /\ proc' \in [Coroutines -> ProcInfo]
           /\ proc'[p].pc = pc /\ proc'[p].row.revision = 0
           /\ \A q \in Coroutines : q # p => proc'[q] = proc[q]
<1> DEFINE x == [pc |-> pc, row |-> EmptyRow, turn |-> NoTurn,
                 job |-> IF pc = "idle" THEN 0 ELSE proc[p].job]
<1>1. proc \in [Coroutines -> ProcInfo] /\ proc[p].job \in Nat
    BY DEF TypeOK, ProcInfo
<1>2. x \in ProcInfo
    BY <1>1, EmptyRowType DEF ProcInfo, PCs
<1>3. proc' = [proc EXCEPT ![p] = x]
    BY DEF Goto
<1> QED
    BY <1>1, <1>2, <1>3, EmptyRowType

LEMMA LoadedProc ==
    ASSUME TypeOK, NEW p \in Coroutines, NEW pc \in PCs, NEW turn \in Turns \cup {NoTurn},
           NEW j \in Nat,
           proc' = [proc EXCEPT ![p] = [pc |-> pc, row |-> row, turn |-> turn, job |-> j]]
    PROVE  /\ proc' \in [Coroutines -> ProcInfo]
           /\ proc'[p].pc = pc /\ proc'[p].row = row /\ proc'[p].turn = turn
           /\ \A q \in Coroutines : q # p => proc'[q] = proc[q]
<1> DEFINE x == [pc |-> pc, row |-> row, turn |-> turn, job |-> j]
<1>1. proc \in [Coroutines -> ProcInfo] /\ x \in ProcInfo
    BY DEF TypeOK, ProcInfo, PCs
<1> QED
    BY <1>1

\* A step that writes no row: somebody loads it, or goes on without it.
LEMMA QuietStep ==
    ASSUME SessionInv, NEW p \in Coroutines, UNCHANGED <<row, minted>>,
           run'.completed = run.completed,
           \A q \in Coroutines : q # p => proc'[q] = proc[q],
           \/ proc'[p].pc \notin Writing /\ proc'[p].row.revision = 0
           \/ /\ proc'[p].row = row
              /\ proc'[p].pc = "append" => ~run.completed /\ minted < MaxTurns
              /\ proc'[p].pc = "rewind" => proc'[p].turn \in Branch(row) \cup {NoTurn}
    PROVE  SnapshotsAgree' /\ WritesAreSound' /\ BranchIsSound' /\ NoTurnLost'
<1>1. row.revision \in Nat
    BY DEF SessionInv, TypeOK, RowInfo
<1>2. SnapshotsAgree'
    BY DEF SessionInv, SnapshotsAgree, Matches
<1>3. WritesAreSound'
    BY <1>1 DEF SessionInv, WritesAreSound, Matches, Branch, Writing
<1>4. BranchIsSound' /\ NoTurnLost'
    BY DEF SessionInv, BranchIsSound, NoTurnLost, Branch
<1> QED
    BY <1>2, <1>3, <1>4

\* Nothing changes but what the sweep, the queue or time are about.
LEMMA IdleStep ==
    ASSUME SessionInv, UNCHANGED <<row, run, minted, proc>>
    PROVE  SnapshotsAgree' /\ WritesAreSound' /\ BranchIsSound' /\ NoTurnLost'
    BY DEF SessionInv, SnapshotsAgree, WritesAreSound, BranchIsSound, NoTurnLost, Matches, Branch

\* Compare and swap: once a write has passed, no other copy is current.
LEMMA WriteStep ==
    ASSUME SessionInv, NEW p \in Coroutines,
           row'.revision = row.revision + 1,
           \A q \in Coroutines : q # p => proc'[q] = proc[q],
           proc'[p].pc \notin Writing /\ proc'[p].row.revision = 0
    PROVE  SnapshotsAgree' /\ WritesAreSound'
<1>1. row.revision \in Nat /\ row'.revision \in Nat
    BY DEF SessionInv, TypeOK, RowInfo
<1>2. \A q \in Coroutines : q # p => /\ proc'[q].row.revision <= row.revision
                                     /\ proc'[q].row.revision \in Nat
    BY DEF SessionInv, WritesAreSound, TypeOK, ProcInfo, RowInfo
<1>3. \A q \in Coroutines : q # p => ~Matches(q)'
    BY <1>1, <1>2 DEF Matches
<1>4. SnapshotsAgree'
    BY <1>3 DEF SnapshotsAgree
<1>5. \A q \in Coroutines :
          q # p => (proc[q].pc = "rewind" => proc[q].turn \in Branch(proc[q].row) \cup {NoTurn})
    BY DEF SessionInv, WritesAreSound
<1>6. WritesAreSound'
    BY <1>1, <1>2, <1>3, <1>5 DEF WritesAreSound, Writing
<1> QED
    BY <1>4, <1>6
-----------------------------------------------------------------------------
(* The branch.                                                              *)

LEMMA BranchOfTurns == TypeOK => Branch(row) \subseteq Turns
<1>1. TypeOK => row.turns \in Seq(Turns)
    BY DEF TypeOK, RowInfo
<1>2. TypeOK => \A i \in DOMAIN row.turns : row.turns[i] \in Turns
    BY <1>1
<1> QED
    BY <1>2 DEF Branch, Range

\* A turn settles, the cursor moves, the chat ends: every turn stays where it is.
LEMMA SameTurns ==
    ASSUME BranchIsSound, NoTurnLost, minted' = minted,
           row'.turns = row.turns, row'.discarded = row.discarded,
           row'.cursor \in Branch(row) \cup {NoTurn},
           \A t \in Turns : row'.status[t] = "none" <=> row.status[t] = "none"
    PROVE  BranchIsSound' /\ NoTurnLost'
<1>1. BranchIsSound'
    BY DEF BranchIsSound, Branch
<1>2. NoTurnLost'
    BY DEF NoTurnLost
<1> QED
    BY <1>1, <1>2

LEMMA LargestOne ==
    ASSUME NEW n \in Nat, NEW S, S \subseteq 1..n, S # {}
    PROVE  \E m \in S : \A i \in S : m >= i
<1> DEFINE T == {n - i : i \in S}
           R == OpToRel(<, Nat)
<1>1. T \subseteq Nat /\ T # {}
    <2>1. \A i \in S : n - i \in Nat
        OBVIOUS
    <2>2. PICK i \in S : TRUE
        OBVIOUS
    <2>3. n - i \in T
        BY <2>2
    <2> QED
        BY <2>1, <2>3
<1>2. PICK x \in T : \A y \in T : <<y, x>> \notin R
    <2> HIDE DEF T
    <2> QED
        BY <1>1, WFMin, NatLessThanWellFounded
<1>3. \A y \in T : ~(y < x)
    BY <1>1, <1>2 DEF OpToRel
<1>4. PICK m \in S : x = n - m
    BY <1>2
<1>5. \A i \in S : m >= i
    <2> SUFFICES ASSUME NEW i \in S PROVE m >= i
        OBVIOUS
    <2>1. n - i \in T /\ i \in 1..n /\ m \in 1..n
        OBVIOUS
    <2>2. ~(n - i < n - m)
        BY <1>3, <1>4, <2>1
    <2> QED
        BY <2>1, <2>2
<1> QED
    BY <1>4, <1>5

LEMMA LastOne ==
    ASSUME NEW n \in Nat, NEW S, S \subseteq 1..n, S # {}
    PROVE  Max(S) \in S
    BY LargestOne DEF Max

LEMMA BranchEndInBranch ==
    ASSUME TypeOK, BranchIsSound
    PROVE  BranchEnd(row) \in 0..Len(row.turns)
<1>1. row.turns \in Seq(Turns)
    BY DEF TypeOK, RowInfo
<1>2. Len(row.turns) \in Nat /\ DOMAIN row.turns = 1..Len(row.turns)
    BY <1>1
<1>3. CASE row.cursor = NoTurn
    BY <1>2, <1>3 DEF BranchEnd
<1>4. CASE row.cursor # NoTurn
    <2>1. row.cursor \in Range(row.turns)
        BY <1>4 DEF BranchIsSound, Branch
    <2>2. PICK i \in DOMAIN row.turns : row.turns[i] = row.cursor
        BY <2>1 DEF Range
    <2>3. BranchEnd(row) \in DOMAIN row.turns
        BY <1>4, <2>2 DEF BranchEnd
    <2> QED
        BY <1>2, <2>3
<1> QED
    BY <1>3, <1>4

\* The branch is cut at the cursor and continued with a new turn; what is cut off is
\* what append_text_chat_user_message sets aside.
LEMMA ContinuedBranch ==
    ASSUME TypeOK, BranchIsSound, NoTurnLost, NEW t \in Turns, row.status[t] = "none"
    PROVE  LET s == Append(SubSeq(row.turns, 1, BranchEnd(row)), t)
           IN  /\ s \in Seq(Turns)
               /\ \A i, j \in DOMAIN s : s[i] = s[j] => i = j
               /\ Future(row) \subseteq Range(row.turns)
               /\ Range(s) \cup Future(row) = Range(row.turns) \cup {t}
               /\ Range(s) \cap (row.discarded \cup Future(row)) = {}
<1> DEFINE b == row.turns
           k == BranchEnd(row)
           c == SubSeq(b, 1, k)
           s == Append(c, t)
<1>1. b \in Seq(Turns) /\ Len(b) \in Nat /\ DOMAIN b = 1..Len(b)
    BY DEF TypeOK, RowInfo
<1>2. k \in 0..Len(b)
    BY BranchEndInBranch
<1>3. \A i \in 1..k : b[i] \in Turns
    BY <1>1, <1>2
<1>4. c \in Seq(Turns) /\ Len(c) = k /\ \A i \in 1..k : c[i] = b[i]
    <2>1. 1 \in Int /\ k \in Int
        BY <1>2
    <2>2. /\ c \in Seq(Turns) /\ Len(c) = IF 1 <= k THEN k - 1 + 1 ELSE 0
          /\ \A i \in 1..(k - 1 + 1) : c[i] = b[1 + i - 1]
        BY <1>3, <2>1, SubSeqProperties
    <2> QED
        BY <1>2, <2>2
<1>5. s \in Seq(Turns) /\ Len(s) = k + 1 /\ s[k + 1] = t /\ \A i \in 1..k : s[i] = b[i]
    BY <1>2, <1>4
<1>6. DOMAIN s = 1..(k + 1)
    BY <1>5
<1>7. t \notin Range(b) /\ t \notin row.discarded
    BY DEF NoTurnLost
<1>8. \A i, j \in DOMAIN b : b[i] = b[j] => i = j
    BY DEF BranchIsSound
<1>9. Future(row) = {b[i] : i \in (k + 1)..Len(b)}
    BY DEF Future
<1>10. Range(b) \cap row.discarded = {}
    BY DEF NoTurnLost
<1> HIDE DEF s, c, k, b
<1>11. \A i \in 1..k : i \in DOMAIN b /\ s[i] = b[i]
    BY <1>1, <1>2, <1>5
<1>12. \A i \in 1..k : s[i] # t
    BY <1>7, <1>11 DEF Range
<1>13. \A i, j \in DOMAIN s : s[i] = s[j] => i = j
    <2> SUFFICES ASSUME NEW i \in DOMAIN s, NEW j \in DOMAIN s, s[i] = s[j]
                 PROVE  i = j
        OBVIOUS
    <2>1. (i \in 1..k \/ i = k + 1) /\ (j \in 1..k \/ j = k + 1)
        BY <1>2, <1>6
    <2> QED
        BY <2>1, <1>5, <1>8, <1>11, <1>12
<1>14. Range(s) = {b[i] : i \in 1..k} \cup {t}
    <2>1. \A i : i \in 1..(k + 1) <=> i \in 1..k \/ i = k + 1
        BY <1>2
    <2>2. Range(s) = {s[i] : i \in 1..(k + 1)}
        BY <1>6 DEF Range
    <2> QED
        BY <1>5, <2>1, <2>2
<1>15. Range(b) = {b[i] : i \in 1..k} \cup Future(row)
    <2>1. \A i : i \in DOMAIN b <=> i \in 1..k \/ i \in (k + 1)..Len(b)
        BY <1>1, <1>2
    <2> QED
        BY <1>9, <2>1 DEF Range
<1>16. {b[i] : i \in 1..k} \cap Future(row) = {}
    <2>1. \A i \in 1..k : \A j \in (k + 1)..Len(b) :
              i \in DOMAIN b /\ j \in DOMAIN b /\ i # j
        BY <1>1, <1>2
    <2> QED
        BY <1>8, <1>9, <2>1
<1>17. /\ s \in Seq(Turns)
       /\ \A i, j \in DOMAIN s : s[i] = s[j] => i = j
       /\ Future(row) \subseteq Range(b)
       /\ Range(s) \cup Future(row) = Range(b) \cup {t}
       /\ Range(s) \cap (row.discarded \cup Future(row)) = {}
    BY <1>5, <1>7, <1>10, <1>13, <1>14, <1>15, <1>16
<1> QED
    BY <1>17 DEF s, c, k, b
-----------------------------------------------------------------------------
(* The steps.                                                               *)

LEMMA InitInv == Init => SessionInv
<1> SUFFICES ASSUME Init PROVE SessionInv
    OBVIOUS
<1> DEFINE x(pc) == [pc |-> pc, row |-> EmptyRow, turn |-> NoTurn, job |-> 0]
<1>1. row = EmptyRow /\ EmptyRow \in RowInfo /\ row.revision = 0
    BY EmptyRowType DEF Init
<1>2. \A pc \in PCs : x(pc) \in ProcInfo
    BY <1>1 DEF ProcInfo, PCs
<1>3. \A p \in Coroutines : proc[p] \in {x("append"), x("idle")}
    BY DEF Init
<1>4. proc \in [Coroutines -> ProcInfo]
    <2>1. x("append") \in ProcInfo /\ x("idle") \in ProcInfo
        BY <1>2 DEF PCs, Writing
    <2> QED
        BY <2>1 DEF Init
<1>5. TypeOK
    <2>1. /\ minted = 0 /\ asked = 0 /\ age = 0 /\ faults = MaxFaults
          /\ jobs = {} /\ results = {} /\ completion = "none" /\ dropped = FALSE
        BY DEF Init
    <2>2. run \in RunInfo
        BY DEF Init, RunInfo
    <2>3. minted \in 0..MaxTurns /\ asked \in 0..MaxRequests /\ faults \in 0..MaxFaults
        BY <2>1, ConstantsAssumption
    <2>4. age \in 0..(Lookback + 1)
        BY <2>1, ConstantsAssumption
    <2>5. row \in RowInfo
        BY <1>1
    <2>6. jobs \subseteq Nat /\ results \subseteq Nat /\ dropped \in BOOLEAN
        BY <2>1
    <2> QED
        BY <1>4, <2>1, <2>2, <2>3, <2>4, <2>5, <2>6 DEF TypeOK
<1>6. \A p \in Coroutines : proc[p].row = row /\ proc[p].pc \in {"append", "idle"}
    BY <1>1, <1>3
<1>7. SnapshotsAgree
    BY <1>6 DEF SnapshotsAgree
<1>8. WritesAreSound
    BY <1>1, <1>6, ConstantsAssumption DEF WritesAreSound, Init
<1>9. row.turns = <<>> /\ row.discarded = {} /\ row.cursor = NoTurn
      /\ \A t \in Turns : row.status[t] = "none"
    BY <1>1 DEF EmptyRow
<1>10. BranchIsSound /\ NoTurnLost
    BY <1>9 DEF BranchIsSound, NoTurnLost, Branch, Range
<1> QED
    BY <1>5, <1>7, <1>8, <1>10 DEF SessionInv

\* Steps of a coroutine that write no row.
Quiet(p) == \/ LoadForMessage(p) \/ Reload(p) \/ NothingPending(p) \/ UpdateRun(p)
            \/ LoadForRewind(p) \/ LoadForEnd(p) \/ Enqueue(p) \/ Conflict(p)
            \/ JobConflict(p) \/ RequestDies(p) \/ WorkerDies(p) \/ JobFails(p)
            \/ \E j \in jobs : StartJob(p, j)

Turning == UNCHANGED <<row, minted>> /\ run'.completed = run.completed

LEMMA JobType ==
    ASSUME TypeOK, NEW p \in Coroutines
    PROVE  proc[p].job \in Nat
    BY DEF TypeOK, ProcInfo
LEMMA GoneQuiet ==
    ASSUME SessionInv, NEW p \in Coroutines, NEW pc \in PCs \ Writing, Goto(p, pc), Turning
    PROVE  /\ proc' \in [Coroutines -> ProcInfo]
           /\ SnapshotsAgree' /\ WritesAreSound' /\ BranchIsSound' /\ NoTurnLost'
    BY GotoProc, QuietStep DEF SessionInv, Turning

LEMMA LoadedQuiet ==
    ASSUME SessionInv, NEW p \in Coroutines, NEW pc \in PCs, NEW turn \in Turns \cup {NoTurn},
           NEW j \in Nat,
           proc' = [proc EXCEPT ![p] = [pc |-> pc, row |-> row, turn |-> turn, job |-> j]],
           pc = "append" => ~run.completed /\ minted < MaxTurns,
           pc = "rewind" => turn \in Branch(row) \cup {NoTurn},
           Turning
    PROVE  /\ proc' \in [Coroutines -> ProcInfo]
           /\ SnapshotsAgree' /\ WritesAreSound' /\ BranchIsSound' /\ NoTurnLost'
    BY LoadedProc, QuietStep DEF SessionInv, Turning

LEMMA QuietInv ==
    ASSUME SessionInv, NEW p \in Coroutines, Quiet(p)
    PROVE  SessionInv' /\ Turning
<1> DEFINE Kept == /\ proc' \in [Coroutines -> ProcInfo]
                   /\ SnapshotsAgree' /\ WritesAreSound' /\ BranchIsSound' /\ NoTurnLost'
<1>0. TypeOK /\ proc[p].job \in Nat /\ "idle" \in PCs \ Writing
      /\ "enqueue" \in PCs \ Writing
    BY JobType DEF SessionInv, PCs, Writing
<1>1. asked < MaxRequests => asked + 1 \in 0..MaxRequests
    BY <1>0, ConstantsAssumption DEF TypeOK
<1>2. faults > 0 => faults - 1 \in 0..MaxFaults
    BY <1>0, ConstantsAssumption DEF TypeOK
<1>3. CASE LoadForMessage(p)
    <2>1. Turning /\ Kept
        BY <1>3, LoadedQuiet DEF LoadForMessage, Loaded, Refused, Turning, PCs, Writing
    <2>2. TypeOK'
        BY <1>0, <1>1, <1>3, <2>1 DEF TypeOK, LoadForMessage, Ask
    <2> QED
        BY <2>1, <2>2 DEF SessionInv
<1>4. CASE Reload(p)
    <2>1. Turning /\ Kept
        BY <1>4, LoadedQuiet DEF Reload, Loaded, Turning, PCs, Writing
    <2>2. TypeOK'
        BY <1>0, <1>4, <2>1 DEF TypeOK, Reload
    <2> QED
        BY <2>1, <2>2 DEF SessionInv
<1>5. CASE NothingPending(p) \/ Conflict(p)
    <2>1. Turning /\ Kept
        BY <1>0, <1>5, GoneQuiet DEF NothingPending, Conflict, Turning
    <2>2. TypeOK'
        BY <1>0, <1>5, <2>1 DEF TypeOK, NothingPending, Conflict
    <2> QED
        BY <2>1, <2>2 DEF SessionInv
<1>6. CASE UpdateRun(p)
    <2>1. Turning /\ run' \in RunInfo
        BY <1>0, <1>6 DEF UpdateRun, Turning, TypeOK, RunInfo
    <2>2. Kept
        BY <1>0, <1>6, <2>1, GoneQuiet DEF UpdateRun
    <2>3. TypeOK'
        BY <1>0, <1>6, <2>1, <2>2 DEF TypeOK, UpdateRun
    <2> QED
        BY <2>1, <2>2, <2>3 DEF SessionInv
<1>7. CASE LoadForRewind(p)
    <2>1. PICK cursor \in Branch(row) \cup {NoTurn} : Loaded(p, "rewind", cursor)
        BY <1>7 DEF LoadForRewind, Branch
    <2>2. cursor \in Turns \cup {NoTurn}
        BY <1>0, <2>1, BranchOfTurns
    <2>3. /\ Turning /\ "rewind" \in PCs /\ cursor \in Branch(row) \cup {NoTurn}
          /\ proc' = [proc EXCEPT ![p] = [pc |-> "rewind", row |-> row, turn |-> cursor, job |-> 0]]
        BY <1>7, <2>1 DEF LoadForRewind, Loaded, Turning, PCs, Writing
    <2>4. Kept
        BY <2>2, <2>3, LoadedQuiet
    <2>5. TypeOK'
        BY <1>0, <1>1, <1>7, <2>4 DEF TypeOK, LoadForRewind, Ask
    <2> QED
        BY <2>3, <2>4, <2>5 DEF SessionInv
<1>8. EndOrEnqueue \in PCs \ {"append", "rewind"}
    BY DEF EndOrEnqueue, PCs, Writing
<1>9. CASE LoadForEnd(p)
    <2>1. Turning /\ Kept
        BY <1>8, <1>9, LoadedQuiet DEF LoadForEnd, Loaded, Turning
    <2>2. TypeOK'
        BY <1>0, <1>1, <1>9, <2>1 DEF TypeOK, LoadForEnd, Ask
    <2> QED
        BY <2>1, <2>2 DEF SessionInv
<1>10. CASE Enqueue(p)
    <2>1. Turning /\ Kept
        BY <1>0, <1>10, GoneQuiet DEF Enqueue, Turning
    <2>2. jobs' \subseteq Nat /\ results' \subseteq Nat
        BY <1>0, <1>10 DEF TypeOK, Enqueue
    <2>3. TypeOK'
        BY <1>0, <1>10, <2>1, <2>2 DEF TypeOK, Enqueue
    <2> QED
        BY <2>1, <2>3 DEF SessionInv
<1>11. CASE JobConflict(p) \/ JobFails(p)
    <2>1. Turning /\ Kept
        BY <1>0, <1>11, GoneQuiet DEF JobConflict, JobFails, Turning
    <2>2. jobs' \subseteq Nat /\ results' \subseteq Nat /\ dropped' \in BOOLEAN
        BY <1>0, <1>11 DEF TypeOK, JobConflict, JobFails
    <2>3. faults' \in 0..MaxFaults
        BY <1>0, <1>2, <1>11 DEF TypeOK, JobConflict, JobFails, Fault
    <2>4. TypeOK'
        BY <1>0, <1>11, <2>1, <2>2, <2>3 DEF TypeOK, JobConflict, JobFails
    <2> QED
        BY <2>1, <2>4 DEF SessionInv
<1>12. CASE RequestDies(p) \/ WorkerDies(p)
    <2>1. Turning /\ Kept
        BY <1>0, <1>12, GoneQuiet DEF RequestDies, WorkerDies, Turning
    <2>2. dropped' \in BOOLEAN /\ faults' \in 0..MaxFaults
        BY <1>0, <1>2, <1>12 DEF TypeOK, RequestDies, WorkerDies, Fault
    <2>3. TypeOK'
        BY <1>0, <1>12, <2>1, <2>2 DEF TypeOK, RequestDies, WorkerDies
    <2> QED
        BY <2>1, <2>3 DEF SessionInv
<1>13. ASSUME NEW j \in jobs, StartJob(p, j)
       PROVE  SessionInv' /\ Turning
    <2>1. Turning /\ j \in Nat
        BY <1>0, <1>13 DEF StartJob, Turning, TypeOK
    <2>2. jobs' \subseteq Nat /\ results' \subseteq Nat
        BY <1>0, <1>13, <2>1 DEF StartJob, TypeOK
    <2>3. Kept
        <3>1. CASE EndOrEnqueue = "end" /\ row.revision # j
            BY <1>0, <1>13, <2>1, <3>1, IdleStep DEF StartJob, Turning, TypeOK
        <3>2. CASE ~(EndOrEnqueue = "end" /\ row.revision # j)
            BY <1>8, <1>13, <2>1, <3>2, LoadedQuiet DEF StartJob
        <3> QED
            BY <3>1, <3>2
    <2>4. TypeOK'
        BY <1>0, <1>13, <2>2, <2>3 DEF TypeOK, StartJob
    <2> QED
        BY <2>1, <2>3, <2>4 DEF SessionInv
<1> QED
    BY <1>3, <1>4, <1>5, <1>6, <1>7, <1>9, <1>10, <1>11, <1>12, <1>13 DEF Quiet
LogStep == [Log!Next]_(Log!vars)

LEMMA QuietLog ==
    ASSUME Turning
    PROVE  LogStep
    BY DEF Turning, LogStep, Log!vars

LEMMA AppendInv ==
    ASSUME SessionInv, NEW p \in Coroutines, AppendTurn(p)
    PROVE  SessionInv' /\ LogStep
<1> DEFINE r == proc[p].row
           t == minted + 1
           s == Append(SubSeq(row.turns, 1, BranchEnd(row)), t)
           aside == row.discarded \cup Future(row)
<1>1. r = row /\ ~run.completed /\ minted < MaxTurns
    BY DEF AppendTurn, SessionInv, SnapshotsAgree, WritesAreSound, Writing
<1>2. TypeOK /\ BranchIsSound /\ NoTurnLost
    BY DEF SessionInv
<1>3. t \in Turns /\ t \in 0..MaxTurns /\ row.status[t] = "none"
    BY <1>1, <1>2, ConstantsAssumption DEF TypeOK, Turns, BranchIsSound
<1>4. /\ s \in Seq(Turns)
      /\ \A i, j \in DOMAIN s : s[i] = s[j] => i = j
      /\ Future(row) \subseteq Range(row.turns)
      /\ Range(s) \cup Future(row) = Range(row.turns) \cup {t}
      /\ Range(s) \cap aside = {}
    BY <1>2, <1>3, ContinuedBranch
<1>5. /\ row' = [row EXCEPT !.turns = s, !.status[t] = "pending", !.discarded = aside,
                            !.cursor = NoTurn, !.phase = "pending_assistant_turn",
                            !.revision = row.revision + 1]
      /\ age' = 0 /\ minted' = t /\ Goto(p, "reload")
      /\ UNCHANGED <<run, asked, jobs, results, completion, dropped, faults>>
    BY <1>1 DEF AppendTurn, Write
<1> HIDE DEF s, t, aside
<1>6. row \in RowInfo
    BY <1>2 DEF TypeOK
<1>7. /\ row'.turns = s /\ row'.discarded = aside /\ row'.cursor = NoTurn
      /\ row'.revision = row.revision + 1
      /\ row'.status = [row.status EXCEPT ![t] = "pending"]
    BY <1>5, <1>6 DEF RowInfo
<1>8. aside \subseteq Turns
    BY <1>2, <1>4, <1>6, BranchOfTurns DEF aside, Branch, RowInfo
<1>9. row' \in RowInfo
    <2>1. [row.status EXCEPT ![t] = "pending"] \in [Turns -> Statuses]
        BY <1>6 DEF RowInfo, Statuses
    <2>2. row.revision + 1 \in Nat
        BY <1>6 DEF RowInfo
    <2> QED
        BY <1>4, <1>5, <1>6, <1>8, <2>1, <2>2 DEF RowInfo
<1>10. "reload" \in PCs /\ "reload" \notin Writing
    BY DEF PCs, Writing
<1>11. proc' \in [Coroutines -> ProcInfo] /\ SnapshotsAgree' /\ WritesAreSound'
    BY <1>2, <1>5, <1>7, <1>10, GotoProc, WriteStep
<1>12. TypeOK'
    <2>1. age' \in 0..(Lookback + 1)
        BY <1>5, ConstantsAssumption
    <2> QED
        BY <1>2, <1>3, <1>5, <1>9, <1>11, <2>1 DEF TypeOK
<1>13. \A u \in Turns : /\ row'.status[u] = "none" <=> row.status[u] = "none" /\ u # t
    BY <1>3, <1>6, <1>7 DEF RowInfo
<1>14. NoTurnLost'
    <2>1. {u \in Turns : row'.status[u] # "none"} = {u \in Turns : row.status[u] # "none"} \cup {t}
        BY <1>3, <1>13
    <2>2. {u \in Turns : row'.status[u] # "none"} = Range(row.turns) \cup row.discarded \cup {t}
        BY <1>2, <2>1 DEF NoTurnLost
    <2> QED
        BY <1>4, <1>7, <2>2 DEF NoTurnLost, aside
<1>15. BranchIsSound'
    <2>1. \A u \in Turns : u > t => u > minted /\ u # t
        BY <1>2, <1>3 DEF t, TypeOK, Turns
    <2>2. \A u \in Turns : u > minted' => row'.status[u] = "none"
        BY <1>2, <1>5, <1>13, <2>1 DEF BranchIsSound
    <2> QED
        BY <1>4, <1>7, <2>2 DEF BranchIsSound, Branch
<1>16. LogStep
    <2>1. \A u \in aside : row.status[u] # "none"
        BY <1>2, <1>4 DEF NoTurnLost, aside
    <2>2. Log!Open(t)
        BY <1>1, <1>3, <1>5, <1>7, <2>1 DEF Log!Open, aside
    <2> QED
        BY <1>3, <2>2 DEF LogStep, Log!Next
<1> QED
    BY <1>11, <1>12, <1>14, <1>15, <1>16 DEF SessionInv

\* A write that changes no turn but, perhaps, the last one of the branch.
LEMMA WrittenInv ==
    ASSUME SessionInv, NEW p \in Coroutines, NEW new, NEW pc \in PCs \ Writing,
           new \in RowInfo, new.revision = row.revision,
           new.turns = row.turns, new.discarded = row.discarded,
           new.cursor \in Branch(row) \cup {NoTurn},
           \A t \in Turns : new.status[t] = "none" <=> row.status[t] = "none",
           Write(new), Goto(p, pc), run' \in RunInfo,
           UNCHANGED <<minted, asked, jobs, results, completion, dropped, faults>>
    PROVE  /\ SessionInv'
           /\ row'.status = new.status /\ row'.discarded = row.discarded
<1>1. TypeOK /\ BranchIsSound /\ NoTurnLost /\ row.revision \in Nat
    BY DEF SessionInv, TypeOK, RowInfo
<1>2. row' = [new EXCEPT !.revision = row.revision + 1] /\ age' = 0
    BY DEF Write
<1>3. /\ row' \in RowInfo /\ row'.revision = row.revision + 1
      /\ row'.turns = row.turns /\ row'.discarded = row.discarded
      /\ row'.cursor = new.cursor /\ row'.status = new.status
    BY <1>1, <1>2 DEF RowInfo
<1>4. proc' \in [Coroutines -> ProcInfo] /\ SnapshotsAgree' /\ WritesAreSound'
    BY <1>1, <1>3, GotoProc, WriteStep
<1>5. BranchIsSound' /\ NoTurnLost'
    BY <1>1, <1>3, SameTurns
<1>6. age' \in 0..(Lookback + 1)
    BY <1>2, ConstantsAssumption
<1>7. TypeOK'
    BY <1>1, <1>3, <1>4, <1>6 DEF TypeOK
<1> QED
    BY <1>3, <1>4, <1>5, <1>7 DEF SessionInv
\* The last turn of the branch settles, in one of three ways.
LEMMA SettledInv ==
    ASSUME SessionInv, NEW p \in Coroutines, NEW new \in RowInfo, NEW pc \in PCs \ Writing,
           NEW outcome \in {"completed", "failed"},
           HasPendingTurn(row),
           new.revision = row.revision, new.turns = row.turns,
           new.discarded = row.discarded, new.cursor = row.cursor,
           new.status = [row.status EXCEPT ![row.turns[Len(row.turns)]] = outcome],
           Write(new), Goto(p, pc), run' \in RunInfo,
           run'.completed \in {run.completed, TRUE},
           UNCHANGED <<minted, asked, jobs, results, completion, dropped, faults>>
    PROVE  SessionInv' /\ LogStep
<1> DEFINE t == row.turns[Len(row.turns)]
<1>1. row \in RowInfo /\ BranchIsSound
    BY DEF SessionInv, TypeOK
<1>2. t \in Turns /\ row.status[t] = "pending"
    <2>1. row.turns \in Seq(Turns) /\ row.turns # <<>>
        BY <1>1 DEF RowInfo, HasPendingTurn
    <2>2. Len(row.turns) \in DOMAIN row.turns
        BY <2>1
    <2> QED
        BY <2>1, <2>2 DEF HasPendingTurn
<1> HIDE DEF t
<1>3. new.status = [row.status EXCEPT ![t] = outcome]
    BY DEF t
<1>4. \A u \in Turns : new.status[u] = "none" <=> row.status[u] = "none"
    BY <1>1, <1>2, <1>3 DEF RowInfo
<1>5. new.cursor \in Branch(row) \cup {NoTurn}
    BY <1>1 DEF BranchIsSound
<1>6. SessionInv' /\ row'.status = new.status /\ row'.discarded = row.discarded
    BY <1>4, <1>5, WrittenInv
<1>7. Log!Settle(t)
    BY <1>2, <1>3, <1>6 DEF Log!Settle
<1> QED
    BY <1>2, <1>6, <1>7 DEF LogStep, Log!Next

LEMMA AnswerInv ==
    ASSUME SessionInv, NEW p \in Coroutines, HasPendingTurn(row),
           NEW phase \in {"idle", "completed"}, NEW pc \in PCs \ Writing,
           Answer(row, phase), Goto(p, pc), run' \in RunInfo,
           run'.completed \in {run.completed, TRUE},
           UNCHANGED <<minted, asked, jobs, results, completion, dropped, faults>>
    PROVE  SessionInv' /\ LogStep
<1> DEFINE t == row.turns[Len(row.turns)]
           after == BaseCheckpoint(row) \cup {t}
           new == [row EXCEPT !.status[t] = "completed", !.context[t] = after,
                              !.checkpoint = after, !.phase = phase]
<1>1. row \in RowInfo /\ row.turns \in Seq(Turns) /\ Len(row.turns) \in Nat
      /\ \A i \in DOMAIN row.turns : row.turns[i] \in Turns
    BY DEF SessionInv, TypeOK, RowInfo
<1>2. t \in Turns
    BY <1>1 DEF HasPendingTurn
<1>3. BaseCheckpoint(row) \subseteq Turns
    <2> DEFINE done == {i \in 1..(Len(row.turns) - 1) : row.status[row.turns[i]] = "completed"}
    <2>1. CASE done = {}
        BY <1>1, <2>1 DEF BaseCheckpoint, RowInfo
    <2>2. CASE done # {}
        <3>1. BaseCheckpoint(row) = row.context[row.turns[Max(done)]]
            BY <2>2 DEF BaseCheckpoint
        <3>2. done \subseteq 1..Len(row.turns)
            BY <1>1
        <3> HIDE DEF done
        <3>3. Max(done) \in 1..Len(row.turns)
            BY <1>1, <2>2, <3>2, LastOne
        <3>4. row.turns[Max(done)] \in Turns
            BY <1>1, <3>3
        <3> QED
            BY <1>1, <3>1, <3>4 DEF RowInfo
    <2> QED
        BY <2>1, <2>2
<1>4. Write(new)
    BY DEF Answer
<1> HIDE DEF t, after
<1>5. after \subseteq Turns
    BY <1>2, <1>3 DEF after
<1>6. /\ [row.status EXCEPT ![t] = "completed"] \in [Turns -> Statuses]
      /\ [row.context EXCEPT ![t] = after] \in [Turns -> SUBSET Turns]
    BY <1>1, <1>5 DEF RowInfo, Statuses
<1>7. /\ new.revision = row.revision /\ new.turns = row.turns
      /\ new.discarded = row.discarded /\ new.cursor = row.cursor
      /\ new.status = [row.status EXCEPT ![t] = "completed"]
    BY <1>1 DEF RowInfo
<1>8. new \in RowInfo
    BY <1>1, <1>5, <1>6 DEF RowInfo
<1> HIDE DEF new
<1>9. new.status = [row.status EXCEPT ![row.turns[Len(row.turns)]] = "completed"]
    BY <1>7 DEF t
<1> QED
    BY <1>4, <1>7, <1>8, <1>9, SettledInv
LEMMA TurnInv ==
    ASSUME SessionInv, NEW p \in Coroutines,
           Answered(p) \/ AnsweredAndEnded(p) \/ AnswerFailed(p)
    PROVE  SessionInv' /\ LogStep
<1>1. proc[p].row = row /\ HasPendingTurn(row)
    BY DEF Answered, AnsweredAndEnded, AnswerFailed, SessionInv, SnapshotsAgree, Writing
<1>2. /\ run \in RunInfo /\ row \in RowInfo
      /\ {"update_run", "enqueue", "idle"} \subseteq PCs \ Writing
    BY DEF SessionInv, TypeOK, PCs, Writing
<1>3. CASE Answered(p)
    BY <1>1, <1>2, <1>3, AnswerInv DEF Answered
<1>4. CASE AnsweredAndEnded(p)
    <2>1. run' \in RunInfo /\ run'.completed = TRUE
        BY <1>4 DEF AnsweredAndEnded, RunInfo
    <2> QED
        BY <1>1, <1>2, <1>4, <2>1, AnswerInv DEF AnsweredAndEnded
<1>5. CASE AnswerFailed(p)
    <2> DEFINE t == row.turns[Len(row.turns)]
               new == [row EXCEPT !.status[t] = "failed", !.phase = "error"]
    <2>1. Write(new) /\ Goto(p, "idle")
          /\ UNCHANGED <<run, minted, asked, jobs, results, completion, dropped, faults>>
        BY <1>1, <1>5 DEF AnswerFailed
    <2> HIDE DEF t
    <2>2. new \in RowInfo
        BY <1>2 DEF RowInfo, Statuses
    <2>3. /\ new.revision = row.revision /\ new.turns = row.turns
          /\ new.discarded = row.discarded /\ new.cursor = row.cursor
          /\ new.status = [row.status EXCEPT ![t] = "failed"]
        BY <1>2 DEF RowInfo
    <2> HIDE DEF new
    <2>4. new.status = [row.status EXCEPT ![row.turns[Len(row.turns)]] = "failed"]
        BY <2>3 DEF t
    <2> QED
        BY <1>1, <1>2, <2>1, <2>2, <2>3, <2>4, SettledInv
<1> QED
    BY <1>3, <1>4, <1>5

LEMMA RewindInv ==
    ASSUME SessionInv, NEW p \in Coroutines, Rewind(p)
    PROVE  SessionInv' /\ LogStep
<1> DEFINE phase == IF proc[p].turn = NoTurn THEN "idle" ELSE "rewound"
           new == [row EXCEPT !.cursor = proc[p].turn, !.phase = phase]
<1>1. proc[p].row = row /\ proc[p].turn \in Branch(row) \cup {NoTurn}
    BY DEF Rewind, SessionInv, SnapshotsAgree, WritesAreSound, Writing
<1>2. row \in RowInfo /\ run \in RunInfo /\ "idle" \in PCs \ Writing
      /\ Branch(row) \subseteq Turns
    BY BranchOfTurns DEF SessionInv, TypeOK, PCs, Writing
<1>3. Write(new) /\ Goto(p, "idle")
      /\ UNCHANGED <<run, minted, asked, jobs, results, completion, dropped, faults>>
    BY <1>1 DEF Rewind
<1>4. new \in RowInfo
    BY <1>1, <1>2 DEF RowInfo
<1>5. /\ new.revision = row.revision /\ new.turns = row.turns
      /\ new.discarded = row.discarded /\ new.cursor = proc[p].turn
      /\ new.status = row.status
    BY <1>2 DEF RowInfo
<1> HIDE DEF new
<1>6. SessionInv' /\ row'.status = row.status /\ row'.discarded = row.discarded
    BY <1>1, <1>2, <1>3, <1>4, <1>5, WrittenInv
<1> QED
    BY <1>3, <1>6 DEF LogStep, Log!vars

LEMMA EndInv ==
    ASSUME SessionInv, NEW p \in Coroutines, EndChat(p)
    PROVE  SessionInv' /\ LogStep
<1> DEFINE new == [row EXCEPT !.phase = "completed"]
<1>1. proc[p].row = row
    BY DEF EndChat, SessionInv, SnapshotsAgree, Writing
<1>2. row \in RowInfo /\ row.cursor \in Branch(row) \cup {NoTurn}
      /\ "enqueue" \in PCs \ Writing
    BY DEF SessionInv, TypeOK, BranchIsSound, PCs, Writing
<1>3. /\ Write(new) /\ Goto(p, "enqueue") /\ run' \in RunInfo /\ run'.completed = TRUE
      /\ UNCHANGED <<minted, asked, jobs, results, completion, dropped, faults>>
    BY <1>1 DEF EndChat, RunInfo
<1>4. new \in RowInfo
    BY <1>2 DEF RowInfo
<1>5. /\ new.revision = row.revision /\ new.turns = row.turns
      /\ new.discarded = row.discarded /\ new.cursor = row.cursor
      /\ new.status = row.status
    BY <1>2 DEF RowInfo
<1> HIDE DEF new
<1>6. SessionInv' /\ row'.status = row.status /\ row'.discarded = row.discarded
    BY <1>2, <1>3, <1>4, <1>5, WrittenInv
<1> QED
    BY <1>3, <1>6 DEF LogStep, Log!Next, Log!End

\* What the sweep, the queue and time do leaves the session alone.
LEMMA IdleInv ==
    ASSUME SessionInv, Sweep \/ ProcessCompletion \/ Tick
    PROVE  SessionInv' /\ Turning
<1>1. TypeOK /\ row.revision \in Nat
    BY DEF SessionInv, TypeOK, RowInfo
<1>2. UNCHANGED <<row, run, minted, proc>> /\ Turning
    BY DEF Sweep, ProcessCompletion, Tick, Turning
<1>3. SnapshotsAgree' /\ WritesAreSound' /\ BranchIsSound' /\ NoTurnLost'
    BY <1>2, IdleStep
<1>4. Sweep => TypeOK'
    BY <1>1, <1>2 DEF TypeOK, Sweep
<1>5. ProcessCompletion => TypeOK'
    BY <1>1, <1>2 DEF TypeOK, ProcessCompletion
<1>6. ASSUME Tick PROVE TypeOK'
    <2>1. age' \in 0..(Lookback + 1) /\ faults' \in 0..MaxFaults
        BY <1>1, <1>6, ConstantsAssumption DEF TypeOK, Tick, Fault
    <2> QED
        BY <1>1, <1>2, <1>6, <2>1 DEF TypeOK, Tick
<1>7. TypeOK'
    BY <1>4, <1>5, <1>6
<1> QED
    BY <1>2, <1>3, <1>7 DEF SessionInv
LEMMA NextInv == SessionInv /\ [Next]_vars => SessionInv' /\ LogStep
<1> SUFFICES ASSUME SessionInv, [Next]_vars PROVE SessionInv' /\ LogStep
    OBVIOUS
<1> USE FirstTurn
<1>1. ASSUME NEW p \in Requests,
             \/ LoadForMessage(p) \/ LoadForRewind(p) \/ LoadForEnd(p)
             \/ RequestStep(p) \/ RequestDies(p)
      PROVE  SessionInv' /\ LogStep
    <2>1. p \in Coroutines
        OBVIOUS
    <2>2. \/ Quiet(p) \/ AppendTurn(p) \/ Rewind(p) \/ EndChat(p)
          \/ Answered(p) \/ AnsweredAndEnded(p) \/ AnswerFailed(p)
        BY <1>1 DEF RequestStep, Turn, Quiet
    <2> QED
        BY <2>1, <2>2, QuietInv, QuietLog, AppendInv, RewindInv, EndInv, TurnInv
<1>2. ASSUME NEW w \in Workers, JobStep(w) \/ WorkerDies(w) \/ JobFails(w)
      PROVE  SessionInv' /\ LogStep
    <2>1. w \in Coroutines
        BY DEF Coroutines
    <2>2. Quiet(w) \/ EndChat(w)
        BY <1>2 DEF JobStep, Quiet
    <2> QED
        BY <2>1, <2>2, QuietInv, QuietLog, EndInv
<1>3. CASE Sweep \/ ProcessCompletion \/ Tick
    BY <1>3, IdleInv, QuietLog
<1>4. CASE UNCHANGED vars
    <2>1. UNCHANGED <<row, run, minted, proc>> /\ Turning
        BY <1>4 DEF vars, Turning
    <2>2. TypeOK'
        BY <1>4 DEF vars, SessionInv, TypeOK
    <2> QED
        BY <2>1, <2>2, IdleStep, QuietLog DEF SessionInv
<1> QED
    BY <1>1, <1>2, <1>3, <1>4 DEF Next
-----------------------------------------------------------------------------
(* What is promised.                                                        *)

THEOREM SessionInvariant == Spec => []SessionInv
    BY InitInv, NextInv, PTL DEF Spec

\* Row, run, coroutines and queue keep their types: the inputs of every statement of
\* text_chat_session_service.py are what its statements expect.
THEOREM TypeCorrect == Spec => []TypeOK
<1>1. SessionInv => TypeOK
    BY DEF SessionInv
<1> QED
    BY <1>1, SessionInvariant, PTL

\* update_workflow_run_text_session compares revisions alone; that is enough, for a
\* coroutine with the current revision has the current session.
THEOREM CurrentRevisionIsCurrentSession == Spec => []SnapshotsAgree
<1>1. SessionInv => SnapshotsAgree
    BY DEF SessionInv
<1> QED
    BY <1>1, SessionInvariant, PTL

\* However many tabs send, rewind and end at once, every turn that was saved is on the
\* branch or set aside.
THEOREM TurnsAreKept == Spec => []NoTurnLost
<1>1. SessionInv => NoTurnLost
    BY DEF SessionInv
<1> QED
    BY <1>1, SessionInvariant, PTL

\* The session with its requests, jobs and faults implements the log of turns.
THEOREM RefinesTurnLog == Spec => ImplementsTurnLog
<1>1. Init => Log!Init
    BY DEF Init, EmptyRow, Log!Init
<1>2. SessionInv /\ [Next]_vars => [Log!Next]_(Log!vars)
    BY NextInv DEF LogStep
<1> QED
    BY <1>1, <1>2, SessionInvariant, PTL DEF Spec, ImplementsTurnLog, Log!Spec
-----------------------------------------------------------------------------
(* An answer knows the branch.                                              *)

Done == {i \in DOMAIN row.turns : row.status[row.turns[i]] = "completed"}

\* With the turns of a branch set aside that the first answer has known.
AnsweredWith(old) ==
    /\ 1 \in Done => old = {}
    /\ \A j \in Done :
          row.context[row.turns[j]] = {row.turns[i] : i \in Done \cap (1..j)} \cup old

AnswersInv == AnsweredFromBranch /\ CheckpointIsKnown

LEMMA AnsweredWithSome ==
    AnsweredFromBranch <=> \E old \in SUBSET row.discarded : AnsweredWith(old)
    BY DEF AnsweredFromBranch, AnsweredWith, Done

LEMMA AnsweredWithThat ==
    ASSUME NEW CONSTANT old, old \subseteq row'.discarded, AnsweredWith(old)'
    PROVE  AnsweredFromBranch'
    BY DEF AnsweredFromBranch, AnsweredWith, Done

\* No turn is answered, and the branch stays: so do the contexts.
LEMMA SameContexts ==
    ASSUME TypeOK, AnswersInv,
           row'.turns = row.turns, row'.context = row.context,
           row'.discarded = row.discarded, row'.checkpoint = row.checkpoint,
           \A t \in Turns : row'.status[t] = "completed" <=> row.status[t] = "completed"
    PROVE  AnswersInv'
<1>1. \A i \in DOMAIN row.turns : row.turns[i] \in Turns
    BY BranchOfTurns DEF Branch, Range
<1>2. Done' = Done
    BY <1>1 DEF Done
<1>3. PICK old \in SUBSET row.discarded : AnsweredWith(old)
    BY AnsweredWithSome DEF AnswersInv
<1>4. AnsweredWith(old)'
    BY <1>2, <1>3 DEF AnsweredWith
<1>5. AnsweredFromBranch'
    BY <1>3, <1>4, AnsweredWithThat
<1>6. row.checkpoint \subseteq Turns
    BY DEF TypeOK, RowInfo
<1>7. CheckpointIsKnown'
    BY <1>6 DEF AnswersInv, CheckpointIsKnown
<1> QED
    BY <1>5, <1>7 DEF AnswersInv

\* A new turn is not answered yet, and what precedes it on the branch did so before.
LEMMA AppendContexts ==
    ASSUME SessionInv, AnswersInv, NEW p \in Coroutines, AppendTurn(p)
    PROVE  AnswersInv'
<1> DEFINE b == row.turns
           k == BranchEnd(row)
           t == minted + 1
           s == Append(SubSeq(b, 1, k), t)
<1>1. proc[p].row = row /\ minted < MaxTurns
    BY DEF AppendTurn, SessionInv, SnapshotsAgree, WritesAreSound, Writing
<1>2. TypeOK /\ BranchIsSound /\ row \in RowInfo /\ b \in Seq(Turns)
    BY DEF SessionInv, TypeOK, RowInfo
<1>3. t \in Turns /\ row.status[t] = "none"
    BY <1>1, <1>2, ConstantsAssumption DEF TypeOK, Turns, BranchIsSound
<1>4. /\ row'.turns = s /\ row'.context = row.context
      /\ row'.status = [row.status EXCEPT ![t] = "pending"]
      /\ row'.discarded = row.discarded \cup Future(row)
      /\ row'.checkpoint = row.checkpoint
    BY <1>1, <1>2 DEF AppendTurn, Write, RowInfo
<1>5. k \in 0..Len(b) /\ DOMAIN b = 1..Len(b) /\ Len(b) \in Nat
    BY <1>2, BranchEndInBranch
<1>6. /\ DOMAIN s = 1..(k + 1) /\ Len(s) = k + 1 /\ s[k + 1] = t
      /\ \A i \in 1..k : s[i] = b[i] /\ b[i] \in Turns
    <2>1. \A i \in 1..k : b[i] \in Turns
        BY <1>2, <1>5
    <2>2. 1 \in Int /\ k \in Int
        BY <1>5
    <2>3. /\ SubSeq(b, 1, k) \in Seq(Turns)
          /\ Len(SubSeq(b, 1, k)) = IF 1 <= k THEN k - 1 + 1 ELSE 0
          /\ \A i \in 1..(k - 1 + 1) : SubSeq(b, 1, k)[i] = b[1 + i - 1]
        BY <2>1, <2>2, SubSeqProperties
    <2>4. Len(SubSeq(b, 1, k)) = k /\ \A i \in 1..k : SubSeq(b, 1, k)[i] = b[i]
        BY <1>5, <2>3
    <2> QED
        BY <1>3, <1>5, <2>1, <2>3, <2>4
<1>7. \A u \in Turns : row'.status[u] = "completed" <=> row.status[u] = "completed"
    BY <1>2, <1>3, <1>4 DEF RowInfo
<1>8. row'.status[t] # "completed"
    BY <1>3, <1>7
<1>9. k = 0 => Len(b) = 0 /\ Future(row) = {}
    <2>1. ASSUME k = 0 PROVE Len(b) = 0
        <3>1. row.cursor = NoTurn \/ \E i \in DOMAIN b : b[i] = row.cursor
            BY <1>2 DEF BranchIsSound, Branch, Range
        <3>2. CASE row.cursor = NoTurn
            BY <2>1, <3>2 DEF BranchEnd
        <3>3. CASE row.cursor # NoTurn
            <4>1. k \in DOMAIN b
                BY <3>1, <3>3 DEF BranchEnd
            <4> QED
                BY <1>5, <2>1, <4>1
        <3> QED
            BY <3>2, <3>3
    <2>2. ASSUME k = 0, Len(b) = 0 PROVE Future(row) = {}
        BY <1>5, <2>2 DEF Future
    <2> QED
        BY <2>1, <2>2
<1> HIDE DEF b, k, t, s
<1>10. Done' = Done \cap (1..k)
    <2>1. Done' = {i \in 1..(k + 1) : row'.status[s[i]] = "completed"}
        BY <1>4, <1>6 DEF Done
    <2>2. Done = {i \in 1..Len(b) : row.status[b[i]] = "completed"}
        BY <1>5 DEF Done, b
    <2>3. \A i : i \in 1..(k + 1) <=> i \in 1..k \/ i = k + 1
        BY <1>5
    <2>4. \A i \in 1..k : i \in 1..Len(b)
        BY <1>5
    <2> QED
        BY <1>6, <1>7, <1>8, <2>1, <2>2, <2>3, <2>4
<1>11. PICK old \in SUBSET row.discarded : AnsweredWith(old)
    BY AnsweredWithSome DEF AnswersInv
<1>12. ASSUME NEW j \in Done'
       PROVE  row'.context[s[j]] = {s[i] : i \in Done' \cap (1..j)} \cup old
    <2>1. j \in Done /\ j \in 1..k /\ s[j] = b[j]
        BY <1>6, <1>10
    <2>2. \A i \in 1..j : i \in 1..k
        BY <1>5, <2>1
    <2>3. Done' \cap (1..j) = Done \cap (1..j)
        BY <1>10, <2>2
    <2>4. \A i \in Done \cap (1..j) : s[i] = b[i]
        BY <1>6, <2>2
    <2>5. row.context[b[j]] = {b[i] : i \in Done \cap (1..j)} \cup old
        BY <1>11, <2>1 DEF AnsweredWith, b
    <2> QED
        BY <1>4, <2>1, <2>3, <2>4, <2>5
<1>13. AnsweredWith(old)' /\ old \in SUBSET row'.discarded
    BY <1>4, <1>10, <1>11, <1>12 DEF AnsweredWith
<1>14. AnsweredFromBranch'
    BY <1>13, AnsweredWithThat
<1>15. row.checkpoint \subseteq Turns
    BY <1>2 DEF RowInfo
<1>16. CheckpointIsKnown'
    <2>1. k + 1 < 2 => k = 0
        BY <1>5
    <2>2. Len(b) = 0 => row.discarded = {}
        BY DEF AnswersInv, CheckpointIsKnown, b
    <2> QED
        BY <1>4, <1>6, <1>7, <1>9, <1>15, <2>1, <2>2 DEF AnswersInv, CheckpointIsKnown
<1> QED
    BY <1>14, <1>16 DEF AnswersInv

\* The turn that is answered is the last of the branch, and its answer is built on the
\* last one that was answered before it, or else on the row's checkpoint.
LEMMA AnswerContexts ==
    ASSUME SessionInv, AnswersInv, HasPendingTurn(row), NEW phase,
           Answer(row, phase)
    PROVE  AnswersInv'
<1> DEFINE b == row.turns
           n == Len(b)
           t == b[n]
           after == BaseCheckpoint(row) \cup {t}
<1>1. row \in RowInfo /\ b \in Seq(Turns) /\ n \in Nat \ {0} /\ DOMAIN b = 1..n
      /\ \A i \in DOMAIN b : b[i] \in Turns
    BY DEF SessionInv, TypeOK, RowInfo, HasPendingTurn
<1>2. /\ row'.turns = b
      /\ row'.status = [row.status EXCEPT ![t] = "completed"]
      /\ row'.context = [row.context EXCEPT ![t] = after]
      /\ row'.checkpoint = after /\ row'.discarded = row.discarded
    BY <1>1 DEF Answer, Write, RowInfo
<1>3. \A i \in 1..(n - 1) : i \in DOMAIN b /\ b[i] # t
    <2>1. n \in DOMAIN b /\ \A i \in 1..(n - 1) : i \in DOMAIN b /\ i # n
        BY <1>1
    <2> QED
        BY <2>1 DEF SessionInv, BranchIsSound
<1>4. /\ row'.context[t] = after
      /\ \A u \in Turns \ {t} : /\ row'.status[u] = row.status[u]
                                /\ row'.context[u] = row.context[u]
      /\ row'.status[t] = "completed" /\ t \in Turns
    BY <1>1, <1>2 DEF RowInfo
<1>5. n \notin Done /\ Done \subseteq 1..(n - 1)
      /\ Done = {i \in 1..(n - 1) : row.status[b[i]] = "completed"}
    <2>1. row.status[t] # "completed"
        BY DEF HasPendingTurn
    <2>2. \A i : i \in 1..n <=> i \in 1..(n - 1) \/ i = n
        BY <1>1
    <2> QED
        BY <1>1, <2>1, <2>2 DEF Done
<1>6. Done' = Done \cup {n}
    <2>1. Done' = {i \in 1..n : row'.status[b[i]] = "completed"}
        BY <1>1, <1>2 DEF Done
    <2>2. \A i : i \in 1..n <=> i \in 1..(n - 1) \/ i = n
        BY <1>1
    <2>3. \A i \in 1..(n - 1) : row'.status[b[i]] = row.status[b[i]]
        BY <1>1, <1>3, <1>4
    <2> QED
        BY <1>4, <1>5, <2>1, <2>2, <2>3
<1>7. BaseCheckpoint(row) = IF Done = {} THEN row.checkpoint ELSE row.context[b[Max(Done)]]
    BY <1>5 DEF BaseCheckpoint
<1>8. CheckpointIsKnown /\ NoTurnLost
    BY DEF AnswersInv, SessionInv
<1>9. ASSUME NEW base, BaseCheckpoint(row) = base,
             \A u \in base : u \in row.discarded \/ row.status[u] = "completed"
      PROVE  CheckpointIsKnown'
    BY <1>2, <1>4, <1>8, <1>9, <1>1 DEF CheckpointIsKnown, RowInfo
<1> HIDE DEF b, n, t, after
<1>10. CASE Done = {}
    <2>1. BaseCheckpoint(row) = row.checkpoint
        BY <1>7, <1>10
    <2>2. ASSUME NEW u \in row.checkpoint PROVE u \in row.discarded
        <3>1. u \in row.discarded \/ (u \in Turns /\ row.status[u] = "completed")
            BY <1>1, <1>8 DEF CheckpointIsKnown, RowInfo
        <3>2. \A i \in DOMAIN b : row.status[b[i]] # "completed"
            BY <1>10 DEF Done, b
        <3>3. u \notin Range(b) \/ row.status[u] # "completed"
            BY <3>2 DEF Range
        <3> QED
            BY <1>8, <3>1, <3>3 DEF NoTurnLost, b
    <2>3. n = 1 => row.checkpoint = {}
        BY <1>8, <2>2 DEF CheckpointIsKnown, n, b
    <2>4. PICK old \in SUBSET row.discarded : old = row.checkpoint
        BY <2>2
    <2>5. Done' = {n} /\ Done' \cap (1..n) = {n}
        BY <1>1, <1>6, <1>10
    <2>6. row'.context[b[n]] = {b[n]} \cup old
        BY <1>4, <2>1, <2>4 DEF after, t
    <2>7. {b[i] : i \in {n}} = {b[n]}
        OBVIOUS
    <2>8. \A x \in Done' : row'.context[b[x]] = {b[i] : i \in Done' \cap (1..x)} \cup old
        BY <2>5, <2>6, <2>7
    <2>9. AnsweredWith(old)'
        BY <1>2, <2>3, <2>4, <2>5, <2>8 DEF AnsweredWith
    <2>10. AnsweredFromBranch'
        BY <1>2, <2>9, AnsweredWithThat
    <2> QED
        BY <1>8, <1>9, <2>1, <2>10 DEF CheckpointIsKnown, AnswersInv
<1>11. CASE Done # {}
    <2> DEFINE m == Max(Done)
    <2>1. PICK old \in SUBSET row.discarded : AnsweredWith(old)
        BY AnsweredWithSome DEF AnswersInv
    <2>2. m \in Done /\ \A x \in Done : x <= m
        <3>0. n - 1 \in Nat /\ Done \subseteq 1..(n - 1)
            BY <1>1, <1>5
        <3>1. m \in Done
            BY <1>11, <3>0, LastOne
        <3>2. PICK x \in Done : \A y \in Done : x >= y
            BY <1>11, <3>0, LargestOne
        <3>3. \A y \in Done : m >= y
            BY <3>2 DEF Max
        <3> QED
            BY <1>1, <1>5, <3>1, <3>3
    <2>3. Done \cap (1..m) = Done
        BY <1>1, <1>5, <2>2
    <2> HIDE DEF m
    <2>4. BaseCheckpoint(row) = {b[i] : i \in Done} \cup old
        BY <1>7, <1>11, <2>1, <2>2, <2>3 DEF AnsweredWith, b, m
    <2>5. ASSUME NEW u \in {b[i] : i \in Done} \cup old
          PROVE  u \in row.discarded \/ row.status[u] = "completed"
        BY <2>5, <2>1 DEF Done, b
    <2>6. 1 \in Done' => old = {}
        BY <1>1, <1>5, <1>6, <1>11, <2>1 DEF AnsweredWith
    <2>7. ASSUME NEW x \in Done'
          PROVE  row'.context[b[x]] = {b[i] : i \in Done' \cap (1..x)} \cup old
        <3>1. CASE x = n
            <4>1. Done' \cap (1..n) = Done \cup {n}
                BY <1>1, <1>5, <1>6
            <4>2. {b[i] : i \in Done \cup {n}} = {b[i] : i \in Done} \cup {b[n]}
                OBVIOUS
            <4> QED
                BY <1>4, <2>4, <3>1, <4>1, <4>2 DEF after, t
        <3>2. CASE x # n
            <4>1. x \in Done /\ x \in 1..(n - 1)
                BY <1>5, <1>6, <2>7, <3>2
            <4>2. Done' \cap (1..x) = Done \cap (1..x)
                BY <1>1, <1>6, <4>1
            <4>3. row'.context[b[x]] = row.context[b[x]]
                BY <1>1, <1>3, <1>4, <4>1
            <4> QED
                BY <2>1, <4>1, <4>2, <4>3 DEF AnsweredWith, b
        <3> QED
            BY <3>1, <3>2
    <2>8. AnsweredWith(old)'
        BY <1>2, <2>6, <2>7 DEF AnsweredWith
    <2>9. AnsweredFromBranch'
        BY <1>2, <2>1, <2>8, AnsweredWithThat
    <2> QED
        BY <1>9, <2>4, <2>5, <2>9 DEF AnswersInv
<1> QED
    BY <1>10, <1>11

\* Every step keeps the contexts of the branch in order.
LEMMA NextContexts ==
    ASSUME SessionInv, AnswersInv, [Next]_vars
    PROVE  AnswersInv'
<1> USE FirstTurn
<1>1. TypeOK /\ row \in RowInfo
    BY DEF SessionInv, TypeOK
<1>2. ASSUME UNCHANGED row PROVE AnswersInv'
    BY <1>1, <1>2, SameContexts
<1>3. ASSUME NEW p \in Coroutines, Quiet(p) PROVE UNCHANGED row
    BY <1>3 DEF Quiet, LoadForMessage, Reload, NothingPending, UpdateRun, LoadForRewind,
                LoadForEnd, Enqueue, Conflict, RequestDies, WorkerDies, JobFails, JobConflict,
                StartJob
<1>4. ASSUME NEW p \in Coroutines, Rewind(p) \/ EndChat(p) PROVE AnswersInv'
    <2>1. proc[p].row = row
        BY <1>4 DEF Rewind, EndChat, SessionInv, SnapshotsAgree, Writing
    <2>2. /\ row'.turns = row.turns /\ row'.context = row.context
          /\ row'.status = row.status /\ row'.discarded = row.discarded
          /\ row'.checkpoint = row.checkpoint
        BY <1>1, <1>4, <2>1 DEF Rewind, EndChat, Write, RowInfo
    <2> QED
        BY <1>1, <2>2, SameContexts
<1>5. ASSUME NEW p \in Coroutines, Answered(p) \/ AnsweredAndEnded(p)
      PROVE  AnswersInv'
    <2>1. proc[p].row = row
        BY <1>5 DEF Answered, AnsweredAndEnded, SessionInv, SnapshotsAgree, Writing
    <2> QED
        BY <1>5, <2>1, AnswerContexts DEF Answered, AnsweredAndEnded
<1>6. ASSUME NEW p \in Coroutines, AnswerFailed(p) PROVE AnswersInv'
    <2> DEFINE t == row.turns[Len(row.turns)]
    <2>1. proc[p].row = row /\ HasPendingTurn(row)
        BY <1>6 DEF AnswerFailed, SessionInv, SnapshotsAgree, Writing
    <2>2. /\ row'.turns = row.turns /\ row'.context = row.context
          /\ row'.discarded = row.discarded /\ row'.checkpoint = row.checkpoint
          /\ row'.status = [row.status EXCEPT ![t] = "failed"] /\ row.status[t] = "pending"
        BY <1>1, <1>6, <2>1 DEF AnswerFailed, Write, RowInfo, HasPendingTurn
    <2> HIDE DEF t
    <2>3. \A u \in Turns : row'.status[u] = "completed" <=> row.status[u] = "completed"
        BY <1>1, <2>2 DEF RowInfo
    <2> QED
        BY <1>1, <2>2, <2>3, SameContexts
<1>7. ASSUME NEW p \in Requests,
             \/ LoadForMessage(p) \/ LoadForRewind(p) \/ LoadForEnd(p)
             \/ RequestStep(p) \/ RequestDies(p)
      PROVE  AnswersInv'
    <2>1. \/ Quiet(p) \/ AppendTurn(p) \/ Rewind(p) \/ EndChat(p)
          \/ Answered(p) \/ AnsweredAndEnded(p) \/ AnswerFailed(p)
        BY <1>7 DEF RequestStep, Turn, Quiet
    <2> QED
        BY <1>2, <1>3, <1>4, <1>5, <1>6, <2>1, AppendContexts
<1>8. ASSUME NEW w \in Workers, JobStep(w) \/ WorkerDies(w) \/ JobFails(w)
      PROVE  AnswersInv'
    <2>1. w \in Coroutines
        BY DEF Coroutines
    <2>2. Quiet(w) \/ EndChat(w)
        BY <1>8 DEF JobStep, Quiet
    <2> QED
        BY <1>2, <1>3, <1>4, <2>1, <2>2
<1>9. CASE Sweep \/ ProcessCompletion \/ Tick \/ UNCHANGED vars
    BY <1>2, <1>9 DEF Sweep, ProcessCompletion, Tick, vars
<1> QED
    BY <1>7, <1>8, <1>9 DEF Next

\* However often the user goes back and in however many tabs, what the assistant knew at an
\* answered turn are the answered turns of its branch up to it; and, if the greeting was
\* never answered, what the row's checkpoint held of a branch set aside when the first of
\* them was (_resolve_checkpoint_for_pending_turn).
THEOREM AnswersKnowTheBranch == Spec => []AnsweredFromBranch
<1>1. Init => AnswersInv
    <2> SUFFICES ASSUME Init PROVE AnswersInv
        OBVIOUS
    <2>1. row.turns = <<>> /\ row.discarded = {} /\ row.checkpoint = {}
        BY DEF Init, EmptyRow
    <2>2. \A i \in DOMAIN row.turns : FALSE
        BY <2>1
    <2>3. AnsweredFromBranch
        <3>1. {i \in DOMAIN row.turns : row.status[row.turns[i]] = "completed"} = {}
            BY <2>2
        <3> QED
            BY <2>1, <3>1 DEF AnsweredFromBranch
    <2> QED
        BY <2>1, <2>3 DEF AnswersInv, CheckpointIsKnown
<1>2. SessionInv /\ AnswersInv /\ [Next]_vars => AnswersInv'
    BY NextContexts
<1>3. AnswersInv => AnsweredFromBranch
    BY DEF AnswersInv
<1> QED
    BY <1>1, <1>2, <1>3, SessionInvariant, PTL DEF Spec
=============================================================================

-------------------------- MODULE NotificationsProofs --------------------------
(***************************************************************************)
(* Proofs about Notifications, for any notifications, processes, limits    *)
(* and numbers of crashes and faults.  Fairness plays no part in them.     *)
(***************************************************************************)
EXTENDS Notifications, FiniteSetTheorems, TLAPS

-----------------------------------------------------------------------------
(* Finite sets that change by one element.                                 *)

LEMMA OneElement ==
    ASSUME NEW S, IsFiniteSet(S), NEW x, NEW T
    PROVE  /\ Cardinality(S) \in Nat
           /\ T \subseteq S => /\ IsFiniteSet(T) /\ Cardinality(T) \in Nat
                               /\ Cardinality(T) <= Cardinality(S)
           /\ T \subseteq S \cup {x} => /\ IsFiniteSet(T) /\ Cardinality(T) \in Nat
                                        /\ Cardinality(T) <= Cardinality(S) + 1
           /\ x \in S /\ T \subseteq S \ {x} =>
                  /\ IsFiniteSet(T) /\ Cardinality(T) \in Nat
                  /\ Cardinality(T) <= Cardinality(S) - 1
<1>1. Cardinality(S) \in Nat
  BY FS_CardinalityType
<1>2. ASSUME NEW R, IsFiniteSet(R), T \subseteq R
      PROVE  /\ IsFiniteSet(T) /\ Cardinality(T) \in Nat /\ Cardinality(R) \in Nat
             /\ Cardinality(T) <= Cardinality(R)
  BY <1>2, FS_Subset, FS_CardinalityType
<1>3. /\ IsFiniteSet(S \cup {x})
      /\ Cardinality(S \cup {x}) = IF x \in S THEN Cardinality(S)
                                              ELSE Cardinality(S) + 1
  BY FS_AddElement
<1>4. /\ IsFiniteSet(S \ {x})
      /\ Cardinality(S \ {x}) = IF x \in S THEN Cardinality(S) - 1
                                           ELSE Cardinality(S)
  BY FS_RemoveElement
<1>5. T \subseteq S \cup {x} => /\ IsFiniteSet(T) /\ Cardinality(T) \in Nat
                                /\ Cardinality(T) <= Cardinality(S) + 1
  BY <1>1, <1>2, <1>3
<1>6. x \in S /\ T \subseteq S \ {x} =>
         /\ IsFiniteSet(T) /\ Cardinality(T) \in Nat
         /\ Cardinality(T) <= Cardinality(S) - 1
  BY <1>1, <1>2, <1>4
<1> QED BY <1>1, <1>2, <1>5, <1>6

-----------------------------------------------------------------------------
(* The steps of a delivery task.                                           *)

LEMMA TaskTypes ==
    /\ NoTask \in Tasks /\ NoTask.pc = "none"
    /\ FirstAttempt \in Tasks /\ FirstAttempt.pc = "ready"
    /\ \A pc \in {"ready", "sending", "accepted", "refused"}, k \in 1..MaxAttempts :
          [pc |-> pc, attempt |-> k] \in Tasks
    /\ \A t \in Tasks : t.pc # "none" =>
          /\ t.pc \in {"ready", "sending", "accepted", "refused"}
          /\ t.attempt \in 1..MaxAttempts
          /\ t = [pc |-> t.pc, attempt |-> t.attempt]
BY BoundsAssumption DEF Tasks, NoTask, FirstAttempt

LEMMA SetTaskType ==
    ASSUME TypeOK, NEW p \in Processes, NEW n \in Ids, NEW t \in Tasks,
           SetTask(p, n, t)
    PROVE  /\ task' \in [Processes -> [Ids -> Tasks]]
           /\ task'[p][n] = t
           /\ \A q \in Processes, m \in Ids :
                 q # p \/ m # n => task'[q][m] = task[q][m]
BY DEF TypeOK, SetTask

LEMMA MoveTask ==
    ASSUME TypeOK, NEW p \in Processes, NEW n \in Ids, task[p][n].pc # "none",
           NEW pc \in {"ready", "sending", "accepted", "refused"}, Move(p, n, pc)
    PROVE  \E t \in Tasks : SetTask(p, n, t) /\ t.pc = pc
<1> DEFINE t == [task[p][n] EXCEPT !.pc = pc]
<1>1. task[p][n] = [pc |-> task[p][n].pc, attempt |-> task[p][n].attempt]
      /\ task[p][n].attempt \in 1..MaxAttempts
  BY TaskTypes DEF TypeOK
<1>2. t = [pc |-> pc, attempt |-> task[p][n].attempt]
  BY <1>1
<1>3. t \in Tasks /\ t.pc = pc
  BY <1>1, <1>2, TaskTypes
<1> QED BY <1>3 DEF Move

LEMMA RetryTask ==
    ASSUME TypeOK, NEW p \in Processes, NEW n \in Ids, task[p][n].pc # "none",
           Retry(p, n)
    PROVE  \E t \in Tasks : SetTask(p, n, t) /\ t.pc \in {"none", "ready"}
<1>1. task[p][n].attempt \in 1..MaxAttempts
  BY TaskTypes DEF TypeOK
<1>2. CASE task[p][n].attempt = MaxAttempts
  BY <1>2, TaskTypes DEF Retry
<1>3. CASE task[p][n].attempt # MaxAttempts
  <2>1. task[p][n].attempt + 1 \in 1..MaxAttempts
    BY <1>1, <1>3, BoundsAssumption
  <2> QED BY <1>3, <2>1, TaskTypes DEF Retry
<1> QED BY <1>2, <1>3

\* What an attempt does to its task, its row and its mails.
Effect(p, n, t) ==
    \/ /\ At(p, n, "ready") \/ At(p, n, "refused")
       /\ t.pc \in {"none", "ready"}
       /\ UNCHANGED <<status, mails, unrecorded>>
    \/ /\ At(p, n, "ready") /\ status[n] \in {"PENDING", "FAILED"}
       /\ t.pc = "sending"
       /\ UNCHANGED <<status, mails, unrecorded>>
    \/ /\ At(p, n, "sending")
       /\ t.pc = "accepted"
       /\ mails' = [mails EXCEPT ![n] = @ + 1]
       /\ UNCHANGED <<status, unrecorded>>
    \/ /\ At(p, n, "sending")
       /\ t.pc = "refused"
       /\ UNCHANGED <<status, mails, unrecorded>>
    \/ /\ At(p, n, "sending")
       /\ t.pc = "refused"
       /\ mails' = [mails EXCEPT ![n] = @ + 1]
       /\ unrecorded' = [unrecorded EXCEPT ![n] = @ + 1]
       /\ status' = status
    \/ /\ At(p, n, "accepted")
       /\ t.pc = "none"
       /\ status' = [status EXCEPT ![n] = "SENT"]
       /\ UNCHANGED <<mails, unrecorded>>
    \/ /\ At(p, n, "accepted")
       /\ t.pc \in {"none", "ready"}
       /\ unrecorded' = [unrecorded EXCEPT ![n] = @ + 1]
       /\ UNCHANGED <<status, mails>>
    \/ /\ At(p, n, "refused")
       /\ t.pc \in {"none", "ready"}
       /\ status' = [status EXCEPT ![n] = "FAILED"]
       /\ UNCHANGED <<mails, unrecorded>>

Attempt(p, n) ==
    \/ Deliver(p, n)
    \/ HostRefuses(p, n)
    \/ ReplyLost(p, n)
    \/ DatabaseFails(p, n)

\* Every step of a task is one of these.
LEMMA AttemptStep ==
    ASSUME TypeOK, NEW p \in Processes, NEW n \in Ids, Attempt(p, n)
    PROVE  /\ \E t \in Tasks : SetTask(p, n, t) /\ Effect(p, n, t)
           /\ UNCHANGED <<producer, up, starts, overlapped>>
           /\ faults' \in 0..MaxFaults
<1>1. UNCHANGED <<producer, up, starts, overlapped>> /\ faults' \in 0..MaxFaults
  BY BoundsAssumption
     DEF TypeOK, Attempt, Deliver, RowNotVisible, AlreadySent, ReadRow,
     HostAccepts, RecordSent, RecordFailed, HostRefuses, ReplyLost, DatabaseFails,
     Fault
<1> SUFFICES \E t \in Tasks : SetTask(p, n, t) /\ Effect(p, n, t)
  BY <1>1
<1>2. CASE RowNotVisible(p, n)
  <2>1. PICK t \in Tasks : SetTask(p, n, t) /\ t.pc \in {"none", "ready"}
    BY <1>2, RetryTask DEF RowNotVisible, At
  <2>2. Effect(p, n, t)
    BY <1>2, <2>1 DEF RowNotVisible, Effect
  <2> QED BY <2>1, <2>2
<1>3. CASE AlreadySent(p, n)
  <2>1. PICK t \in Tasks : SetTask(p, n, t) /\ t.pc = "none"
    BY <1>3, TaskTypes DEF AlreadySent
  <2>2. Effect(p, n, t)
    BY <1>3, <2>1 DEF AlreadySent, Effect
  <2> QED BY <2>1, <2>2
<1>4. CASE ReadRow(p, n)
  <2>1. PICK t \in Tasks : SetTask(p, n, t) /\ t.pc = "sending"
    BY <1>4, MoveTask DEF ReadRow, At
  <2>2. Effect(p, n, t)
    BY <1>4, <2>1 DEF ReadRow, Effect
  <2> QED BY <2>1, <2>2
<1>5. CASE HostAccepts(p, n)
  <2>1. PICK t \in Tasks : SetTask(p, n, t) /\ t.pc = "accepted"
    BY <1>5, MoveTask DEF HostAccepts, At
  <2>2. Effect(p, n, t)
    BY <1>5, <2>1 DEF HostAccepts, Effect
  <2> QED BY <2>1, <2>2
<1>6. CASE RecordSent(p, n)
  <2>1. PICK t \in Tasks : SetTask(p, n, t) /\ t.pc = "none"
    BY <1>6, TaskTypes DEF RecordSent
  <2>2. Effect(p, n, t)
    BY <1>6, <2>1 DEF RecordSent, Effect
  <2> QED BY <2>1, <2>2
<1>7. CASE RecordFailed(p, n)
  <2>1. PICK t \in Tasks : SetTask(p, n, t) /\ t.pc \in {"none", "ready"}
    BY <1>7, RetryTask DEF RecordFailed, At
  <2>2. Effect(p, n, t)
    BY <1>7, <2>1 DEF RecordFailed, Effect
  <2> QED BY <2>1, <2>2
<1>8. CASE HostRefuses(p, n)
  <2>1. PICK t \in Tasks : SetTask(p, n, t) /\ t.pc = "refused"
    BY <1>8, MoveTask DEF HostRefuses, At
  <2>2. Effect(p, n, t)
    BY <1>8, <2>1 DEF HostRefuses, Effect
  <2> QED BY <2>1, <2>2
<1>9. CASE DatabaseFails(p, n)
  <2>1. PICK t \in Tasks : SetTask(p, n, t) /\ t.pc \in {"none", "ready"}
    BY <1>9, RetryTask DEF DatabaseFails
  <2>2. CASE At(p, n, "accepted")
    <3>1. unrecorded' = [unrecorded EXCEPT ![n] = @ + 1]
      BY <1>9, <2>2 DEF DatabaseFails
    <3>2. Effect(p, n, t)
      BY <1>9, <2>1, <2>2, <3>1 DEF DatabaseFails, Effect
    <3> QED BY <2>1, <3>2
  <2>3. CASE ~At(p, n, "accepted")
    <3>1. unrecorded' = unrecorded
      BY <1>9, <2>3 DEF DatabaseFails, TypeOK
    <3>2. Effect(p, n, t)
      BY <1>9, <2>1, <2>3, <3>1 DEF DatabaseFails, At, Effect
    <3> QED BY <2>1, <3>2
  <2> QED BY <2>2, <2>3
<1>10. CASE ReplyLost(p, n)
  <2>1. PICK t \in Tasks : SetTask(p, n, t) /\ t.pc = "refused"
    BY <1>10, MoveTask DEF ReplyLost, At
  <2>2. Effect(p, n, t)
    BY <1>10, <2>1 DEF ReplyLost, Effect
  <2> QED BY <2>1, <2>2
<1> QED BY <1>2, <1>3, <1>4, <1>5, <1>6, <1>7, <1>8, <1>9, <1>10
        DEF Attempt, Deliver

-----------------------------------------------------------------------------
(* The inductive invariant.                                                *)

InAttempt == {"sending", "accepted", "refused"}

\* A row is there before its e-mail is on its way, and does not disappear.
RowsBeforeMails ==
    \A n \in Ids :
        \/ status[n] # "None"
        \/ mails[n] = 0 /\ \A p \in Processes : task[p][n].pc \notin InAttempt

\* The row of an open transaction is not visible.
OpenRowsAreInvisible ==
    \A n \in Ids : producer[n] # NoProcess => status[n] = "None"

\* The tasks are those of the processes that run.
TasksRun == \A p \in Processes, n \in Ids : task[p][n].pc # "none" => p \in up

UpInv ==
    /\ IsFiniteSet(up)
    /\ up # {} => starts > 0
    /\ ~overlapped => \A p, q \in up : p = q

\* With one process, what an attempt read about its row is still so.
AttemptsAreOpen ==
    ~overlapped => \A p \in Processes, n \in Ids :
        task[p][n].pc \in InAttempt => status[n] \in {"PENDING", "FAILED"}

BaseInv == /\ TypeOK /\ RowsBeforeMails /\ OpenRowsAreInvisible
           /\ TasksRun /\ UpInv /\ AttemptsAreOpen

\* An attempt preserves the invariant.
LEMMA AttemptBase ==
    ASSUME BaseInv, NEW p \in Processes, NEW n \in Ids, Attempt(p, n)
    PROVE  BaseInv'
<1> USE DEF BaseInv, TypeOK
<1>1. UNCHANGED <<producer, up, starts, overlapped>> /\ faults' \in 0..MaxFaults
  BY AttemptStep
<1>2. PICK t \in Tasks : SetTask(p, n, t) /\ Effect(p, n, t)
  BY AttemptStep
<1>3. /\ task' \in [Processes -> [Ids -> Tasks]]
      /\ task'[p][n] = t
      /\ \A q \in Processes, m \in Ids : q # p \/ m # n => task'[q][m] = task[q][m]
  BY <1>2, SetTaskType
<1>4. /\ status' \in [Ids -> {"None", "PENDING", "SENT", "FAILED"}]
      /\ mails' \in [Ids -> Nat] /\ unrecorded' \in [Ids -> Nat]
  BY <1>2 DEF Effect
<1>5. TypeOK'
  BY <1>1, <1>3, <1>4
<1>6. \A m \in Ids : m # n => /\ status'[m] = status[m] /\ mails'[m] = mails[m]
                              /\ unrecorded'[m] = unrecorded[m]
  BY <1>2 DEF Effect
<1>7. status[n] # "None" => status'[n] # "None"
  BY <1>2 DEF Effect
<1>8. RowsBeforeMails'
  <2>1. \/ status'[n] # "None"
        \/ mails'[n] = mails[n] /\ task'[p][n].pc \notin InAttempt
    BY <1>2, <1>3, <1>7 DEF Effect, At, RowsBeforeMails, InAttempt
  <2> QED BY <1>3, <1>6, <1>7, <2>1 DEF RowsBeforeMails
<1>9. OpenRowsAreInvisible'
  <2>1. status[n] = "None" => status'[n] = "None"
    BY <1>2 DEF Effect, At, RowsBeforeMails, InAttempt
  <2> QED BY <1>1, <1>6, <2>1 DEF OpenRowsAreInvisible
<1>10. TasksRun'
  <2>1. p \in up
    BY <1>2 DEF Effect, At, TasksRun
  <2> QED BY <1>1, <1>3, <2>1 DEF TasksRun
<1>11. AttemptsAreOpen'
  <2> SUFFICES ASSUME ~overlapped, NEW q \in Processes, NEW m \in Ids,
                      task'[q][m].pc \in InAttempt
               PROVE  status'[m] \in {"PENDING", "FAILED"}
    BY <1>1 DEF AttemptsAreOpen
  <2>1. CASE m # n
    BY <1>3, <1>6, <2>1 DEF AttemptsAreOpen
  <2>2. CASE m = n /\ q # p
    <3>1. p \in up /\ q \in up
      BY <1>2, <1>3, <2>2 DEF Effect, At, TasksRun, InAttempt
    <3> QED BY <2>2, <3>1 DEF UpInv
  <2>3. CASE m = n /\ q = p
    BY <1>2, <1>3, <2>3 DEF Effect, At, AttemptsAreOpen, InAttempt
  <2> QED BY <2>1, <2>2, <2>3
<1> QED BY <1>1, <1>5, <1>8, <1>9, <1>10, <1>11 DEF UpInv

\* A notify, a commit and a rollback preserve it.
LEMMA ProduceBase ==
    ASSUME BaseInv, NEW n \in Ids,
           (\E p \in Processes : Notify(p, n)) \/ Commit(n) \/ Abort(n)
    PROVE  BaseInv'
<1> USE DEF BaseInv, TypeOK
<1>1. ASSUME NEW p \in Processes, Notify(p, n) PROVE BaseInv'
  <2>1. /\ task' \in [Processes -> [Ids -> Tasks]]
        /\ task'[p][n] = FirstAttempt
        /\ \A q \in Processes, m \in Ids : q # p \/ m # n => task'[q][m] = task[q][m]
    BY <1>1, TaskTypes, SetTaskType DEF Notify
  <2>2. FirstAttempt.pc = "ready" /\ p \in up /\ status[n] = "None"
    BY <1>1, TaskTypes DEF Notify, Unused
  <2>3. producer' = [producer EXCEPT ![n] = p]
        /\ UNCHANGED <<status, up, mails, unrecorded, starts, overlapped, faults>>
    BY <1>1 DEF Notify
  <2>4. \A q \in Processes, m \in Ids :
           task'[q][m].pc \in InAttempt => task[q][m].pc \in InAttempt
    BY <2>1, <2>2 DEF InAttempt
  <2>5. TypeOK'
    BY <2>1, <2>3
  <2>6. RowsBeforeMails' /\ AttemptsAreOpen'
    BY <2>3, <2>4 DEF RowsBeforeMails, AttemptsAreOpen
  <2>7. TasksRun'
    BY <2>1, <2>2, <2>3 DEF TasksRun
  <2> QED BY <2>2, <2>3, <2>5, <2>6, <2>7 DEF OpenRowsAreInvisible, UpInv
<1>2. CASE Commit(n)
  <2>1. status[n] = "None"
    BY <1>2 DEF Commit, OpenRowsAreInvisible
  <2>2. RowsBeforeMails'
    BY <1>2 DEF Commit, RowsBeforeMails
  <2>3. AttemptsAreOpen'
    BY <1>2 DEF Commit, AttemptsAreOpen
  <2>4. OpenRowsAreInvisible'
    BY <1>2 DEF Commit, OpenRowsAreInvisible
  <2> QED BY <1>2, <2>2, <2>3, <2>4 DEF Commit, TasksRun, UpInv
<1>3. CASE Abort(n)
  BY <1>3 DEF Abort, RowsBeforeMails, OpenRowsAreInvisible, TasksRun, UpInv,
     AttemptsAreOpen
<1> QED BY <1>1, <1>2, <1>3

\* So do the starts and the end of a process.
LEMMA ProcessBase ==
    ASSUME BaseInv, NEW p \in Processes,
           Start(p) \/ StartWithoutSweep(p) \/ Crash(p)
    PROVE  BaseInv'
<1> USE DEF BaseInv, TypeOK
<1>1. CASE Start(p) \/ StartWithoutSweep(p)
  <2>1. /\ p \notin up /\ up' = up \cup {p}
        /\ starts' = starts + 1 /\ starts' \in 0..MaxStarts
        /\ overlapped' = (overlapped \/ up # {})
        /\ faults' \in 0..MaxFaults
        /\ UNCHANGED <<status, producer, mails, unrecorded>>
    BY <1>1, BoundsAssumption DEF Start, StartWithoutSweep, Fault
  <2>2. /\ task' \in [Processes -> [Ids -> Tasks]]
        /\ \A q \in Processes, m \in Ids : q # p => task'[q][m] = task[q][m]
        /\ \A m \in Ids : task'[p][m].pc \notin InAttempt
    <3>1. CASE Start(p)
      BY <3>1, TaskTypes DEF Start, InAttempt
    <3>2. CASE StartWithoutSweep(p)
      BY <2>1, <3>2 DEF StartWithoutSweep, TasksRun, InAttempt
    <3> QED BY <1>1, <3>1, <3>2
  <2>3. TypeOK'
    BY <2>1, <2>2
  <2>4. RowsBeforeMails' /\ OpenRowsAreInvisible' /\ TasksRun'
    BY <2>1, <2>2 DEF RowsBeforeMails, OpenRowsAreInvisible, TasksRun
  <2>5. UpInv'
    <3>1. IsFiniteSet(up')
      BY <2>1, FS_AddElement DEF UpInv
    <3>2. starts' > 0
      BY <2>1, BoundsAssumption
    <3>3. ~overlapped' => up = {}
      BY <2>1
    <3>4. ~overlapped' => \A q, r \in up' : q = r
      BY <2>1, <3>3
    <3> QED BY <3>1, <3>2, <3>4 DEF UpInv
  <2>6. AttemptsAreOpen'
    BY <2>1, <2>2 DEF AttemptsAreOpen
  <2> QED BY <2>3, <2>4, <2>5, <2>6
<1>2. CASE Crash(p)
  <2>1. /\ up' = up \ {p}
        /\ producer' \in [Ids -> Processes \cup {NoProcess}]
        /\ \A m \in Ids : producer'[m] # NoProcess => producer[m] # NoProcess
        /\ unrecorded' \in [Ids -> Nat]
        /\ UNCHANGED <<status, mails, starts, overlapped, faults>>
    BY <1>2 DEF Crash
  <2>2. /\ task' \in [Processes -> [Ids -> Tasks]]
        /\ \A q \in Processes, m \in Ids : q # p => task'[q][m] = task[q][m]
        /\ \A m \in Ids : task'[p][m].pc = "none"
    BY <1>2, TaskTypes DEF Crash
  <2>3. TypeOK'
    BY <2>1, <2>2
  <2>4. RowsBeforeMails' /\ OpenRowsAreInvisible' /\ TasksRun' /\ AttemptsAreOpen'
    BY <2>1, <2>2 DEF RowsBeforeMails, OpenRowsAreInvisible, TasksRun,
       AttemptsAreOpen, InAttempt
  <2>5. UpInv'
    <3>1. IsFiniteSet(up')
      BY <2>1, FS_RemoveElement DEF UpInv
    <3>2. up' # {} => starts' > 0
      BY <2>1 DEF UpInv
    <3>3. ~overlapped' => \A q, r \in up' : q = r
      BY <2>1 DEF UpInv
    <3> QED BY <3>1, <3>2, <3>3 DEF UpInv
  <2> QED BY <2>3, <2>4, <2>5
<1> QED BY <1>1, <1>2

\* The inductive invariant that the theorems below share.
THEOREM BaseInvariance == Spec => []BaseInv
<1>1. Init => BaseInv
  <2> SUFFICES ASSUME Init PROVE BaseInv
    OBVIOUS
  <2>1. \A p \in Processes, n \in Ids : task[p][n] = NoTask
    BY DEF Init
  <2>2. task \in [Processes -> [Ids -> Tasks]]
    BY TaskTypes DEF Init
  <2>3. TypeOK
    <3>1. mails \in [Ids -> Nat] /\ unrecorded \in [Ids -> Nat]
      BY DEF Init
    <3>2. starts \in 0..MaxStarts /\ faults \in 0..MaxFaults
      BY BoundsAssumption DEF Init
    <3> QED BY <2>2, <3>1, <3>2 DEF Init, TypeOK
  <2>4. /\ RowsBeforeMails /\ OpenRowsAreInvisible
        /\ TasksRun /\ AttemptsAreOpen
    BY <2>1, TaskTypes DEF Init, RowsBeforeMails, OpenRowsAreInvisible,
       TasksRun, AttemptsAreOpen, InAttempt
  <2>5. UpInv
    BY FS_EmptySet DEF Init, UpInv
  <2> QED BY <2>3, <2>4, <2>5 DEF BaseInv
<1>2. BaseInv /\ [Next]_vars => BaseInv'
  <2> SUFFICES ASSUME BaseInv, [Next]_vars PROVE BaseInv'
    OBVIOUS
  <2>1. CASE UNCHANGED vars
    BY <2>1 DEF vars, BaseInv, TypeOK, RowsBeforeMails, OpenRowsAreInvisible,
       TasksRun, UpInv, AttemptsAreOpen
  <2> QED BY <2>1, AttemptBase, ProduceBase, ProcessBase DEF Next, Attempt
<1> QED BY <1>1, <1>2, PTL DEF Spec

\* Type correctness for any numbers of notifications, processes and attempts.
THEOREM TypeCorrectness == Spec => []TypeOK
<1>1. BaseInv => TypeOK
  BY DEF BaseInv
<1> QED BY <1>1, BaseInvariance, PTL

\* Tasks start before the commit, and processes may overlap: still nobody is
\* told of a notification whose transaction was rolled back.
THEOREM RollbacksAreNotMailed == Spec => []OnlyCommittedIsMailed
<1>1. BaseInv => OnlyCommittedIsMailed
  BY DEF BaseInv, TypeOK, RowsBeforeMails, OnlyCommittedIsMailed
<1> QED BY <1>1, BaseInvariance, PTL

-----------------------------------------------------------------------------
(* One process at a time.                                                  *)

\* No step takes SENT back.
LEMMA StatusStep ==
    ASSUME BaseInv, [Next]_vars, NEW n \in Ids, status[n] = "SENT", ~overlapped
    PROVE  status'[n] = "SENT"
<1> USE DEF BaseInv, TypeOK
<1>1. ASSUME NEW p \in Processes, NEW m \in Ids, Attempt(p, m)
      PROVE  status'[n] = "SENT"
  <2>1. PICK t \in Tasks : Effect(p, m, t)
    BY <1>1, AttemptStep
  <2>2. At(p, n, "refused") => FALSE
    BY DEF At, AttemptsAreOpen, InAttempt
  <2> QED BY <2>1, <2>2 DEF Effect
<1>2. ASSUME NEW m \in Ids, Commit(m)
      PROVE  status'[n] = "SENT"
  BY <1>2 DEF Commit, OpenRowsAreInvisible
<1>3. CASE UNCHANGED status
  BY <1>3
<1> QED BY <1>1, <1>2, <1>3
        DEF Next, Attempt, Start, StartWithoutSweep, Crash, Notify, Abort, vars

\* While processes do not overlap, no retry and no sweep after a restart takes
\* a notification back that was recorded as SENT.
THEOREM SentStaysSent == Spec => SentIsFinal
<1>1. BaseInv /\ [Next]_vars =>
        [\A n \in Ids : status[n] = "SENT" /\ ~ overlapped
                           => status'[n] = "SENT"]_vars
  BY StatusStep
<1> QED BY <1>1, BaseInvariance, PTL DEF Spec, SentIsFinal

\* The processes about to record that the host accepted the e-mail of n.
Accepted(n) == {p \in Processes : At(p, n, "accepted")}

LEMMA AtMostOne ==
    ASSUME NEW x, NEW S, S \subseteq {x}
    PROVE  IsFiniteSet(S) /\ Cardinality(S) = IF x \in S THEN 1 ELSE 0
<1>1. CASE S = {}
  BY <1>1, FS_EmptySet
<1>2. CASE S = {x}
  BY <1>2, FS_Singleton
<1> QED BY <1>1, <1>2

AccountInv ==
    ~overlapped => \A n \in Ids :
        mails[n] = unrecorded[n] + (IF status[n] = "SENT" THEN 1 ELSE 0)
                     + Cardinality(Accepted(n))

LEMMA AccountStep ==
    ASSUME BaseInv, AccountInv, [Next]_vars
    PROVE  AccountInv'
<1> USE DEF BaseInv, TypeOK
<1> SUFFICES ASSUME ~overlapped', NEW n \in Ids
             PROVE  mails'[n] = unrecorded'[n]
                                  + (IF status'[n] = "SENT" THEN 1 ELSE 0)
                                  + Cardinality(Accepted(n)')
  BY DEF AccountInv
<1>1. ~overlapped
  <2>1. overlapped' = overlapped \/ overlapped' = (overlapped \/ up # {})
    BY AttemptStep DEF Next, Attempt, Start, StartWithoutSweep, Crash, Notify,
       Commit, Abort, vars
  <2> QED BY <2>1
<1>2. mails[n] = unrecorded[n] + (IF status[n] = "SENT" THEN 1 ELSE 0)
                   + Cardinality(Accepted(n))
  BY <1>1 DEF AccountInv
<1>3. ASSUME NEW p \in Processes, NEW m \in Ids, Attempt(p, m)
      PROVE  mails'[n] = unrecorded'[n]
                           + (IF status'[n] = "SENT" THEN 1 ELSE 0)
                           + Cardinality(Accepted(n)')
  <2>1. PICK t \in Tasks : SetTask(p, m, t) /\ Effect(p, m, t)
    BY <1>3, AttemptStep
  <2>2. /\ task' \in [Processes -> [Ids -> Tasks]]
        /\ task'[p][m] = t
        /\ \A q \in Processes, k \in Ids : q # p \/ k # m => task'[q][k] = task[q][k]
    BY <2>1, SetTaskType
  <2>3. CASE m # n
    <3>1. Accepted(n)' = Accepted(n)
      BY <2>2, <2>3 DEF Accepted, At
    <3>2. /\ mails'[n] = mails[n] /\ unrecorded'[n] = unrecorded[n]
          /\ status'[n] = status[n]
      BY <2>1, <2>3 DEF Effect
    <3> QED BY <1>2, <3>1, <3>2
  <2>4. CASE m = n
    <3>1. p \in up
      BY <2>1 DEF Effect, At, TasksRun
    <3>2. \A q \in Processes : q # p => task[q][n].pc = "none"
      BY <1>1, <3>1 DEF UpInv, TasksRun
    <3>3. Accepted(n) \subseteq {p} /\ Accepted(n)' \subseteq {p}
      BY <2>2, <3>2 DEF Accepted, At
    <3>4. Cardinality(Accepted(n)) = IF At(p, n, "accepted") THEN 1 ELSE 0
      <4>1. p \in Accepted(n) <=> At(p, n, "accepted")
        BY DEF Accepted
      <4> HIDE DEF Accepted, At
      <4> QED BY <3>3, <4>1, AtMostOne
    <3>6. Cardinality(Accepted(n)') = IF t.pc = "accepted" THEN 1 ELSE 0
      <4>1. p \in Accepted(n)' <=> t.pc = "accepted"
        BY <2>2, <2>4 DEF Accepted, At
      <4> QED BY <3>3, <4>1, AtMostOne
    <3>5. status[n] = "SENT" => ~At(p, n, "accepted") /\ ~At(p, n, "refused")
      BY <1>1 DEF AttemptsAreOpen, InAttempt, At
    <3> QED BY <1>2, <2>1, <2>4, <3>4, <3>5, <3>6 DEF Effect, At
  <2> QED BY <2>3, <2>4
<1>4. ASSUME NEW p \in Processes, NEW m \in Ids, Notify(p, m)
      PROVE  mails'[n] = unrecorded'[n]
                           + (IF status'[n] = "SENT" THEN 1 ELSE 0)
                           + Cardinality(Accepted(n)')
  <2>1. Accepted(n)' = Accepted(n)
    <3>1. /\ task'[p][m] = FirstAttempt
          /\ \A q \in Processes, k \in Ids : q # p \/ k # m => task'[q][k] = task[q][k]
      BY <1>4, TaskTypes, SetTaskType DEF Notify
    <3>2. ~At(p, m, "accepted") /\ FirstAttempt.pc = "ready"
      BY <1>4, TaskTypes DEF Notify, Unused, At
    <3> QED BY <3>1, <3>2 DEF Accepted, At
  <2> QED BY <1>2, <1>4, <2>1 DEF Notify
<1>5. ASSUME NEW m \in Ids, Commit(m) \/ Abort(m)
      PROVE  mails'[n] = unrecorded'[n]
                           + (IF status'[n] = "SENT" THEN 1 ELSE 0)
                           + Cardinality(Accepted(n)')
  <2>1. Accepted(n)' = Accepted(n)
    BY <1>5 DEF Commit, Abort, Accepted, At
  <2>2. status'[n] = "SENT" <=> status[n] = "SENT"
    BY <1>5 DEF Commit, Abort, OpenRowsAreInvisible
  <2> QED BY <1>2, <1>5, <2>1, <2>2 DEF Commit, Abort
<1>6. ASSUME NEW p \in Processes, Start(p) \/ StartWithoutSweep(p)
      PROVE  mails'[n] = unrecorded'[n]
                           + (IF status'[n] = "SENT" THEN 1 ELSE 0)
                           + Cardinality(Accepted(n)')
  <2>1. up = {} /\ UNCHANGED <<status, mails, unrecorded>>
    BY <1>6 DEF Start, StartWithoutSweep
  <2>2. Accepted(n) = {}
    BY <2>1 DEF Accepted, At, TasksRun
  <2>3. Accepted(n)' = {}
    <3>1. CASE Start(p)
      BY <2>2, <3>1, TaskTypes DEF Start, Accepted, At
    <3>2. CASE StartWithoutSweep(p)
      BY <2>2, <3>2 DEF StartWithoutSweep, Accepted, At
    <3> QED BY <1>6, <3>1, <3>2
  <2> QED BY <1>2, <2>1, <2>2, <2>3
<1>7. ASSUME NEW p \in Processes, Crash(p)
      PROVE  mails'[n] = unrecorded'[n]
                           + (IF status'[n] = "SENT" THEN 1 ELSE 0)
                           + Cardinality(Accepted(n)')
  <2>1. Accepted(n) \subseteq {p} /\ Accepted(n)' = {}
    <3>1. \A q \in Processes : q # p => task[q][n].pc = "none"
      BY <1>1, <1>7 DEF Crash, UpInv, TasksRun
    <3> QED BY <1>7, <3>1, TaskTypes DEF Crash, Accepted, At
  <2>2. Cardinality(Accepted(n)) = IF At(p, n, "accepted") THEN 1 ELSE 0
    <3>1. p \in Accepted(n) <=> At(p, n, "accepted")
      BY DEF Accepted
    <3> QED BY <2>1, <3>1, AtMostOne
  <2>3. Cardinality(Accepted(n)') = 0
    BY <2>1, FS_EmptySet
  <2> QED BY <1>2, <1>7, <2>2, <2>3 DEF Crash
<1>8. CASE UNCHANGED vars
  BY <1>2, <1>8 DEF vars, Accepted, At
<1> QED BY <1>3, <1>4, <1>5, <1>6, <1>7, <1>8 DEF Next, Attempt

\* While processes do not overlap, every e-mail the host accepted is recorded
\* as SENT, about to be, or was kept from the record by a fault: a lost reply, a
\* crash or a failed commit.
THEOREM MailsAreAccountedFor == Spec => []EveryMailIsAccountedFor
<1>1. Init => AccountInv
  <2> SUFFICES ASSUME Init, NEW n \in Ids
               PROVE  mails[n] = unrecorded[n]
                                   + (IF status[n] = "SENT" THEN 1 ELSE 0)
                                   + Cardinality(Accepted(n))
    BY DEF AccountInv
  <2>1. Accepted(n) = {}
    BY TaskTypes DEF Init, Accepted, At
  <2>2. Cardinality(Accepted(n)) = 0
    BY <2>1, FS_EmptySet
  <2> QED BY <2>2 DEF Init
<1>2. BaseInv /\ AccountInv /\ [Next]_vars => AccountInv'
  BY AccountStep
<1>3. AccountInv => EveryMailIsAccountedFor
  BY DEF AccountInv, Accepted, EveryMailIsAccountedFor
<1> QED BY <1>1, <1>2, <1>3, BaseInvariance, PTL DEF Spec
-----------------------------------------------------------------------------
(* Each start of a process adds at most one e-mail to what was not recorded.    *)

\* The processes that may still send an e-mail for n with the task they have.
Live(n) == {p \in Processes : task[p][n].pc \in {"ready", "sending", "refused"}}

MailsInv ==
    \A n \in Ids : mails[n] + Cardinality(Live(n)) <= unrecorded[n] + starts

LEMMA LiveIsFinite ==
    ASSUME BaseInv, NEW n \in Ids
    PROVE  IsFiniteSet(Live(n)) /\ Cardinality(Live(n)) \in Nat
<1>1. Live(n) \subseteq up
  BY DEF Live, BaseInv, TasksRun
<1> QED BY <1>1, FS_Subset, FS_CardinalityType DEF BaseInv, UpInv

LEMMA MailsStep ==
    ASSUME BaseInv, MailsInv, [Next]_vars
    PROVE  MailsInv'
<1> SUFFICES ASSUME NEW n \in Ids
             PROVE  mails'[n] + Cardinality(Live(n)') <= unrecorded'[n] + starts'
  BY DEF MailsInv
<1>0. TypeOK
  BY DEF BaseInv
<1>1. /\ mails[n] + Cardinality(Live(n)) <= unrecorded[n] + starts
      /\ mails[n] \in Nat /\ unrecorded[n] \in Nat /\ starts \in Nat
      /\ Cardinality(Live(n)) \in Nat
  BY BoundsAssumption, LiveIsFinite DEF MailsInv, BaseInv, TypeOK
<1>2. ASSUME NEW p
      PROVE  /\ Cardinality(Live(n)) \in Nat
             /\ Live(n)' \subseteq Live(n) =>
                   /\ Cardinality(Live(n)') \in Nat
                   /\ Cardinality(Live(n)') <= Cardinality(Live(n))
             /\ Live(n)' \subseteq Live(n) \cup {p} =>
                   /\ Cardinality(Live(n)') \in Nat
                   /\ Cardinality(Live(n)') <= Cardinality(Live(n)) + 1
             /\ p \in Live(n) /\ Live(n)' \subseteq Live(n) \ {p} =>
                   /\ Cardinality(Live(n)') \in Nat
                   /\ Cardinality(Live(n)') <= Cardinality(Live(n)) - 1
  <2>1. IsFiniteSet(Live(n))
    BY LiveIsFinite
  <2> QED BY <2>1, OneElement
<1>3. ASSUME NEW p \in Processes, NEW m \in Ids, Attempt(p, m)
      PROVE  mails'[n] + Cardinality(Live(n)') <= unrecorded'[n] + starts'
  <2>1. PICK t \in Tasks : SetTask(p, m, t) /\ Effect(p, m, t)
    BY <1>0, <1>3, AttemptStep
  <2>2. /\ task' \in [Processes -> [Ids -> Tasks]]
        /\ task'[p][m] = t
        /\ \A q \in Processes, k \in Ids : q # p \/ k # m => task'[q][k] = task[q][k]
    BY <1>0, <2>1, SetTaskType
  <2>3. starts' = starts
    BY <1>0, <1>3, AttemptStep
  <2>4. CASE m # n
    <3>1. Live(n)' = Live(n)
      BY <2>2, <2>4 DEF Live
    <3>2. mails'[n] = mails[n] /\ unrecorded'[n] = unrecorded[n]
      BY <1>0, <2>1, <2>4 DEF TypeOK, Effect
    <3> QED BY <1>1, <2>3, <3>1, <3>2
  <2>5. CASE m = n
    <3>1. Live(n)' \subseteq Live(n) \cup {p}
      BY <2>2, <2>5 DEF Live
    <3>2. CASE At(p, n, "ready") \/ At(p, n, "refused")
      <4>1. Live(n)' \subseteq Live(n)
        BY <2>2, <2>5, <3>2 DEF Live, At
      <4>2. mails'[n] = mails[n] /\ unrecorded'[n] = unrecorded[n]
        BY <1>0, <2>1, <2>5, <3>2 DEF TypeOK, Effect, At
      <4>3. /\ Cardinality(Live(n)') \in Nat
            /\ Cardinality(Live(n)') <= Cardinality(Live(n))
        BY <1>2, <4>1
      <4> QED BY <1>1, <2>3, <4>2, <4>3
    <3>3. CASE At(p, n, "sending") /\ t.pc = "accepted"
      <4>1. p \in Live(n) /\ Live(n)' \subseteq Live(n) \ {p}
        BY <2>2, <2>5, <3>3 DEF Live, At
      <4>2. mails'[n] = mails[n] + 1 /\ unrecorded'[n] = unrecorded[n]
        BY <1>0, <2>1, <2>5, <3>3 DEF TypeOK, Effect, At
      <4>3. /\ Cardinality(Live(n)') \in Nat
            /\ Cardinality(Live(n)') <= Cardinality(Live(n)) - 1
        BY <1>2, <4>1
      <4> QED BY <1>1, <2>3, <4>2, <4>3
    <3>4. CASE /\ At(p, n, "sending") /\ t.pc = "refused"
               /\ mails' = mails /\ unrecorded' = unrecorded
      <4>1. Live(n)' \subseteq Live(n)
        BY <2>2, <2>5, <3>4 DEF Live, At
      <4>2. mails'[n] = mails[n] /\ unrecorded'[n] = unrecorded[n]
        BY <1>0, <2>1, <2>5, <3>4 DEF TypeOK, Effect, At
      <4>3. /\ Cardinality(Live(n)') \in Nat
            /\ Cardinality(Live(n)') <= Cardinality(Live(n))
        BY <1>2, <4>1
      <4> QED BY <1>1, <2>3, <4>2, <4>3
    <3>5. CASE At(p, n, "accepted") /\ t.pc = "none" /\ UNCHANGED <<mails, unrecorded>>
      <4>1. Live(n)' \subseteq Live(n)
        BY <2>2, <2>5, <3>5 DEF Live, At
      <4>2. /\ Cardinality(Live(n)') \in Nat
            /\ Cardinality(Live(n)') <= Cardinality(Live(n))
        BY <1>2, <4>1
      <4> QED BY <1>1, <2>3, <3>5, <4>2
    <3>6. CASE /\ unrecorded' = [unrecorded EXCEPT ![n] = @ + 1]
               /\ mails' = mails
      <4>1. /\ Cardinality(Live(n)') \in Nat
            /\ Cardinality(Live(n)') <= Cardinality(Live(n)) + 1
        BY <1>2, <3>1
      <4>2. unrecorded'[n] = unrecorded[n] + 1
        BY <1>0, <3>6 DEF TypeOK
      <4> QED BY <1>1, <2>3, <3>6, <4>1, <4>2
    <3>7. CASE /\ At(p, n, "sending") /\ t.pc = "refused"
               /\ mails' = [mails EXCEPT ![n] = @ + 1]
               /\ unrecorded' = [unrecorded EXCEPT ![n] = @ + 1]
      <4>1. Live(n)' \subseteq Live(n)
        BY <2>2, <2>5, <3>7 DEF Live, At
      <4>2. mails'[n] = mails[n] + 1 /\ unrecorded'[n] = unrecorded[n] + 1
        BY <1>0, <3>7 DEF TypeOK
      <4>3. /\ Cardinality(Live(n)') \in Nat
            /\ Cardinality(Live(n)') <= Cardinality(Live(n))
        BY <1>2, <4>1
      <4> QED BY <1>1, <2>3, <4>2, <4>3
    <3> QED BY <1>0, <2>1, <2>5, <3>2, <3>3, <3>4, <3>5, <3>6, <3>7 DEF Effect
  <2> QED BY <2>4, <2>5
<1>4. ASSUME NEW p \in Processes, NEW m \in Ids, Notify(p, m)
      PROVE  mails'[n] + Cardinality(Live(n)') <= unrecorded'[n] + starts'
  <2>1. /\ task'[p][m] = FirstAttempt
        /\ \A q \in Processes, k \in Ids : q # p \/ k # m => task'[q][k] = task[q][k]
    BY <1>0, <1>4, TaskTypes, SetTaskType DEF Notify
  <2>2. UNCHANGED <<mails, unrecorded, starts>>
    BY <1>4 DEF Notify
  <2>3. CASE m # n
    <3>1. Live(n)' = Live(n)
      BY <2>1, <2>3 DEF Live
    <3> QED BY <1>1, <2>2, <3>1
  <2>4. CASE m = n
    <3>1. Live(n) = {} /\ Live(n)' \subseteq Live(n) \cup {p}
      BY <1>4, <2>1, <2>4 DEF Notify, Unused, Live, At
    <3>2. mails[n] = 0 /\ starts > 0
      BY <1>4, <2>4 DEF BaseInv, Notify, Unused, RowsBeforeMails, UpInv
    <3>3. Cardinality(Live(n)) = 0
      BY <3>1, FS_EmptySet
    <3>4. /\ Cardinality(Live(n)') \in Nat
          /\ Cardinality(Live(n)') <= Cardinality(Live(n)) + 1
      BY <1>2, <3>1
    <3> QED BY <1>1, <2>2, <3>2, <3>3, <3>4
  <2> QED BY <2>3, <2>4
<1>5. ASSUME NEW p \in Processes, Start(p) \/ StartWithoutSweep(p)
      PROVE  mails'[n] + Cardinality(Live(n)') <= unrecorded'[n] + starts'
  <2>1. starts' = starts + 1 /\ UNCHANGED <<mails, unrecorded>>
    BY <1>5 DEF Start, StartWithoutSweep
  <2>2. Live(n)' \subseteq Live(n) \cup {p}
    BY <1>0, <1>5 DEF TypeOK, Start, StartWithoutSweep, Live
  <2>3. /\ Cardinality(Live(n)') \in Nat
        /\ Cardinality(Live(n)') <= Cardinality(Live(n)) + 1
    BY <1>2, <2>2
  <2> QED BY <1>1, <2>1, <2>3
<1>6. ASSUME NEW p \in Processes, Crash(p)
      PROVE  mails'[n] + Cardinality(Live(n)') <= unrecorded'[n] + starts'
  <2>1. Live(n)' \subseteq Live(n)
    BY <1>0, <1>6, TaskTypes DEF TypeOK, Crash, Live
  <2>2. /\ mails'[n] = mails[n] /\ starts' = starts
        /\ unrecorded'[n] \in {unrecorded[n], unrecorded[n] + 1}
    BY <1>0, <1>6 DEF TypeOK, Crash
  <2>3. /\ Cardinality(Live(n)') \in Nat
        /\ Cardinality(Live(n)') <= Cardinality(Live(n))
    BY <1>2, <2>1
  <2> QED BY <1>1, <2>2, <2>3
<1>7. CASE UNCHANGED <<task, mails, unrecorded, starts>>
  <2>1. Live(n)' = Live(n)
    BY <1>7 DEF Live
  <2> QED BY <1>1, <1>7, <2>1
<1> QED BY <1>3, <1>4, <1>5, <1>6, <1>7 DEF Next, Attempt, Commit, Abort, vars

\* Processes of a rolling deploy may overlap: apart from the e-mails that a
\* fault kept from being recorded, a notification is mailed at most once for
\* each start of a process.
THEOREM OneMailPerStart == Spec => []MailedOncePerStart
<1>1. Init => MailsInv
  <2> SUFFICES ASSUME Init, NEW n \in Ids
               PROVE  mails[n] + Cardinality(Live(n)) <= unrecorded[n] + starts
    BY DEF MailsInv
  <2>1. Live(n) = {}
    BY TaskTypes DEF Init, Live
  <2>2. Cardinality(Live(n)) = 0
    BY <2>1, FS_EmptySet
  <2> QED BY <2>2 DEF Init
<1>2. BaseInv /\ MailsInv /\ [Next]_vars => MailsInv'
  BY MailsStep
<1>3. BaseInv /\ MailsInv => MailedOncePerStart
  <2> SUFFICES ASSUME BaseInv, MailsInv, NEW n \in Ids
               PROVE  mails[n] <= unrecorded[n] + starts
    BY DEF MailedOncePerStart
  <2>1. Cardinality(Live(n)) \in Nat
    BY LiveIsFinite
  <2> QED BY <2>1, BoundsAssumption DEF MailsInv, BaseInv, TypeOK
<1> QED BY <1>1, <1>2, <1>3, BaseInvariance, PTL DEF Spec
===============================================================================

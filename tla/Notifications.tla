---------------------------- MODULE Notifications ----------------------------
(***************************************************************************)
(* Delivery of notifications by the in-process transport: notify() inserts *)
(* a PENDING row in the request's open transaction and starts a delivery   *)
(* task in the API process; the task reads the row, sends the e-mail and   *)
(* records the outcome, in up to MaxAttempts attempts; a process that dies *)
(* takes its tasks with it, and the next one to start sweeps up the rows   *)
(* still PENDING.                                                          *)
(*                                                                         *)
(* A task is cut at its awaits.  Only committed rows are in the state: an  *)
(* open transaction is in "producer".  The backoff is left out, so any     *)
(* number of attempts fits in the time a transaction stays open.  Each     *)
(* notification has a transaction of its own; the recipient exists (users  *)
(* are never deleted).                                                     *)
(***************************************************************************)
EXTENDS Naturals, FiniteSets

CONSTANTS
    Ids,            \* the notifications that can be produced (bound)
    Processes,      \* API processes that can be alive at the same time
    MaxAttempts,    \* _MAX_ATTEMPTS
    SweepLimit,     \* the limit of redeliver_pending
    MaxStarts,      \* bound on the starts of processes
    MaxFaults,      \* bound on the faults of the SMTP host and the database
    NoProcess       \* the producer of a notification with no open transaction

ASSUME BoundsAssumption ==
    /\ MaxAttempts \in Nat \ {0}
    /\ SweepLimit \in Nat
    /\ MaxStarts \in Nat
    /\ MaxFaults \in Nat

ASSUME NoProcessAssumption == NoProcess \notin Processes

VARIABLES
    status,         \* notifications.status, "None" without a committed row
    producer,       \* the process whose open transaction inserted the row
    task,           \* the delivery tasks of each process (_in_flight)
    up,             \* the processes that run
    mails,          \* how often the SMTP host accepted each notification
    unrecorded,     \* how many of these the task did not get to record as SENT
    starts,         \* the starts so far
    overlapped,     \* whether a process ever started while another ran
    faults          \* the faults so far

vars == <<status, producer, task, up, mails, unrecorded, starts, overlapped,
          faults>>

-----------------------------------------------------------------------------

NoTask == [pc |-> "none", attempt |-> 0]

\* A task about to read the row, waiting for the SMTP host, about to record that
\* the host accepted the e-mail, or about to record that send raised (refused).
Tasks == {NoTask} \cup
    [pc : {"ready", "sending", "accepted", "refused"}, attempt : 1..MaxAttempts]

\* Types of the table, the tasks and the counters.
TypeOK ==
    /\ status \in [Ids -> {"None", "PENDING", "SENT", "FAILED"}]
    /\ producer \in [Ids -> Processes \cup {NoProcess}]
    /\ task \in [Processes -> [Ids -> Tasks]]
    /\ up \subseteq Processes
    /\ mails \in [Ids -> Nat]
    /\ unrecorded \in [Ids -> Nat]
    /\ starts \in 0..MaxStarts
    /\ overlapped \in BOOLEAN
    /\ faults \in 0..MaxFaults

Init ==
    /\ status = [n \in Ids |-> "None"]
    /\ producer = [n \in Ids |-> NoProcess]
    /\ task = [p \in Processes |-> [n \in Ids |-> NoTask]]
    /\ up = {}
    /\ mails = [n \in Ids |-> 0]
    /\ unrecorded = [n \in Ids |-> 0]
    /\ starts = 0
    /\ overlapped = FALSE
    /\ faults = 0

At(p, n, pc) == task[p][n].pc = pc

SetTask(p, n, t) == task' = [task EXCEPT ![p][n] = t]

Move(p, n, pc) == SetTask(p, n, [task[p][n] EXCEPT !.pc = pc])

FirstAttempt == [pc |-> "ready", attempt |-> 1]

\* Faulty variant: the attempts are not counted.
RetryForEver(p, n) ==
    SetTask(p, n, [pc |-> "ready", attempt |-> task[p][n].attempt + 1])

\* What _deliver does when an attempt raised: the next attempt, or give up.
Retry(p, n) ==
    LET k == task[p][n].attempt
    IN  SetTask(p, n, IF k = MaxAttempts
                      THEN NoTask
                      ELSE [pc |-> "ready", attempt |-> k + 1])

\* One more fault of the environment, while the bound allows it.
Fault ==
    /\ faults < MaxFaults
    /\ faults' = faults + 1

-----------------------------------------------------------------------------
(* Processes.                                                              *)

Pending == {n \in Ids : status[n] = "PENDING"}

\* The results the sweep's query can return: as many PENDING rows as the limit
\* allows.  created_at is when the inserting transaction began, so any of the
\* committed rows may be among the oldest.
Swept == {S \in SUBSET Pending :
             Cardinality(S) = IF Cardinality(Pending) < SweepLimit
                              THEN Cardinality(Pending)
                              ELSE SweepLimit}

\* The lifespan hook: redeliver_pending runs before the process serves.
Start(p) ==
    /\ p \notin up
    /\ starts < MaxStarts
    /\ starts' = starts + 1
    /\ up' = up \cup {p}
    /\ overlapped' = (overlapped \/ up # {})
    /\ \E S \in Swept :
          task' = [task EXCEPT ![p] =
                     [n \in Ids |-> IF n \in S THEN FirstAttempt ELSE NoTask]]
    /\ UNCHANGED <<status, producer, mails, unrecorded, faults>>

\* The database is not reachable: the failed sweep does not stop the start.
StartWithoutSweep(p) ==
    /\ p \notin up
    /\ starts < MaxStarts
    /\ starts' = starts + 1
    /\ up' = up \cup {p}
    /\ overlapped' = (overlapped \/ up # {})
    /\ Fault
    /\ UNCHANGED <<status, producer, task, mails, unrecorded>>

\* The process stops or is killed: its tasks and open transactions are gone.
\* There is a restart left (bound).
Crash(p) ==
    /\ p \in up
    /\ starts < MaxStarts
    /\ up' = up \ {p}
    /\ producer' = [n \in Ids |-> IF producer[n] = p THEN NoProcess
                                                     ELSE producer[n]]
    /\ unrecorded' = [n \in Ids |-> IF At(p, n, "accepted")
                                    THEN unrecorded[n] + 1
                                    ELSE unrecorded[n]]
    /\ task' = [task EXCEPT ![p] = [n \in Ids |-> NoTask]]
    /\ UNCHANGED <<status, mails, starts, overlapped, faults>>

-----------------------------------------------------------------------------
(* notify, and the end of the transaction it was called in.                *)

\* Each id is used once: no row, and no task left of a rolled back one.
Unused(n) ==
    /\ status[n] = "None"
    /\ producer[n] = NoProcess
    /\ \A p \in Processes : At(p, n, "none")

Notify(p, n) ==
    /\ p \in up
    /\ Unused(n)
    /\ producer' = [producer EXCEPT ![n] = p]
    /\ SetTask(p, n, FirstAttempt)
    /\ UNCHANGED <<status, up, mails, unrecorded, starts, overlapped, faults>>

Commit(n) ==
    /\ producer[n] # NoProcess
    /\ producer' = [producer EXCEPT ![n] = NoProcess]
    /\ status' = [status EXCEPT ![n] = "PENDING"]
    /\ UNCHANGED <<task, up, mails, unrecorded, starts, overlapped, faults>>

\* The request fails after notify: the row never appears, the task remains.
Abort(n) ==
    /\ producer[n] # NoProcess
    /\ producer' = [producer EXCEPT ![n] = NoProcess]
    /\ UNCHANGED <<status, task, up, mails, unrecorded, starts, overlapped, faults>>

-----------------------------------------------------------------------------
(* send_notification, run by _deliver.                                     *)

\* The row is not visible: NotificationNotReady.
RowNotVisible(p, n) ==
    /\ At(p, n, "ready")
    /\ status[n] = "None"
    /\ Retry(p, n)
    /\ UNCHANGED <<status, producer, up, mails, unrecorded, starts, overlapped, faults>>

AlreadySent(p, n) ==
    /\ At(p, n, "ready")
    /\ status[n] = "SENT"
    /\ SetTask(p, n, NoTask)
    /\ UNCHANGED <<status, producer, up, mails, unrecorded, starts, overlapped, faults>>

\* Faulty variant: the row is not looked for before the e-mail is sent.
ReadUnseenRow(p, n) ==
    /\ At(p, n, "ready")
    /\ Move(p, n, "sending")
    /\ UNCHANGED <<status, producer, up, mails, unrecorded, starts, overlapped, faults>>

\* Faulty variant: the row is marked SENT before the e-mail is sent.
ClaimRow(p, n) ==
    /\ At(p, n, "ready")
    /\ status[n] \in {"PENDING", "FAILED"}
    /\ status' = [status EXCEPT ![n] = "SENT"]
    /\ Move(p, n, "sending")
    /\ UNCHANGED <<producer, up, mails, unrecorded, starts, overlapped, faults>>

\* PENDING, or FAILED in an earlier attempt.
ReadRow(p, n) ==
    /\ At(p, n, "ready")
    /\ status[n] \in {"PENDING", "FAILED"}
    /\ Move(p, n, "sending")
    /\ UNCHANGED <<status, producer, up, mails, unrecorded, starts, overlapped, faults>>

HostAccepts(p, n) ==
    /\ At(p, n, "sending")
    /\ mails' = [mails EXCEPT ![n] = @ + 1]
    /\ Move(p, n, "accepted")
    /\ UNCHANGED <<status, producer, up, unrecorded, starts, overlapped, faults>>

\* The SMTP host refuses, cannot be reached, or times out before it accepts.
HostRefuses(p, n) ==
    /\ At(p, n, "sending")
    /\ Fault
    /\ Move(p, n, "refused")
    /\ UNCHANGED <<status, producer, up, mails, unrecorded, starts, overlapped>>

\* The SMTP host accepts, but its reply is lost or late: send raises as well.
ReplyLost(p, n) ==
    /\ At(p, n, "sending")
    /\ Fault
    /\ mails' = [mails EXCEPT ![n] = @ + 1]
    /\ unrecorded' = [unrecorded EXCEPT ![n] = @ + 1]
    /\ Move(p, n, "refused")
    /\ UNCHANGED <<status, producer, up, starts, overlapped>>

\* Faulty variant: the task goes on to another attempt.
RecordSentAndRetry(p, n) ==
    /\ At(p, n, "accepted")
    /\ Retry(p, n)
    /\ UNCHANGED <<status, producer, up, mails, unrecorded, starts, overlapped, faults>>

RecordSent(p, n) ==
    /\ At(p, n, "accepted")
    /\ status' = [status EXCEPT ![n] = "SENT"]
    /\ SetTask(p, n, NoTask)
    /\ UNCHANGED <<producer, up, mails, unrecorded, starts, overlapped, faults>>

\* Faulty variant: a refused attempt is not recorded, and not retried.
DropRefused(p, n) ==
    /\ At(p, n, "refused")
    /\ SetTask(p, n, NoTask)
    /\ UNCHANGED <<status, producer, up, mails, unrecorded, starts, overlapped, faults>>

RecordFailed(p, n) ==
    /\ At(p, n, "refused")
    /\ status' = [status EXCEPT ![n] = "FAILED"]
    /\ Retry(p, n)
    /\ UNCHANGED <<producer, up, mails, unrecorded, starts, overlapped, faults>>

\* The query or the commit of an attempt raises: the attempt is retried and
\* what it did is not recorded.
DatabaseFails(p, n) ==
    /\ task[p][n].pc \in {"ready", "accepted", "refused"}
    /\ Fault
    /\ unrecorded' = [unrecorded EXCEPT ![n] =
                        IF At(p, n, "accepted") THEN @ + 1 ELSE @]
    /\ Retry(p, n)
    /\ UNCHANGED <<status, producer, up, mails, starts, overlapped>>

-----------------------------------------------------------------------------

\* A step of a delivery task that is not a fault of the environment.
Deliver(p, n) ==
    \/ RowNotVisible(p, n)
    \/ AlreadySent(p, n)
    \/ ReadRow(p, n)
    \/ HostAccepts(p, n)
    \/ RecordSent(p, n)
    \/ RecordFailed(p, n)

Next ==
    \/ \E p \in Processes : Start(p) \/ StartWithoutSweep(p) \/ Crash(p)
    \/ \E p \in Processes, n \in Ids :
          \/ Notify(p, n)
          \/ Deliver(p, n)
          \/ HostRefuses(p, n)
          \/ ReplyLost(p, n)
          \/ DatabaseFails(p, n)
    \/ \E n \in Ids : Commit(n) \/ Abort(n)

\* The event loop runs every ready task, and a send ends (aiosmtplib times
\* out); a stopped process is started again by the platform or by the next
\* request.  Nothing makes a process crash, a send fail or a transaction end.
Fairness ==
    /\ \A p \in Processes : WF_vars(Start(p))
    /\ \A p \in Processes, n \in Ids : WF_vars(Deliver(p, n))

Spec == Init /\ [][Next]_vars /\ Fairness

-----------------------------------------------------------------------------
(* Properties.                                                             *)

\* An e-mail goes out only for a committed notification: although a task is
\* started before the commit, nobody is told of what was rolled back.
OnlyCommittedIsMailed ==
    \A n \in Ids : mails[n] > 0 => status[n] # "None"

\* Two processes of a rolling deploy may deliver the same notification.  Still,
\* faults aside, each start of a process adds at most one e-mail: a process
\* has one task for a notification, and that task stops once it recorded SENT.
MailedOncePerStart ==
    \A n \in Ids : mails[n] <= unrecorded[n] + starts

\* As long as one process runs at a time: every acceptance by the SMTP host is
\* recorded as SENT, is about to be, or was kept from the record by a fault (a
\* reply that was lost, a crash, a failed commit).  So a notification is mailed
\* twice only if such a fault hit it in between, or the processes of a deploy
\* overlapped: no retry and no sweep repeats what was recorded.
EveryMailIsAccountedFor ==
    ~ overlapped => \A n \in Ids :
        mails[n] = unrecorded[n]
                     + (IF status[n] = "SENT" THEN 1 ELSE 0)
                     + Cardinality({p \in Processes : At(p, n, "accepted")})

\* As long as one process runs at a time: a SENT row is never written again, by
\* no retry and no sweep after a restart.
SentIsFinal ==
    [][\A n \in Ids : status[n] = "SENT" /\ ~ overlapped
                         => status'[n] = "SENT"]_vars

\* A delivery whose first attempt finds the row PENDING, as all those the
\* sweep starts do, ends with the row SENT or FAILED, unless its process dies
\* (fewer faults than attempts).
StartedDeliverySettles ==
    \A p \in Processes, n \in Ids :
        (status[n] = "PENDING" /\ task[p][n] = FirstAttempt)
            ~> (status[n] # "PENDING" \/ p \notin up)

\* Delivery is "eventually-once rather than best-effort": a notification that
\* failed once is delivered in the end (fewer faults than attempts).
FailedIsDelivered ==
    \A n \in Ids : status[n] = "FAILED" ~> status[n] = "SENT"
=============================================================================

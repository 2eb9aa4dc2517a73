------------------------------ MODULE Reminders ------------------------------
(***************************************************************************)
(* One-shot reminders of one user: the rows of schedules and               *)
(* schedule_reminders, the HTTP operations on them, the delivery loop of   *)
(* every scheduler process, and the devices that mark delivered reminders  *)
(* as read or archived.                                                    *)
(*                                                                         *)
(* Every operation locks the user row first, so it is one action.  Only    *)
(* the claim reads before it holds that lock: its candidate comes from the *)
(* snapshot of the scan and is read again under the lock.                  *)
(*                                                                         *)
(* Time: a schedule is compared with the wall clock of the database at     *)
(* four places only, its creation, the end of its approval, the time it    *)
(* is due and the end of its lease.  phase says between which of the first *)
(* three the clock stands.  The clock may be set back.                     *)
(***************************************************************************)
EXTENDS Integers, FiniteSets

CONSTANTS
    Schedules,      \* request ids
    Processes,      \* scheduler processes
    Devices,        \* clients of the reminder inbox
    Leases,         \* lease tokens: fresh UUIDs
    ScheduleQuota,  \* schedules of a user: 1000 in the code
    MaxUpdates,    \* bound on the updates of a reminder
    MaxMishaps,     \* bound on crashes, failed store calls and clock changes
    Null

ASSUME ReminderAssumption ==
    /\ ScheduleQuota \in Nat \ {0}
    /\ MaxUpdates \in Nat
    /\ MaxMishaps \in Nat
    /\ Null \notin Leases \union Schedules

VARIABLES
    schedule,       \* schedules
    reminder,       \* schedule_reminders
    process,        \* the delivery loop of each process
    view,           \* the reminder each device was last shown
    mishaps

vars == <<schedule, reminder, process, view, mishaps>>

Statuses == {"absent", "draft", "scheduled", "running", "delivered",
             "cancelled", "failed"}

\* The clock stands before the creation (only after it was set back), before
\* the end of the approval, before the due time, or after it.
Phases == {"early", "open", "expired", "due"}

Rows ==
    [status: Statuses, phase: Phases,
     approved: {"no", "valid", "backdated"},  \* approved_ms against created_ms
     claim: Leases \union {Null},
     lapsed: BOOLEAN]                         \* lease_until_ms is past

NoSchedule == [status |-> "absent", phase |-> "open", approved |-> "no",
               claim |-> Null, lapsed |-> FALSE]

Inbox == [revision: Nat, read: BOOLEAN, archived: BOOLEAN]

ASSUME NullAssumption == Null \notin Inbox

\* pc names the next step of deliver_due_reminders.
Loops ==
    [pc: {"scan", "claim", "deliver"},
     item: Schedules \union {Null}, lease: Leases \union {Null}]

Idle == [pc |-> "scan", item |-> Null, lease |-> Null]

\* The CHECKs of the table: a step that breaks one is refused.
Checked(row) ==
    /\ row.status \in {"absent", "draft"} => row.approved = "no"
    /\ row.status \in {"scheduled", "running", "delivered"} => row.approved # "no"
    /\ row.status \in {"running", "delivered"} => row.claim # Null

TypeOK ==
    /\ schedule \in [Schedules -> Rows]
    /\ \A k \in Schedules : Checked(schedule[k])
    /\ reminder \in [Schedules -> Inbox \union {Null}]
    /\ process \in [Processes -> Loops]
    /\ view \in [Devices -> [Schedules -> Inbox \union {Null}]]
    /\ mishaps \in 0 .. MaxMishaps

Init ==
    /\ schedule = [k \in Schedules |-> NoSchedule]
    /\ reminder = [k \in Schedules |-> Null]
    /\ process = [p \in Processes |-> Idle]
    /\ view = [d \in Devices |-> [k \in Schedules |-> Null]]
    /\ mishaps = 0

Fault == mishaps < MaxMishaps /\ mishaps' = mishaps + 1

-----------------------------------------------------------------------------
(* Time, for the schedules that are not over. *)

Pending(k) == schedule[k].status \in {"draft", "scheduled", "running"}

After(phase) ==
    CASE phase = "early" -> "open"
      [] phase = "open" -> "expired"
      [] OTHER -> "due"

Before(phase) ==
    CASE phase = "due" -> {"early", "open", "expired"}
      [] phase = "expired" -> {"early", "open"}
      [] OTHER -> {"early"}

ClockAdvances(k) ==
    /\ Pending(k)
    /\ schedule[k].phase # "due"
    /\ schedule' = [schedule EXCEPT ![k].phase = After(@)]
    /\ UNCHANGED <<reminder, process, view, mishaps>>

\* A lease is given at a due schedule and ends a minute later.
LeaseLapses(k) ==
    /\ schedule[k].status = "running"
    /\ schedule[k].phase = "due"
    /\ ~schedule[k].lapsed
    /\ schedule' = [schedule EXCEPT ![k].lapsed = TRUE]
    /\ UNCHANGED <<reminder, process, view, mishaps>>

\* The clock is set back to an earlier phase, or only so far that a lapsed
\* lease runs again.
ClockSetBack(k) ==
    /\ Pending(k)
    /\ Fault
    /\ \/ \E phase \in Before(schedule[k].phase) :
              schedule' = [schedule EXCEPT ![k].phase = phase,
                                           ![k].lapsed = FALSE]
       \/ /\ schedule[k].lapsed
          /\ schedule' = [schedule EXCEPT ![k].lapsed = FALSE]
    /\ UNCHANGED <<reminder, process, view>>

-----------------------------------------------------------------------------
(* Operations of the user. *)

\* create_schedule of a new request, whose time is at least a minute ahead.
\* The quota of one day is left out: it can only refuse more.
Create(k) ==
    /\ schedule[k].status = "absent"
    /\ Cardinality({j \in Schedules : schedule[j].status # "absent"})
           < ScheduleQuota
    /\ schedule' = [schedule EXCEPT ![k].status = "draft"]
    /\ UNCHANGED <<reminder, process, view, mishaps>>

\* approve_schedule with the definition the user was shown.  A repeated
\* approval of a scheduled, running or delivered one changes nothing.
Approve(k) ==
    /\ schedule[k].status = "draft"
    /\ schedule[k].phase \in {"early", "open"}
    /\ schedule' = [schedule EXCEPT ![k].status = "scheduled",
           ![k].approved = IF schedule[k].phase = "early"
                           THEN "backdated" ELSE "valid"]
    /\ UNCHANGED <<reminder, process, view, mishaps>>

\* cancel_schedule: everything but a delivered schedule is cancelled.
Cancel(k) ==
    /\ schedule[k].status \notin {"absent", "delivered"}
    /\ schedule' = [schedule EXCEPT ![k].status = "cancelled",
                                    ![k].claim = Null, ![k].lapsed = FALSE]
    /\ UNCHANGED <<reminder, process, view, mishaps>>

-----------------------------------------------------------------------------
(* The delivery loop. *)

At(p, pc) == process[p].pc = pc
Restart(p) == process' = [process EXCEPT ![p] = Idle]

\* Mutation: only scheduled rows are scanned.
CandidateScheduled(k) ==
    /\ schedule[k].phase = "due"
    /\ schedule[k].status = "scheduled"

\* The WHERE clause of the scan.
Candidate(k) ==
    /\ schedule[k].phase = "due"
    /\ \/ schedule[k].status = "scheduled"
       \/ schedule[k].status = "running" /\ schedule[k].lapsed

Scan(p) ==
    /\ At(p, "scan")
    /\ \E k \in Schedules :
           /\ Candidate(k)
           /\ process' = [process EXCEPT ![p].pc = "claim", ![p].item = k]
    /\ UNCHANGED <<schedule, reminder, view, mishaps>>

\* The state of the candidate, read again under the locks.
Claimable(k) ==
    /\ schedule[k].phase = "due"
    /\ \/ schedule[k].status = "scheduled"
       \/ schedule[k].status = "running" /\ schedule[k].lapsed

\* Mutation: the time of the approval is not compared with the creation.
AuthorizedAlways(k) == schedule[k].approved # "no"

Authorized(k) == schedule[k].approved = "valid"

FreshLeases ==
    Leases \ ({schedule[k].claim : k \in Schedules} \union
              {process[p].lease : p \in Processes})

Fail(k) ==
    schedule' = [schedule EXCEPT ![k].status = "failed",
                                 ![k].claim = Null, ![k].lapsed = FALSE]

\* The rest of claim_due_schedule.  With a fault nothing is written, or a
\* lease is and its answer is lost.
Claim(p) ==
    LET k == process[p].item IN
    /\ At(p, "claim")
    /\ \/ /\ Claimable(k) /\ Authorized(k)
          /\ \E token \in FreshLeases :
                 /\ schedule' = [schedule EXCEPT ![k].status = "running",
                        ![k].claim = token, ![k].lapsed = FALSE]
                 /\ \/ /\ process' = [process EXCEPT ![p].pc = "deliver",
                                                     ![p].lease = token]
                       /\ UNCHANGED mishaps
                    \/ Fault /\ Restart(p)
       \/ /\ Claimable(k) /\ ~Authorized(k)
          /\ Fail(k)
          /\ Restart(p)
          /\ UNCHANGED mishaps
       \/ /\ (~Claimable(k) /\ UNCHANGED mishaps) \/ Fault
          /\ Restart(p)
          /\ UNCHANGED schedule
    /\ UNCHANGED <<reminder, view>>

Deliverable(k, token) ==
    /\ schedule[k].claim = token
    /\ schedule[k].status = "running"
    /\ schedule[k].phase = "due"
    /\ ~schedule[k].lapsed

\* deliver_schedule under a lease that runs: the reminder and the end of its
\* schedule are written together, once.  Whether the answer arrives makes no
\* difference: the loop goes on or starts again, and never calls twice with
\* one lease.
DeliverInTime(p) ==
    LET k == process[p].item IN
    /\ At(p, "deliver")
    /\ Deliverable(k, process[p].lease)
    /\ IF Authorized(k)
       THEN /\ reminder[k] = Null
            /\ reminder' = [reminder EXCEPT ![k] =
                   [revision |-> 0, read |-> FALSE, archived |-> FALSE]]
            /\ schedule' = [schedule EXCEPT ![k].status = "delivered"]
       ELSE Fail(k) /\ UNCHANGED reminder
    /\ Restart(p)
    /\ UNCHANGED <<view, mishaps>>

\* deliver_schedule refused, or a call that did not reach the store.
DeliverNothing(p) ==
    LET k == process[p].item IN
    /\ At(p, "deliver")
    /\ (~Deliverable(k, process[p].lease) /\ UNCHANGED mishaps) \/ Fault
    /\ Restart(p)
    /\ UNCHANGED <<schedule, reminder, view>>

Crash(p) ==
    /\ ~At(p, "scan")
    /\ Fault
    /\ Restart(p)
    /\ UNCHANGED <<schedule, reminder, view>>

-----------------------------------------------------------------------------
(* The inbox. *)

Show(d, k) ==
    /\ reminder[k] # Null
    /\ view' = [view EXCEPT ![d][k] = reminder[k]]
    /\ UNCHANGED <<schedule, reminder, process, mishaps>>

\* The revision an update must carry.
Accepts(saved, revision) == revision = saved.revision

Marked(saved, read, archived) ==
    [revision |-> saved.revision + 1, read |-> read, archived |-> archived]

\* A request that finds what it asks for, at its own or the next revision,
\* is taken for a repetition of itself.
Repeated(saved, revision, read, archived) ==
    /\ saved.read = read
    /\ saved.archived = archived
    /\ saved.revision \in {revision, revision + 1}

\* The device gets the row, or the answer is lost.
Answer(d, k, row) ==
    \/ view' = [view EXCEPT ![d][k] = row] /\ UNCHANGED mishaps
    \/ Fault /\ UNCHANGED view

\* update_reminder, with the revision the device was shown.
Update(d, k, read, archived) ==
    LET saved    == reminder[k]
        revision == view[d][k].revision
        marked   == Marked(saved, read, archived)
    IN
    /\ view[d][k] # Null
    /\ \/ /\ Repeated(saved, revision, read, archived)
          /\ Answer(d, k, saved)
          /\ UNCHANGED reminder
       \/ /\ ~Repeated(saved, revision, read, archived)
          /\ Accepts(saved, revision)
          /\ saved.revision < MaxUpdates
          /\ reminder' = [reminder EXCEPT ![k] = marked]
          /\ Answer(d, k, marked)
    /\ UNCHANGED <<schedule, process>>

-----------------------------------------------------------------------------

Running(p) == Scan(p) \/ Claim(p) \/ DeliverInTime(p) \/ DeliverNothing(p)

Next ==
    \/ \E k \in Schedules :
           \/ ClockAdvances(k) \/ LeaseLapses(k) \/ ClockSetBack(k)
           \/ Create(k) \/ Approve(k) \/ Cancel(k)
    \/ \E p \in Processes : Running(p) \/ Crash(p)
    \/ \E d \in Devices, k \in Schedules :
           \/ Show(d, k)
           \/ \E read, archived \in BOOLEAN : Update(d, k, read, archived)

Spec == Init /\ [][Next]_vars

\* Time passes and the loop of a process goes on with bounded waits.  The
\* delivery follows its claim at once: it does not find the minute of its
\* lease over every time.
Fairness ==
    /\ \A k \in Schedules : WF_vars(ClockAdvances(k)) /\ WF_vars(LeaseLapses(k))
    /\ \A p \in Processes : WF_vars(Running(p)) /\ SF_vars(DeliverInTime(p))

FairSpec == Spec /\ Fairness

-----------------------------------------------------------------------------
(* Properties. *)

\* A reminder is in the inbox exactly when its schedule is delivered, and
\* only with an approval given between the creation and the end of the
\* approval, whatever claims were lost or repeated (schedule_delivery.rs
\* writes both in one transaction and checks the approval twice).
DeliveredWithConsent ==
    \A k \in Schedules :
        /\ reminder[k] # Null <=> schedule[k].status = "delivered"
        /\ reminder[k] # Null => schedule[k].approved = "valid"

\* What was delivered stays delivered and what was cancelled stays
\* cancelled, although a process may hold its lease or its scan.
EndIsFinal ==
    [][\A k \in Schedules :
         /\ schedule[k].status \in {"delivered", "cancelled"} =>
               schedule'[k].status = schedule[k].status
         /\ schedule[k].status = "failed" =>
               schedule'[k].status \in {"failed", "cancelled"}]_vars

\* A lease that runs is not given to another process on the word of an old
\* scan: only a cancellation or a failure ends it early.
LeaseExclusive ==
    [][\A k \in Schedules :
         schedule[k].status = "running" /\ ~schedule[k].lapsed =>
             \/ schedule'[k].claim = schedule[k].claim
             \/ schedule'[k].status \in {"cancelled", "failed"}]_vars

\* A revision names one content: a device whose revision is current shows
\* the current marks, so that nothing is overwritten unseen.
RevisionNamesContent ==
    \A d \in Devices, k \in Schedules :
        view[d][k] # Null =>
            /\ view[d][k].revision <= reminder[k].revision
            /\ view[d][k].revision = reminder[k].revision =>
                   view[d][k] = reminder[k]

\* Every approved schedule is delivered, cancelled or failed in the end,
\* whichever processes crash with its lease.
ApprovedEnds ==
    \A k \in Schedules :
        (schedule[k].status \in {"scheduled", "running"})
            ~> (schedule[k].status \in {"delivered", "cancelled", "failed"})
=============================================================================

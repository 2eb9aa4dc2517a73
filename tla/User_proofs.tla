------------------------------ MODULE User_proofs ------------------------------
(***************************************************************************)
(* Proofs about what the service does for one user by the clock and by     *)
(* request: reminders (Reminders), the learning, the advice and the        *)
(* reviews of entries of MCReviews, and the feeds and briefs of MCFeeds.   *)
(* The three share no variable.                                            *)
(*                                                                         *)
(* That a reminder is delivered at most once and with consent rests on the *)
(* two tables being written together, not on the leases: a row that is     *)
(* delivered is never claimed, approved or cancelled again.  That no mark  *)
(* is overwritten unseen rests on ViewInv: a device is never ahead of the  *)
(* row, and one that is not behind shows the row.                          *)
(*                                                                         *)
(* In the three components of MCReviews, what is kept rests on rows that   *)
(* others change.  The invariants say that it still stands on them, and    *)
(* that a request that was claimed belongs to one executor for ever.       *)
(*                                                                         *)
(* The same holds of a collection (HolderInv), and no two collections are  *)
(* of one occurrence of a schedule.  What is written is decided on the     *)
(* rows of that moment, so that FinishMoves needs no history.              *)
(***************************************************************************)
EXTENDS MCReviews, Reminders, MCFeeds, FiniteSetTheorems, TLAPS

-----------------------------------------------------------------------------
(* Reminders: the invariant. *)

\* A loop past its scan has a candidate.
LoopInv ==
    \A p \in Processes : process[p].pc # "scan" => process[p].item # Null

ViewInv ==
    \A d \in Devices, k \in Schedules :
        view[d][k] # Null =>
            /\ reminder[k] # Null
            /\ view[d][k].revision <= reminder[k].revision
            /\ view[d][k].revision = reminder[k].revision =>
                   view[d][k] = reminder[k]

IInv == TypeOK /\ LoopInv /\ DeliveredWithConsent /\ ViewInv

LEMMA InitHolds == Init => IInv
<1> SUFFICES ASSUME Init PROVE IInv
  OBVIOUS
<1> USE DEF Init
<1>1. TypeOK
  BY ReminderAssumption
     DEF TypeOK, NoSchedule, Checked, Rows, Statuses, Phases, Idle, Loops
<1>2. LoopInv /\ DeliveredWithConsent /\ ViewInv
  BY DEF LoopInv, DeliveredWithConsent, ViewInv, Idle, NoSchedule
<1> QED BY <1>1, <1>2 DEF IInv

\* A fault leaves the count of faults within its bound.
LEMMA FaultType ==
    ASSUME TypeOK, Fault \/ UNCHANGED mishaps
    PROVE  mishaps' \in 0 .. MaxMishaps
BY ReminderAssumption DEF TypeOK, Fault

-----------------------------------------------------------------------------
(* Steps that change one schedule and no reminder. *)

\* What such a step has to show of the new row.
Keeps(k, row) ==
    /\ row \in Rows
    /\ Checked(row)
    /\ row.status = "delivered" <=> schedule[k].status = "delivered"
    /\ row.status = "delivered" => row.approved = schedule[k].approved

LEMMA RowStep ==
    ASSUME IInv, NEW k \in Schedules, NEW row, Keeps(k, row),
           schedule' = [schedule EXCEPT ![k] = row], UNCHANGED reminder
    PROVE  /\ schedule' \in [Schedules -> Rows]
           /\ \A j \in Schedules : Checked(schedule'[j])
           /\ DeliveredWithConsent'
<1>1. schedule \in [Schedules -> Rows] /\ \A j \in Schedules : Checked(schedule[j])
  BY DEF IInv, TypeOK
<1>2. \A j \in Schedules : schedule'[j] = IF j = k THEN row ELSE schedule[j]
  BY <1>1
<1>3. schedule' \in [Schedules -> Rows]
  BY <1>1 DEF Keeps
<1>4. \A j \in Schedules : Checked(schedule'[j])
  BY <1>1, <1>2 DEF Keeps
<1>5. DeliveredWithConsent'
  BY <1>2 DEF Keeps, IInv, DeliveredWithConsent
<1> QED BY <1>3, <1>4, <1>5

\* A step of time or of the user: no loop and no device moves.
LEMMA UserStep ==
    ASSUME IInv, NEW k \in Schedules, NEW row, Keeps(k, row),
           schedule' = [schedule EXCEPT ![k] = row],
           UNCHANGED <<reminder, process, view>>, Fault \/ UNCHANGED mishaps
    PROVE  IInv'
<1>1. /\ schedule' \in [Schedules -> Rows]
      /\ \A j \in Schedules : Checked(schedule'[j])
      /\ DeliveredWithConsent'
  BY RowStep
<1>2. mishaps' \in 0 .. MaxMishaps
  BY FaultType DEF IInv
<1>3. TypeOK'
  BY <1>1, <1>2 DEF IInv, TypeOK
<1>4. LoopInv' /\ ViewInv'
  BY DEF IInv, LoopInv, ViewInv
<1> QED BY <1>1, <1>3, <1>4 DEF IInv

LEMMA UserSteps ==
    ASSUME IInv, NEW k \in Schedules,
           \/ ClockAdvances(k) \/ LeaseLapses(k) \/ ClockSetBack(k)
           \/ Create(k) \/ Approve(k) \/ Cancel(k)
    PROVE  IInv'
<1> DEFINE old == schedule[k]
<1>1. schedule \in [Schedules -> Rows] /\ old \in Rows /\ Checked(old)
  BY DEF IInv, TypeOK
<1>2. CASE ClockAdvances(k)
  <2> DEFINE row == [old EXCEPT !.phase = After(@)]
  <2>1. After(old.phase) \in Phases BY DEF After, Phases
  <2>2. Keeps(k, row)
    BY <1>1, <2>1 DEF Keeps, Rows, Checked
  <2>3. schedule' = [schedule EXCEPT ![k] = row]
    BY <1>2, <1>1 DEF ClockAdvances
  <2> QED BY <2>2, <2>3, <1>2, UserStep DEF ClockAdvances
<1>3. CASE LeaseLapses(k)
  <2> DEFINE row == [old EXCEPT !.lapsed = TRUE]
  <2>1. Keeps(k, row)
    BY <1>1 DEF Keeps, Rows, Checked
  <2>2. schedule' = [schedule EXCEPT ![k] = row]
    BY <1>3, <1>1 DEF LeaseLapses
  <2> QED BY <2>1, <2>2, <1>3, UserStep DEF LeaseLapses
<1>4. CASE ClockSetBack(k)
  <2>1. PICK phase \in Phases :
           schedule' = [schedule EXCEPT ![k] =
               [old EXCEPT !.phase = phase, !.lapsed = FALSE]]
    <3>1. CASE \E phase \in Before(old.phase) :
                  schedule' = [schedule EXCEPT ![k].phase = phase,
                                               ![k].lapsed = FALSE]
      BY <3>1, <1>1 DEF Before, Phases
    <3>2. CASE schedule' = [schedule EXCEPT ![k].lapsed = FALSE]
      <4>1. old.phase \in Phases BY <1>1 DEF Rows
      <4>2. [old EXCEPT !.phase = old.phase, !.lapsed = FALSE]
                = [old EXCEPT !.lapsed = FALSE]
        BY <1>1 DEF Rows
      <4> QED BY <3>2, <4>1, <4>2
    <3> QED BY <1>4, <3>1, <3>2 DEF ClockSetBack
  <2>2. Keeps(k, [old EXCEPT !.phase = phase, !.lapsed = FALSE])
    BY <1>1 DEF Keeps, Rows, Checked
  <2> QED BY <2>1, <2>2, <1>4, UserStep DEF ClockSetBack
<1>5. CASE Create(k)
  <2> DEFINE row == [old EXCEPT !.status = "draft"]
  <2>1. Keeps(k, row)
    BY <1>1, <1>5 DEF Keeps, Rows, Checked, Create, Statuses
  <2>2. schedule' = [schedule EXCEPT ![k] = row]
    BY <1>5, <1>1 DEF Create
  <2> QED BY <2>1, <2>2, <1>5, UserStep DEF Create
<1>6. CASE Approve(k)
  <2> DEFINE mark == IF old.phase = "early" THEN "backdated" ELSE "valid"
             row == [old EXCEPT !.status = "scheduled", !.approved = mark]
  <2>1. Keeps(k, row)
    BY <1>1, <1>6 DEF Keeps, Rows, Checked, Approve, Statuses
  <2>2. schedule' = [schedule EXCEPT ![k] = row]
    BY <1>6, <1>1 DEF Approve
  <2> QED BY <2>1, <2>2, <1>6, UserStep DEF Approve
<1>7. CASE Cancel(k)
  <2> DEFINE row == [old EXCEPT !.status = "cancelled", !.claim = Null,
                                !.lapsed = FALSE]
  <2>1. Keeps(k, row)
    BY <1>1, <1>7 DEF Keeps, Rows, Checked, Cancel, Statuses
  <2>2. schedule' = [schedule EXCEPT ![k] = row]
    BY <1>7, <1>1 DEF Cancel
  <2> QED BY <2>1, <2>2, <1>7, UserStep DEF Cancel
<1> QED BY <1>2, <1>3, <1>4, <1>5, <1>6, <1>7

-----------------------------------------------------------------------------
(* Steps of a loop. *)

\* A loop is at its scan, or has a candidate.
LEMMA LoopStep ==
    ASSUME IInv, NEW p \in Processes, NEW loop \in Loops,
           loop.pc # "scan" => loop.item # Null,
           process' = [process EXCEPT ![p] = loop]
    PROVE  process' \in [Processes -> Loops] /\ LoopInv'
<1>1. process \in [Processes -> Loops]
  BY DEF IInv, TypeOK
<1>2. \A q \in Processes : process'[q] = IF q = p THEN loop ELSE process[q]
  BY <1>1
<1> QED BY <1>1, <1>2 DEF IInv, LoopInv

LEMMA RestStep ==
    ASSUME IInv, NEW p \in Processes, Restart(p)
    PROVE  process' \in [Processes -> Loops] /\ LoopInv'
<1>1. Idle \in Loops /\ Idle.pc = "scan"
  BY DEF Idle, Loops
<1> QED BY <1>1, LoopStep DEF Restart

\* The candidate of a loop that is past its scan.
LEMMA ItemType ==
    ASSUME IInv, NEW p \in Processes, process[p].pc # "scan"
    PROVE  process[p].item \in Schedules
BY DEF IInv, TypeOK, LoopInv, Loops

\* A failed schedule is a row.
LEMMA FailKeeps ==
    ASSUME IInv, NEW k \in Schedules, schedule[k].status # "delivered", Fail(k)
    PROVE  /\ schedule' = [schedule EXCEPT ![k] =
                  [schedule[k] EXCEPT !.status = "failed", !.claim = Null,
                                      !.lapsed = FALSE]]
           /\ Keeps(k, [schedule[k] EXCEPT !.status = "failed",
                            !.claim = Null, !.lapsed = FALSE])
<1>1. schedule \in [Schedules -> Rows] /\ schedule[k] \in Rows
  BY DEF IInv, TypeOK
<1> QED BY <1>1 DEF Fail, Keeps, Rows, Checked, Statuses

LEMMA LoopSteps ==
    ASSUME IInv, NEW p \in Processes, Running(p) \/ Crash(p)
    PROVE  IInv'
<1> DEFINE k == process[p].item
           old == schedule[k]
<1>1. /\ schedule \in [Schedules -> Rows]
      /\ process \in [Processes -> Loops]
      /\ reminder \in [Schedules -> Inbox \union {Null}]
  BY DEF IInv, TypeOK
<1>2. Fault \/ UNCHANGED mishaps => mishaps' \in 0 .. MaxMishaps
  BY FaultType DEF IInv
\* What is left to show when the reminders and the views do not change.
<1>3. ASSUME process' \in [Processes -> Loops] /\ LoopInv',
             UNCHANGED <<reminder, view>>, Fault \/ UNCHANGED mishaps,
             \/ UNCHANGED schedule
             \/ /\ schedule' \in [Schedules -> Rows]
                /\ \A j \in Schedules : Checked(schedule'[j])
                /\ DeliveredWithConsent'
      PROVE  IInv'
  <2>1. TypeOK'
    BY <1>2, <1>3 DEF IInv, TypeOK
  <2>2. DeliveredWithConsent' /\ ViewInv'
    BY <1>3 DEF IInv, DeliveredWithConsent, ViewInv
  <2> QED BY <2>1, <2>2, <1>3 DEF IInv
<1>4. CASE Scan(p)
  <2>1. PICK i \in Schedules :
           process' = [process EXCEPT ![p].pc = "claim", ![p].item = i]
    BY <1>4 DEF Scan
  <2>2. [process[p] EXCEPT !.pc = "claim", !.item = i] \in Loops
    BY <1>1 DEF Loops
  <2>3. process' = [process EXCEPT ![p] =
                        [process[p] EXCEPT !.pc = "claim", !.item = i]]
    BY <2>1, <1>1
  <2>4. [process[p] EXCEPT !.pc = "claim", !.item = i].item # Null
    BY <1>1, ReminderAssumption DEF Loops
  <2>5. process' \in [Processes -> Loops] /\ LoopInv'
    BY <2>2, <2>3, <2>4, LoopStep
  <2> QED BY <1>3, <1>4, <2>5 DEF Scan
<1>5. CASE Claim(p)
  <2>1. k \in Schedules /\ old \in Rows
    BY <1>1, <1>5, ItemType DEF Claim, At
  <2>2. CASE Claimable(k) /\ Authorized(k) /\ \E token \in FreshLeases :
                /\ schedule' = [schedule EXCEPT ![k].status = "running",
                       ![k].claim = token, ![k].lapsed = FALSE]
                /\ \/ /\ process' = [process EXCEPT ![p].pc = "deliver",
                                                    ![p].lease = token]
                      /\ UNCHANGED mishaps
                   \/ Fault /\ Restart(p)
    <3>1. PICK token \in Leases :
             /\ schedule' = [schedule EXCEPT ![k].status = "running",
                    ![k].claim = token, ![k].lapsed = FALSE]
             /\ \/ /\ process' = [process EXCEPT ![p].pc = "deliver",
                                                 ![p].lease = token]
                   /\ UNCHANGED mishaps
                \/ Fault /\ Restart(p)
      BY <2>2 DEF FreshLeases
    <3> DEFINE row == [old EXCEPT !.status = "running", !.claim = token,
                                  !.lapsed = FALSE]
               loop == [process[p] EXCEPT !.pc = "deliver", !.lease = token]
    <3>2. Keeps(k, row)
      BY <2>1, <2>2, <3>1, ReminderAssumption
         DEF Keeps, Rows, Checked, Statuses, Claimable, Authorized
    <3>3. schedule' = [schedule EXCEPT ![k] = row]
      BY <3>1, <1>1, <2>1
    <3>4. /\ schedule' \in [Schedules -> Rows]
          /\ \A j \in Schedules : Checked(schedule'[j])
          /\ DeliveredWithConsent'
      BY <3>2, <3>3, <2>1, <1>5, RowStep DEF Claim
    <3>5. CASE process' = [process EXCEPT ![p].pc = "deliver",
                                          ![p].lease = token]
      <4>1. loop \in Loops /\ loop.item # Null
        BY <1>1, <2>1, <3>1, ReminderAssumption DEF Loops
      <4>2. process' = [process EXCEPT ![p] = loop]
        BY <3>5, <1>1
      <4> QED BY <4>1, <4>2, LoopStep, <3>1, <3>4, <1>3, <1>5 DEF Claim, Fault
    <3>6. CASE Fault /\ Restart(p)
      BY <3>6, <3>4, RestStep, <1>3, <1>5 DEF Claim
    <3> QED BY <3>1, <3>5, <3>6
  <2>3. CASE Claimable(k) /\ Fail(k) /\ Restart(p) /\ UNCHANGED mishaps
    <3>1. old.status # "delivered"
      BY <2>3 DEF Claimable
    <3>2. /\ schedule' \in [Schedules -> Rows]
          /\ \A j \in Schedules : Checked(schedule'[j])
          /\ DeliveredWithConsent'
      BY <3>1, <2>1, <2>3, <1>5, FailKeeps, RowStep DEF Claim
    <3> QED BY <3>2, <2>3, RestStep, <1>3, <1>5 DEF Claim
  <2>4. CASE (UNCHANGED mishaps \/ Fault) /\ Restart(p) /\ UNCHANGED schedule
    BY <2>4, RestStep, <1>3, <1>5 DEF Claim
  <2> QED BY <2>2, <2>3, <2>4, <1>5 DEF Claim
<1>6. CASE DeliverInTime(p)
  <2>1. k \in Schedules /\ old \in Rows
    BY <1>1, <1>6, ItemType DEF DeliverInTime, At
  <2>2. old.status = "running"
    BY <1>6 DEF DeliverInTime, Deliverable
  <2>3. process' \in [Processes -> Loops] /\ LoopInv'
    BY <1>6, RestStep DEF DeliverInTime
  <2>4. CASE Authorized(k)
    <3> DEFINE row == [old EXCEPT !.status = "delivered"]
               new == [revision |-> 0, read |-> FALSE, archived |-> FALSE]
    <3>1. /\ reminder[k] = Null
          /\ reminder' = [reminder EXCEPT ![k] = new]
          /\ schedule' = [schedule EXCEPT ![k].status = "delivered"]
          /\ UNCHANGED <<view, mishaps>>
      BY <2>4, <1>6 DEF DeliverInTime
    <3>2. /\ row \in Rows
          /\ Checked(row)
          /\ row.approved = "valid"
          /\ row.status = "delivered"
      BY <2>1, <2>2, <2>4 DEF Rows, Checked, Statuses, Authorized, IInv, TypeOK
    <3>3. \A j \in Schedules :
             schedule'[j] = IF j = k THEN row ELSE schedule[j]
      BY <3>1, <1>1, <2>1
    <3>4. schedule' \in [Schedules -> Rows]
      BY <3>1, <3>2, <1>1, <2>1
    <3>5. \A j \in Schedules : Checked(schedule'[j])
      BY <3>2, <3>3 DEF IInv, TypeOK
    <3>5a. new \in Inbox
      BY DEF Inbox
    <3>6. new \in Inbox /\ new # Null
      <4> HIDE DEF new
      <4> QED BY <3>5a, NullAssumption
    <3>7. reminder' \in [Schedules -> Inbox \union {Null}]
      BY <3>1, <3>6, <1>1
    <3>8. TypeOK'
      BY <3>1, <3>4, <3>5, <3>7, <2>3 DEF IInv, TypeOK
    <3>9. \A j \in Schedules :
             reminder'[j] = IF j = k THEN new ELSE reminder[j]
      BY <3>1, <1>1
    <3>10. DeliveredWithConsent'
      <4> HIDE DEF row, new
      <4> QED BY <3>2, <3>3, <3>6, <3>9 DEF IInv, DeliveredWithConsent
    <3>11. ViewInv'
      BY <3>1, <3>9, <2>1 DEF IInv, ViewInv
    <3> QED BY <2>3, <3>8, <3>10, <3>11 DEF IInv
  <2>5. CASE ~Authorized(k)
    <3>1. Fail(k) /\ UNCHANGED <<reminder, view, mishaps>>
      BY <2>5, <1>6 DEF DeliverInTime
    <3>2. /\ schedule' \in [Schedules -> Rows]
          /\ \A j \in Schedules : Checked(schedule'[j])
          /\ DeliveredWithConsent'
      BY <3>1, <2>1, <2>2, FailKeeps, RowStep
    <3> QED BY <3>1, <3>2, <2>3, <1>3
  <2> QED BY <2>4, <2>5
<1>7. CASE DeliverNothing(p)
  BY <1>7, RestStep, <1>3 DEF DeliverNothing
<1>8. CASE Crash(p)
  BY <1>8, RestStep, <1>3 DEF Crash
<1> QED BY <1>4, <1>5, <1>6, <1>7, <1>8 DEF Running

-----------------------------------------------------------------------------
(* Steps of a device. *)

LEMMA ShowSteps ==
    ASSUME IInv, NEW d \in Devices, NEW k \in Schedules, Show(d, k)
    PROVE  IInv'
<1>1. /\ view \in [Devices -> [Schedules -> Inbox \union {Null}]]
      /\ reminder \in [Schedules -> Inbox \union {Null}]
  BY DEF IInv, TypeOK
<1>2. view' = [view EXCEPT ![d][k] = reminder[k]]
  BY DEF Show
<1>3. view' \in [Devices -> [Schedules -> Inbox \union {Null}]]
  BY <1>1, <1>2
<1>4. TypeOK'
  BY <1>3 DEF IInv, TypeOK, Show
<1>5. \A e \in Devices, j \in Schedules :
         view'[e][j] = IF e = d /\ j = k THEN reminder[k] ELSE view[e][j]
  BY <1>1, <1>2
<1>6. reminder[k].revision <= reminder[k].revision
  BY <1>1 DEF Show, Inbox
<1>7. ViewInv'
  BY <1>5, <1>6 DEF IInv, ViewInv, Show
<1>8. LoopInv' /\ DeliveredWithConsent'
  BY DEF IInv, LoopInv, DeliveredWithConsent, Show
<1> QED BY <1>4, <1>7, <1>8 DEF IInv

\* The row after an update is a row with the next revision.
LEMMA MarkedType ==
    ASSUME NEW saved \in Inbox, NEW read \in BOOLEAN, NEW archived \in BOOLEAN
    PROVE  /\ Marked(saved, read, archived) \in Inbox
           /\ Marked(saved, read, archived) # Null
           /\ Marked(saved, read, archived).revision = saved.revision + 1
BY NullAssumption DEF Marked, Inbox

LEMMA UpdateSteps ==
    ASSUME IInv, NEW d \in Devices, NEW k \in Schedules,
           NEW read \in BOOLEAN, NEW archived \in BOOLEAN,
           Update(d, k, read, archived)
    PROVE  IInv'
<1> DEFINE saved  == reminder[k]
           marked == Marked(saved, read, archived)
<1>1. /\ view \in [Devices -> [Schedules -> Inbox \union {Null}]]
      /\ reminder \in [Schedules -> Inbox \union {Null}]
      /\ UNCHANGED <<schedule, process>>
  BY DEF IInv, TypeOK, Update
<1>2. saved \in Inbox /\ saved # Null
  BY <1>1 DEF IInv, ViewInv, Update
<1>3. LoopInv'
  BY <1>1 DEF IInv, LoopInv
\* The device was answered with some row, or its view did not change.
<1>4. ASSUME NEW row \in Inbox, row # Null, Answer(d, k, row)
      PROVE  /\ mishaps' \in 0 .. MaxMishaps
             /\ view' \in [Devices -> [Schedules -> Inbox \union {Null}]]
             /\ \A e \in Devices, j \in Schedules :
                    \/ view'[e][j] = view[e][j]
                    \/ j = k /\ view'[e][j] = row
  <2>1. mishaps' \in 0 .. MaxMishaps
    BY <1>4, FaultType DEF IInv, Answer
  <2>2. CASE view' = [view EXCEPT ![d][k] = row]
    BY <1>1, <1>4, <2>1, <2>2
  <2>3. CASE UNCHANGED view
    BY <1>1, <2>1, <2>3
  <2> QED BY <1>4, <2>2, <2>3 DEF Answer
<1>5. CASE Answer(d, k, saved) /\ UNCHANGED reminder
  <2>1. TypeOK'
    BY <1>1, <1>2, <1>4, <1>5 DEF IInv, TypeOK
  <2>2. saved.revision <= saved.revision
    BY <1>2 DEF Inbox
  <2>3. ViewInv'
    BY <1>2, <1>4, <1>5, <2>2 DEF IInv, ViewInv
  <2>4. DeliveredWithConsent'
    BY <1>1, <1>5 DEF IInv, DeliveredWithConsent
  <2> QED BY <1>3, <2>1, <2>3, <2>4 DEF IInv
<1>6. CASE Answer(d, k, marked) /\ reminder' = [reminder EXCEPT ![k] = marked]
  <2>1. /\ marked \in Inbox
        /\ marked # Null
        /\ marked.revision = saved.revision + 1
    BY <1>2, MarkedType
  <2> HIDE DEF marked
  <2>2. reminder' \in [Schedules -> Inbox \union {Null}]
    BY <1>1, <1>6, <2>1
  <2>3. \A j \in Schedules :
           reminder'[j] = IF j = k THEN marked ELSE reminder[j]
    BY <1>1, <1>6
  <2>4. TypeOK'
    BY <1>1, <1>4, <1>6, <2>1, <2>2 DEF IInv, TypeOK
  <2>5. DeliveredWithConsent'
    BY <1>1, <1>2, <2>1, <2>3 DEF IInv, DeliveredWithConsent
  <2>6. ASSUME NEW e \in Devices, NEW j \in Schedules, view'[e][j] # Null
        PROVE  /\ reminder'[j] # Null
               /\ view'[e][j].revision <= reminder'[j].revision
               /\ view'[e][j].revision = reminder'[j].revision =>
                      view'[e][j] = reminder'[j]
    <3>1. CASE j = k /\ view'[e][j] = marked
      <4>1. marked.revision <= marked.revision
        BY <2>1 DEF Inbox
      <4> QED BY <3>1, <2>1, <2>3, <4>1
    <3>2. CASE j = k /\ view'[e][j] = view[e][j]
      <4>1. view[e][k].revision \in Nat /\ saved.revision \in Nat
        BY <1>1, <1>2, <3>2, <2>6 DEF Inbox
      <4>2. view[e][k].revision <= saved.revision
        BY <3>2, <2>6 DEF IInv, ViewInv
      <4>3. view[e][k].revision < marked.revision
        BY <4>1, <4>2, <2>1
      <4>4. reminder'[j] = marked
        BY <2>3, <3>2
      <4> QED BY <3>2, <4>1, <4>3, <4>4, <2>1 DEF Inbox
    <3>3. CASE j # k
      BY <3>3, <1>4, <1>6, <2>1, <2>3, <2>6 DEF IInv, ViewInv
    <3> QED BY <3>1, <3>2, <3>3, <1>4, <1>6, <2>1
  <2>7. ViewInv'
    BY <2>6 DEF ViewInv
  <2> QED BY <1>3, <2>4, <2>5, <2>7 DEF IInv
<1> QED BY <1>5, <1>6 DEF Update

-----------------------------------------------------------------------------
(* The theorems. *)

LEMMA StepHolds == IInv /\ [Next]_vars => IInv'
<1> SUFFICES ASSUME IInv, [Next]_vars PROVE IInv'
  OBVIOUS
<1>1. CASE UNCHANGED vars
  <2> USE <1>1 DEF vars
  <2>1. TypeOK' BY DEF IInv, TypeOK
  <2>2. LoopInv' /\ ViewInv' BY DEF IInv, LoopInv, ViewInv
  <2>3. DeliveredWithConsent' BY DEF IInv, DeliveredWithConsent
  <2> QED BY <2>1, <2>2, <2>3 DEF IInv
<1>2. CASE \E k \in Schedules :
              \/ ClockAdvances(k) \/ LeaseLapses(k) \/ ClockSetBack(k)
              \/ Create(k) \/ Approve(k) \/ Cancel(k)
  BY <1>2, UserSteps
<1>3. CASE \E p \in Processes : Running(p) \/ Crash(p)
  BY <1>3, LoopSteps
<1>4. CASE \E d \in Devices, k \in Schedules :
              \/ Show(d, k)
              \/ \E read, archived \in BOOLEAN : Update(d, k, read, archived)
  BY <1>4, ShowSteps, UpdateSteps
<1> QED BY <1>1, <1>2, <1>3, <1>4 DEF Next

\* The inductive invariant holds in every behaviour.
THEOREM Invariance == Spec => []IInv
BY InitHolds, StepHolds, PTL DEF Spec

\* Every variable keeps its type and every row the CHECKs of its table, so no
\* transaction of the code is refused by them.
THEOREM TypeCorrect == Spec => []TypeOK
<1>1. IInv => TypeOK BY DEF IInv
<1> QED BY <1>1, Invariance, PTL

\* A reminder is in the inbox exactly when its schedule is delivered, and
\* only with a valid approval.
THEOREM DeliveryNeedsConsent == Spec => []DeliveredWithConsent
<1>1. IInv => DeliveredWithConsent BY DEF IInv
<1> QED BY <1>1, Invariance, PTL

\* A revision names one content of a reminder.
THEOREM RevisionsAreNames == Spec => []RevisionNamesContent
<1>1. IInv => RevisionNamesContent BY DEF IInv, ViewInv, RevisionNamesContent
<1> QED BY <1>1, Invariance, PTL

-----------------------------------------------------------------------------
(* What no step does to a schedule. *)

\* The three action properties, of one schedule.
Lawful(j) ==
    /\ schedule[j].status \in {"delivered", "cancelled"} =>
           schedule'[j].status = schedule[j].status
    /\ schedule[j].status = "failed" =>
           schedule'[j].status \in {"failed", "cancelled"}
    /\ schedule[j].status = "running" /\ ~schedule[j].lapsed =>
           \/ schedule'[j].claim = schedule[j].claim
           \/ schedule'[j].status \in {"cancelled", "failed"}
    /\ reminder[j] = Null /\ reminder'[j] # Null => schedule[j].phase = "due"

LEMMA UnchangedLawful ==
    ASSUME NEW j \in Schedules, schedule'[j] = schedule[j],
           reminder[j] = Null => reminder'[j] = Null
    PROVE  Lawful(j)
BY DEF Lawful

LEMMA UserLawful ==
    ASSUME IInv, NEW k \in Schedules, NEW j \in Schedules,
           \/ ClockAdvances(k) \/ LeaseLapses(k) \/ ClockSetBack(k)
           \/ Create(k) \/ Approve(k) \/ Cancel(k)
    PROVE  Lawful(j)
<1>1. schedule \in [Schedules -> Rows] /\ schedule[k] \in Rows
  BY DEF IInv, TypeOK
<1>2. UNCHANGED reminder
  BY DEF ClockAdvances, LeaseLapses, ClockSetBack, Create, Approve, Cancel
<1>3. CASE ClockAdvances(k) \/ LeaseLapses(k) \/ ClockSetBack(k)
  <2>1. /\ schedule'[j].status = schedule[j].status
        /\ schedule'[j].claim = schedule[j].claim
    <3>1. CASE ClockAdvances(k)
      BY <1>1, <3>1 DEF ClockAdvances, Rows
    <3>2. CASE LeaseLapses(k)
      BY <1>1, <3>2 DEF LeaseLapses, Rows
    <3>3. CASE ClockSetBack(k)
      <4>1. CASE schedule' = [schedule EXCEPT ![k].lapsed = FALSE]
        BY <1>1, <4>1 DEF Rows
      <4>2. ASSUME NEW phase \in Before(schedule[k].phase),
                   schedule' = [schedule EXCEPT ![k].phase = phase,
                                                ![k].lapsed = FALSE]
            PROVE  /\ schedule'[j].status = schedule[j].status
                   /\ schedule'[j].claim = schedule[j].claim
        BY <1>1, <4>2 DEF Rows
      <4> QED BY <3>3, <4>1, <4>2 DEF ClockSetBack
    <3> QED BY <1>3, <3>1, <3>2, <3>3
  <2> QED BY <2>1, <1>2 DEF Lawful
<1>4. CASE Create(k) \/ Approve(k) \/ Cancel(k)
  <2>1. CASE j = k
    BY <1>1, <1>2, <1>4, <2>1 DEF Create, Approve, Cancel, Rows, Lawful
  <2>2. CASE j # k
    <3>1. schedule'[j] = schedule[j]
      BY <1>1, <1>4, <2>2 DEF Create, Approve, Cancel
    <3> QED BY <3>1, <1>2, UnchangedLawful
  <2> QED BY <2>1, <2>2
<1> QED BY <1>3, <1>4

LEMMA LoopLawful ==
    ASSUME IInv, NEW p \in Processes, NEW j \in Schedules,
           Running(p) \/ Crash(p)
    PROVE  Lawful(j)
<1> DEFINE k == process[p].item
<1>1. schedule \in [Schedules -> Rows] /\ reminder \in [Schedules -> Inbox \union {Null}]
  BY DEF IInv, TypeOK
<1>2. CASE UNCHANGED <<schedule, reminder>>
  BY <1>2, UnchangedLawful
<1>3. CASE Claim(p) /\ ~UNCHANGED schedule
  <2>1. k \in Schedules
    BY <1>3, ItemType DEF Claim, At
  <2>2. UNCHANGED reminder /\ Claimable(k)
    BY <1>3 DEF Claim
  <2>3. \/ Fail(k)
        \/ \E token \in Leases :
              schedule' = [schedule EXCEPT ![k].status = "running",
                               ![k].claim = token, ![k].lapsed = FALSE]
    BY <1>3 DEF Claim, FreshLeases
  <2>4. CASE j = k
    BY <1>1, <2>1, <2>2, <2>3, <2>4 DEF Claimable, Fail, Lawful, Rows
  <2>5. CASE j # k
    <3>1. schedule'[j] = schedule[j]
      BY <1>1, <2>3, <2>5 DEF Fail
    <3> QED BY <3>1, <2>2, UnchangedLawful
  <2> QED BY <2>4, <2>5
<1>4. CASE DeliverInTime(p)
  <2>1. k \in Schedules
    BY <1>4, ItemType DEF DeliverInTime, At
  <2>2. schedule[k].status = "running" /\ schedule[k].phase = "due"
    BY <1>4 DEF DeliverInTime, Deliverable
  <2>3. \/ schedule' = [schedule EXCEPT ![k].status = "delivered"]
        \/ Fail(k)
    BY <1>4 DEF DeliverInTime
  <2>4. CASE j = k
    <3>1. \/ schedule'[k].status = "failed"
          \/ schedule'[k].claim = schedule[k].claim
      BY <1>1, <2>1, <2>3 DEF Fail, Rows
    <3> QED BY <2>2, <2>4, <3>1 DEF Lawful
  <2>5. CASE j # k
    <3>1. schedule'[j] = schedule[j]
      BY <1>1, <2>3, <2>5 DEF Fail
    <3>2. reminder'[j] = reminder[j]
      BY <1>1, <1>4, <2>5 DEF DeliverInTime
    <3> QED BY <3>1, <3>2, UnchangedLawful
  <2> QED BY <2>4, <2>5
<1> QED BY <1>2, <1>3, <1>4 DEF Running, Scan, Claim, DeliverNothing, Crash

LEMMA DeviceLawful ==
    ASSUME IInv, NEW d \in Devices, NEW k \in Schedules, NEW j \in Schedules,
           \/ Show(d, k)
           \/ \E read, archived \in BOOLEAN : Update(d, k, read, archived)
    PROVE  Lawful(j)
<1>1. UNCHANGED schedule
  BY DEF Show, Update
<1>2. reminder[j] = Null => reminder'[j] = Null
  BY DEF IInv, TypeOK, ViewInv, Show, Update
<1> QED BY <1>1, <1>2, UnchangedLawful

LEMMA StepLawful == IInv /\ [Next]_vars => \A j \in Schedules : Lawful(j)
<1> SUFFICES ASSUME IInv, [Next]_vars, NEW j \in Schedules PROVE Lawful(j)
  OBVIOUS
<1>1. CASE UNCHANGED vars
  BY <1>1, UnchangedLawful DEF vars
<1>2. CASE \E k \in Schedules :
              \/ ClockAdvances(k) \/ LeaseLapses(k) \/ ClockSetBack(k)
              \/ Create(k) \/ Approve(k) \/ Cancel(k)
  BY <1>2, UserLawful
<1>3. CASE \E p \in Processes : Running(p) \/ Crash(p)
  BY <1>3, LoopLawful
<1>4. CASE \E d \in Devices, k \in Schedules :
              \/ Show(d, k)
              \/ \E read, archived \in BOOLEAN : Update(d, k, read, archived)
  BY <1>4, DeviceLawful
<1> QED BY <1>1, <1>2, <1>3, <1>4 DEF Next

\* What was delivered stays delivered and what was cancelled cancelled.
THEOREM EndStays == Spec => EndIsFinal
<1>1. (\A j \in Schedules : Lawful(j)) =>
          [\A k \in Schedules :
             /\ schedule[k].status \in {"delivered", "cancelled"} =>
                   schedule'[k].status = schedule[k].status
             /\ schedule[k].status = "failed" =>
                   schedule'[k].status \in {"failed", "cancelled"}]_vars
  BY DEF Lawful
<1> QED BY <1>1, StepLawful, Invariance, PTL DEF Spec, EndIsFinal

\* A lease that runs is not given to another process.
THEOREM LeaseKept == Spec => LeaseExclusive
<1>1. (\A j \in Schedules : Lawful(j)) =>
          [\A k \in Schedules :
             schedule[k].status = "running" /\ ~schedule[k].lapsed =>
                 \/ schedule'[k].claim = schedule[k].claim
                 \/ schedule'[k].status \in {"cancelled", "failed"}]_vars
  BY DEF Lawful
<1> QED BY <1>1, StepLawful, Invariance, PTL DEF Spec, LeaseExclusive

-----------------------------------------------------------------------------
(* Learning: the invariant. *)

SkillRows == [rev: 0 .. MaxSkillRevision, enabled: BOOLEAN, deleted: BOOLEAN]
ScoreRows == [skill: Skills \cup {None}, rev: 0 .. MaxSkillRevision,
              score: Scores \cup {None}, at: Nat, of: (Plans \X Skills) \cup {None}]
PlanRows == [status: {"absent", "ready", "invalidated", "deleted"},
             sources: SUBSET Skills, used: SUBSET Assessments,
             task: [Skills -> 0 .. MaxSkillRevision]]
TrainingRows == [result: {"none", "completed", "cancelled"},
                 evidence: {"none", "kept", "deleted"},
                 review: {"none", "pending", "confirmed", "invalidated"},
                 confirmed: Assessments \cup {None}]

Scored == {a \in Assessments : assessment[a].score # None}

\* Revisions past the bound of a behaviour are those of withdrawn scores.
LearnInv ==
    /\ revision \in Nat
    /\ revision + Cardinality(Scored) <= MaxRevision + Cardinality(Assessments)
    /\ skill \in [Skills -> SkillRows]
    /\ \A s \in Skills : skill[s].rev = 0 => ~skill[s].enabled
    /\ assessment \in [Assessments -> ScoreRows]
    /\ plan \in [Plans -> PlanRows]
    /\ training \in [Plans -> [Skills -> TrainingRows]]
    /\ ScoresAreBacked

LEMMA LearnFinite ==
    ASSUME NEW S, S \subseteq Assessments
    PROVE  /\ IsFiniteSet(S) /\ Cardinality(S) \in Nat
           /\ Cardinality(S) <= Cardinality(Assessments)
           /\ Cardinality(Assessments) \in Nat
<1>1. IsFiniteSet(Assessments)
  BY LearningAssumption
<1>2. IsFiniteSet(S) /\ Cardinality(S) <= Cardinality(Assessments)
  BY <1>1, FS_Subset
<1> QED BY <1>1, <1>2, FS_CardinalityType

LEMMA LearnInitHolds == LearningInit => LearnInv
<1> SUFFICES ASSUME LearningInit PROVE LearnInv
  OBVIOUS
<1> USE DEF LearningInit
<1>1. skill \in [Skills -> SkillRows] /\ \A s \in Skills : skill[s].rev = 0 => ~skill[s].enabled
  BY LearningAssumption DEF SkillRows
<1>2. assessment \in [Assessments -> ScoreRows] /\ \A a \in Assessments : assessment[a].score = None
  BY LearningAssumption DEF ScoreRows, NoAssessment
<1>3. plan \in [Plans -> PlanRows]
  BY LearningAssumption DEF PlanRows, NoPlan
<1>4. training \in [Plans -> [Skills -> TrainingRows]]
  BY DEF TrainingRows, NoTraining
<1>5. ScoresAreBacked
  BY <1>2 DEF ScoresAreBacked
<1>6. Scored = {}
  BY <1>2 DEF Scored
<1>7. revision + Cardinality(Scored) <= MaxRevision + Cardinality(Assessments)
  BY <1>6, LearnFinite, FS_EmptySet, LearningAssumption
<1> QED BY <1>1, <1>2, <1>3, <1>4, <1>5, <1>7 DEF LearnInv

\* A score that is withdrawn leaves the rest of its row.
LEMMA ScorelessRow ==
    ASSUME LearnInv, NEW S, assessment' = Scoreless(S)
    PROVE  /\ assessment' \in [Assessments -> ScoreRows]
           /\ \A a \in Assessments :
                  /\ a \in S => assessment'[a].score = None
                  /\ a \notin S => assessment'[a] = assessment[a]
                  /\ assessment[a].score = None => assessment'[a] = assessment[a]
                  /\ assessment'[a].of = assessment[a].of
           /\ Scored' = Scored \ S
<1>1. assessment \in [Assessments -> ScoreRows]
  BY DEF LearnInv
<1>2. ASSUME NEW a \in Assessments
      PROVE  /\ assessment'[a] \in ScoreRows
             /\ a \in S => assessment'[a].score = None
             /\ a \notin S => assessment'[a] = assessment[a]
             /\ assessment[a].score = None => assessment'[a] = assessment[a]
             /\ assessment'[a].of = assessment[a].of
  <2>1. assessment[a] \in ScoreRows
    BY <1>1
  <2>2. CASE a \in S
    <3>1. assessment'[a] = [assessment[a] EXCEPT !.score = None]
      BY <2>2 DEF Scoreless
    <3> QED BY <2>1, <2>2, <3>1 DEF ScoreRows
  <2>3. CASE a \notin S
    BY <2>1, <2>3 DEF Scoreless
  <2> QED BY <2>2, <2>3
<1>3. assessment' = [a \in Assessments |-> assessment'[a]]
  BY DEF Scoreless
<1>4. assessment' \in [Assessments -> ScoreRows]
  BY <1>2, <1>3
<1>5. Scored' = Scored \ S
  BY <1>2 DEF Scored
<1> QED BY <1>2, <1>4, <1>5

\* Each withdrawn score takes a revision of its own.
LEMMA ScoresCount ==
    ASSUME LearnInv, NEW S, NEW T, S \subseteq T, NEW n \in Nat,
           assessment' = Scoreless(T),
           revision' = revision + n + Cardinality({a \in S : assessment[a].score # None}),
           S \subseteq Assessments,
           n # 0 => n = 1 /\ revision < MaxRevision
    PROVE  /\ revision' \in Nat
           /\ revision' + Cardinality(Scored') <= MaxRevision + Cardinality(Assessments)
           /\ (n > 0 \/ \E a \in S : assessment[a].score # None) => revision' > revision
<1> DEFINE W == {a \in S : assessment[a].score # None}
<1>1. /\ IsFiniteSet(W) /\ Cardinality(W) \in Nat
      /\ Cardinality(Scored) \in Nat /\ IsFiniteSet(Scored) /\ Cardinality(Scored') \in Nat
      /\ Cardinality(Scored) <= Cardinality(Assessments) /\ Cardinality(Assessments) \in Nat
  BY LearnFinite DEF Scored
<1>2. Scored' = Scored \ T
  BY ScorelessRow
<1>3. Scored' \subseteq Scored \ W /\ W \subseteq Scored
  BY <1>2 DEF Scored
<1>4. Cardinality(Scored \ W) = Cardinality(Scored) - Cardinality(W)
  <2>1. Scored \cap W = W
    BY <1>3
  <2> QED BY <1>1, <2>1, FS_Difference, ZenonT(60)
<1>5. Cardinality(Scored') <= Cardinality(Scored) - Cardinality(W)
  <2>1. IsFiniteSet(Scored \ W)
    BY <1>1, FS_Difference
  <2> QED BY <1>3, <1>4, <2>1, FS_Subset
<1>6. revision \in Nat /\ MaxRevision \in Nat
      /\ revision + Cardinality(Scored) <= MaxRevision + Cardinality(Assessments)
  BY LearningAssumption DEF LearnInv
<1>7. (\E a \in S : assessment[a].score # None) => Cardinality(W) > 0
  BY <1>1, FS_EmptySet
<1> HIDE DEF W
<1>8. revision' = revision + n + Cardinality(W)
  BY DEF W
<1> QED BY <1>1, <1>5, <1>6, <1>7, <1>8

-----------------------------------------------------------------------------
(* Learning: steps. *)

\* What RevisionNamesSnapshot says of a step.
Named == <<skill, assessment>>' # <<skill, assessment>> => revision' > revision
LearnKeeps == LearnInv' /\ Named

\* The review that confirmed a score.
Stands(x, a) ==
    /\ Kept(x[1], x[2]) /\ training[x[1]][x[2]].review = "confirmed"
    /\ training[x[1]][x[2]].confirmed = a

LEMMA Backing ==
    ScoresAreBacked <=>
        \A a \in Assessments : assessment[a].score # None /\ assessment[a].of # None =>
            Stands(assessment[a].of, a)
BY DEF ScoresAreBacked, Stands

\* Whoever takes reviews away withdraws what they confirmed.
LEMMA BackingLost ==
    ASSUME LearnInv, NEW S, assessment' = Scoreless(S),
           NEW ps \in SUBSET (Plans \X Skills), Confirmed(ps) \subseteq S,
           \A x \in (Plans \X Skills) \ ps, a \in Assessments : Stands(x, a) => Stands(x, a)'
    PROVE  ScoresAreBacked'
<1>1. ASSUME NEW a \in Assessments, assessment'[a].score # None, assessment'[a].of # None
      PROVE  \E x : x = assessment'[a].of /\ Stands(x, a)'
  <2>1. a \notin S /\ assessment'[a] = assessment[a]
    BY <1>1, ScorelessRow
  <2>2. Stands(assessment[a].of, a)
    BY <1>1, <2>1, Backing DEF LearnInv
  <2>3. assessment[a].of \in Plans \X Skills
    <3>1. assessment[a] \in ScoreRows
      BY DEF LearnInv
    <3> QED BY <1>1, <2>1, <3>1 DEF ScoreRows
  <2>4. assessment[a].of \notin ps
    <3>1. SUFFICES ASSUME assessment[a].of \in ps PROVE FALSE
      OBVIOUS
    <3>2. a \in Confirmed(ps)
      BY <2>2, <3>1, LearningAssumption DEF Confirmed, Stands
    <3> QED BY <2>1, <3>2
  <2>5. PICK x \in Plans \X Skills : x = assessment[a].of
    BY <2>3
  <2>6. Stands(x, a)'
    BY <2>2, <2>4, <2>5
  <2> QED BY <2>1, <2>5, <2>6
<1> QED BY <1>1, SMTT(60) DEF ScoresAreBacked, Stands, Kept

\* Rows of training that stand as they stood keep what rests on them.
LEMMA BackingKept ==
    ASSUME LearnInv, UNCHANGED assessment,
           \A x \in Plans \X Skills, a \in Assessments : Stands(x, a) => Stands(x, a)'
    PROVE  ScoresAreBacked'
<1>1. assessment \in [Assessments -> ScoreRows]
  BY DEF LearnInv
<1>2. assessment' = Scoreless({})
  BY <1>1 DEF Scoreless
<1>3. Confirmed({}) \subseteq {}
  BY DEF Confirmed
<1> QED BY <1>2, <1>3, BackingLost

LEMMA SaveSkillKeeps ==
    ASSUME LearnInv, NEW s \in Skills, SaveSkill(s)
    PROVE  LearnKeeps
<1>1. /\ revision < MaxRevision /\ revision' = revision + 1 /\ revision \in Nat
      /\ MaxRevision \in Nat /\ MaxSkillRevision \in Nat
      /\ UNCHANGED <<assessment, plan, training>>
  BY LearningAssumption DEF SaveSkill, MayChange, LearnInv
<1>2. skill \in [Skills -> SkillRows] /\ skill[s].rev < MaxSkillRevision
  BY DEF LearnInv, SaveSkill
<1>3. PICK on \in BOOLEAN :
          skill' = [skill EXCEPT ![s].rev = skill[s].rev + 1, ![s].enabled = on]
  BY DEF SaveSkill
<1>4. PICK row : row = [skill[s] EXCEPT !.rev = skill[s].rev + 1, !.enabled = on]
  OBVIOUS
<1>5. row \in SkillRows /\ row.rev # 0
  <2>1. PICK old \in SkillRows : old = skill[s]
    BY <1>2
  <2>2. /\ old.rev \in Nat /\ old.rev + 1 \in 0 .. MaxSkillRevision /\ old.rev + 1 # 0
    BY <1>1, <1>2, <2>1 DEF SkillRows
  <2>3. row = [old EXCEPT !.rev = old.rev + 1, !.enabled = on]
    BY <1>4, <2>1
  <2> QED BY <1>3, <2>1, <2>2, <2>3 DEF SkillRows
<1>6. skill' = [skill EXCEPT ![s] = row]
  BY <1>3, <1>4
<1>7. /\ skill' \in [Skills -> SkillRows]
      /\ \A t \in Skills : skill'[t].rev = 0 => ~skill'[t].enabled
  BY <1>2, <1>5, <1>6 DEF LearnInv
<1>8. ScoresAreBacked'
  BY <1>1 DEF LearnInv, ScoresAreBacked, Kept
<1>9. revision' + Cardinality(Scored') <= MaxRevision + Cardinality(Assessments)
  <2>1. Scored' = Scored
    BY <1>1 DEF Scored
  <2>2. /\ Cardinality(Scored) \in Nat /\ Cardinality(Assessments) \in Nat
        /\ Cardinality(Scored) <= Cardinality(Assessments)
    BY LearnFinite DEF Scored
  <2> QED BY <1>1, <2>1, <2>2
<1> QED BY <1>1, <1>7, <1>8, <1>9 DEF LearnKeeps, LearnInv, Named

\* A new score, for no review or for one that is confirmed with it.
LEMMA AssessKeeps ==
    ASSUME LearnInv, NEW a \in Assessments, NEW s \in Skills, NEW score \in Scores,
           NEW of \in (Plans \X Skills) \cup {None}, Assess(a, s, score, of),
           UNCHANGED <<skill, plan>>,
           training' \in [Plans -> [Skills -> TrainingRows]],
           of # None => Stands(of, a)',
           \A x \in Plans \X Skills, b \in Assessments : Stands(x, b) => Stands(x, b)'
    PROVE  LearnKeeps
<1>1. /\ revision < MaxRevision /\ revision' = revision + 1 /\ revision \in Nat
      /\ MaxRevision \in Nat
  BY LearningAssumption DEF Assess, MayChange, LearnInv
<1>2. assessment \in [Assessments -> ScoreRows] /\ skill[s] \in SkillRows
  BY DEF LearnInv
<1>3. PICK row : row = [skill |-> s, rev |-> skill[s].rev, score |-> score, at |-> revision,
                        of |-> of]
  OBVIOUS
<1>4. row \in ScoreRows /\ row.of = of
  BY <1>1, <1>2, <1>3 DEF ScoreRows, SkillRows
<1>5. assessment' = [assessment EXCEPT ![a] = row]
  BY <1>3 DEF Assess
<1>6. /\ assessment' \in [Assessments -> ScoreRows] /\ assessment'[a] = row
      /\ \A b \in Assessments \ {a} : assessment'[b] = assessment[b]
  BY <1>2, <1>4, <1>5
<1>7. revision' + Cardinality(Scored') <= MaxRevision + Cardinality(Assessments)
  <2>1. /\ Cardinality(Scored') \in Nat /\ Cardinality(Assessments) \in Nat
        /\ Cardinality(Scored') <= Cardinality(Assessments)
    BY LearnFinite DEF Scored
  <2> QED BY <1>1, <2>1
<1>8. ASSUME NEW b \in Assessments, assessment'[b].score # None, assessment'[b].of # None
      PROVE  \E x : x = assessment'[b].of /\ Stands(x, b)'
  <2>1. CASE b = a
    BY <1>4, <1>6, <1>8, <2>1
  <2>2. CASE b # a
    <3>1. assessment'[b] = assessment[b] /\ assessment[b] \in ScoreRows
      BY <1>2, <1>6, <2>2
    <3>2. Stands(assessment[b].of, b) /\ assessment[b].of \in Plans \X Skills
      BY <1>8, <3>1, Backing DEF LearnInv, ScoreRows
    <3>3. PICK x \in Plans \X Skills : x = assessment[b].of
      BY <3>2
    <3>4. Stands(x, b)'
      BY <3>2, <3>3
    <3> QED BY <3>1, <3>3, <3>4
  <2> QED BY <2>1, <2>2
<1>9. ScoresAreBacked'
  BY <1>8, SMTT(60) DEF ScoresAreBacked, Stands, Kept
<1>10. /\ skill' \in [Skills -> SkillRows] /\ plan' \in [Plans -> PlanRows]
       /\ \A t \in Skills : skill'[t].rev = 0 => ~skill'[t].enabled
  BY DEF LearnInv
<1>11. Named /\ revision' \in Nat
  BY <1>1 DEF Named
<1> QED BY <1>6, <1>7, <1>9, <1>10, <1>11 DEF LearnKeeps, LearnInv

LEMMA RecordKeeps ==
    ASSUME LearnInv, NEW a \in Assessments, RecordAssessment(a)
    PROVE  LearnKeeps
<1>1. PICK s \in Known, score \in Scores : Assess(a, s, score, None)
  BY DEF RecordAssessment
<1>2. UNCHANGED <<skill, plan, training>> /\ s \in Skills
  BY DEF RecordAssessment, Known
<1>3. training' \in [Plans -> [Skills -> TrainingRows]]
  BY <1>2 DEF LearnInv
<1>4. \A x \in Plans \X Skills, b \in Assessments : Stands(x, b) => Stands(x, b)'
  BY <1>2 DEF Stands, Kept
<1>5. PICK of \in (Plans \X Skills) \cup {None} : of = None
  OBVIOUS
<1> QED BY <1>1, <1>2, <1>3, <1>4, <1>5, AssessKeeps

LEMMA ConfirmKeeps ==
    ASSUME LearnInv, NEW p \in Plans, NEW s \in Skills, ConfirmReview(p, s)
    PROVE  LearnKeeps
<1>1. PICK a \in Assessments, score \in Scores :
          /\ Assess(a, s, score, <<p, s>>)
          /\ training' = [training EXCEPT ![p][s].review = "confirmed",
                                          ![p][s].confirmed = a]
  BY DEF ConfirmReview
<1>2. UNCHANGED <<skill, plan>> /\ Kept(p, s) /\ training[p][s].review = "pending"
  BY DEF ConfirmReview
<1>3. training \in [Plans -> [Skills -> TrainingRows]]
  BY DEF LearnInv
<1>4. PICK row : row = [training[p][s] EXCEPT !.review = "confirmed", !.confirmed = a]
  OBVIOUS
<1>5. /\ row \in TrainingRows /\ row.review = "confirmed" /\ row.confirmed = a
      /\ row.evidence = training[p][s].evidence
  <2>1. training[p][s] \in TrainingRows
    BY <1>3
  <2> QED BY <1>4, <2>1 DEF TrainingRows
<1>6. training' = [training EXCEPT ![p][s] = row]
  BY <1>1, <1>4
<1>7. /\ training' \in [Plans -> [Skills -> TrainingRows]] /\ training'[p][s] = row
      /\ \A q \in Plans, t \in Skills : <<q, t>> # <<p, s>> => training'[q][t] = training[q][t]
  BY <1>3, <1>5, <1>6
<1>8. ASSUME NEW x \in Plans \X Skills, NEW b \in Assessments, Stands(x, b)
      PROVE  Stands(x, b)'
  <2>1. PICK q \in Plans, t \in Skills : x = <<q, t>>
    BY DEF Stands
  <2>2. <<q, t>> # <<p, s>>
    BY <1>2, <1>8, <2>1 DEF Stands
  <2>3. training'[q][t] = training[q][t]
    BY <1>7, <2>2
  <2> QED BY <1>2, <1>8, <2>1, <2>3 DEF Stands, Kept
<1>9. PICK of \in (Plans \X Skills) \cup {None} : of = <<p, s>>
  OBVIOUS
<1>10. Stands(of, a)'
  BY <1>2, <1>5, <1>7, <1>9 DEF Stands, Kept
<1> QED BY <1>1, <1>2, <1>7, <1>8, <1>9, <1>10, AssessKeeps

LEMMA CreatePlanKeeps ==
    ASSUME LearnInv, NEW p \in Plans, CreatePlan(p)
    PROVE  LearnKeeps
<1>1. UNCHANGED <<revision, skill, assessment, training>> /\ plan[p].status = "absent"
  BY DEF CreatePlan
<1>2. PICK relevant \in SUBSET Known : \E tasks \in SUBSET {s \in relevant : Ready(s)} :
            plan' = [plan EXCEPT ![p] =
                [status |-> "ready", sources |-> Known,
                 used |-> UNION {Latest(s) : s \in {t \in relevant : ~skill[t].deleted}},
                 task |-> [s \in Skills |-> IF s \in tasks THEN skill[s].rev ELSE 0]]]
  BY DEF CreatePlan
<1>3. PICK tasks \in SUBSET {s \in relevant : Ready(s)} :
            plan' = [plan EXCEPT ![p] =
                [status |-> "ready", sources |-> Known,
                 used |-> UNION {Latest(s) : s \in {t \in relevant : ~skill[t].deleted}},
                 task |-> [s \in Skills |-> IF s \in tasks THEN skill[s].rev ELSE 0]]]
  BY <1>2
<1>4. PICK used : used = UNION {Latest(s) : s \in {t \in relevant : ~skill[t].deleted}}
  OBVIOUS
<1>5. used \subseteq Assessments
  BY <1>4 DEF Latest
<1>6. PICK task : task = [s \in Skills |-> IF s \in tasks THEN skill[s].rev ELSE 0]
  OBVIOUS
<1>7. task \in [Skills -> 0 .. MaxSkillRevision]
  <2>1. \A s \in Skills : skill[s].rev \in 0 .. MaxSkillRevision
    BY DEF LearnInv, SkillRows
  <2> QED BY <1>6, <2>1, LearningAssumption
<1>8. PICK row : row = [status |-> "ready", sources |-> Known, used |-> used, task |-> task]
  OBVIOUS
<1>9. row \in PlanRows
  BY <1>5, <1>7, <1>8 DEF PlanRows, Known
<1>10. plan' = [plan EXCEPT ![p] = row]
  BY <1>3, <1>4, <1>6, <1>8
<1>11. plan' \in [Plans -> PlanRows] /\ \A q \in Plans \ {p} : plan'[q] = plan[q]
  BY <1>9, <1>10 DEF LearnInv
<1>12. ASSUME NEW x \in Plans \X Skills, NEW b \in Assessments, Stands(x, b)
       PROVE  Stands(x, b)'
  <2>1. PICK q \in Plans, t \in Skills : x = <<q, t>>
    BY DEF Stands
  <2>2. q # p
    BY <1>1, <1>12, <2>1 DEF Stands, Kept
  <2> QED BY <1>1, <1>11, <1>12, <2>1, <2>2 DEF Stands, Kept
<1>13. ScoresAreBacked'
  BY <1>1, <1>12, BackingKept
<1>14. Scored' = Scored
  BY <1>1 DEF Scored
<1> QED BY <1>1, <1>11, <1>13, <1>14 DEF LearnKeeps, LearnInv, Named

\* The rows of training below plans that go.
LEMMA ClearedRows ==
    ASSUME LearnInv, NEW ps \in SUBSET Plans, training' = Cleared(ps)
    PROVE  /\ training' \in [Plans -> [Skills -> TrainingRows]]
           /\ \A q \in Plans \ ps : training'[q] = training[q]
<1>1. training \in [Plans -> [Skills -> TrainingRows]]
  BY DEF LearnInv
<1>2. NoTraining \in TrainingRows
  BY DEF NoTraining, TrainingRows
<1> QED BY <1>1, <1>2 DEF Cleared

\* Plans that are no longer ready take what rests on them away.
LEMMA PlansLost ==
    ASSUME LearnInv, NEW ps \in SUBSET Plans, training' = Cleared(ps),
           \A q \in Plans \ ps : plan'[q] = plan[q],
           NEW S, assessment' = Scoreless(S), Confirmed(OfPlans(ps)) \subseteq S
    PROVE  ScoresAreBacked'
<1>1. PICK xs \in SUBSET (Plans \X Skills) : xs = OfPlans(ps)
  BY DEF OfPlans
<1>2. ASSUME NEW x \in (Plans \X Skills) \ xs, NEW a \in Assessments, Stands(x, a)
      PROVE  Stands(x, a)'
  <2>1. PICK q \in Plans, t \in Skills : x = <<q, t>>
    BY DEF Stands
  <2>2. q \notin ps
    BY <1>1, <1>2, <2>1 DEF Stands, OfPlans
  <2>3. training'[q] = training[q] /\ plan'[q] = plan[q]
    BY <2>2, ClearedRows
  <2> QED BY <1>2, <2>1, <2>3 DEF Stands, Kept
<1> QED BY <1>1, <1>2, BackingLost

LEMMA EmptiedRow ==
    ASSUME LearnInv, NEW p \in Plans, NEW status \in {"invalidated", "deleted"}
    PROVE  /\ Emptied(p, status) \in PlanRows
           /\ [Emptied(p, status) EXCEPT !.sources = {}] \in PlanRows
<1>1. plan[p].sources \subseteq Skills
  BY DEF LearnInv, PlanRows
<1>2. NoPlan \in PlanRows
  BY LearningAssumption DEF PlanRows, NoPlan
<1>3. ASSUME NEW row \in PlanRows, NEW sources \in SUBSET Skills
      PROVE  [row EXCEPT !.status = status, !.sources = sources] \in PlanRows
  BY DEF PlanRows
<1>4. Emptied(p, status) \in PlanRows
  BY <1>1, <1>2, <1>3 DEF Emptied
<1>5. ASSUME NEW row \in PlanRows PROVE [row EXCEPT !.sources = {}] \in PlanRows
  BY DEF PlanRows
<1> QED BY <1>4, <1>5

LEMMA DeletePlanKeeps ==
    ASSUME LearnInv, NEW p \in Plans, DeletePlan(p)
    PROVE  LearnKeeps
<1>1. PICK lost : lost = Confirmed(OfPlans({p}))
  OBVIOUS
<1>2. /\ UNCHANGED skill /\ training' = Cleared({p})
      /\ assessment' = Scoreless(lost \cup {})
      /\ revision' = revision + Cardinality({a \in lost \ {} : assessment[a].score # None})
  BY <1>1 DEF DeletePlan, Withdraw
<1>3. lost \subseteq Assessments
  <2>1. \A x \in Plans \X Skills : training[x[1]][x[2]].confirmed \in Assessments \cup {None}
    BY DEF LearnInv, TrainingRows
  <2> QED BY <1>1, <2>1 DEF Confirmed, OfPlans
<1>4. /\ plan' \in [Plans -> PlanRows]
      /\ \A q \in Plans \ {p} : plan'[q] = plan[q]
  BY EmptiedRow DEF DeletePlan, LearnInv
<1>5. ScoresAreBacked' /\ training' \in [Plans -> [Skills -> TrainingRows]]
  <2>1. PICK ps \in SUBSET Plans : ps = {p}
    OBVIOUS
  <2>2. PICK S : S = lost \cup {}
    OBVIOUS
  <2>3. /\ training' = Cleared(ps) /\ \A q \in Plans \ ps : plan'[q] = plan[q]
        /\ assessment' = Scoreless(S) /\ Confirmed(OfPlans(ps)) \subseteq S
    BY <1>1, <1>2, <1>4, <2>1, <2>2
  <2> QED BY <2>3, PlansLost, ClearedRows
<1>6. /\ revision' \in Nat
      /\ revision' + Cardinality(Scored') <= MaxRevision + Cardinality(Assessments)
      /\ (\E a \in lost : assessment[a].score # None) => revision' > revision
  <2>1. PICK S : S = lost \cup {}
    OBVIOUS
  <2>2. PICK n \in Nat : n = 0
    OBVIOUS
  <2>3. /\ assessment' = Scoreless(S) /\ lost \subseteq S
        /\ revision' = revision + n + Cardinality({a \in lost : assessment[a].score # None})
        /\ n # 0 => n = 1 /\ revision < MaxRevision
    <3>1. lost \ {} = lost /\ revision \in Nat
      BY DEF LearnInv
    <3> QED BY <1>2, <2>1, <2>2, <3>1
  <2> QED BY <1>3, <2>3, ScoresCount
<1>7. /\ assessment' \in [Assessments -> ScoreRows]
      /\ assessment' # assessment => \E a \in lost : assessment[a].score # None
  <2>1. PICK S : S = lost \cup {}
    OBVIOUS
  <2>2. /\ assessment' \in [Assessments -> ScoreRows]
        /\ \A a \in Assessments : /\ a \notin S => assessment'[a] = assessment[a]
                                  /\ assessment[a].score = None => assessment'[a] = assessment[a]
    BY <1>2, <2>1, ScorelessRow
  <2>3. assessment \in [Assessments -> ScoreRows]
    BY DEF LearnInv
  <2> QED BY <2>1, <2>2, <2>3
<1>8. /\ skill' \in [Skills -> SkillRows]
      /\ \A s \in Skills : skill'[s].rev = 0 => ~skill'[s].enabled
  BY <1>2 DEF LearnInv
<1>9. Named
  <2>1. skill' = skill
    BY <1>2
  <2> QED BY <1>6, <1>7, <2>1 DEF Named
<1> QED BY <1>2, <1>4, <1>5, <1>6, <1>7, <1>8, <1>9 DEF LearnKeeps, LearnInv

LEMMA DeleteSkillKeeps ==
    ASSUME LearnInv, NEW s \in Skills, DeleteSkill(s)
    PROVE  LearnKeeps
<1>1. PICK own : own = {a \in Assessments : assessment[a].skill = s}
  OBVIOUS
<1>2. PICK ps \in SUBSET Plans : ps = MadeFrom(s)
  BY DEF MadeFrom
<1>3. PICK lost : lost = Confirmed(OfPlans(ps))
  OBVIOUS
<1>4. /\ MayChange /\ skill[s].rev < MaxSkillRevision
      /\ skill' = [skill EXCEPT ![s] =
                      [rev |-> skill[s].rev + 1, enabled |-> FALSE, deleted |-> TRUE]]
      /\ assessment' = Scoreless(lost \cup own)
      /\ revision' = revision + 1 + Cardinality({a \in lost \ own : assessment[a].score # None})
      /\ plan' = [p \in Plans |-> IF p \in ps THEN Emptied(p, "invalidated") ELSE plan[p]]
      /\ training' = Cleared(ps)
  BY <1>1, <1>2, <1>3 DEF DeleteSkill
<1>5. lost \subseteq Assessments
  <2>1. \A x \in Plans \X Skills : training[x[1]][x[2]].confirmed \in Assessments \cup {None}
    BY DEF LearnInv, TrainingRows
  <2> QED BY <1>2, <1>3, <2>1 DEF Confirmed, OfPlans
<1>6. /\ skill' \in [Skills -> SkillRows]
      /\ \A t \in Skills : skill'[t].rev = 0 => ~skill'[t].enabled
  <2>1. skill \in [Skills -> SkillRows] /\ MaxSkillRevision \in Nat
    BY LearningAssumption DEF LearnInv
  <2>2. PICK row : row = [rev |-> skill[s].rev + 1, enabled |-> FALSE, deleted |-> TRUE]
    OBVIOUS
  <2>3. row \in SkillRows /\ ~row.enabled
    BY <1>4, <2>1, <2>2 DEF SkillRows
  <2> QED BY <1>4, <2>1, <2>2, <2>3 DEF LearnInv
<1>7. plan' \in [Plans -> PlanRows] /\ \A q \in Plans \ ps : plan'[q] = plan[q]
  <2>1. \A q \in Plans : plan[q] \in PlanRows /\ Emptied(q, "invalidated") \in PlanRows
    BY EmptiedRow DEF LearnInv
  <2> QED BY <1>4, <2>1
<1>8. PICK S : S = lost \cup own
  OBVIOUS
<1>9. ScoresAreBacked' /\ training' \in [Plans -> [Skills -> TrainingRows]]
  BY <1>3, <1>4, <1>7, <1>8, PlansLost, ClearedRows
<1>10. /\ revision' \in Nat
       /\ revision' + Cardinality(Scored') <= MaxRevision + Cardinality(Assessments)
       /\ revision' > revision
  <2>1. PICK T : T = lost \ own
    OBVIOUS
  <2>2. PICK n \in Nat : n = 1
    OBVIOUS
  <2>3. /\ T \subseteq Assessments /\ T \subseteq S /\ assessment' = Scoreless(S)
        /\ revision' = revision + n + Cardinality({a \in T : assessment[a].score # None})
        /\ n # 0 => n = 1 /\ revision < MaxRevision /\ n > 0
    BY <1>4, <1>5, <1>8, <2>1, <2>2 DEF MayChange
  <2> QED BY <2>2, <2>3, ScoresCount
<1>11. assessment' \in [Assessments -> ScoreRows]
  BY <1>4, <1>8, ScorelessRow
<1> QED BY <1>6, <1>7, <1>9, <1>10, <1>11 DEF LearnKeeps, LearnInv, Named

LEMMA DeleteEvidenceKeeps ==
    ASSUME LearnInv, NEW p \in Plans, NEW s \in Skills, DeleteEvidence(p, s)
    PROVE  LearnKeeps
<1>1. PICK xs \in SUBSET (Plans \X Skills) : xs = {<<p, s>>}
  <2>1. {<<p, s>>} \in SUBSET (Plans \X Skills)
    BY SMT
  <2> QED BY <2>1, Zenon
<1>2. PICK lost : lost = Confirmed(xs)
  OBVIOUS
<1>3. /\ UNCHANGED <<skill, plan>>
      /\ training' = [training EXCEPT ![p][s].evidence = "deleted",
             ![p][s].review = IF training[p][s].review = "none" THEN "none" ELSE "invalidated"]
      /\ assessment' = Scoreless(lost \cup {})
      /\ revision' = revision + Cardinality({a \in lost \ {} : assessment[a].score # None})
  BY <1>1, <1>2 DEF DeleteEvidence, WithdrawEvidence, Withdraw
<1>4. training \in [Plans -> [Skills -> TrainingRows]]
  BY DEF LearnInv
<1>5. lost \subseteq Assessments
  <2>1. \A x \in Plans \X Skills : training[x[1]][x[2]].confirmed \in Assessments \cup {None}
    BY <1>4 DEF TrainingRows
  <2> QED BY <1>1, <1>2, <2>1 DEF Confirmed
<1>6. PICK row : row = [training[p][s] EXCEPT !.evidence = "deleted",
             !.review = IF training[p][s].review = "none" THEN "none" ELSE "invalidated"]
  OBVIOUS
<1>7. row \in TrainingRows
  <2>1. training[p][s] \in TrainingRows
    BY <1>4
  <2> QED BY <1>6, <2>1 DEF TrainingRows
<1>8. training' = [training EXCEPT ![p][s] = row]
  BY <1>3, <1>6
<1>9. /\ training' \in [Plans -> [Skills -> TrainingRows]]
      /\ \A q \in Plans, t \in Skills : <<q, t>> # <<p, s>> => training'[q][t] = training[q][t]
  BY <1>4, <1>7, <1>8
<1>10. PICK S : S = lost \cup {}
  OBVIOUS
<1>11. ScoresAreBacked'
  <2>1. ASSUME NEW x \in (Plans \X Skills) \ xs, NEW a \in Assessments, Stands(x, a)
        PROVE  Stands(x, a)'
    <3>1. PICK q \in Plans, t \in Skills : x = <<q, t>>
      BY DEF Stands
    <3>2. training'[q][t] = training[q][t]
      BY <1>1, <1>9, <2>1, <3>1
    <3> QED BY <1>3, <2>1, <3>1, <3>2 DEF Stands, Kept
  <2>2. Confirmed(xs) \subseteq S /\ assessment' = Scoreless(S)
    BY <1>2, <1>3, <1>10
  <2> QED BY <2>1, <2>2, BackingLost
<1>12. /\ revision' \in Nat
       /\ revision' + Cardinality(Scored') <= MaxRevision + Cardinality(Assessments)
       /\ (\E a \in lost : assessment[a].score # None) => revision' > revision
  <2>1. PICK n \in Nat : n = 0
    OBVIOUS
  <2>2. /\ assessment' = Scoreless(S) /\ lost \subseteq S
        /\ revision' = revision + n + Cardinality({a \in lost : assessment[a].score # None})
        /\ n # 0 => n = 1 /\ revision < MaxRevision
    <3>1. lost \ {} = lost /\ revision \in Nat
      BY DEF LearnInv
    <3> QED BY <1>3, <1>10, <2>1, <3>1
  <2> QED BY <1>5, <2>2, ScoresCount
<1>13. /\ assessment' \in [Assessments -> ScoreRows]
       /\ assessment' # assessment => \E a \in lost : assessment[a].score # None
  <2>1. /\ assessment' \in [Assessments -> ScoreRows]
        /\ \A a \in Assessments : /\ a \notin S => assessment'[a] = assessment[a]
                                  /\ assessment[a].score = None => assessment'[a] = assessment[a]
    BY <1>3, <1>10, ScorelessRow
  <2>2. assessment \in [Assessments -> ScoreRows]
    BY DEF LearnInv
  <2> QED BY <1>10, <2>1, <2>2
<1>14. /\ skill' \in [Skills -> SkillRows] /\ plan' \in [Plans -> PlanRows]
       /\ \A t \in Skills : skill'[t].rev = 0 => ~skill'[t].enabled
  BY <1>3 DEF LearnInv
<1>15. Named
  <2>1. skill' = skill
    BY <1>3
  <2> QED BY <1>12, <1>13, <2>1 DEF Named
<1> QED BY <1>9, <1>11, <1>12, <1>13, <1>14, <1>15 DEF LearnKeeps, LearnInv

\* A result, its evidence and a review that waits.
LEMMA TrainingKeeps ==
    ASSUME LearnInv, NEW p \in Plans, NEW s \in Skills,
           RecordResult(p, s) \/ SaveEvidence(p, s) \/ SaveReview(p, s)
    PROVE  LearnKeeps
<1>1. UNCHANGED <<revision, skill, assessment, plan>>
  BY DEF RecordResult, SaveEvidence, SaveReview
<1>2. training \in [Plans -> [Skills -> TrainingRows]] /\ training[p][s] \in TrainingRows
  BY DEF LearnInv
<1>3. \E row \in TrainingRows :
          /\ training' = [training EXCEPT ![p][s] = row]
          /\ row.review = training[p][s].review \/ training[p][s].review = "none"
          /\ row.confirmed = training[p][s].confirmed
          /\ training[p][s].evidence = "kept" => row.evidence = "kept"
  <2>1. CASE RecordResult(p, s)
    <3>1. PICK outcome \in {"completed", "cancelled"} :
              training' = [training EXCEPT ![p][s].result = outcome]
      BY <2>1 DEF RecordResult
    <3>2. PICK row : row = [training[p][s] EXCEPT !.result = outcome]
      OBVIOUS
    <3>3. row \in TrainingRows /\ row.review = training[p][s].review
          /\ row.confirmed = training[p][s].confirmed /\ row.evidence = training[p][s].evidence
      BY <1>2, <3>2 DEF TrainingRows
    <3> QED BY <3>1, <3>2, <3>3
  <2>2. CASE SaveEvidence(p, s)
    <3>1. training' = [training EXCEPT ![p][s].evidence = "kept"]
      BY <2>2 DEF SaveEvidence
    <3>2. PICK row : row = [training[p][s] EXCEPT !.evidence = "kept"]
      OBVIOUS
    <3>3. row \in TrainingRows /\ row.review = training[p][s].review
          /\ row.confirmed = training[p][s].confirmed /\ row.evidence = "kept"
      BY <1>2, <3>2 DEF TrainingRows
    <3> QED BY <3>1, <3>2, <3>3
  <2>3. CASE SaveReview(p, s)
    <3>1. training' = [training EXCEPT ![p][s].review = "pending"]
          /\ training[p][s].review = "none"
      BY <2>3 DEF SaveReview
    <3>2. PICK row : row = [training[p][s] EXCEPT !.review = "pending"]
      OBVIOUS
    <3>3. row \in TrainingRows
          /\ row.confirmed = training[p][s].confirmed /\ row.evidence = training[p][s].evidence
      BY <1>2, <3>2 DEF TrainingRows
    <3> QED BY <3>1, <3>2, <3>3
  <2> QED BY <2>1, <2>2, <2>3
<1>4. PICK row \in TrainingRows :
          /\ training' = [training EXCEPT ![p][s] = row]
          /\ row.review = training[p][s].review \/ training[p][s].review = "none"
          /\ row.confirmed = training[p][s].confirmed
          /\ training[p][s].evidence = "kept" => row.evidence = "kept"
  BY <1>3
<1>5. /\ training' \in [Plans -> [Skills -> TrainingRows]] /\ training'[p][s] = row
      /\ \A q \in Plans, t \in Skills : <<q, t>> # <<p, s>> => training'[q][t] = training[q][t]
  BY <1>2, <1>4
<1>6. ASSUME NEW x \in Plans \X Skills, NEW a \in Assessments, Stands(x, a)
      PROVE  Stands(x, a)'
  <2>1. PICK q \in Plans, t \in Skills : x = <<q, t>>
    BY DEF Stands
  <2>2. CASE <<q, t>> # <<p, s>>
    <3>1. training'[q][t] = training[q][t]
      BY <1>5, <2>2
    <3> QED BY <1>1, <1>6, <2>1, <3>1 DEF Stands, Kept
  <2>3. CASE <<q, t>> = <<p, s>>
    <3>1. q = p /\ t = s
      BY <2>3
    <3> QED BY <1>1, <1>4, <1>5, <1>6, <2>1, <3>1 DEF Stands, Kept
  <2> QED BY <2>2, <2>3
<1>7. ScoresAreBacked'
  BY <1>1, <1>6, BackingKept
<1>8. Scored' = Scored
  BY <1>1 DEF Scored
<1> QED BY <1>1, <1>5, <1>7, <1>8 DEF LearnKeeps, LearnInv, Named

LEMMA LearnStepKeeps == LearnInv /\ [LearningNext]_learningVars => LearnKeeps
<1>1. ASSUME LearnInv, LearningNext PROVE LearnKeeps
  BY <1>1, SaveSkillKeeps, DeleteSkillKeeps, RecordKeeps, CreatePlanKeeps, DeletePlanKeeps,
     TrainingKeeps, DeleteEvidenceKeeps, ConfirmKeeps DEF LearningNext
<1>2. ASSUME LearnInv, UNCHANGED learningVars PROVE LearnKeeps
  BY <1>2 DEF LearnKeeps, LearnInv, Named, learningVars, Scored, ScoresAreBacked, Kept
<1> QED BY <1>1, <1>2
-----------------------------------------------------------------------------
(* Advice: the invariant. *)

AdviceWorkers ==
    [pc: {"idle", "claimed", "verified", "marked", "finish"},
     req: Authorizations \cup {None}, copy: AuthType, output: BOOLEAN]

\* What a row says of itself.
AuthRow(x) ==
    /\ x \in AuthType
    /\ x.status = "none" => x = NoAuth
    /\ x.status # "none" => x.plan \in Plans /\ x.task \in Skills
    /\ x.advice => x.status = "succeeded"
    /\ x.sent => x.token # None

\* What its advice rests on.
Grounded(x) ==
    x.advice => /\ Reviewable(x.plan, x.task)
                /\ ~x.local => link.rev = x.quoted

AuthInv(m) ==
    /\ AuthRow(auth[m]) /\ Grounded(auth[m])
    /\ asked[m] \in 0 .. 1
    /\ asked[m] = 1 => auth[m].sent

\* A request belongs to the worker that claimed it, and to no other.
WorkerInv(w) ==
    /\ worker[w] \in AdviceWorkers
    /\ worker[w].pc # "idle" => /\ worker[w].req \in Authorizations
                                /\ auth[worker[w].req].token = w
    /\ worker[w].pc = "marked" => /\ auth[worker[w].req].sent
                                  /\ asked[worker[w].req] = 0

AdviceInv ==
    /\ LearnInv
    /\ link \in [rev: 0 .. MaxLink, active: BOOLEAN, late: BOOLEAN]
    /\ died \in 0 .. MaxFaults
    /\ auth = [m \in Authorizations |-> auth[m]]
    /\ worker = [w \in Workers |-> worker[w]]
    /\ asked = [m \in Authorizations |-> asked[m]]
    /\ \A m \in Authorizations : AuthInv(m)
    /\ \A w \in Workers : WorkerInv(w)

LEMMA NoAuthRow == AuthRow(NoAuth)
<1>1. NoAuth \in AuthType
  BY AdviceAssumption DEF NoAuth, AuthType, LiveAdvice, AllowedOnly, EndedAdvice
<1> QED BY <1>1 DEF AuthRow, NoAuth

LEMMA AdviceInitHolds == AdviceInit => AdviceInv
<1> SUFFICES ASSUME AdviceInit PROVE AdviceInv
  OBVIOUS
<1>1. LearnInv
  BY LearnInitHolds DEF AdviceInit
<1>2. ASSUME NEW m \in Authorizations PROVE AuthInv(m)
  BY NoAuthRow DEF AuthInv, Grounded, AdviceInit, NoAuth
<1>3. ASSUME NEW w \in Workers PROVE WorkerInv(w)
  <2>1. worker[w] = Resting
    BY DEF AdviceInit
  <2>2. Resting \in AdviceWorkers /\ Resting.pc = "idle"
    BY NoAuthRow DEF Resting, AdviceWorkers, AuthRow
  <2> QED BY <2>1, <2>2 DEF WorkerInv
<1>4. /\ link \in [rev: 0 .. MaxLink, active: BOOLEAN, late: BOOLEAN]
      /\ died \in 0 .. MaxFaults
  BY AdviceAssumption DEF AdviceInit
<1>5. /\ auth = [m \in Authorizations |-> auth[m]]
      /\ worker = [w \in Workers |-> worker[w]]
      /\ asked = [m \in Authorizations |-> asked[m]]
  BY DEF AdviceInit
<1> QED BY <1>1, <1>2, <1>3, <1>4, <1>5 DEF AdviceInv

-----------------------------------------------------------------------------
(* Advice: what a row becomes. *)

\* A row that gains nothing: it keeps whose it is, and advice only as it was.
Softened(x, y) ==
    /\ y \in AuthType
    /\ y.plan = x.plan /\ y.task = x.task /\ y.local = x.local
    /\ y.quoted = x.quoted /\ y.token = x.token /\ y.sent = x.sent
    /\ y.advice => x.advice /\ y.status = x.status
    /\ x.status # "none" => y.status # "none"
    /\ x.status = "none" => y = x

LEMMA SoftRow ==
    ASSUME NEW x, NEW y, AuthRow(x), Softened(x, y)
    PROVE  AuthRow(y)
BY DEF AuthRow, Softened

LEMMA SoftSame == \A x : AuthRow(x) => Softened(x, x)
BY DEF AuthRow, Softened

LEMMA EndSoftens ==
    ASSUME NEW x, AuthRow(x), x.status # "none", NEW status \in EndedAdvice
    PROVE  /\ Softened(x, EndAdvice(x, status)) /\ ~EndAdvice(x, status).advice
           /\ EndAdvice(x, status).status = status
<1>1. PICK y : y = [x EXCEPT !.status = status, !.advice = FALSE]
  OBVIOUS
<1>2. /\ y \in AuthType /\ y.status = status /\ ~y.advice
      /\ y.plan = x.plan /\ y.task = x.task /\ y.local = x.local
      /\ y.quoted = x.quoted /\ y.token = x.token /\ y.sent = x.sent
  BY <1>1 DEF AuthRow, AuthType
<1>3. status # "none"
  BY DEF EndedAdvice
<1> QED BY <1>1, <1>2, <1>3 DEF Softened, EndAdvice

\* What a read finds alive is the row itself, and stands on what it needs.
LEMMA ReadSoftens ==
    ASSUME NEW x, AuthRow(x)
    PROVE  /\ Softened(x, AdviceRead(x))
           /\ AdviceRead(x).status \in LiveAdvice =>
                  AdviceRead(x) = x /\ Linked(x) /\ Reviewable(x.plan, x.task)
<1> DEFINE y == AdviceRead(x)
<1>1. CASE x.status = "running" /\ x.overdue
  <2>1. y = EndAdvice(x, "unknown")
    BY <1>1 DEF AdviceRead
  <2> QED BY <1>1, <2>1, EndSoftens DEF EndedAdvice, LiveAdvice, AllowedOnly
<1>2. CASE ~(x.status = "running" /\ x.overdue) /\ x.status \in AllowedOnly /\ x.late
  <2>1. y = EndAdvice(x, "expired")
    BY <1>2 DEF AdviceRead
  <2> QED BY <1>2, <2>1, EndSoftens DEF EndedAdvice, LiveAdvice, AllowedOnly
<1>3. CASE /\ ~(x.status = "running" /\ x.overdue) /\ ~(x.status \in AllowedOnly /\ x.late)
           /\ x.status \in LiveAdvice /\ ~(Linked(x) /\ Reviewable(x.plan, x.task))
  <2>1. y = EndAdvice(x, "invalidated")
    BY <1>3 DEF AdviceRead
  <2> QED BY <1>3, <2>1, EndSoftens DEF EndedAdvice, LiveAdvice, AllowedOnly
<1>4. CASE /\ ~(x.status = "running" /\ x.overdue) /\ ~(x.status \in AllowedOnly /\ x.late)
           /\ ~(x.status \in LiveAdvice /\ ~(Linked(x) /\ Reviewable(x.plan, x.task)))
  <2>1. y = x
    BY <1>4 DEF AdviceRead
  <2> QED BY <1>4, <2>1, SoftSame
<1> QED BY <1>1, <1>2, <1>3, <1>4

LEMMA WithdrawnSoftens ==
    ASSUME NEW x, AuthRow(x)
    PROVE  Softened(x, WithdrawnAdvice(x)) /\ ~WithdrawnAdvice(x).advice
<1>1. CASE x.status \in LiveAdvice
  BY <1>1, EndSoftens DEF WithdrawnAdvice, LiveAdvice, AllowedOnly, EndedAdvice
<1>2. CASE x.status \notin LiveAdvice
  BY <1>2, SoftSame DEF WithdrawnAdvice, AuthRow, LiveAdvice
<1> QED BY <1>1, <1>2

-----------------------------------------------------------------------------
(* Advice: a step that only takes away. *)

AuthOthers(m) == \A n \in Authorizations \ {m} : auth'[n] = auth[n]

\* What a row was granted for it keeps, when nothing of it changes.
LEMMA GroundStays ==
    ASSUME NEW x, NEW y, Grounded(x), Softened(x, y),
           UNCHANGED learningVars, link'.rev = link.rev
    PROVE  Grounded(y)'
<1>1. UNCHANGED <<revision, skill, assessment, plan, training>>
  BY DEF learningVars
<1>2. \A p, s : Reviewable(p, s)' <=> Reviewable(p, s)
  BY <1>1 DEF Reviewable, Kept, Available, Current
<1>3. CASE y.advice
  <2>1. x.advice /\ y.plan = x.plan /\ y.task = x.task /\ y.local = x.local /\ y.quoted = x.quoted
    BY <1>3 DEF Softened
  <2>2. Reviewable(y.plan, y.task) /\ (~y.local => link.rev = y.quoted)
    BY <2>1 DEF Grounded
  <2> QED BY <1>2, <2>2 DEF Grounded
<1>4. CASE ~y.advice
  BY <1>4 DEF Grounded
<1> QED BY <1>3, <1>4

LEMMA SoftStep ==
    ASSUME AdviceInv, LearnInv', UNCHANGED <<worker, died, asked>>,
           link' \in [rev: 0 .. MaxLink, active: BOOLEAN, late: BOOLEAN],
           auth' = [m \in Authorizations |-> auth'[m]],
           \A m \in Authorizations : Softened(auth[m], auth'[m]),
           \A m \in Authorizations : Grounded(auth[m])'
    PROVE  AdviceInv'
<1>1. ASSUME NEW m \in Authorizations PROVE AuthInv(m)'
  <2>1. AuthInv(m)
    BY DEF AdviceInv
  <2>2. AuthRow(auth[m])'
    <3>1. PICK y : y = auth'[m]
      OBVIOUS
    <3>2. AuthRow(y)
      BY <2>1, <3>1, SoftRow DEF AuthInv
    <3> QED BY <3>1, <3>2 DEF AuthRow
  <2>3. auth'[m].sent = auth[m].sent /\ asked'[m] = asked[m]
    BY DEF Softened
  <2> QED BY <2>1, <2>2, <2>3 DEF AuthInv
<1>2. ASSUME NEW w \in Workers PROVE WorkerInv(w)'
  <2>1. WorkerInv(w)
    BY DEF AdviceInv
  <2>2. \A m \in Authorizations : auth'[m].token = auth[m].token /\ auth'[m].sent = auth[m].sent
    BY DEF Softened
  <2> QED BY <2>1, <2>2 DEF WorkerInv
<1>3. worker' = [w \in Workers |-> worker'[w]] /\ asked' = [m \in Authorizations |-> asked'[m]]
      /\ died' \in 0 .. MaxFaults
  BY DEF AdviceInv
<1> QED BY <1>1, <1>2, <1>3 DEF AdviceInv

\* One row is replaced by one that gains nothing.
LEMMA SoftOne ==
    ASSUME AdviceInv, NEW m \in Authorizations, NEW row, Softened(auth[m], row),
           auth' = [auth EXCEPT ![m] = row]
    PROVE  /\ auth' = [n \in Authorizations |-> auth'[n]]
           /\ \A n \in Authorizations : Softened(auth[n], auth'[n])
           /\ auth'[m] = row /\ AuthOthers(m)
<1>1. auth = [n \in Authorizations |-> auth[n]]
  BY DEF AdviceInv
<1>2. auth' = [n \in Authorizations |-> IF n = m THEN row ELSE auth[n]]
  BY <1>1
<1>3. \A n \in Authorizations : Softened(auth[n], auth[n])
  BY SoftSame DEF AdviceInv, AuthInv
<1> QED BY <1>2, <1>3 DEF AuthOthers

\* The owner's requests of what exists, and the ends of claims and approvals.
LEMMA RewriteKeeps ==
    ASSUME AdviceInv, NEW m \in Authorizations, NEW row, Softened(auth[m], row),
           auth' = [auth EXCEPT ![m] = row],
           UNCHANGED <<learningVars, link, worker, died, asked>>
    PROVE  AdviceInv'
<1>1. /\ auth' = [n \in Authorizations |-> auth'[n]]
      /\ \A n \in Authorizations : Softened(auth[n], auth'[n])
  BY SoftOne
<1>2. ASSUME NEW n \in Authorizations PROVE Grounded(auth[n])'
  <2>1. PICK y : y = auth'[n]
    OBVIOUS
  <2>2. Grounded(auth[n]) /\ Softened(auth[n], y)
    BY <1>1, <2>1 DEF AdviceInv, AuthInv
  <2>3. Grounded(y)'
    BY <2>2, GroundStays
  <2> QED BY <2>1, <2>3 DEF Grounded
<1>3. LearnInv'
  BY LearnStepKeeps DEF AdviceInv, LearnKeeps
<1> QED BY <1>1, <1>2, <1>3, SoftStep DEF AdviceInv

LEMMA AuthRowOf ==
    ASSUME AdviceInv, NEW m \in Authorizations
    PROVE  /\ AuthRow(auth[m]) /\ Softened(auth[m], AdviceRead(auth[m]))
           /\ AuthRow(AdviceRead(auth[m]))
           /\ auth[m].status # "none" => AdviceRead(auth[m]).status # "none"
<1>1. AuthRow(auth[m])
  BY DEF AdviceInv, AuthInv
<1>2. Softened(auth[m], AdviceRead(auth[m]))
  BY <1>1, ReadSoftens
<1> QED BY <1>1, <1>2, SoftRow DEF Softened

LEMMA SoftTrans ==
    ASSUME NEW x, NEW y, NEW z, Softened(x, y), Softened(y, z), x.status # "none"
    PROVE  Softened(x, z)
BY DEF Softened

LEMMA ReadAdviceKeeps ==
    ASSUME AdviceInv, NEW m \in Authorizations,
           ApproveAdvice(m) \/ CancelAdvice(m) \/ ReadAdvice(m)
    PROVE  AdviceInv'
<1>1. PICK row : row = AdviceRead(auth[m])
  OBVIOUS
<1>2. Softened(auth[m], row) /\ AuthRow(row) /\ AuthRow(auth[m])
  BY <1>1, AuthRowOf
<1>3. auth[m].status # "none" /\ UNCHANGED <<learningVars, link, worker, died, asked>>
  BY DEF ApproveAdvice, CancelAdvice, ReadAdvice, Rewrite
<1>4. row.status # "none"
  BY <1>2, <1>3 DEF Softened
<1>5. CASE ApproveAdvice(m)
  <2>1. auth' = [auth EXCEPT ![m] = IF row.status = "draft"
                                    THEN [row EXCEPT !.status = "authorized"] ELSE row]
    BY <1>1, <1>5 DEF ApproveAdvice, Rewrite
  <2>2. CASE row.status = "draft"
    <3>1. PICK y : y = [row EXCEPT !.status = "authorized"]
      OBVIOUS
    <3>2. ~row.advice
      BY <1>2, <2>2 DEF AuthRow
    <3>3. Softened(row, y)
      BY <1>2, <2>2, <3>1, <3>2 DEF Softened, AuthRow, AuthType, LiveAdvice, AllowedOnly
    <3>4. Softened(auth[m], y)
      BY <1>2, <1>3, <3>3, SoftTrans
    <3> QED BY <1>3, <2>1, <2>2, <3>1, <3>4, RewriteKeeps
  <2>3. CASE row.status # "draft"
    <3>1. auth' = [auth EXCEPT ![m] = row]
      BY <2>1, <2>3
    <3> QED BY <1>2, <1>3, <3>1, RewriteKeeps
  <2> QED BY <2>2, <2>3
<1>6. CASE CancelAdvice(m)
  <2>1. auth' = [auth EXCEPT ![m] = IF row.status \in LiveAdvice
                                    THEN EndAdvice(row, "cancelled") ELSE row]
    BY <1>1, <1>6 DEF CancelAdvice, Rewrite
  <2>2. CASE row.status \in LiveAdvice
    <3>1. PICK y : y = EndAdvice(row, "cancelled")
      OBVIOUS
    <3>2. Softened(row, y)
      BY <1>2, <1>4, <3>1, EndSoftens DEF EndedAdvice
    <3>3. Softened(auth[m], y)
      BY <1>2, <1>3, <3>2, SoftTrans
    <3> QED BY <1>3, <2>1, <2>2, <3>1, <3>3, RewriteKeeps
  <2>3. CASE row.status \notin LiveAdvice
    <3>1. auth' = [auth EXCEPT ![m] = row]
      BY <2>1, <2>3
    <3> QED BY <1>2, <1>3, <3>1, RewriteKeeps
  <2> QED BY <2>2, <2>3
<1>7. CASE ReadAdvice(m)
  <2>1. auth' = [auth EXCEPT ![m] = row]
    BY <1>1, <1>7 DEF ReadAdvice, Rewrite
  <2> QED BY <1>2, <1>3, <2>1, RewriteKeeps
<1> QED BY <1>5, <1>6, <1>7

LEMMA AuthClockKeeps ==
    ASSUME AdviceInv, AuthLapses \/ AdviceClaimLapses
    PROVE  AdviceInv'
<1>1. UNCHANGED <<learningVars, link, worker, died, asked>>
  BY DEF AuthLapses, AdviceClaimLapses
<1>2. PICK m \in Authorizations :
          /\ auth[m].status # "none"
          /\ \/ auth' = [auth EXCEPT ![m].late = TRUE, ![m].overdue = TRUE]
             \/ auth' = [auth EXCEPT ![m].overdue = TRUE]
  BY DEF AuthLapses, AdviceClaimLapses, LiveAdvice, AllowedOnly
<1>3. PICK row : /\ \/ row = [auth[m] EXCEPT !.late = TRUE, !.overdue = TRUE]
                    \/ row = [auth[m] EXCEPT !.overdue = TRUE]
                 /\ auth' = [auth EXCEPT ![m] = row]
  BY <1>2
<1>4. AuthRow(auth[m])
  BY AuthRowOf
<1>5. Softened(auth[m], row)
  BY <1>2, <1>3, <1>4 DEF Softened, AuthRow, AuthType
<1> QED BY <1>1, <1>3, <1>5, RewriteKeeps

LEMMA LinkLapsesKeeps ==
    ASSUME AdviceInv, LinkLapses
    PROVE  AdviceInv'
<1>1. /\ UNCHANGED <<learningVars, worker, died, asked>>
      /\ link' = [link EXCEPT !.late = TRUE]
      /\ auth' = [m \in Authorizations |->
                 IF ~auth[m].local /\ auth[m].status \in LiveAdvice
                 THEN [auth[m] EXCEPT !.late = TRUE, !.overdue = TRUE] ELSE auth[m]]
  BY DEF LinkLapses
<1>2. link' \in [rev: 0 .. MaxLink, active: BOOLEAN, late: BOOLEAN] /\ link'.rev = link.rev
  BY <1>1 DEF AdviceInv
<1>3. ASSUME NEW m \in Authorizations PROVE Softened(auth[m], auth'[m])
  <2>1. AuthRow(auth[m])
    BY AuthRowOf
  <2>2. PICK x : x = auth[m]
    OBVIOUS
  <2>3. PICK y : y = [x EXCEPT !.late = TRUE, !.overdue = TRUE]
    OBVIOUS
  <2>4. x.status \in LiveAdvice => Softened(x, y)
    BY <2>1, <2>2, <2>3 DEF Softened, AuthRow, AuthType, LiveAdvice, AllowedOnly
  <2>5. Softened(x, x)
    BY <2>1, <2>2, SoftSame
  <2> QED BY <1>1, <2>2, <2>3, <2>4, <2>5
<1>4. ASSUME NEW m \in Authorizations PROVE Grounded(auth[m])'
  <2>1. PICK y : y = auth'[m]
    OBVIOUS
  <2>2. Grounded(auth[m]) /\ Softened(auth[m], y)
    BY <1>3, <2>1 DEF AdviceInv, AuthInv
  <2>3. Grounded(y)'
    BY <1>1, <1>2, <2>2, GroundStays
  <2> QED BY <2>1, <2>3 DEF Grounded
<1>5. LearnInv'
  BY <1>1, LearnStepKeeps DEF AdviceInv, LearnKeeps
<1>6. auth' = [m \in Authorizations |-> auth'[m]]
  BY <1>1
<1> QED BY <1>1, <1>2, <1>3, <1>4, <1>5, <1>6, SoftStep

LEMMA LinkChangesKeeps ==
    ASSUME AdviceInv, LinkChanges
    PROVE  AdviceInv'
<1>1. /\ UNCHANGED <<learningVars, worker, died, asked>> /\ link.rev < MaxLink
      /\ auth' = [m \in Authorizations |-> IF auth[m].local THEN auth[m]
                                           ELSE WithdrawnAdvice(auth[m])]
  BY DEF LinkChanges
<1>2. PICK on \in BOOLEAN : link' = [rev |-> link.rev + 1, active |-> on, late |-> FALSE]
  BY DEF LinkChanges
<1>3. link' \in [rev: 0 .. MaxLink, active: BOOLEAN, late: BOOLEAN]
  BY <1>1, <1>2, AdviceAssumption DEF AdviceInv
<1>4. ASSUME NEW m \in Authorizations
      PROVE  /\ Softened(auth[m], auth'[m])
             /\ auth'[m].advice => auth[m].local /\ auth'[m] = auth[m]
  <2>1. AuthRow(auth[m])
    BY AuthRowOf
  <2> QED BY <1>1, <2>1, SoftSame, WithdrawnSoftens
<1>5. ASSUME NEW m \in Authorizations PROVE Grounded(auth[m])'
  <2>1. UNCHANGED <<revision, skill, assessment, plan, training>>
    BY <1>1 DEF learningVars
  <2>2. \A p, s : Reviewable(p, s)' <=> Reviewable(p, s)
    BY <2>1 DEF Reviewable, Kept, Available, Current
  <2>3. PICK y : y = auth'[m]
    OBVIOUS
  <2>4. y.advice => y.local /\ Reviewable(y.plan, y.task)
    BY <1>4, <2>3 DEF AdviceInv, AuthInv, Grounded
  <2>5. y.advice => y.local /\ Reviewable(y.plan, y.task)'
    BY <2>2, <2>4
  <2> QED BY <2>3, <2>5 DEF Grounded, Reviewable, Kept, Available, Current
<1>6. LearnInv'
  BY <1>1, LearnStepKeeps DEF AdviceInv, LearnKeeps
<1>7. auth' = [m \in Authorizations |-> auth'[m]]
  BY <1>1
<1> QED BY <1>1, <1>3, <1>4, <1>5, <1>6, <1>7, SoftStep

\* The triggers miss nothing that advice rests on.
LEMMA TriggersSuffice ==
    ASSUME AdviceInv, NEW x, AuthRow(x), Grounded(x), x.advice, ~Disturbed(x),
           UNCHANGED link
    PROVE  Grounded(x)'
<1>1. PICK p \in Plans, s \in Skills : p = x.plan /\ s = x.task
  BY DEF AuthRow
<1>2. /\ Kept(p, s) /\ Available(p) /\ Current(s, plan[p].task[s])
      /\ ~x.local => link.rev = x.quoted
  BY <1>1 DEF Grounded, Reviewable
<1>3. plan'[p] = plan[p]
  BY <1>1, LearningAssumption DEF Disturbed
<1>4. training'[p][s].evidence = training[p][s].evidence
  BY <1>1, <1>2, LearningAssumption DEF Disturbed, Kept
<1>5. skill'[s] = skill[s]
  <2>1. s \in Known
    <3>1. skill[s].rev \in Nat /\ skill[s].rev # 0
      BY <1>2, LearningAssumption DEF AdviceInv, LearnInv, Current, SkillRows
    <3> QED BY <3>1 DEF Known
  <2> QED BY <2>1 DEF Disturbed
<1>6. \A a \in plan[p].used : assessment'[a].score # None
  <2>1. SUFFICES ASSUME NEW a \in plan[p].used PROVE assessment'[a].score # None
    OBVIOUS
  <2>2. a \in Assessments
    BY DEF AdviceInv, LearnInv, PlanRows
  <2>3. assessment[a].score # None
    BY <1>2 DEF Available
  <2>4. assessment[a] # NoAssessment
    BY <2>3 DEF NoAssessment
  <2>5. assessment'[a] = assessment[a]
    BY <2>2, <2>4 DEF Disturbed
  <2> QED BY <2>3, <2>5
<1>7. Kept(p, s)' /\ Available(p)' /\ Current(s, plan[p].task[s])'
  BY <1>2, <1>3, <1>4, <1>5, <1>6 DEF Kept, Available, Current
<1> QED BY <1>1, <1>2, <1>7 DEF Grounded, Reviewable

LEMMA LearningChangesKeeps ==
    ASSUME AdviceInv, LearningChanges
    PROVE  AdviceInv'
<1>1. /\ LearningNext /\ UNCHANGED <<link, worker, died, asked>>
      /\ auth' = [m \in Authorizations |-> IF Disturbed(auth[m])
                                           THEN WithdrawnAdvice(auth[m]) ELSE auth[m]]
  BY DEF LearningChanges
<1>2. LearnInv'
  BY <1>1, LearnStepKeeps DEF AdviceInv, LearnKeeps
<1>3. ASSUME NEW m \in Authorizations
      PROVE  /\ Softened(auth[m], auth'[m])
             /\ auth'[m].advice => ~Disturbed(auth[m]) /\ auth'[m] = auth[m]
  <2>1. AuthRow(auth[m])
    BY AuthRowOf
  <2> QED BY <1>1, <2>1, SoftSame, WithdrawnSoftens
<1>4. ASSUME NEW m \in Authorizations PROVE Grounded(auth[m])'
  <2>1. PICK x : x = auth[m]
    OBVIOUS
  <2>2. AuthRow(x) /\ Grounded(x)
    BY <2>1 DEF AdviceInv, AuthInv
  <2>3. CASE auth'[m].advice
    <3>1. ~Disturbed(x) /\ auth'[m] = x
      BY <1>3, <2>1, <2>3
    <3>2. x.advice
      BY <2>3, <3>1
    <3>3. Grounded(x)'
      BY <1>1, <2>2, <3>1, <3>2, TriggersSuffice
    <3> QED BY <3>1, <3>3 DEF Grounded
  <2>4. CASE ~auth'[m].advice
    BY <2>4 DEF Grounded
  <2> QED BY <2>3, <2>4
<1>5. auth' = [m \in Authorizations |-> auth'[m]]
  BY <1>1
<1>6. link' \in [rev: 0 .. MaxLink, active: BOOLEAN, late: BOOLEAN]
  BY <1>1 DEF AdviceInv
<1> QED BY <1>1, <1>2, <1>3, <1>4, <1>5, <1>6, SoftStep

-----------------------------------------------------------------------------
(* Advice: a request and its execution. *)

\* What the steps of a worker and the proposal of a request leave alone.
Elsewhere == UNCHANGED <<learningVars, link>>

LEMMA OthersGround ==
    ASSUME AdviceInv, Elsewhere, NEW m \in Authorizations, AuthOthers(m)
    PROVE  \A n \in Authorizations \ {m} : AuthRow(auth[n])' /\ Grounded(auth[n])'
<1>1. SUFFICES ASSUME NEW n \in Authorizations \ {m}
               PROVE  AuthRow(auth[n])' /\ Grounded(auth[n])'
  OBVIOUS
<1>2. PICK x : x = auth[n]
  OBVIOUS
<1>3. AuthRow(x) /\ Grounded(x) /\ Softened(x, x) /\ auth'[n] = x
  BY <1>2, SoftSame DEF AdviceInv, AuthInv, AuthOthers
<1>4. UNCHANGED learningVars /\ link'.rev = link.rev
  BY DEF Elsewhere
<1>5. Grounded(x)'
  BY <1>3, <1>4, GroundStays
<1> QED BY <1>3, <1>5 DEF Grounded, AuthRow

\* One row is written: what has to be shown of it, of its calls and of the
\* workers.
LEMMA RowWritten ==
    ASSUME AdviceInv, Elsewhere, NEW m \in Authorizations, NEW row,
           auth' = [auth EXCEPT ![m] = row],
           AuthRow(row), Grounded(row)', UNCHANGED <<died, asked>>,
           asked[m] = 1 => row.sent,
           worker' = [w \in Workers |-> worker'[w]],
           \A w \in Workers : WorkerInv(w)'
    PROVE  AdviceInv'
<1>1. /\ auth' = [n \in Authorizations |-> auth'[n]]
      /\ auth'[m] = row /\ AuthOthers(m)
  <2>1. auth = [n \in Authorizations |-> auth[n]]
    BY DEF AdviceInv
  <2> QED BY <2>1 DEF AuthOthers
<1>2. ASSUME NEW n \in Authorizations PROVE AuthInv(n)'
  <2>1. CASE n = m
    <3>1. AuthRow(auth[n])' /\ Grounded(auth[n])'
      BY <1>1, <2>1 DEF AuthRow, Grounded
    <3>2. asked'[n] = asked[n] /\ asked[n] \in 0 .. 1
      BY DEF AdviceInv, AuthInv
    <3> QED BY <1>1, <2>1, <3>1, <3>2 DEF AuthInv
  <2>2. CASE n # m
    <3>1. AuthRow(auth[n])' /\ Grounded(auth[n])'
      BY <1>1, <2>2, OthersGround
    <3>2. AuthInv(n) /\ asked'[n] = asked[n] /\ auth'[n] = auth[n]
      BY <1>1, <2>2 DEF AdviceInv, AuthOthers
    <3> QED BY <3>1, <3>2 DEF AuthInv
  <2> QED BY <2>1, <2>2
<1>3. LearnInv'
  BY LearnStepKeeps DEF AdviceInv, LearnKeeps, Elsewhere
<1> QED BY <1>1, <1>2, <1>3 DEF AdviceInv, Elsewhere

\* The other workers do not notice a row that keeps its owner and its marker.
LEMMA OtherWorkers ==
    ASSUME AdviceInv, NEW w \in Workers, NEW m \in Authorizations, AuthOthers(m),
           \A v \in Workers \ {w} : worker'[v] = worker[v],
           UNCHANGED asked, auth[m].token \in {w, None}
    PROVE  \A v \in Workers \ {w} : WorkerInv(v)'
<1>1. SUFFICES ASSUME NEW v \in Workers \ {w} PROVE WorkerInv(v)'
  OBVIOUS
<1>2. WorkerInv(v) /\ worker'[v] = worker[v]
  BY DEF AdviceInv
<1>3. worker[v].pc # "idle" => worker[v].req # m
  BY <1>2, AdviceAssumption DEF WorkerInv
<1>4. worker[v].pc # "idle" => auth'[worker[v].req] = auth[worker[v].req]
  BY <1>2, <1>3 DEF WorkerInv, AuthOthers
<1> QED BY <1>2, <1>4 DEF WorkerInv

LEMMA ProposeKeeps ==
    ASSUME AdviceInv, NEW m \in Authorizations, NEW p \in Plans, NEW s \in Skills,
           NEW local \in BOOLEAN, Propose(m, p, s, local)
    PROVE  AdviceInv'
<1>1. PICK row : row = [NoAuth EXCEPT !.status = "draft", !.plan = p, !.task = s,
                            !.local = local, !.quoted = IF local THEN 0 ELSE link.rev]
  OBVIOUS
<1>2. /\ auth[m].status = "none" /\ auth' = [auth EXCEPT ![m] = row]
      /\ UNCHANGED <<learningVars, link, worker, died, asked>>
  BY <1>1 DEF Propose
<1>3. auth[m] = NoAuth
  BY <1>2 DEF AdviceInv, AuthInv, AuthRow
<1>4. link.rev \in 0 .. MaxLink /\ 0 \in 0 .. MaxLink
  BY AdviceAssumption DEF AdviceInv
<1>5. /\ row \in AuthType /\ row.status = "draft" /\ row.plan = p /\ row.task = s
      /\ ~row.advice /\ ~row.sent
  <2>1. NoAuth \in AuthType
    BY NoAuthRow DEF AuthRow
  <2>2. ~NoAuth.advice /\ ~NoAuth.sent
    BY DEF NoAuth
  <2> QED BY <1>1, <1>4, <2>1, <2>2 DEF AuthType, LiveAdvice, AllowedOnly
<1>6. AuthRow(row) /\ Grounded(row)'
  BY <1>5 DEF AuthRow, Grounded
<1>7. asked[m] # 1
  <2>1. ~NoAuth.sent
    BY DEF NoAuth
  <2> QED BY <1>3, <2>1 DEF AdviceInv, AuthInv
<1>8. ASSUME NEW w \in Workers PROVE WorkerInv(w)'
  <2>1. WorkerInv(w) /\ worker'[w] = worker[w]
    BY <1>2 DEF AdviceInv
  <2>2. worker[w].pc # "idle" => worker[w].req # m
    <3>1. NoAuth.token = None
      BY DEF NoAuth
    <3> QED BY <1>3, <2>1, <3>1, AdviceAssumption DEF WorkerInv
  <2>3. worker[w].pc # "idle" => auth'[worker[w].req] = auth[worker[w].req]
    BY <1>2, <2>1, <2>2 DEF WorkerInv, AdviceInv
  <2> QED BY <1>2, <2>1, <2>3 DEF WorkerInv
<1>9. Elsewhere /\ worker' = [w \in Workers |-> worker'[w]]
  BY <1>2 DEF Elsewhere, AdviceInv
<1> QED BY <1>2, <1>6, <1>7, <1>8, <1>9, RowWritten

\* The worker moves, or rests.
LEMMA MovedWorker ==
    ASSUME AdviceInv, NEW w \in Workers, NEW next \in AdviceWorkers,
           worker' = [worker EXCEPT ![w] = next]
    PROVE  /\ worker' = [v \in Workers |-> worker'[v]]
           /\ worker'[w] = next
           /\ \A v \in Workers \ {w} : worker'[v] = worker[v]
<1>1. worker = [v \in Workers |-> worker[v]]
  BY DEF AdviceInv
<1> QED BY <1>1

LEMMA ToNext ==
    ASSUME AdviceInv, NEW w \in Workers, NEW pc \in {"verified", "marked", "finish"},
           NEW output \in BOOLEAN, To(w, pc, output)
    PROVE  \E next \in AdviceWorkers :
               /\ worker' = [worker EXCEPT ![w] = next]
               /\ next.pc = pc /\ next.req = worker[w].req
<1>1. PICK old : old = worker[w]
  OBVIOUS
<1>2. old \in AdviceWorkers
  BY <1>1 DEF AdviceInv, WorkerInv
<1>3. PICK next : next = [old EXCEPT !.pc = pc, !.output = output]
  OBVIOUS
<1>4. next \in AdviceWorkers /\ next.pc = pc /\ next.req = old.req
  BY <1>2, <1>3 DEF AdviceWorkers
<1>5. worker' = [worker EXCEPT ![w] = next]
  BY <1>1, <1>3 DEF To
<1> QED BY <1>1, <1>4, <1>5

LEMMA RestingWorker == Resting \in AdviceWorkers /\ Resting.pc = "idle"
BY NoAuthRow DEF Resting, AdviceWorkers, AuthRow

LEMMA ClaimAdviceKeeps ==
    ASSUME AdviceInv, NEW w \in Workers, NEW m \in Authorizations, ClaimAdvice(w, m)
    PROVE  AdviceInv'
<1>1. PICK x : x = auth[m]
  OBVIOUS
<1>2. AuthRow(x) /\ AdviceRead(x).status = "authorized" /\ x.token = None
  BY <1>1, AuthRowOf DEF ClaimAdvice
<1>3. AdviceRead(x) = x
  BY <1>2, ReadSoftens DEF LiveAdvice, AllowedOnly
<1>4. PICK row : row = [x EXCEPT !.status = "running", !.token = w]
  OBVIOUS
<1>5. PICK next : next = [pc |-> "claimed", req |-> m, copy |-> row, output |-> FALSE]
  OBVIOUS
<1>6. /\ UNCHANGED <<learningVars, link, died, asked>>
      /\ auth' = [auth EXCEPT ![m] = row]
      /\ worker' = [worker EXCEPT ![w] = next]
  BY <1>1, <1>3, <1>4, <1>5 DEF ClaimAdvice, Store
<1>7. /\ row \in AuthType /\ row.status = "running" /\ row.token = w
      /\ row.plan = x.plan /\ row.task = x.task /\ row.advice = x.advice /\ row.sent = x.sent
  BY <1>2, <1>4 DEF AuthRow, AuthType, LiveAdvice, AllowedOnly
<1>8. ~x.advice /\ ~x.sent /\ x.status = "authorized"
  BY <1>2, <1>3 DEF AuthRow
<1>9. AuthRow(row) /\ Grounded(row)'
  BY <1>2, <1>7, <1>8 DEF AuthRow, Grounded
<1>10. asked[m] # 1
  BY <1>1, <1>8 DEF AdviceInv, AuthInv
<1>11. next \in AdviceWorkers /\ next.pc = "claimed" /\ next.req = m
  BY <1>5, <1>7 DEF AdviceWorkers
<1>12. /\ worker' = [v \in Workers |-> worker'[v]] /\ worker'[w] = next
       /\ \A v \in Workers \ {w} : worker'[v] = worker[v]
  BY <1>6, <1>11, MovedWorker
<1>13. AuthOthers(m) /\ auth'[m] = row
  BY <1>6 DEF AuthOthers, AdviceInv
<1>14. WorkerInv(w)'
  BY <1>7, <1>11, <1>12, <1>13 DEF WorkerInv
<1>15. \A v \in Workers : WorkerInv(v)'
  <2>1. \A v \in Workers \ {w} : WorkerInv(v)'
    BY <1>1, <1>2, <1>6, <1>12, <1>13, OtherWorkers
  <2> QED BY <1>14, <2>1
<1>16. Elsewhere
  BY <1>6 DEF Elsewhere
<1> QED BY <1>6, <1>9, <1>10, <1>12, <1>15, <1>16, RowWritten

\* Steps of a worker that write no row.
LEMMA WorkerAlone ==
    ASSUME AdviceInv, NEW w \in Workers, NEW next \in AdviceWorkers,
           worker' = [worker EXCEPT ![w] = next],
           next.pc \in {"idle", "verified", "finish"},
           next.pc # "idle" => worker[w].pc # "idle" /\ next.req = worker[w].req,
           UNCHANGED <<learningVars, link, auth>>, died' \in 0 .. MaxFaults,
           asked' = [m \in Authorizations |-> asked'[m]],
           \A m \in Authorizations :
               \/ asked'[m] = asked[m]
               \/ /\ worker[w].pc = "marked" /\ worker[w].req = m
                  /\ asked'[m] = 1
    PROVE  AdviceInv'
<1>1. /\ worker' = [v \in Workers |-> worker'[v]]
      /\ worker'[w] = next
      /\ \A v \in Workers \ {w} : worker'[v] = worker[v]
  BY MovedWorker
<1>2. ASSUME NEW m \in Authorizations PROVE AuthInv(m)'
  <2>1. AuthInv(m)
    BY DEF AdviceInv
  <2>2. AuthRow(auth[m])' /\ Grounded(auth[m])'
    <3>1. PICK x : x = auth[m]
      OBVIOUS
    <3>2. AuthRow(x) /\ Grounded(x) /\ Softened(x, x) /\ auth'[m] = x
      BY <2>1, <3>1, SoftSame DEF AuthInv
    <3>3. Grounded(x)'
      BY <3>2, GroundStays
    <3> QED BY <3>2, <3>3 DEF Grounded, AuthRow
  <2>3. asked'[m] \in 0 .. 1 /\ (asked'[m] = 1 => auth'[m].sent)
    <3>1. CASE asked'[m] = asked[m]
      BY <2>1, <3>1 DEF AuthInv
    <3>2. CASE worker[w].pc = "marked" /\ worker[w].req = m /\ asked'[m] = 1
      BY <3>2 DEF AdviceInv, WorkerInv
    <3> QED BY <3>1, <3>2
  <2> QED BY <2>2, <2>3 DEF AuthInv
<1>3. ASSUME NEW v \in Workers PROVE WorkerInv(v)'
  <2>1. WorkerInv(v) /\ WorkerInv(w)
    BY DEF AdviceInv
  <2>2. CASE v = w
    BY <1>1, <2>1, <2>2 DEF WorkerInv
  <2>3. CASE v # w
    <3>1. worker'[v] = worker[v]
      BY <1>1, <2>3
    <3>2. worker[v].pc = "marked" => asked'[worker[v].req] = asked[worker[v].req]
      BY <2>1, <2>3 DEF WorkerInv
    <3> QED BY <2>1, <3>1, <3>2 DEF WorkerInv
  <2> QED BY <2>2, <2>3
<1>4. LearnInv'
  BY LearnStepKeeps DEF AdviceInv, LearnKeeps
<1> QED BY <1>1, <1>2, <1>3, <1>4 DEF AdviceInv

LEMMA WorkerOnlyKeeps ==
    ASSUME AdviceInv, NEW w \in Workers,
           VerifyAdvice(w) \/ RefusedAdvice(w) \/ WorkerDies(w) \/ Ask(w)
    PROVE  AdviceInv'
<1>1. UNCHANGED <<learningVars, link, auth>>
  BY DEF VerifyAdvice, RefusedAdvice, WorkerDies, Ask
<1>2. asked = [m \in Authorizations |-> asked[m]] /\ died \in 0 .. MaxFaults
      /\ MaxFaults \in Nat
  BY AdviceAssumption DEF AdviceInv
<1>3. CASE VerifyAdvice(w)
  <2>1. PICK pc \in {"verified", "finish"}, output \in BOOLEAN : To(w, pc, output)
    BY <1>3 DEF VerifyAdvice
  <2>2. PICK next \in AdviceWorkers :
            worker' = [worker EXCEPT ![w] = next] /\ next.pc = pc /\ next.req = worker[w].req
    BY <2>1, ToNext
  <2>3. UNCHANGED <<died, asked>> /\ worker[w].pc # "idle"
    BY <1>3 DEF VerifyAdvice
  <2> QED BY <1>1, <1>2, <2>2, <2>3, WorkerAlone
<1>4. CASE Ask(w)
  <2>1. PICK output \in BOOLEAN : To(w, "finish", output)
    BY <1>4 DEF Ask
  <2>2. PICK next \in AdviceWorkers :
            worker' = [worker EXCEPT ![w] = next] /\ next.pc = "finish" /\ next.req = worker[w].req
    BY <2>1, ToNext
  <2>3. PICK m : m = worker[w].req
    OBVIOUS
  <2>4. m \in Authorizations /\ asked[m] = 0 /\ worker[w].pc = "marked"
    BY <1>4, <2>3 DEF Ask, AdviceInv, WorkerInv
  <2>5. asked' = [asked EXCEPT ![m] = asked[m] + 1] /\ UNCHANGED died
    BY <1>4, <2>3 DEF Ask
  <2>6. asked' = [n \in Authorizations |-> IF n = m THEN 1 ELSE asked[n]]
    BY <1>2, <2>4, <2>5
  <2> QED BY <1>1, <1>2, <2>2, <2>3, <2>4, <2>5, <2>6, WorkerAlone, ZenonT(60)
<1>5. CASE RefusedAdvice(w) \/ WorkerDies(w)
  <2>1. PICK next \in AdviceWorkers : next = Resting /\ next.pc = "idle"
    BY RestingWorker
  <2>2. worker' = [worker EXCEPT ![w] = next]
    BY <1>5, <2>1 DEF RefusedAdvice, WorkerDies, Rest
  <2>3. UNCHANGED asked /\ died' \in 0 .. MaxFaults
    BY <1>2, <1>5 DEF RefusedAdvice, WorkerDies
  <2> QED BY <1>1, <1>2, <2>1, <2>2, <2>3, WorkerAlone
<1> QED BY <1>3, <1>4, <1>5

\* A worker writes down what it came to, in a row that stays its own.
LEMMA OwnRowWritten ==
    ASSUME AdviceInv, NEW w \in Workers, NEW m \in Authorizations, NEW row,
           NEW next \in AdviceWorkers, UNCHANGED <<learningVars, link, died, asked>>,
           auth' = [auth EXCEPT ![m] = row], worker' = [worker EXCEPT ![w] = next],
           auth[m].token = w, AuthRow(row), Grounded(row)', row.token = w,
           asked[m] = 1 => row.sent,
           next.pc # "idle" => next.req = m,
           next.pc = "marked" => row.sent /\ asked[m] = 0
    PROVE  AdviceInv'
<1>1. /\ worker' = [v \in Workers |-> worker'[v]] /\ worker'[w] = next
      /\ \A v \in Workers \ {w} : worker'[v] = worker[v]
  BY MovedWorker
<1>2. AuthOthers(m) /\ auth'[m] = row
  BY DEF AuthOthers, AdviceInv
<1>3. WorkerInv(w)'
  BY <1>1, <1>2 DEF WorkerInv
<1>4. \A v \in Workers \ {w} : WorkerInv(v)'
  BY <1>1, <1>2, OtherWorkers
<1>5. Elsewhere
  BY DEF Elsewhere
<1> QED BY <1>1, <1>3, <1>4, <1>5, RowWritten

LEMMA BeginAdviceKeeps ==
    ASSUME AdviceInv, NEW w \in Workers, BeginAdvice(w)
    PROVE  AdviceInv'
<1>1. PICK m : m = worker[w].req
  OBVIOUS
<1>2. m \in Authorizations /\ auth[m].token = w
  BY <1>1 DEF BeginAdvice, AdviceInv, WorkerInv
<1>3. PICK x : x = auth[m]
  OBVIOUS
<1>4. PICK row : row = AdviceRead(x)
  OBVIOUS
<1>5. /\ AuthRow(x) /\ Softened(x, row) /\ AuthRow(row) /\ Grounded(x)
      /\ asked[m] \in 0 .. 1 /\ (asked[m] = 1 => x.sent)
  BY <1>2, <1>3, <1>4, AuthRowOf DEF AdviceInv, AuthInv
<1>6. /\ UNCHANGED <<learningVars, link, died, asked>> /\ row.token = w
      /\ IF row.status = "running" /\ ~row.sent
         THEN auth' = [auth EXCEPT ![m] = MarkedAdvice(row)] /\ To(w, "marked", FALSE)
         ELSE auth' = [auth EXCEPT ![m] = row] /\ To(w, "finish", FALSE)
  BY <1>1, <1>3, <1>4 DEF BeginAdvice, Store
<1>7. Grounded(row)'
  <2>1. UNCHANGED learningVars /\ link'.rev = link.rev
    BY <1>6
  <2> QED BY <1>5, <2>1, GroundStays
<1>8. CASE row.status = "running" /\ ~row.sent
  <2>1. PICK marked : marked = [row EXCEPT !.sent = TRUE]
    OBVIOUS
  <2>2. auth' = [auth EXCEPT ![m] = marked] /\ To(w, "marked", FALSE)
    BY <1>6, <1>8, <2>1 DEF MarkedAdvice
  <2>3. PICK next \in AdviceWorkers :
            worker' = [worker EXCEPT ![w] = next] /\ next.pc = "marked" /\ next.req = m
    BY <1>1, <2>2, ToNext
  <2>4. /\ marked \in AuthType /\ marked.sent /\ marked.token = w
        /\ marked.status = "running" /\ marked.plan = row.plan /\ marked.task = row.task
        /\ ~marked.advice
    BY <1>5, <1>6, <1>8, <2>1 DEF AuthRow, AuthType
  <2>5. AuthRow(marked) /\ Grounded(marked)'
    BY <1>5, <1>8, <2>4, AdviceAssumption DEF AuthRow, Grounded
  <2>6. asked[m] = 0
    BY <1>5, <1>8 DEF Softened
  <2> QED BY <1>2, <1>6, <2>2, <2>3, <2>4, <2>5, <2>6, OwnRowWritten
<1>9. CASE ~(row.status = "running" /\ ~row.sent)
  <2>1. auth' = [auth EXCEPT ![m] = row] /\ To(w, "finish", FALSE)
    BY <1>6, <1>9
  <2>2. PICK next \in AdviceWorkers :
            worker' = [worker EXCEPT ![w] = next] /\ next.pc = "finish" /\ next.req = m
    BY <1>1, <2>1, ToNext
  <2>3. asked[m] = 1 => row.sent
    BY <1>5 DEF Softened
  <2> QED BY <1>2, <1>5, <1>6, <1>7, <2>1, <2>2, <2>3, OwnRowWritten
<1> QED BY <1>8, <1>9

LEMMA FinishAdviceKeeps ==
    ASSUME AdviceInv, NEW w \in Workers, FinishAdvice(w)
    PROVE  AdviceInv'
<1>1. PICK m : m = worker[w].req
  OBVIOUS
<1>2. m \in Authorizations /\ auth[m].token = w
  BY <1>1 DEF FinishAdvice, AdviceInv, WorkerInv
<1>3. PICK x : x = auth[m]
  OBVIOUS
<1>4. PICK row : row = AdviceRead(x)
  OBVIOUS
<1>5. /\ AuthRow(x) /\ Softened(x, row) /\ AuthRow(row) /\ Grounded(x)
      /\ asked[m] \in 0 .. 1 /\ (asked[m] = 1 => x.sent)
  BY <1>2, <1>3, <1>4, AuthRowOf DEF AdviceInv, AuthInv
<1>6. PICK output \in BOOLEAN : output = worker[w].output
  BY DEF AdviceInv, WorkerInv, AdviceWorkers
<1>7. PICK new : new = AdviceOutcome(row, output)
  OBVIOUS
<1>8. PICK next \in AdviceWorkers : next = Resting /\ next.pc = "idle"
  BY RestingWorker
<1>9. /\ UNCHANGED <<learningVars, link, died, asked>> /\ row.token = w
      /\ auth' = [auth EXCEPT ![m] = new] /\ worker' = [worker EXCEPT ![w] = next]
  BY <1>1, <1>3, <1>4, <1>6, <1>7, <1>8 DEF FinishAdvice, Store, Rest
<1>10. Grounded(row)'
  <2>1. UNCHANGED learningVars /\ link'.rev = link.rev
    BY <1>9
  <2> QED BY <1>5, <2>1, GroundStays
<1>11. asked[m] = 1 => row.sent
  BY <1>5 DEF Softened
<1>12. /\ AuthRow(new) /\ Grounded(new)' /\ new.token = w
       /\ asked[m] = 1 => new.sent
  <2>1. CASE row.status # "running"
    BY <1>5, <1>7, <1>9, <1>10, <1>11, <2>1 DEF AdviceOutcome
  <2>2. CASE row.status = "running" /\ output /\ row.sent
    <3>1. new = [row EXCEPT !.status = "succeeded", !.advice = TRUE]
      BY <1>7, <2>2 DEF AdviceOutcome
    <3>2. /\ new \in AuthType /\ new.status = "succeeded" /\ new.plan = row.plan
          /\ new.task = row.task /\ new.local = row.local /\ new.quoted = row.quoted
          /\ new.token = row.token /\ new.sent = row.sent
      BY <1>5, <3>1 DEF AuthRow, AuthType, LiveAdvice
    <3>3. row = x /\ Linked(x) /\ Reviewable(x.plan, x.task)
      BY <1>4, <1>5, <2>2, ReadSoftens DEF LiveAdvice
    <3>4. UNCHANGED <<revision, skill, assessment, plan, training, link>>
      BY <1>9 DEF learningVars
    <3>5. Reviewable(new.plan, new.task)' /\ (~new.local => link'.rev = new.quoted)
      BY <3>2, <3>3, <3>4 DEF Reviewable, Kept, Available, Current, Linked
    <3>6. Grounded(new)'
      BY <3>5 DEF Grounded
    <3>7. AuthRow(new)
      BY <1>5, <2>2, <3>2 DEF AuthRow
    <3> QED BY <1>9, <2>2, <3>2, <3>6, <3>7
  <2>3. CASE row.status = "running" /\ ~(output /\ row.sent)
    <3>1. new = EndAdvice(row, "unknown")
      BY <1>7, <2>3 DEF AdviceOutcome
    <3>2. Softened(row, new) /\ ~new.advice
      BY <1>5, <2>3, <3>1, EndSoftens DEF EndedAdvice
    <3>3. AuthRow(new)
      BY <1>5, <3>2, SoftRow
    <3> QED BY <1>9, <1>11, <3>2, <3>3 DEF Softened, Grounded
  <2> QED BY <2>1, <2>2, <2>3
<1> QED BY <1>2, <1>8, <1>9, <1>12, OwnRowWritten

LEMMA AdviceStepKeeps == AdviceInv /\ [AdviceNext]_allLearningVars => AdviceInv'
<1>1. ASSUME AdviceInv, AdviceNext PROVE AdviceInv'
  <2>1. CASE AdviceRequests
    BY <1>1, <2>1, ProposeKeeps, ReadAdviceKeeps DEF AdviceRequests
  <2>2. CASE AdviceExecution
    BY <1>1, <2>2, ClaimAdviceKeeps, WorkerOnlyKeeps, BeginAdviceKeeps, FinishAdviceKeeps
       DEF AdviceExecution
  <2> QED BY <1>1, <2>1, <2>2, LearningChangesKeeps, LinkChangesKeeps, AuthClockKeeps,
             LinkLapsesKeeps DEF AdviceNext
<1>2. ASSUME AdviceInv, UNCHANGED allLearningVars PROVE AdviceInv'
  <2>1. /\ UNCHANGED <<learningVars, link, auth, worker, died, asked>>
        /\ UNCHANGED <<revision, skill, assessment, plan, training>>
    BY <1>2 DEF allLearningVars, adviceVars, learningVars
  <2>2. LearnInv'
    BY <1>2, <2>1, LearnStepKeeps DEF AdviceInv, LearnKeeps
  <2>3. (\A m \in Authorizations : AuthInv(m)) <=> (\A m \in Authorizations : AuthInv(m))'
    BY <2>1 DEF AuthInv, AuthRow, Grounded, Reviewable, Kept, Available, Current
  <2>4. (\A w \in Workers : WorkerInv(w)) <=> (\A w \in Workers : WorkerInv(w))'
    BY <2>1 DEF WorkerInv
  <2> QED BY <1>2, <2>1, <2>2, <2>3, <2>4 DEF AdviceInv
<1> QED BY <1>1, <1>2

LEMMA AdviceImplies == AdviceInv => AdviceIsBacked /\ ScoresAreBacked
<1> SUFFICES ASSUME AdviceInv PROVE AdviceIsBacked /\ ScoresAreBacked
  OBVIOUS
<1>1. ScoresAreBacked
  BY DEF AdviceInv, LearnInv
<1>2. LearningTypeOK
  <2>1. revision \in 0 .. MaxRevision + Cardinality(Assessments)
    <3>1. /\ Cardinality(Scored) \in Nat /\ Cardinality(Assessments) \in Nat
          /\ MaxRevision \in Nat
      BY LearnFinite, LearningAssumption DEF Scored
    <3> QED BY <3>1 DEF AdviceInv, LearnInv
  <2> QED BY <2>1 DEF AdviceInv, LearnInv, LearningTypeOK, SkillRows, ScoreRows, PlanRows,
                      TrainingRows
<1>3. AdviceTypeOK
  <2>1. /\ auth \in [Authorizations -> AuthType]
        /\ asked \in [Authorizations -> 0 .. 2]
        /\ worker \in [Workers -> AdviceWorkers]
    <3>1. \A m \in Authorizations : auth[m] \in AuthType /\ asked[m] \in 0 .. 2
      BY DEF AdviceInv, AuthInv, AuthRow
    <3>2. \A w \in Workers : worker[w] \in AdviceWorkers
      BY DEF AdviceInv, WorkerInv
    <3> QED BY <3>1, <3>2 DEF AdviceInv
  <2> QED BY <1>2, <2>1 DEF AdviceTypeOK, AdviceInv, AdviceWorkers
<1> QED BY <1>1, <1>3 DEF AdviceIsBacked, AdviceInv, AuthInv, AuthRow, Grounded

-----------------------------------------------------------------------------
(* Learning and Advice: theorems. *)

LEMMA AdviceAlone ==
    /\ MCInit => AdviceInit
    /\ [ValueStep \/ LearningStep \/ AdviceStep]_allVars => [AdviceNext]_allLearningVars
<1>1. MCInit => AdviceInit
  BY DEF MCInit
<1>2. ValueStep => UNCHANGED allLearningVars
  BY DEF ValueStep
<1>3. LearningStep => AdviceNext
  BY DEF LearningStep, AdviceNext
<1>4. AdviceStep => AdviceNext
  BY DEF AdviceStep
<1>5. UNCHANGED allVars => UNCHANGED allLearningVars
  BY DEF allVars
<1> QED BY <1>1, <1>2, <1>3, <1>4, <1>5

LEMMA AdviceInvariance == MCSpec => []AdviceInv
BY AdviceInitHolds, AdviceStepKeeps, AdviceAlone, PTL DEF MCSpec

\* A score that came of a review is kept only while the review stands: the
\* cascades and triggers that end a plan, a skill or its evidence withdraw it
\* (skills::delete, plans::delete, evidence::delete, invalidate_learning_review).
THEOREM ScoresAreBackedHolds == MCSpec => []ScoresAreBacked
BY AdviceImplies, AdviceInvariance, PTL

\* Advice is stored only while the plan, the evidence, the revision of the
\* skill, the scores and the connection are the ones that were approved, and a
\* model is asked at most once, behind the durable marker of an authorization
\* (model_authorization::read, begin_model_review, finish_model_review).
THEOREM AdviceIsBackedHolds == MCSpec => []AdviceIsBacked
BY AdviceImplies, AdviceInvariance, PTL

-----------------------------------------------------------------------------
(* ValueReviews: the invariant. *)

ConnRows == [status: {"absent", "active", "expired", "revoked"},
             rev: 0 .. LastRevision, late: BOOLEAN]
Runners == [pc: {"idle", "claimed", "verified", "marked", "finish"},
            req: Reviews \cup {None}, copy: V!ReviewType,
            output: V!Versions \cup {None}]

\* What a review says of itself.
ReviewRow(x) ==
    /\ x \in V!ReviewType
    /\ x.status = "none" => x = V!NoReview
    /\ x.status \in {"none"} \cup V!Consented => x.token = None /\ ~x.sent
    /\ x.status = "succeeded" => x.scores = x.snapshot
    /\ x.sent => x.token # None

\* What a review that is not over rests on.
Founded(x) ==
    x.status \in V!Live =>
        /\ x.snapshot = source
        /\ x.mode = "subscription" => conn.status = "active" /\ conn.rev = x.quoted

ReviewInv(r) ==
    /\ ReviewRow(review[r]) /\ Founded(review[r])
    /\ calls[r] \in 0 .. 1
    /\ calls[r] = 1 => review[r].sent

\* A review belongs to the executor that claimed it; what it came to is of the
\* entries it was claimed for.
RunnerInv(e) ==
    LET r == runner[e].req IN
    /\ runner[e] \in Runners
    /\ runner[e].pc # "idle" =>
          /\ r \in Reviews /\ review[r].token = e
          /\ review[r].status = "running" => review[r].snapshot = runner[e].copy.snapshot
    /\ runner[e].output \in {runner[e].copy.snapshot, None}
    /\ runner[e].pc = "marked" => review[r].sent /\ calls[r] = 0

ConnInv == conn \in ConnRows /\ V!RevisionsSuffice

ValueInv ==
    /\ source \in V!Versions
    /\ ConnInv
    /\ faults \in 0 .. MaxFaults
    /\ review = [r \in Reviews |-> review[r]]
    /\ runner = [e \in Executors |-> runner[e]]
    /\ calls = [r \in Reviews |-> calls[r]]
    /\ \A r \in Reviews : ReviewInv(r)
    /\ \A e \in Executors : RunnerInv(e)

LEMMA NoReviewRow == ReviewRow(V!NoReview)
<1>1. V!NoReview \in V!ReviewType
  BY ReviewsAssumption DEF V!NoReview, V!ReviewType
<1> QED BY <1>1 DEF ReviewRow, V!NoReview

LEMMA IdleRunner == V!Idle \in Runners /\ V!Idle.pc = "idle" /\ V!Idle.output = None
BY NoReviewRow DEF V!Idle, Runners, ReviewRow

LEMMA ValueInitHolds == V!ReviewsInit => ValueInv
<1> SUFFICES ASSUME V!ReviewsInit PROVE ValueInv
  OBVIOUS
<1>1. ASSUME NEW r \in Reviews PROVE ReviewInv(r)
  BY NoReviewRow DEF ReviewInv, Founded, V!ReviewsInit, V!NoReview, V!Live, V!Consented
<1>2. ASSUME NEW e \in Executors PROVE RunnerInv(e)
  <2>1. runner[e] = V!Idle
    BY DEF V!ReviewsInit
  <2> QED BY <2>1, IdleRunner DEF RunnerInv
<1>3. source \in V!Versions /\ faults \in 0 .. MaxFaults
  BY ReviewsAssumption, AdviceAssumption DEF V!ReviewsInit, V!Versions
<1>4. ConnInv
  BY ReviewsAssumption DEF V!ReviewsInit, ConnInv, ConnRows, V!RevisionsSuffice
<1>5. /\ review = [r \in Reviews |-> review[r]]
      /\ runner = [e \in Executors |-> runner[e]]
      /\ calls = [r \in Reviews |-> calls[r]]
  BY DEF V!ReviewsInit
<1> QED BY <1>1, <1>2, <1>3, <1>4, <1>5 DEF ValueInv

-----------------------------------------------------------------------------
(* ValueReviews: what a row becomes. *)

\* A review that gains nothing but the approval of its owner.
Eased(x, y) ==
    /\ y \in V!ReviewType
    /\ y.mode = x.mode /\ y.quoted = x.quoted /\ y.token = x.token /\ y.sent = x.sent
    /\ y.status \in V!Live => /\ x.status \in V!Live /\ y.snapshot = x.snapshot
                              /\ y.scores = x.scores
    /\ y.status \in V!Consented => x.status \in V!Consented
    /\ y.status \in {"running", "succeeded"} => y.status = x.status
    /\ x.status # "none" => y.status # "none"
    /\ x.status = "none" => y = x

LEMMA EasedRow ==
    ASSUME NEW x, NEW y, ReviewRow(x), Eased(x, y)
    PROVE  ReviewRow(y)
BY DEF ReviewRow, Eased, V!Live, V!Consented

LEMMA EasedSame == \A x : ReviewRow(x) => Eased(x, x)
BY DEF ReviewRow, Eased, V!Live, V!Consented

LEMMA EasedTrans ==
    ASSUME NEW x, NEW y, NEW z, Eased(x, y), Eased(y, z)
    PROVE  Eased(x, z)
BY DEF Eased, V!Live, V!Consented

LEMMA EndEases ==
    ASSUME NEW x, ReviewRow(x), x.status # "none", NEW status \in V!Final
    PROVE  Eased(x, V!End(x, status)) /\ V!End(x, status).status \notin V!Live
<1>1. PICK y : y = [x EXCEPT !.status = status, !.snapshot = None, !.scores = None]
  OBVIOUS
<1>2. /\ y \in V!ReviewType /\ y.status = status
      /\ y.mode = x.mode /\ y.quoted = x.quoted /\ y.token = x.token /\ y.sent = x.sent
  BY <1>1 DEF ReviewRow, V!ReviewType
<1>3. status \notin V!Live /\ status # "none"
  BY DEF V!Final, V!Live, V!Consented
<1> QED BY <1>1, <1>2, <1>3 DEF Eased, V!End, V!Live, V!Consented

LEMMA WithdrawnEases ==
    ASSUME NEW x, ReviewRow(x)
    PROVE  Eased(x, V!Withdrawn(x)) /\ V!Withdrawn(x).status \notin V!Live
<1>1. CASE x.status \in V!Live
  BY <1>1, EndEases DEF V!Withdrawn, V!Live, V!Consented, V!Final
<1>2. CASE x.status \notin V!Live
  BY <1>2, EasedSame DEF V!Withdrawn
<1> QED BY <1>1, <1>2

LEMMA ExpiredEases ==
    ASSUME NEW x, ReviewRow(x)
    PROVE  Eased(x, V!Expired(x))
<1>1. CASE x.status \in V!Consented /\ x.late
  <2>1. V!Expired(x) = V!End(x, "expired")
    BY <1>1 DEF V!Expired, V!Consented
  <2> QED BY <1>1, <2>1, EndEases DEF V!Final, V!Consented
<1>2. CASE x.status = "running" /\ x.overdue
  <2>1. V!Expired(x) = V!End(x, "unknown")
    BY <1>2 DEF V!Expired, V!Consented
  <2> QED BY <1>2, <2>1, EndEases DEF V!Final, V!Consented
<1>3. CASE ~(x.status \in V!Consented /\ x.late) /\ ~(x.status = "running" /\ x.overdue)
  <2>1. V!Expired(x) = x
    BY <1>3 DEF V!Expired
  <2> QED BY <2>1, EasedSame
<1> QED BY <1>1, <1>2, <1>3

\* The connection once its expiry is written down.
LEMMA ExpiredConnection ==
    ASSUME ValueInv, V!ExpiryFits
    PROVE  /\ V!ExpiredConn \in ConnRows
           /\ conn' = V!ExpiredConn => ConnInv'
           /\ V!Lapsed => V!ExpiredConn.status = "expired"
           /\ ~V!Lapsed => V!ExpiredConn = conn
           /\ V!ExpiredConn.rev \in 0 .. LastRevision
           /\ V!ExpiredConn.status = "expired" => V!ExpiredConn.rev + 1 <= LastRevision
<1>1. conn \in ConnRows /\ V!RevisionsSuffice /\ LastRevision \in Nat
  BY ReviewsAssumption DEF ValueInv, ConnInv
<1>2. CASE V!Lapsed
  <2>1. PICK row : row = [conn EXCEPT !.status = "expired", !.rev = conn.rev + 1]
    OBVIOUS
  <2>2. V!ExpiredConn = row
    BY <1>2, <2>1 DEF V!ExpiredConn
  <2>3. conn.rev \in Nat /\ conn.rev + 2 <= LastRevision
    BY <1>1, <1>2 DEF V!Lapsed, V!RevisionsSuffice, ConnRows
  <2>4. /\ row \in ConnRows /\ row.status = "expired" /\ row.rev = conn.rev + 1
        /\ row.rev \in 0 .. LastRevision /\ row.rev + 1 <= LastRevision
    <3>1. PICK rev : rev = conn.rev + 1
      OBVIOUS
    <3>2. rev \in 0 .. LastRevision /\ rev + 1 <= LastRevision
      BY <1>1, <2>3, <3>1
    <3>3. row = [conn EXCEPT !.status = "expired", !.rev = rev]
      BY <2>1, <3>1
    <3>4. row \in ConnRows /\ row.status = "expired" /\ row.rev = rev
      BY <1>1, <3>2, <3>3 DEF ConnRows
    <3> QED BY <3>1, <3>2, <3>4
  <2> QED BY <1>2, <2>2, <2>4 DEF ConnInv, V!RevisionsSuffice
<1>3. CASE ~V!Lapsed
  <2>1. V!ExpiredConn = conn
    BY <1>3 DEF V!ExpiredConn
  <2> QED BY <1>1, <1>3, <2>1 DEF ConnInv, ConnRows, V!RevisionsSuffice
<1> QED BY <1>2, <1>3

\* What an operation finds when it has written down what the clock has ended.
LEMMA KeptFounded ==
    ASSUME ValueInv, V!ExpiryFits, UNCHANGED source, conn' = V!ExpiredConn, NEW r \in Reviews
    PROVE  /\ Eased(review[r], V!KeptReviews[r]) /\ ReviewRow(V!KeptReviews[r])
           /\ \A y : Eased(V!KeptReviews[r], y) => Founded(y)'
           /\ V!KeptReviews = [n \in Reviews |-> V!KeptReviews[n]]
<1>1. ReviewRow(review[r]) /\ Founded(review[r]) /\ review = [n \in Reviews |-> review[n]]
  BY DEF ValueInv, ReviewInv
<1>2. CASE V!Lapsed
  <2>1. V!KeptReviews = [n \in Reviews |-> IF review[n].mode = "subscription"
                                          THEN V!Withdrawn(review[n]) ELSE review[n]]
    BY <1>2 DEF V!KeptReviews, V!OfConnection
  <2>2. PICK z : z = V!KeptReviews[r]
    OBVIOUS
  <2>3. Eased(review[r], z) /\ (z.status \in V!Live => z.mode # "subscription")
    <3>1. CASE review[r].mode = "subscription"
      BY <1>1, <2>1, <2>2, <3>1, WithdrawnEases
    <3>2. CASE review[r].mode # "subscription"
      BY <1>1, <2>1, <2>2, <3>2, EasedSame
    <3> QED BY <3>1, <3>2
  <2>4. z.status \in V!Live => z.snapshot = source
    BY <1>1, <2>3 DEF Eased, Founded
  <2>5. ASSUME NEW y, Eased(z, y) PROVE Founded(y)'
    BY <2>3, <2>4, <2>5 DEF Eased, Founded
  <2> QED BY <1>1, <2>1, <2>2, <2>3, <2>5, EasedRow
<1>3. CASE ~V!Lapsed
  <2>1. V!KeptReviews = review
    BY <1>3 DEF V!KeptReviews
  <2>2. conn' = conn
    BY <1>3 DEF V!ExpiredConn
  <2>3. PICK x : x = review[r]
    OBVIOUS
  <2>4. ASSUME NEW y, Eased(x, y) PROVE Founded(y)'
    BY <1>1, <2>2, <2>3, <2>4 DEF Eased, Founded
  <2> QED BY <1>1, <2>1, <2>3, <2>4, EasedSame
<1> QED BY <1>2, <1>3

LEMMA RowsFounded ==
    ASSUME ValueInv, V!ExpiryFits, UNCHANGED source, conn' = V!ExpiredConn, NEW r \in Reviews
    PROVE  /\ Eased(review[r], V!Rows[r]) /\ ReviewRow(V!Rows[r])
           /\ \A y : Eased(V!Rows[r], y) => Founded(y)'
<1>1. PICK z : z = V!KeptReviews[r]
  OBVIOUS
<1>2. /\ Eased(review[r], z) /\ ReviewRow(z)
      /\ \A y : Eased(z, y) => Founded(y)'
  BY <1>1, KeptFounded
<1>3. PICK x : x = V!Rows[r]
  OBVIOUS
<1>4. Eased(z, x)
  BY <1>1, <1>2, <1>3, ExpiredEases DEF V!Rows
<1>5. Eased(review[r], x) /\ ReviewRow(x)
  BY <1>2, <1>4, EasedTrans, EasedRow
<1>6. ASSUME NEW y, Eased(x, y) PROVE Founded(y)'
  BY <1>2, <1>4, <1>6, EasedTrans
<1> QED BY <1>3, <1>5, <1>6

-----------------------------------------------------------------------------
(* ValueReviews: steps that only take away. *)

LEMMA EasedStep ==
    ASSUME ValueInv, UNCHANGED <<runner, faults, calls>>,
           source' \in V!Versions, ConnInv',
           review' = [r \in Reviews |-> review'[r]],
           \A r \in Reviews : Eased(review[r], review'[r]) /\ Founded(review[r])'
    PROVE  ValueInv'
<1>1. ASSUME NEW r \in Reviews PROVE ReviewInv(r)'
  <2>1. ReviewInv(r)
    BY DEF ValueInv
  <2>2. PICK y : y = review'[r]
    OBVIOUS
  <2>3. ReviewRow(y)
    BY <2>1, <2>2, EasedRow DEF ReviewInv
  <2>4. ReviewRow(review[r])'
    BY <2>2, <2>3 DEF ReviewRow
  <2>5. review'[r].sent = review[r].sent
    BY DEF Eased
  <2> QED BY <2>1, <2>4, <2>5 DEF ReviewInv
<1>2. ASSUME NEW e \in Executors PROVE RunnerInv(e)'
  <2>1. RunnerInv(e) /\ runner'[e] = runner[e]
    BY DEF ValueInv
  <2>2. PICK r : r = runner[e].req
    OBVIOUS
  <2>3. r \in Reviews =>
            /\ review'[r].token = review[r].token /\ review'[r].sent = review[r].sent
            /\ review'[r].status = "running" =>
                   review[r].status = "running" /\ review'[r].snapshot = review[r].snapshot
    BY DEF Eased, V!Live
  <2> QED BY <2>1, <2>2, <2>3 DEF RunnerInv
<1> QED BY <1>1, <1>2 DEF ValueInv

LEMMA ReviewRowOf ==
    ASSUME ValueInv, NEW r \in Reviews
    PROVE  ReviewRow(review[r]) /\ Founded(review[r])
BY DEF ValueInv, ReviewInv

\* subscription_connection_changed
LEMMA OfConnectionEases ==
    ASSUME ValueInv, NEW r \in Reviews
    PROVE  /\ Eased(review[r], V!OfConnection(review)[r])
           /\ V!OfConnection(review)[r].status \in V!Live =>
                  /\ V!OfConnection(review)[r].mode # "subscription"
                  /\ V!OfConnection(review)[r].snapshot = source
<1>1. PICK x : x = review[r]
  OBVIOUS
<1>2. ReviewRow(x) /\ Founded(x)
  BY <1>1, ReviewRowOf
<1>3. V!OfConnection(review)[r] = IF x.mode = "subscription" THEN V!Withdrawn(x) ELSE x
  BY <1>1 DEF V!OfConnection
<1>4. CASE x.mode = "subscription"
  <2>1. Eased(x, V!Withdrawn(x)) /\ V!Withdrawn(x).status \notin V!Live
    BY <1>2, WithdrawnEases
  <2> QED BY <1>1, <1>3, <1>4, <2>1
<1>5. CASE x.mode # "subscription"
  BY <1>1, <1>2, <1>3, <1>5, EasedSame DEF Founded
<1> QED BY <1>4, <1>5

LEMMA ConnectionKeeps ==
    ASSUME ValueInv, V!ConnectionRequests
    PROVE  ValueInv'
<1>1. /\ UNCHANGED <<source, runner, faults, calls>> /\ V!ExpiryFits
      /\ source' \in V!Versions /\ LastRevision \in Nat
  BY ReviewsAssumption DEF V!ConnectionRequests, V!SaveConnection, V!RevokeConnection,
     V!ReadConnection, ValueInv
<1>2. ASSUME review' = V!OfConnection(review)
      PROVE  /\ review' = [r \in Reviews |-> review'[r]]
             /\ \A r \in Reviews : Eased(review[r], review'[r]) /\ Founded(review[r])'
  <2>1. review' = [r \in Reviews |-> review'[r]]
    BY <1>2 DEF V!OfConnection
  <2>2. ASSUME NEW r \in Reviews PROVE Eased(review[r], review'[r]) /\ Founded(review[r])'
    BY <1>1, <1>2, OfConnectionEases DEF Founded
  <2> QED BY <2>1, <2>2
<1>3. PICK was : was = V!ExpiredConn
  OBVIOUS
<1>4. /\ was \in ConnRows /\ was.rev \in 0 .. LastRevision
      /\ V!Lapsed => was.status = "expired"
      /\ ~V!Lapsed => was = conn
  BY <1>1, <1>3, ExpiredConnection
<1>5. CASE V!SaveConnection
  <2>1. PICK rev : rev = was.rev + 1
    OBVIOUS
  <2>2. rev \in 0 .. LastRevision /\ rev + 2 <= LastRevision
    BY <1>1, <1>3, <1>4, <1>5, <2>1 DEF V!SaveConnection, V!Renewable
  <2>3. conn' = [status |-> "active", rev |-> rev, late |-> FALSE]
    BY <1>3, <1>5, <2>1 DEF V!SaveConnection
  <2>4. ConnInv'
    BY <2>2, <2>3 DEF ConnInv, ConnRows, V!RevisionsSuffice
  <2>5. CASE conn.status = "absent"
    <3>1. review' = review
      BY <1>5, <2>5 DEF V!SaveConnection
    <3>2. ASSUME NEW r \in Reviews PROVE Eased(review[r], review'[r]) /\ Founded(review[r])'
      <4>1. PICK x : x = review[r]
        OBVIOUS
      <4>2. ReviewRow(x) /\ Founded(x)
        BY <4>1, ReviewRowOf
      <4>3. x.status \in V!Live => x.snapshot = source /\ x.mode # "subscription"
        BY <2>5, <4>2 DEF Founded
      <4> QED BY <1>1, <3>1, <4>1, <4>2, <4>3, EasedSame DEF Founded
    <3>3. review' = [r \in Reviews |-> review'[r]]
      BY <3>1 DEF ValueInv
    <3> QED BY <1>1, <2>4, <3>2, <3>3, EasedStep
  <2>6. CASE conn.status # "absent"
    <3>1. review' = V!OfConnection(review)
      BY <1>5, <2>6 DEF V!SaveConnection
    <3> QED BY <1>1, <1>2, <2>4, <3>1, EasedStep
  <2> QED BY <2>5, <2>6
<1>6. CASE V!RevokeConnection
  <2>1. PICK rev : rev = was.rev + 1
    OBVIOUS
  <2>2. rev \in 0 .. LastRevision
    BY <1>1, <1>3, <1>4, <1>6, <2>1 DEF V!RevokeConnection
  <2>3. conn' = [was EXCEPT !.status = "revoked", !.rev = rev]
    BY <1>3, <1>6, <2>1 DEF V!RevokeConnection
  <2>4. ConnInv'
    <3>1. conn' \in ConnRows /\ conn'.status = "revoked" /\ conn'.rev = rev
      BY <1>4, <2>2, <2>3 DEF ConnRows
    <3> QED BY <2>2, <3>1 DEF ConnInv, ConnRows, V!RevisionsSuffice
  <2>5. review' = V!OfConnection(review)
    BY <1>6 DEF V!RevokeConnection
  <2> QED BY <1>1, <1>2, <2>4, <2>5, EasedStep
<1>7. CASE V!ReadConnection
  <2>1. conn' = V!ExpiredConn /\ review' = V!KeptReviews
    BY <1>7 DEF V!ReadConnection
  <2>2. ConnInv'
    BY <1>1, <2>1, ExpiredConnection
  <2>3. ASSUME NEW r \in Reviews PROVE Eased(review[r], review'[r]) /\ Founded(review[r])'
    <3>1. PICK y : y = V!KeptReviews[r]
      OBVIOUS
    <3>2. Eased(review[r], y) /\ ReviewRow(y) /\ \A z : Eased(y, z) => Founded(z)'
      BY <1>1, <2>1, <3>1, KeptFounded
    <3>3. Founded(y)'
      BY <3>2, EasedSame
    <3> QED BY <2>1, <3>1, <3>2, <3>3 DEF Founded
  <2>4. review' = [r \in Reviews |-> review'[r]]
    BY <2>1 DEF V!KeptReviews, V!OfConnection, ValueInv
  <2> QED BY <1>1, <2>2, <2>3, <2>4, EasedStep
<1> QED BY <1>5, <1>6, <1>7 DEF V!ConnectionRequests

LEMMA SourceKeeps ==
    ASSUME ValueInv, V!SourceChanges
    PROVE  ValueInv'
<1>1. /\ UNCHANGED <<conn, runner, faults, calls>> /\ source < MaxSource
      /\ source' = source + 1
      /\ review' = [r \in Reviews |-> V!Withdrawn(review[r])]
  BY DEF V!SourceChanges
<1>2. source' \in V!Versions
  BY <1>1, ReviewsAssumption DEF ValueInv, V!Versions
<1>3. ASSUME NEW r \in Reviews PROVE Eased(review[r], review'[r]) /\ Founded(review[r])'
  BY <1>1, ReviewRowOf, WithdrawnEases DEF Founded
<1>4. ConnInv'
  BY <1>1 DEF ValueInv, ConnInv, V!RevisionsSuffice, ConnRows
<1>5. review' = [r \in Reviews |-> review'[r]]
  BY <1>1
<1> QED BY <1>1, <1>2, <1>3, <1>4, <1>5, EasedStep

LEMMA ClockKeeps ==
    ASSUME ValueInv, V!Clock
    PROVE  ValueInv'
<1>1. UNCHANGED <<source, runner, faults, calls>> /\ source' \in V!Versions
  BY DEF V!Clock, V!ReviewLapses, V!ClaimLapses, V!ConnectionLapses, ValueInv
<1>2. /\ conn' \in ConnRows /\ conn'.status = conn.status /\ conn'.rev = conn.rev
      /\ conn \in ConnRows
  BY DEF V!Clock, V!ReviewLapses, V!ClaimLapses, V!ConnectionLapses, ValueInv, ConnInv, ConnRows
<1>3. ConnInv'
  BY <1>2 DEF ValueInv, ConnInv, V!RevisionsSuffice
<1>4. ASSUME NEW x, ReviewRow(x), x.status # "none"
      PROVE  Eased(x, V!Late(x)) /\ Eased(x, [x EXCEPT !.overdue = TRUE])
  <2>1. PICK y : y = [x EXCEPT !.late = TRUE, !.overdue = TRUE]
    OBVIOUS
  <2>2. PICK z : z = [x EXCEPT !.overdue = TRUE]
    OBVIOUS
  <2>3. Eased(x, y) /\ Eased(x, z)
    BY <1>4, <2>1, <2>2 DEF Eased, ReviewRow, V!ReviewType
  <2> QED BY <2>1, <2>2, <2>3 DEF V!Late
<1>5. /\ review' = [r \in Reviews |-> review'[r]]
      /\ \A r \in Reviews : Eased(review[r], review'[r])
  <2> USE ReviewRowOf, EasedSame DEF V!Live, V!Consented
  <2>1. review = [r \in Reviews |-> review[r]]
    BY DEF ValueInv
  <2>2. CASE V!ReviewLapses
    <3>1. PICK r \in Reviews : /\ review[r].status # "none"
                               /\ review' = [review EXCEPT ![r] = V!Late(review[r])]
      BY <2>2 DEF V!ReviewLapses
    <3>2. review' = [n \in Reviews |-> IF n = r THEN V!Late(review[r]) ELSE review[n]]
      BY <2>1, <3>1
    <3> QED BY <1>4, <3>1, <3>2
  <2>3. CASE V!ClaimLapses
    <3>1. PICK r \in Reviews : /\ review[r].status # "none"
                               /\ review' = [review EXCEPT ![r].overdue = TRUE]
      BY <2>3 DEF V!ClaimLapses
    <3>2. review' = [n \in Reviews |-> IF n = r THEN [review[r] EXCEPT !.overdue = TRUE]
                                       ELSE review[n]]
      BY <2>1, <3>1
    <3> QED BY <1>4, <3>1, <3>2, ZenonT(60)
  <2>4. CASE V!ConnectionLapses
    <3>1. review' = [r \in Reviews |->
              IF review[r].mode = "subscription" /\ review[r].status \in V!Live
              THEN V!Late(review[r]) ELSE review[r]]
      BY <2>4 DEF V!ConnectionLapses
    <3> QED BY <1>4, <3>1
  <2> QED BY <2>2, <2>3, <2>4 DEF V!Clock
<1>6. ASSUME NEW r \in Reviews PROVE Founded(review[r])'
  <2>1. Founded(review[r]) /\ Eased(review[r], review'[r])
    BY <1>5, ReviewRowOf
  <2> QED BY <1>1, <1>2, <2>1 DEF Founded, Eased
<1> QED BY <1>1, <1>3, <1>5, <1>6, EasedStep

-----------------------------------------------------------------------------
(* ValueReviews: a committed row. *)

OthersEased(r) ==
    \A n \in Reviews \ {r} : Eased(review[n], review'[n]) /\ Founded(review[n])'

LEMMA Committed ==
    ASSUME ValueInv, NEW r \in Reviews, NEW row, V!Commit(r, row)
    PROVE  /\ UNCHANGED <<source, faults>> /\ source' \in V!Versions /\ ConnInv'
           /\ V!ExpiryFits /\ conn' = V!ExpiredConn
           /\ review' = [n \in Reviews |-> review'[n]] /\ review'[r] = row
           /\ OthersEased(r)
           /\ Eased(review[r], V!Rows[r]) /\ ReviewRow(V!Rows[r])
           /\ \A y : Eased(V!Rows[r], y) => Founded(y)'
<1>1. /\ UNCHANGED <<source, faults>> /\ V!ExpiryFits /\ conn' = V!ExpiredConn
      /\ review' = [V!Rows EXCEPT ![r] = row]
  BY DEF V!Commit
<1>2. source' \in V!Versions /\ ConnInv'
  BY <1>1, ExpiredConnection DEF ValueInv
<1>3. review' = [n \in Reviews |-> IF n = r THEN row ELSE V!Rows[n]]
  BY <1>1 DEF V!Rows
<1>4. ASSUME NEW n \in Reviews \ {r} PROVE Eased(review[n], review'[n]) /\ Founded(review[n])'
  <2>1. PICK y : y = V!Rows[n]
    OBVIOUS
  <2>2. Eased(review[n], y) /\ ReviewRow(y) /\ \A z : Eased(y, z) => Founded(z)'
    BY <1>1, <2>1, RowsFounded
  <2>3. Founded(y)'
    BY <2>2, EasedSame
  <2> QED BY <1>3, <2>1, <2>2, <2>3 DEF Founded
<1> QED BY <1>1, <1>2, <1>3, <1>4, RowsFounded DEF OthersEased

LEMMA CommitEased ==
    ASSUME ValueInv, NEW r \in Reviews, NEW row, V!Commit(r, row),
           Eased(V!Rows[r], row), UNCHANGED <<runner, calls>>
    PROVE  ValueInv'
<1>1. ReviewRow(V!Rows[r]) /\ Eased(review[r], V!Rows[r]) /\ Founded(row)'
  BY Committed
<1>2. Eased(review[r], row)
  BY <1>1, EasedTrans
<1>3. /\ review' = [n \in Reviews |-> review'[n]]
      /\ review'[r] = row /\ OthersEased(r) /\ UNCHANGED <<source, faults>>
      /\ source' \in V!Versions /\ ConnInv'
  BY Committed
<1>4. \A n \in Reviews : Eased(review[n], review'[n]) /\ Founded(review[n])'
  BY <1>1, <1>2, <1>3 DEF OthersEased, Founded
<1> QED BY <1>3, <1>4, EasedStep

LEMMA RequestKeeps ==
    ASSUME ValueInv, NEW r \in Reviews, V!Approve(r) \/ V!Cancel(r) \/ V!Read(r)
    PROVE  ValueInv'
<1>1. PICK x : x = V!Rows[r]
  OBVIOUS
<1>2. UNCHANGED <<runner, calls>>
  BY DEF V!Approve, V!Cancel, V!Read
<1>3. ReviewRow(x) /\ Eased(review[r], x)
  <2>1. \E row : V!Commit(r, row)
    BY DEF V!Approve, V!Cancel, V!Read
  <2> QED BY <1>1, <2>1, Committed
<1>4. CASE V!Approve(r)
  <2>1. PICK row : row = [x EXCEPT !.status = "authorized"]
    OBVIOUS
  <2>2. x.status = "draft" /\ V!Commit(r, row)
    BY <1>1, <1>4, <2>1 DEF V!Approve
  <2>3. Eased(x, row)
    BY <1>3, <2>1, <2>2 DEF Eased, ReviewRow, V!ReviewType, V!Live, V!Consented
  <2> QED BY <1>1, <1>2, <2>2, <2>3, CommitEased
<1>5. CASE V!Cancel(r)
  <2>1. PICK row : row = IF x.status \in V!Consented \cup {"running"}
                         THEN V!End(x, "cancelled") ELSE x
    OBVIOUS
  <2>2. V!Commit(r, row)
    BY <1>1, <1>5, <2>1 DEF V!Cancel
  <2>3. Eased(x, row)
    <3>1. x.status \in V!Consented \cup {"running"} => x.status # "none"
      BY DEF V!Consented
    <3> QED BY <1>3, <2>1, <3>1, EndEases, EasedSame DEF V!Final
  <2> QED BY <1>1, <1>2, <2>2, <2>3, CommitEased
<1>6. CASE V!Read(r)
  <2>1. V!Commit(r, x)
    BY <1>1, <1>6 DEF V!Read
  <2>2. Eased(x, x)
    BY <1>3, EasedSame
  <2> QED BY <1>1, <1>2, <2>1, <2>2, CommitEased
<1> QED BY <1>4, <1>5, <1>6

-----------------------------------------------------------------------------
(* ValueReviews: a preview and its execution. *)

\* One row is committed: what has to be shown of it, its calls and the runners.
LEMMA ReviewWritten ==
    ASSUME ValueInv, NEW r \in Reviews, NEW row, V!Commit(r, row),
           ReviewRow(row), Founded(row)', UNCHANGED calls, calls[r] = 1 => row.sent,
           runner' = [e \in Executors |-> runner'[e]],
           \A e \in Executors : RunnerInv(e)'
    PROVE  ValueInv'
<1>1. /\ review' = [n \in Reviews |-> review'[n]]
      /\ review'[r] = row /\ OthersEased(r) /\ UNCHANGED <<source, faults>>
      /\ source' \in V!Versions /\ ConnInv'
  BY Committed
<1>2. ASSUME NEW n \in Reviews PROVE ReviewInv(n)'
  <2>1. ReviewInv(n) /\ calls'[n] = calls[n]
    BY DEF ValueInv
  <2>2. CASE n = r
    <3>1. ReviewRow(review[n])' /\ Founded(review[n])'
      BY <1>1, <2>2 DEF ReviewRow, Founded
    <3> QED BY <1>1, <2>1, <2>2, <3>1 DEF ReviewInv
  <2>3. CASE n # r
    <3>1. PICK y : y = review'[n]
      OBVIOUS
    <3>2. Eased(review[n], y) /\ Founded(review[n])'
      BY <1>1, <2>3, <3>1 DEF OthersEased
    <3>3. ReviewRow(y)
      BY <2>1, <3>2, EasedRow DEF ReviewInv
    <3>4. ReviewRow(review[n])'
      BY <3>1, <3>3 DEF ReviewRow
    <3>5. review'[n].sent = review[n].sent
      BY <3>1, <3>2 DEF Eased
    <3> QED BY <2>1, <3>2, <3>4, <3>5 DEF ReviewInv
  <2> QED BY <2>2, <2>3
<1> QED BY <1>1, <1>2 DEF ValueInv

\* A runner that does not move, and whose review is another one.
LEMMA OtherRunners ==
    ASSUME ValueInv, NEW r \in Reviews, NEW e, OthersEased(r),
           \A d \in Executors \ {e} : runner'[d] = runner[d],
           UNCHANGED calls, review[r].token \in {e, None}
    PROVE  \A d \in Executors \ {e} : RunnerInv(d)'
<1>1. SUFFICES ASSUME NEW d \in Executors \ {e} PROVE RunnerInv(d)'
  OBVIOUS
<1>2. RunnerInv(d) /\ runner'[d] = runner[d]
  BY DEF ValueInv
<1>3. PICK n : n = runner[d].req
  OBVIOUS
<1>4. runner[d].pc # "idle" => n \in Reviews \ {r}
  BY <1>2, <1>3, ReviewsAssumption DEF RunnerInv
<1>5. n \in Reviews \ {r} =>
            /\ review'[n].token = review[n].token /\ review'[n].sent = review[n].sent
            /\ review'[n].status = "running" =>
                   review[n].status = "running" /\ review'[n].snapshot = review[n].snapshot
  BY DEF OthersEased, Eased, V!Live
<1> QED BY <1>2, <1>3, <1>4, <1>5 DEF RunnerInv

LEMMA PreviewKeeps ==
    ASSUME ValueInv, NEW r \in Reviews, NEW m \in V!Modes, V!Preview(r, m)
    PROVE  ValueInv'
<1>1. PICK quoted : quoted = IF m = "subscription" THEN V!ExpiredConn.rev ELSE 0
  OBVIOUS
<1>2. PICK row : row = [V!NoReview EXCEPT !.status = "draft", !.mode = m,
                            !.snapshot = source, !.quoted = quoted]
  OBVIOUS
<1>3. /\ review[r].status = "none" /\ V!QuoteHolds(row) /\ V!Commit(r, row)
      /\ UNCHANGED <<runner, calls>>
  BY <1>1, <1>2 DEF V!Preview
<1>4. /\ UNCHANGED source /\ V!ExpiryFits /\ conn' = V!ExpiredConn
      /\ source \in V!Versions
  BY <1>3, Committed DEF ValueInv
<1>5. quoted \in 0 .. LastRevision
  BY <1>1, <1>4, ExpiredConnection, ReviewsAssumption
<1>6. /\ row \in V!ReviewType /\ row.status = "draft" /\ row.mode = m
      /\ row.snapshot = source /\ row.quoted = quoted /\ row.token = None /\ ~row.sent
  <2>1. V!NoReview \in V!ReviewType /\ V!NoReview.token = None /\ ~V!NoReview.sent
    BY NoReviewRow DEF ReviewRow, V!NoReview
  <2> QED BY <1>2, <1>4, <1>5, <2>1 DEF V!ReviewType, V!Live, V!Consented
<1>7. ReviewRow(row)
  BY <1>6 DEF ReviewRow
<1>8. Founded(row)'
  BY <1>3, <1>4, <1>6 DEF Founded, V!QuoteHolds
<1>9. review[r].token = None /\ ~review[r].sent /\ calls[r] # 1
  BY <1>3 DEF ValueInv, ReviewInv, ReviewRow
<1>10. PICK nobody : nobody \notin Executors
  BY ReviewsAssumption
<1>11. \A e \in Executors : RunnerInv(e)'
  <2>1. OthersEased(r)
    BY <1>3, Committed
  <2>2. \A d \in Executors \ {nobody} : RunnerInv(d)'
    BY <1>3, <1>9, <2>1, OtherRunners
  <2> QED BY <1>10, <2>2
<1>12. runner' = [e \in Executors |-> runner'[e]]
  BY <1>3 DEF ValueInv
<1> QED BY <1>3, <1>7, <1>8, <1>9, <1>11, <1>12, ReviewWritten

LEMMA MovedRunner ==
    ASSUME ValueInv, NEW e \in Executors, NEW next \in Runners,
           runner' = [runner EXCEPT ![e] = next]
    PROVE  /\ runner' = [d \in Executors |-> runner'[d]]
           /\ runner'[e] = next
           /\ \A d \in Executors \ {e} : runner'[d] = runner[d]
<1>1. runner = [d \in Executors |-> runner[d]]
  BY DEF ValueInv
<1> QED BY <1>1

LEMMA GotoNext ==
    ASSUME ValueInv, NEW e \in Executors, NEW pc \in {"verified", "marked", "finish"},
           NEW output \in V!Versions \cup {None}, V!Goto(e, pc, output)
    PROVE  \E next \in Runners :
               /\ runner' = [runner EXCEPT ![e] = next]
               /\ next.pc = pc /\ next.req = runner[e].req /\ next.output = output
               /\ next.copy = runner[e].copy
<1>1. PICK old : old = runner[e]
  OBVIOUS
<1>2. old \in Runners
  BY <1>1 DEF ValueInv, RunnerInv
<1>3. PICK next : next = [old EXCEPT !.pc = pc, !.output = output]
  OBVIOUS
<1>4. /\ next \in Runners /\ next.pc = pc /\ next.req = old.req /\ next.output = output
      /\ next.copy = old.copy
  BY <1>2, <1>3 DEF Runners
<1>5. runner' = [runner EXCEPT ![e] = next]
  BY <1>1, <1>3 DEF V!Goto
<1> QED BY <1>1, <1>4, <1>5

\* An executor writes down what it came to, in a row that is or stays its own.
LEMMA OwnReviewWritten ==
    ASSUME ValueInv, NEW e \in Executors, NEW r \in Reviews, NEW row, NEW next \in Runners,
           V!Commit(r, row), runner' = [runner EXCEPT ![e] = next], UNCHANGED calls,
           review[r].token \in {e, None}, ReviewRow(row), Founded(row)', row.token = e,
           calls[r] = 1 => row.sent,
           next.pc # "idle" => /\ next.req = r
                               /\ row.status = "running" => row.snapshot = next.copy.snapshot,
           next.output \in {next.copy.snapshot, None},
           next.pc = "marked" => row.sent /\ calls[r] = 0
    PROVE  ValueInv'
<1>1. /\ runner' = [d \in Executors |-> runner'[d]] /\ runner'[e] = next
      /\ \A d \in Executors \ {e} : runner'[d] = runner[d]
  BY MovedRunner
<1>2. review'[r] = row /\ OthersEased(r)
  BY Committed
<1>3. RunnerInv(e)'
  BY <1>1, <1>2 DEF RunnerInv
<1>4. \A d \in Executors \ {e} : RunnerInv(d)'
  BY <1>1, <1>2, OtherRunners
<1>5. \A d \in Executors : RunnerInv(d)'
  BY <1>3, <1>4
<1> QED BY <1>1, <1>5, ReviewWritten

LEMMA ClaimKeeps ==
    ASSUME ValueInv, NEW e \in Executors, NEW r \in Reviews, V!Claim(e, r)
    PROVE  ValueInv'
<1>1. PICK x : x = V!Rows[r]
  OBVIOUS
<1>2. PICK row : row = [x EXCEPT !.status = "running", !.token = e]
  OBVIOUS
<1>3. PICK next : next = [pc |-> "claimed", req |-> r, copy |-> row, output |-> None]
  OBVIOUS
<1>4. /\ x.status = "authorized" /\ V!QuoteHolds(x) /\ x.snapshot = source
      /\ V!Commit(r, row) /\ UNCHANGED calls
      /\ runner' = [runner EXCEPT ![e] = next]
  BY <1>1, <1>2, <1>3 DEF V!Claim
<1>5. /\ UNCHANGED source /\ conn' = V!ExpiredConn
      /\ Eased(review[r], x) /\ ReviewRow(x)
  BY <1>1, <1>4, Committed
<1>6. x.token = None /\ ~x.sent /\ review[r].token = None /\ ~review[r].sent
  BY <1>4, <1>5 DEF ReviewRow, Eased, V!Consented
<1>7. /\ row \in V!ReviewType /\ row.status = "running" /\ row.token = e
      /\ row.snapshot = x.snapshot /\ row.mode = x.mode /\ row.quoted = x.quoted
      /\ row.sent = x.sent
  BY <1>2, <1>5 DEF ReviewRow, V!ReviewType, V!Live
<1>8. ReviewRow(row)
  BY <1>6, <1>7 DEF ReviewRow, V!Consented
<1>9. Founded(row)'
  BY <1>4, <1>5, <1>7 DEF Founded, V!QuoteHolds
<1>10. calls[r] # 1
  BY <1>6 DEF ValueInv, ReviewInv
<1>11. /\ next \in Runners /\ next.pc = "claimed" /\ next.req = r
       /\ next.copy = row /\ next.output = None
  BY <1>3, <1>7 DEF Runners
<1> QED BY <1>4, <1>6, <1>7, <1>8, <1>9, <1>10, <1>11, OwnReviewWritten

LEMMA BeginCallKeeps ==
    ASSUME ValueInv, NEW e \in Executors, V!BeginCall(e)
    PROVE  ValueInv'
<1>1. PICK r : r = runner[e].req
  OBVIOUS
<1>2. /\ r \in Reviews /\ review[r].token = e
      /\ review[r].status = "running" => review[r].snapshot = runner[e].copy.snapshot
  BY <1>1 DEF V!BeginCall, ValueInv, RunnerInv
<1>3. PICK x : x = V!Rows[r]
  OBVIOUS
<1>4. /\ x.token = e /\ UNCHANGED calls
      /\ IF V!Markable(x)
         THEN V!Unchanged(e, x) /\ V!Commit(r, V!Marked(x)) /\ V!Goto(e, "marked", None)
         ELSE V!Commit(r, x) /\ V!Goto(e, "finish", None)
  BY <1>1, <1>3 DEF V!BeginCall
<1>5. /\ Eased(review[r], x) /\ ReviewRow(x)
      /\ \A y : Eased(x, y) => Founded(y)'
  <2>1. \E row : V!Commit(r, row)
    BY <1>4
  <2> QED BY <1>2, <1>3, <2>1, Committed
<1>6. calls[r] \in 0 .. 1 /\ (calls[r] = 1 => x.sent)
  BY <1>2, <1>5 DEF ValueInv, ReviewInv, Eased
<1>7. x.status = "running" => x.snapshot = runner[e].copy.snapshot
  BY <1>2, <1>5 DEF Eased, V!Live
<1>8. PICK output \in V!Versions \cup {None} : output = None
  OBVIOUS
<1>9. CASE V!Markable(x)
  <2>1. PICK row : row = [x EXCEPT !.sent = TRUE]
    OBVIOUS
  <2>2. V!Commit(r, row) /\ V!Goto(e, "marked", output) /\ x.status = "running" /\ ~x.sent
    BY <1>4, <1>8, <1>9, <2>1 DEF V!Marked, V!Markable
  <2>3. PICK next \in Runners :
            /\ runner' = [runner EXCEPT ![e] = next]
            /\ next.pc = "marked" /\ next.req = runner[e].req /\ next.output = output
            /\ next.copy = runner[e].copy
    BY <2>2, GotoNext
  <2>4. /\ row \in V!ReviewType /\ row.status = x.status /\ row.token = x.token /\ row.sent
        /\ row.snapshot = x.snapshot /\ row.mode = x.mode /\ row.quoted = x.quoted
    BY <1>5, <2>1 DEF ReviewRow, V!ReviewType
  <2>5. ReviewRow(row)
    BY <1>4, <2>2, <2>4, ReviewsAssumption DEF ReviewRow, V!Consented
  <2>6. Founded(x)'
    BY <1>5, EasedSame
  <2>7. Founded(row)'
    BY <2>4, <2>6 DEF Founded
  <2>8. calls[r] = 0
    BY <1>6, <2>2
  <2> QED BY <1>1, <1>2, <1>4, <1>7, <1>8, <2>2, <2>3, <2>4, <2>5, <2>7, <2>8, OwnReviewWritten
<1>10. CASE ~V!Markable(x)
  <2>1. V!Commit(r, x) /\ V!Goto(e, "finish", output)
    BY <1>4, <1>8, <1>10
  <2>2. PICK next \in Runners :
            /\ runner' = [runner EXCEPT ![e] = next]
            /\ next.pc = "finish" /\ next.req = runner[e].req /\ next.output = output
            /\ next.copy = runner[e].copy
    BY <2>1, GotoNext
  <2>3. Founded(x)'
    BY <1>5, EasedSame
  <2> QED BY <1>1, <1>2, <1>4, <1>5, <1>6, <1>7, <1>8, <2>1, <2>2, <2>3, OwnReviewWritten
<1> QED BY <1>9, <1>10

LEMMA FinishKeeps ==
    ASSUME ValueInv, NEW e \in Executors, V!Finish(e)
    PROVE  ValueInv'
<1>1. PICK r : r = runner[e].req
  OBVIOUS
<1>2. /\ r \in Reviews /\ review[r].token = e
      /\ review[r].status = "running" => review[r].snapshot = runner[e].copy.snapshot
  BY <1>1 DEF V!Finish, ValueInv, RunnerInv
<1>3. PICK x : x = V!Rows[r]
  OBVIOUS
<1>4. PICK output \in V!Versions \cup {None} :
          output = runner[e].output /\ output \in {runner[e].copy.snapshot, None}
  BY DEF ValueInv, RunnerInv, Runners
<1>5. PICK row : row = V!Outcome(x, output)
  OBVIOUS
<1>6. PICK next \in Runners : next = V!Idle /\ next.pc = "idle" /\ next.output = None
  BY IdleRunner
<1>7. /\ x.token = e /\ UNCHANGED calls /\ V!Commit(r, row)
      /\ x.status = "running" => V!QuoteHolds(x)
      /\ runner' = [runner EXCEPT ![e] = next]
  BY <1>1, <1>3, <1>4, <1>5, <1>6 DEF V!Finish, V!Stop
<1>8. /\ Eased(review[r], x) /\ ReviewRow(x)
      /\ \A y : Eased(x, y) => Founded(y)'
  BY <1>2, <1>3, <1>7, Committed
<1>9. calls[r] = 1 => x.sent
  BY <1>2, <1>8 DEF ValueInv, ReviewInv, Eased
<1>10. Founded(x)'
  BY <1>8, EasedSame
<1>11. ReviewRow(row) /\ Founded(row)' /\ row.token = e /\ row.sent = x.sent
  <2>1. CASE x.status # "running"
    BY <1>5, <1>7, <1>8, <1>10, <2>1 DEF V!Outcome
  <2>2. CASE x.status = "running" /\ output # None /\ x.sent
    <3>1. row = [x EXCEPT !.status = "succeeded", !.scores = output]
      BY <1>5, <2>2 DEF V!Outcome
    <3>2. /\ row \in V!ReviewType /\ row.status = "succeeded" /\ row.scores = output
          /\ row.snapshot = x.snapshot /\ row.mode = x.mode /\ row.quoted = x.quoted
          /\ row.token = x.token /\ row.sent = x.sent
      BY <1>8, <3>1 DEF ReviewRow, V!ReviewType, V!Live
    <3>3. output = x.snapshot
      BY <1>2, <1>4, <1>8, <2>2 DEF Eased, V!Live
    <3>4. ReviewRow(row)
      BY <1>8, <2>2, <3>2, <3>3 DEF ReviewRow, V!Consented
    <3>5. Founded(row)'
      BY <1>10, <2>2, <3>2 DEF Founded, V!Live
    <3> QED BY <1>7, <3>2, <3>4, <3>5
  <2>3. CASE x.status = "running" /\ ~(output # None /\ x.sent)
    <3>1. row = V!End(x, "unknown")
      BY <1>5, <2>3 DEF V!Outcome
    <3>2. Eased(x, row)
      BY <1>8, <2>3, <3>1, EndEases DEF V!Final
    <3>3. ReviewRow(row) /\ Founded(row)'
      BY <1>8, <3>2, EasedRow
    <3> QED BY <1>7, <3>2, <3>3 DEF Eased
  <2> QED BY <2>1, <2>2, <2>3
<1> QED BY <1>2, <1>6, <1>7, <1>9, <1>11, OwnReviewWritten

\* Steps of an executor that commit nothing.
LEMMA RunnerAlone ==
    ASSUME ValueInv, NEW e \in Executors, NEW next \in Runners,
           runner' = [runner EXCEPT ![e] = next],
           next.pc \in {"idle", "verified", "finish"},
           next.pc # "idle" => /\ runner[e].pc # "idle" /\ next.req = runner[e].req
                               /\ next.copy = runner[e].copy,
           next.output \in {next.copy.snapshot, None},
           UNCHANGED <<source, conn, review>>, faults' \in 0 .. MaxFaults,
           calls' = [r \in Reviews |-> calls'[r]],
           \A r \in Reviews :
               \/ calls'[r] = calls[r]
               \/ runner[e].pc = "marked" /\ runner[e].req = r /\ calls'[r] = 1
    PROVE  ValueInv'
<1>1. /\ runner' = [d \in Executors |-> runner'[d]]
      /\ runner'[e] = next
      /\ \A d \in Executors \ {e} : runner'[d] = runner[d]
  BY MovedRunner
<1>2. ASSUME NEW r \in Reviews PROVE ReviewInv(r)'
  <2>1. ReviewInv(r)
    BY DEF ValueInv
  <2>2. ReviewRow(review[r])' /\ Founded(review[r])'
    BY <2>1 DEF ReviewInv, ReviewRow, Founded
  <2>3. calls'[r] \in 0 .. 1 /\ (calls'[r] = 1 => review'[r].sent)
    <3>1. CASE calls'[r] = calls[r]
      BY <2>1, <3>1 DEF ReviewInv
    <3>2. CASE runner[e].pc = "marked" /\ runner[e].req = r /\ calls'[r] = 1
      BY <3>2 DEF ValueInv, RunnerInv
    <3> QED BY <3>1, <3>2
  <2> QED BY <2>2, <2>3 DEF ReviewInv
<1>3. ASSUME NEW d \in Executors PROVE RunnerInv(d)'
  <2>1. RunnerInv(d) /\ RunnerInv(e)
    BY DEF ValueInv
  <2>2. CASE d = e
    BY <1>1, <2>1, <2>2 DEF RunnerInv
  <2>3. CASE d # e
    <3>1. runner'[d] = runner[d]
      BY <1>1, <2>3
    <3>2. runner[d].pc = "marked" => calls'[runner[d].req] = calls[runner[d].req]
      BY <2>1, <2>3 DEF RunnerInv
    <3> QED BY <2>1, <3>1, <3>2 DEF RunnerInv
  <2> QED BY <2>2, <2>3
<1>4. ConnInv' /\ source' \in V!Versions /\ review' = [r \in Reviews |-> review'[r]]
  BY DEF ValueInv, ConnInv, V!RevisionsSuffice
<1> QED BY <1>1, <1>2, <1>3, <1>4 DEF ValueInv

LEMMA RunnerOnlyKeeps ==
    ASSUME ValueInv, NEW e \in Executors,
           V!Verify(e) \/ V!Refused(e) \/ V!Dies(e) \/ V!Score(e)
    PROVE  ValueInv'
<1>1. UNCHANGED <<source, conn, review>>
  BY DEF V!Verify, V!Refused, V!Dies, V!Score
<1>2. /\ calls = [r \in Reviews |-> calls[r]] /\ faults \in 0 .. MaxFaults
      /\ MaxFaults \in Nat /\ RunnerInv(e)
  BY AdviceAssumption DEF ValueInv
<1>3. CASE V!Verify(e)
  <2>1. PICK pc \in {"verified", "finish"}, output \in V!Versions \cup {None} :
            V!Goto(e, pc, output) /\ output = None
    BY <1>3 DEF V!Verify
  <2>2. PICK next \in Runners :
            /\ runner' = [runner EXCEPT ![e] = next]
            /\ next.pc = pc /\ next.req = runner[e].req /\ next.output = output
            /\ next.copy = runner[e].copy
    BY <2>1, GotoNext
  <2>3. UNCHANGED <<faults, calls>> /\ runner[e].pc # "idle"
    BY <1>3 DEF V!Verify
  <2> QED BY <1>1, <1>2, <2>1, <2>2, <2>3, RunnerAlone
<1>4. CASE V!Score(e)
  <2>1. PICK output \in {runner[e].copy.snapshot, None} : V!Goto(e, "finish", output)
    BY <1>4 DEF V!Score
  <2>2. output \in V!Versions \cup {None}
    BY <1>2 DEF RunnerInv, Runners, V!ReviewType
  <2>3. PICK next \in Runners :
            /\ runner' = [runner EXCEPT ![e] = next]
            /\ next.pc = "finish" /\ next.req = runner[e].req /\ next.output = output
            /\ next.copy = runner[e].copy
    BY <2>1, <2>2, GotoNext
  <2>4. PICK r : r = runner[e].req
    OBVIOUS
  <2>5. r \in Reviews /\ calls[r] = 0 /\ runner[e].pc = "marked"
    BY <1>2, <1>4, <2>4 DEF V!Score, RunnerInv
  <2>6. calls' = [calls EXCEPT ![r] = calls[r] + 1] /\ UNCHANGED faults
    BY <1>4, <2>4 DEF V!Score
  <2>7. calls' = [n \in Reviews |-> IF n = r THEN 1 ELSE calls[n]]
    BY <1>2, <2>5, <2>6
  <2> QED BY <1>1, <1>2, <2>1, <2>3, <2>4, <2>5, <2>6, <2>7, RunnerAlone, ZenonT(60)
<1>5. CASE V!Refused(e) \/ V!Dies(e)
  <2>1. PICK next \in Runners : next = V!Idle /\ next.pc = "idle" /\ next.output = None
    BY IdleRunner
  <2>2. runner' = [runner EXCEPT ![e] = next]
    BY <1>5, <2>1 DEF V!Refused, V!Dies, V!Stop
  <2>3. UNCHANGED calls /\ faults' \in 0 .. MaxFaults
    BY <1>2, <1>5 DEF V!Refused, V!Dies
  <2> QED BY <1>1, <1>2, <2>1, <2>2, <2>3, RunnerAlone
<1> QED BY <1>3, <1>4, <1>5

LEMMA ValueStepKeeps == ValueInv /\ [V!ReviewsNext]_valueVars => ValueInv'
<1>1. ASSUME ValueInv, V!ReviewsNext PROVE ValueInv'
  <2>1. CASE V!ReviewRequests
    BY <1>1, <2>1, PreviewKeeps, RequestKeeps DEF V!ReviewRequests
  <2>2. CASE V!Execution
    BY <1>1, <2>2, ClaimKeeps, RunnerOnlyKeeps, BeginCallKeeps, FinishKeeps DEF V!Execution
  <2> QED BY <1>1, <2>1, <2>2, ConnectionKeeps, SourceKeeps, ClockKeeps DEF V!ReviewsNext
<1>2. ASSUME ValueInv, UNCHANGED valueVars PROVE ValueInv'
  <2>1. UNCHANGED <<source, conn, review, runner, faults, calls>>
    BY <1>2 DEF valueVars
  <2>2. \A r \in Reviews : Founded(review[r])'
    BY <1>2, <2>1 DEF ValueInv, ReviewInv, Founded
  <2>3. \A r \in Reviews : Eased(review[r], review'[r])
    BY <1>2, <2>1, EasedSame DEF ValueInv, ReviewInv
  <2>4. ConnInv' /\ source' \in V!Versions /\ review' = [r \in Reviews |-> review'[r]]
    BY <1>2, <2>1 DEF ValueInv, ConnInv, V!RevisionsSuffice
  <2> QED BY <1>2, <2>1, <2>2, <2>3, <2>4, EasedStep
<1> QED BY <1>1, <1>2

-----------------------------------------------------------------------------
(* ValueReviews: theorems. *)

LEMMA ValuesAlone ==
    /\ MCInit => V!ReviewsInit
    /\ [ValueStep \/ LearningStep \/ AdviceStep]_allVars => [V!ReviewsNext]_valueVars
<1>1. MCInit => V!ReviewsInit
  BY DEF MCInit
<1>2. LearningStep \/ AdviceStep => UNCHANGED valueVars
  BY DEF LearningStep, AdviceStep
<1>3. ValueStep => V!ReviewsNext
  BY DEF ValueStep
<1>4. UNCHANGED allVars => UNCHANGED valueVars
  BY DEF allVars
<1> QED BY <1>1, <1>2, <1>3, <1>4

LEMMA ValueInvariance == MCSpec => []ValueInv
BY ValueInitHolds, ValueStepKeeps, ValuesAlone, PTL DEF MCSpec

\* Scores of entries are of the entries, the preferences and the connection the
\* user approved, and come of one call behind its durable marker
\* (begin_subscription_value, begin_local_value, finish_value).
THEOREM ScoresAreCurrentHolds == MCSpec => []ScoresAreCurrent
<1>1. ASSUME ValueInv PROVE ScoresAreCurrent
  <2>1. ASSUME NEW r \in Reviews
        PROVE  /\ review[r].status = "succeeded" =>
                     /\ review[r].scores = source /\ review[r].snapshot = source
                     /\ review[r].mode = "subscription" =>
                          conn.status = "active" /\ conn.rev = review[r].quoted
               /\ calls[r] <= 1
               /\ calls[r] = 1 => review[r].sent /\ review[r].token # None
    BY <1>1 DEF ValueInv, ReviewInv, ReviewRow, Founded, V!Live
  <2> QED BY <2>1 DEF ScoresAreCurrent, V!ScoresAreCurrent, V!CallBehindMarker
<1> QED BY <1>1, ValueInvariance, PTL

\* A connection always keeps a revision for its expiry and one for its
\* revocation, and no two snapshots of skills and scores share a revision
\* (save_subscription_connection, learning_state).
THEOREM RevisionsSufficeHolds == MCSpec => RevisionsSuffice
<1>1. ASSUME ValueInv PROVE V!ReviewsTypeOK /\ V!RevisionsSuffice
  <2>1. /\ review \in [Reviews -> V!ReviewType] /\ calls \in [Reviews -> 0 .. 2]
        /\ runner \in [Executors -> Runners]
    <3>1. \A r \in Reviews : review[r] \in V!ReviewType /\ calls[r] \in 0 .. 2
      BY <1>1 DEF ValueInv, ReviewInv, ReviewRow
    <3>2. \A e \in Executors : runner[e] \in Runners
      BY <1>1 DEF ValueInv, RunnerInv
    <3> QED BY <1>1, <3>1, <3>2 DEF ValueInv
  <2> QED BY <1>1, <2>1 DEF V!ReviewsTypeOK, ValueInv, ConnInv, ConnRows, Runners
<1>2. MCSpec => [](V!ReviewsTypeOK /\ V!RevisionsSuffice)
  BY <1>1, ValueInvariance, PTL
<1> DEFINE Names == <<skill, assessment>>' # <<skill, assessment>> => revision' > revision
<1>3. AdviceInv /\ [AdviceNext]_allLearningVars => [Names]_learningVars
  <2>1. LearningChanges => LearningNext
    BY DEF LearningChanges
  <2>2. AdviceNext => LearningNext \/ UNCHANGED learningVars
    BY <2>1 DEF AdviceNext, LinkChanges, AdviceRequests, Propose, ApproveAdvice, CancelAdvice,
       ReadAdvice, Rewrite, AdviceExecution, ClaimAdvice, VerifyAdvice, BeginAdvice,
       RefusedAdvice, Ask, FinishAdvice, WorkerDies, Store, AuthLapses, AdviceClaimLapses,
       LinkLapses
  <2>3. UNCHANGED allLearningVars => UNCHANGED learningVars
    BY DEF allLearningVars
  <2> QED BY <2>2, <2>3, LearnStepKeeps DEF AdviceInv, LearnKeeps, Named
<1>4. MCSpec => [][Names]_learningVars
  BY <1>3, AdviceInvariance, AdviceAlone, PTL DEF MCSpec
<1> QED BY <1>2, <1>4, PTL DEF RevisionsSuffice, RevisionNamesSnapshot

-----------------------------------------------------------------------------
(* Feeds: the invariant. *)

\* The types but those of the collections and schedules.
FeedTypes ==
    /\ F!TypeOK
    /\ \A s \in Subscriptions :
         /\ sub[s].enabled => ~sub[s].deleted /\ sub[s].source \in Sources
         /\ sub[s].deleted \/ sub[s].enabled => sub[s].made
    /\ \A c \in Collections :
         col[c].status # "none" => col[c].sub \in Subscriptions
    /\ \A k \in FeedSchedules :
         sched[k].status # "none" => sched[k].sub \in Subscriptions

\* A collection was begun once, by one executor that still has it, and is
\* asked of its source only by that one.
HolderInv ==
    /\ \A e \in F!Executors : at[e].phase # "idle" =>
         /\ at[e].col \in Collections
         /\ col[at[e].col].status \notin {"none", "draft"}
         /\ at[e].phase \in {"claimed", "cleared"} => fetches[at[e].col] = 0
         /\ at[e].outcome = "feed" => fetches[at[e].col] = 1
         /\ at[e].phase = "answered" => at[e].outcome \in F!Fetched
    /\ \A e, f \in F!Executors :
         at[e].phase # "idle" /\ at[f].phase # "idle" /\ e # f =>
             at[e].col # at[f].col
    /\ \A c \in Collections :
         /\ fetches[c] <= 1
         /\ col[c].status \in {"none", "draft"} => fetches[c] = 0

\* No two collections are of one occurrence.
OccurrenceInv ==
    \A c, d \in Collections :
        c # d /\ col[c].sched # Empty /\ col[c].sched = col[d].sched =>
            col[c].slot # col[d].slot

FeedInv == FeedTypes /\ HolderInv /\ OccurrenceInv /\ F!DeletedIsClean

LEMMA FeedsInitial == F!Init => FeedInv
<1> SUFFICES ASSUME F!Init PROVE FeedInv
  OBVIOUS
<1> USE DEF F!Init, F!NoSub, F!NoCol, F!NoSched, F!Idle
<1>1. FeedTypes
  BY FeedsAssumption DEF FeedTypes, F!TypeOK, F!Executors, F!Ended, F!Over,
     F!Fetched
<1>2. HolderInv
  BY DEF HolderInv
<1>3. OccurrenceInv
  BY DEF OccurrenceInv
<1>4. F!DeletedIsClean
  BY DEF F!DeletedIsClean
<1> QED BY <1>1, <1>2, <1>3, <1>4 DEF FeedInv

FeedScheduleRows ==
    [status : {"none", "draft", "active"} \cup F!Over,
     sub : Subscriptions \cup {Empty}, revision : 0 .. MaxEdits,
     source : Sources \cup {Empty}, lapsed : BOOLEAN,
     slot : 0 .. MaxSlots, open : BOOLEAN, over : BOOLEAN]

\* A step that only moves schedules: their types, and none that could still
\* collect is of a deleted subscription.
LEMMA ScheduleMoves ==
    ASSUME FeedInv, UNCHANGED <<sub, entries, col, at, fetches, crashes>>,
           sched' \in [FeedSchedules -> FeedScheduleRows],
           \A k \in FeedSchedules :
             /\ sched'[k].status # "none" => sched'[k].sub \in Subscriptions
             /\ sched'[k].status \in {"draft", "active"} =>
                  ~sub[sched'[k].sub].deleted
    PROVE  FeedInv'
<1>1. FeedTypes'
  BY DEF FeedInv, FeedTypes, F!TypeOK, FeedScheduleRows
<1>2. HolderInv' /\ OccurrenceInv'
  BY DEF FeedInv, HolderInv, OccurrenceInv
<1>3. F!DeletedIsClean'
  BY DEF FeedInv, F!DeletedIsClean
<1> QED BY <1>1, <1>2, <1>3 DEF FeedInv

\* What has expired does not collect.
LEMMA ExpireTypes ==
    ASSUME FeedInv
    PROVE  /\ F!Expire(sched) \in [FeedSchedules -> FeedScheduleRows]
           /\ \A k \in FeedSchedules :
                /\ F!Expire(sched)[k].sub = sched[k].sub
                /\ F!Expire(sched)[k].status \in {sched[k].status, "expired"}
                /\ F!Expire(sched)[k].status = "expired" =>
                     sched[k].status # "none"
<1>1. ASSUME NEW k \in FeedSchedules
      PROVE  /\ sched[k] \in FeedScheduleRows
             /\ F!Expire(sched)[k] = IF F!Expired(k)
                                     THEN [sched[k] EXCEPT !.status = "expired"]
                                     ELSE sched[k]
  BY DEF FeedInv, FeedTypes, F!TypeOK, F!Expire, FeedScheduleRows
<1>2. ASSUME NEW k \in FeedSchedules
      PROVE  /\ F!Expire(sched)[k] \in FeedScheduleRows
             /\ F!Expire(sched)[k].sub = sched[k].sub
             /\ F!Expire(sched)[k].status \in {sched[k].status, "expired"}
             /\ F!Expire(sched)[k].status = "expired" =>
                  sched[k].status # "none"
  <2>1. CASE F!Expired(k)
    BY <2>1, <1>1, ZenonT(60) DEF FeedScheduleRows, F!Expired, F!Over
  <2>2. CASE ~F!Expired(k)
    BY <2>2, <1>1 DEF FeedScheduleRows, F!Expired, F!Over
  <2> QED BY <2>1, <2>2
<1>3. F!Expire(sched) \in [FeedSchedules -> FeedScheduleRows]
  BY <1>2 DEF F!Expire
<1> QED BY <1>2, <1>3

LEMMA CollectingIsKept ==
    ASSUME FeedInv, NEW k \in FeedSchedules,
           sched[k].status \in {"draft", "active"}
    PROVE  sched[k].sub \in Subscriptions /\ ~sub[sched[k].sub].deleted
BY DEF FeedInv, FeedTypes, F!DeletedIsClean

\* A step that changes one schedule and may write what has expired.
LEMMA ScheduleMove ==
    ASSUME FeedInv, NEW k \in FeedSchedules, NEW row \in FeedScheduleRows,
           UNCHANGED <<sub, entries, col, at, fetches, crashes>>,
           \/ sched' = [sched EXCEPT ![k] = row]
           \/ sched' = [F!Expire(sched) EXCEPT ![k] = row],
           row.sub \in Subscriptions,
           row.status \in {"draft", "active"} => ~sub[row.sub].deleted
    PROVE  FeedInv'
<1>1. sched \in [FeedSchedules -> FeedScheduleRows]
  BY DEF FeedInv, FeedTypes, F!TypeOK, FeedScheduleRows
<1>2. ASSUME NEW rows \in [FeedSchedules -> FeedScheduleRows],
             sched' = [rows EXCEPT ![k] = row],
             \A j \in FeedSchedules :
               /\ rows[j].sub = sched[j].sub
               /\ rows[j].status \in {sched[j].status, "expired"}
               /\ rows[j].status = "expired" => sched[j].status # "none"
      PROVE  FeedInv'
  <2>1. sched' \in [FeedSchedules -> FeedScheduleRows]
    BY <1>2
  <2>2. ASSUME NEW j \in FeedSchedules
        PROVE  /\ sched'[j].status # "none" => sched'[j].sub \in Subscriptions
               /\ sched'[j].status \in {"draft", "active"} =>
                    ~sub[sched'[j].sub].deleted
    <3>1. CASE j = k
      BY <3>1, <1>2
    <3>2. CASE j # k
      <4>1. sched'[j] = rows[j]
        BY <3>2, <1>2
      <4> QED BY <4>1, <1>2, CollectingIsKept DEF FeedInv, FeedTypes
    <3> QED BY <3>1, <3>2
  <2> QED BY <2>1, <2>2, ScheduleMoves
<1>3. CASE sched' = [sched EXCEPT ![k] = row]
  <2>1. \A j \in FeedSchedules :
          sched[j].status = "expired" => sched[j].status # "none"
    OBVIOUS
  <2> QED BY <1>1, <1>2, <1>3, <2>1
<1>4. CASE sched' = [F!Expire(sched) EXCEPT ![k] = row]
  BY <1>2, <1>4, ExpireTypes
<1> QED BY <1>3, <1>4

LEMMA ScheduleRequestKeeps ==
    ASSUME FeedInv, F!ScheduleRequests
    PROVE  FeedInv'
<1>1. /\ sched \in [FeedSchedules -> FeedScheduleRows]
      /\ \A s \in Subscriptions :
           /\ sub[s].revision \in 0 .. MaxEdits
           /\ sub[s].source \in Sources \cup {Empty}
           /\ sub[s].enabled => ~sub[s].deleted
  BY DEF FeedInv, FeedTypes, F!TypeOK, FeedScheduleRows
<1>2. ASSUME NEW k \in FeedSchedules, NEW s \in Subscriptions,
             F!PreviewSchedule(k, s)
      PROVE  FeedInv'
  <2> DEFINE row == [F!NoSched EXCEPT !.status = "draft", !.sub = s,
                                      !.revision = sub[s].revision,
                                      !.source = sub[s].source]
  <2>1. /\ row \in FeedScheduleRows
        /\ row.sub = s
    <3>1. F!NoSched \in FeedScheduleRows
      BY FeedsAssumption DEF F!NoSched, FeedScheduleRows
    <3>2. sub[s].revision \in 0 .. MaxEdits /\ sub[s].source \in Sources \cup {Empty}
      BY <1>1
    <3> QED BY <3>1, <3>2 DEF FeedScheduleRows
  <2>2. ~sub[s].deleted
    BY <1>2, <1>1 DEF F!PreviewSchedule, F!Plannable
  <2>3. sched' = [F!Expire(sched) EXCEPT ![k] = row]
    BY <1>2 DEF F!PreviewSchedule
  <2> HIDE DEF row
  <2> QED BY <2>1, <2>2, <2>3, <1>2, ScheduleMove DEF F!PreviewSchedule
<1>3. ASSUME NEW k \in FeedSchedules, F!ApproveSchedule(k)
      PROVE  FeedInv'
  <2> DEFINE rows == F!Expire(sched)
  <2> DEFINE row == [rows[k] EXCEPT !.status = "active"]
  <2>1. rows \in [FeedSchedules -> FeedScheduleRows] /\ rows[k].sub = sched[k].sub
    BY ExpireTypes
  <2>2. row \in FeedScheduleRows /\ row.sub = sched[k].sub
    BY <2>1 DEF FeedScheduleRows
  <2>3. sched[k].status = "draft"
    BY <1>3 DEF F!ApproveSchedule
  <2>4. sched' = [rows EXCEPT ![k] = row]
    BY <1>3, <2>1 DEF F!ApproveSchedule
  <2> HIDE DEF row
  <2> QED BY <2>2, <2>3, <2>4, <1>3, ScheduleMove, CollectingIsKept
         DEF F!ApproveSchedule
<1>4. ASSUME NEW k \in FeedSchedules, F!CancelSchedule(k)
      PROVE  FeedInv'
  <2> DEFINE row == [sched[k] EXCEPT !.status = "cancelled"]
  <2>1. /\ row \in FeedScheduleRows
        /\ row.sub = sched[k].sub /\ row.status = "cancelled"
    BY <1>1 DEF FeedScheduleRows, F!Over
  <2>2. sched' = [sched EXCEPT ![k] = row]
    BY <1>4, <1>1 DEF F!CancelSchedule
  <2> HIDE DEF row
  <2> QED BY <2>1, <2>2, <1>4, ScheduleMove, CollectingIsKept
         DEF F!CancelSchedule
<1>5. ASSUME F!ReadSchedules
      PROVE  FeedInv'
  <2>1. sched' = F!Expire(sched)
    BY <1>5 DEF F!ReadSchedules
  <2>2. ASSUME NEW j \in FeedSchedules
        PROVE  /\ sched'[j].status # "none" => sched'[j].sub \in Subscriptions
               /\ sched'[j].status \in {"draft", "active"} =>
                    ~sub[sched'[j].sub].deleted
    BY <2>1, ExpireTypes, CollectingIsKept DEF FeedInv, FeedTypes
  <2> QED BY <1>5, <2>1, <2>2, ExpireTypes, ScheduleMoves DEF F!ReadSchedules
<1> QED BY <1>2, <1>3, <1>4, <1>5 DEF F!ScheduleRequests

LEMMA ScheduleTimeKeeps ==
    ASSUME FeedInv, NEW k \in FeedSchedules,
           \/ F!ApprovalLapses(k) \/ F!SlotBegins(k)
           \/ F!WindowCloses(k) \/ F!ScheduleEnds(k)
    PROVE  FeedInv'
<1>1. sched \in [FeedSchedules -> FeedScheduleRows]
  BY DEF FeedInv, FeedTypes, F!TypeOK, FeedScheduleRows
<1>2. ASSUME NEW row \in FeedScheduleRows, sched' = [sched EXCEPT ![k] = row],
             row.sub = sched[k].sub, row.status = sched[k].status,
             F!Known(k), UNCHANGED <<sub, entries, col, at, fetches, crashes>>
      PROVE  FeedInv'
  BY <1>2, ScheduleMove, CollectingIsKept DEF F!Known
<1>3. CASE F!ApprovalLapses(k)
  <2> DEFINE row == [sched[k] EXCEPT !.lapsed = TRUE]
  <2>1. row \in FeedScheduleRows
    BY <1>1 DEF FeedScheduleRows
  <2>2. sched' = [sched EXCEPT ![k] = row]
    BY <1>3, <1>1 DEF F!ApprovalLapses
  <2> QED BY <2>1, <2>2, <1>1, <1>2, <1>3
         DEF F!ApprovalLapses, FeedScheduleRows
<1>4. CASE F!SlotBegins(k)
  <2> DEFINE row == [sched[k] EXCEPT !.slot = @ + 1, !.open = TRUE]
  <2>1. row \in FeedScheduleRows
    BY <1>1, <1>4, FeedsAssumption DEF FeedScheduleRows, F!SlotBegins
  <2>2. sched' = [sched EXCEPT ![k] = row]
    BY <1>4, <1>1 DEF F!SlotBegins
  <2> QED BY <2>1, <2>2, <1>1, <1>2, <1>4
         DEF F!SlotBegins, FeedScheduleRows
<1>5. CASE F!WindowCloses(k)
  <2> DEFINE row == [sched[k] EXCEPT !.open = FALSE]
  <2>1. row \in FeedScheduleRows
    BY <1>1 DEF FeedScheduleRows
  <2>2. sched' = [sched EXCEPT ![k] = row]
    BY <1>5, <1>1 DEF F!WindowCloses
  <2> QED BY <2>1, <2>2, <1>1, <1>2, <1>5
         DEF F!WindowCloses, FeedScheduleRows
<1>6. CASE F!ScheduleEnds(k)
  <2> DEFINE row == [sched[k] EXCEPT !.over = TRUE, !.open = FALSE]
  <2>1. row \in FeedScheduleRows
    BY <1>1 DEF FeedScheduleRows
  <2>2. sched' = [sched EXCEPT ![k] = row]
    BY <1>6, <1>1 DEF F!ScheduleEnds
  <2> QED BY <2>1, <2>2, <1>1, <1>2, <1>6
         DEF F!ScheduleEnds, FeedScheduleRows
<1> QED BY <1>3, <1>4, <1>5, <1>6

-----------------------------------------------------------------------------
(* Feeds: subscriptions and collections. *)

LEMMA SubscriptionRequestKeeps ==
    ASSUME FeedInv, F!SubscriptionRequests
    PROVE  FeedInv'
<1> USE DEF FeedInv
<1>1. ASSUME NEW s \in Subscriptions, NEW u \in Sources, NEW on \in BOOLEAN,
             F!CreateSubscription(s, u, on)
      PROVE  FeedInv'
  <2>1. FeedTypes'
    BY <1>1, FeedsAssumption DEF F!CreateSubscription, FeedTypes, F!TypeOK
  <2>2. HolderInv' /\ OccurrenceInv'
    BY <1>1 DEF F!CreateSubscription, HolderInv, OccurrenceInv
  <2>3. F!DeletedIsClean'
    BY <1>1 DEF F!CreateSubscription, F!DeletedIsClean, FeedTypes, F!TypeOK
  <2> QED BY <2>1, <2>2, <2>3
<1>2. ASSUME NEW s \in Subscriptions, F!InvalidateSchedules(s)
      PROVE  /\ sched' \in [FeedSchedules -> FeedScheduleRows]
             /\ \A k \in FeedSchedules :
                  /\ sched'[k].sub = sched[k].sub
                  /\ sched'[k].status \in {sched[k].status, "cancelled"}
                  /\ sched'[k].status = "cancelled" => sched[k].status # "none"
                  /\ sched'[k].sub = s =>
                       sched'[k].status \notin {"draft", "active"}
  <2>1. ASSUME NEW k \in FeedSchedules
        PROVE  /\ sched[k] \in FeedScheduleRows
               /\ sched'[k] =
                     IF sched[k].sub = s /\ sched[k].status \in {"draft", "active"}
                     THEN [sched[k] EXCEPT !.status = "cancelled"]
                     ELSE sched[k]
    BY <1>2 DEF FeedTypes, F!TypeOK, F!InvalidateSchedules, FeedScheduleRows
  <2>2. ASSUME NEW k \in FeedSchedules
        PROVE  /\ sched'[k] \in FeedScheduleRows
               /\ sched'[k].sub = sched[k].sub
               /\ sched'[k].status \in {sched[k].status, "cancelled"}
               /\ sched'[k].status = "cancelled" => sched[k].status # "none"
               /\ sched'[k].sub = s =>
                    sched'[k].status \notin {"draft", "active"}
    BY <2>1, ZenonT(60) DEF FeedScheduleRows, F!Over
  <2>3. sched' \in [FeedSchedules -> FeedScheduleRows]
    BY <1>2, <2>2 DEF F!InvalidateSchedules
  <2> QED BY <2>2, <2>3
<1>3. ASSUME NEW s \in Subscriptions, NEW u \in Sources, NEW on \in BOOLEAN,
             F!UpdateSubscription(s, u, on)
      PROVE  FeedInv'
  <2>1. F!InvalidateSchedules(s)
    BY <1>3 DEF F!UpdateSubscription
  <2>2. FeedTypes'
    BY <1>3, <1>2, <2>1, FeedsAssumption
       DEF F!UpdateSubscription, FeedTypes, F!TypeOK, FeedScheduleRows
  <2>3. HolderInv' /\ OccurrenceInv'
    BY <1>3 DEF F!UpdateSubscription, HolderInv, OccurrenceInv
  <2>4. F!DeletedIsClean'
    BY <1>3, <1>2, <2>1
       DEF F!UpdateSubscription, F!DeletedIsClean, FeedTypes, F!TypeOK
  <2> QED BY <2>2, <2>3, <2>4
<1>4. ASSUME NEW s \in Subscriptions, F!DeleteSubscription(s)
      PROVE  FeedInv'
  <2>1. F!InvalidateSchedules(s)
    BY <1>4 DEF F!DeleteSubscription
  <2>2. FeedTypes'
    BY <1>4, <1>2, <2>1, FeedsAssumption
       DEF F!DeleteSubscription, FeedTypes, F!TypeOK, FeedScheduleRows
  <2>3. HolderInv' /\ OccurrenceInv'
    BY <1>4 DEF F!DeleteSubscription, HolderInv, OccurrenceInv
  <2>4. F!DeletedIsClean'
    BY <1>4, <1>2, <2>1
       DEF F!DeleteSubscription, F!DeletedIsClean, FeedTypes, F!TypeOK
  <2> QED BY <2>2, <2>3, <2>4
<1> QED BY <1>1, <1>3, <1>4 DEF F!SubscriptionRequests

\* The rows of collections, as in the type.
CollectionRows ==
    [status : {"none", "draft", "running"} \cup F!Ended,
     sub : Subscriptions \cup {Empty}, revision : 0 .. MaxEdits,
     source : Sources \cup {Empty}, late : BOOLEAN,
     sched : FeedSchedules \cup {Empty}, slot : 0 .. MaxSlots,
     dispatched : BOOLEAN]

\* What a step may do to a collection that was begun, without an executor:
\* only its status and its clock change, and it is not begun again.
LEMMA CollectionMove ==
    ASSUME FeedInv, NEW c \in Collections, NEW row \in CollectionRows,
           UNCHANGED <<sub, entries, sched, at, fetches, crashes>>,
           col' = [col EXCEPT ![c] = row],
           row.sub \in Subscriptions,
           \/ /\ row.sched = col[c].sched /\ row.slot = col[c].slot
              /\ row.status \in {"none", "draft"} =>
                   col[c].status \in {"none", "draft"}
           \/ row.sched = Empty /\ col[c].status = "none"
    PROVE  FeedInv'
<1>1. /\ col \in [Collections -> CollectionRows]
      /\ \A d \in Collections : col'[d] = IF d = c THEN row ELSE col[d]
  BY DEF FeedInv, FeedTypes, F!TypeOK, CollectionRows
<1>2. FeedTypes'
  BY <1>1 DEF FeedInv, FeedTypes, F!TypeOK, CollectionRows
<1>3. HolderInv'
  BY <1>1 DEF FeedInv, HolderInv
<1>4. OccurrenceInv'
  BY <1>1 DEF FeedInv, OccurrenceInv
<1>5. F!DeletedIsClean'
  BY DEF FeedInv, F!DeletedIsClean
<1> QED BY <1>2, <1>3, <1>4, <1>5 DEF FeedInv

LEMMA CollectionRequestKeeps ==
    ASSUME FeedInv, NEW c \in Collections,
           \/ \E s \in Subscriptions : F!PreviewCollection(c, s)
           \/ F!CancelCollection(c) \/ F!Recover(c) \/ F!CollectionLate(c)
    PROVE  FeedInv'
<1>1. /\ col \in [Collections -> CollectionRows]
      /\ col[c].status # "none" => col[c].sub \in Subscriptions
      /\ \A s \in Subscriptions :
           /\ sub[s].revision \in 0 .. MaxEdits
           /\ sub[s].source \in Sources \cup {Empty}
  BY DEF FeedInv, FeedTypes, F!TypeOK, CollectionRows
<1>2. ASSUME NEW s \in Subscriptions, F!PreviewCollection(c, s)
      PROVE  FeedInv'
  <2> DEFINE row == [F!NoCol EXCEPT !.status = "draft", !.sub = s,
                                    !.revision = sub[s].revision,
                                    !.source = sub[s].source]
  <2>1. F!NoCol \in CollectionRows /\ F!NoCol.sched = Empty
    BY FeedsAssumption DEF F!NoCol, CollectionRows
  <2>2. sub[s].revision \in 0 .. MaxEdits /\ sub[s].source \in Sources \cup {Empty}
    BY <1>1
  <2>3. row \in CollectionRows /\ row.sub = s /\ row.sched = Empty
    BY <2>1, <2>2 DEF CollectionRows
  <2>4. col' = [col EXCEPT ![c] = row] /\ col[c].status = "none"
    BY <1>2 DEF F!PreviewCollection
  <2> HIDE DEF row
  <2> QED BY <2>3, <2>4, <1>2, CollectionMove DEF F!PreviewCollection
<1>3. CASE F!CancelCollection(c)
  <2> DEFINE row == [col[c] EXCEPT !.status = "cancelled"]
  <2>1. row \in CollectionRows
    BY <1>1 DEF CollectionRows, F!Ended
  <2>2. col' = [col EXCEPT ![c] = row]
    BY <1>3, <1>1 DEF F!CancelCollection
  <2>3. /\ row.sub = col[c].sub /\ row.sched = col[c].sched
        /\ row.slot = col[c].slot /\ row.status = "cancelled"
    BY <1>1 DEF CollectionRows
  <2> HIDE DEF row
  <2> QED BY <2>1, <2>2, <2>3, <1>1, <1>3, CollectionMove
         DEF F!CancelCollection
<1>4. CASE F!Recover(c)
  <2> DEFINE row == [col[c] EXCEPT !.status = "unknown"]
  <2>1. row \in CollectionRows
    BY <1>1 DEF CollectionRows, F!Ended
  <2>2. col' = [col EXCEPT ![c] = row]
    BY <1>4, <1>1 DEF F!Recover
  <2>3. /\ row.sub = col[c].sub /\ row.sched = col[c].sched
        /\ row.slot = col[c].slot /\ row.status = "unknown"
    BY <1>1 DEF CollectionRows
  <2> HIDE DEF row
  <2> QED BY <2>1, <2>2, <2>3, <1>1, <1>4, CollectionMove DEF F!Recover
<1>5. CASE F!CollectionLate(c)
  <2> DEFINE row == [col[c] EXCEPT !.late = TRUE]
  <2>1. row \in CollectionRows
    BY <1>1 DEF CollectionRows
  <2>2. col' = [col EXCEPT ![c] = row]
    BY <1>5, <1>1 DEF F!CollectionLate
  <2>3. /\ row.sub = col[c].sub /\ row.sched = col[c].sched
        /\ row.slot = col[c].slot /\ row.status = col[c].status
    BY <1>1 DEF CollectionRows
  <2> HIDE DEF row
  <2> QED BY <2>1, <2>2, <2>3, <1>1, <1>5, CollectionMove
         DEF F!CollectionLate
<1> QED BY <1>2, <1>3, <1>4, <1>5

-----------------------------------------------------------------------------
(* Feeds: the executors. *)

\* What a permit has in hand, as in the type.
Hands ==
    [phase : {"idle", "claimed", "cleared", "answered"},
     col : Collections \cup {Empty}, outcome : F!Fetched \cup {"none"}]

LEMMA BeginKeeps ==
    ASSUME FeedInv, F!Begin
    PROVE  FeedInv'
<1> USE DEF FeedInv
<1>1. /\ col \in [Collections -> CollectionRows]
      /\ at \in [F!Executors -> Hands]
  BY DEF FeedTypes, F!TypeOK, CollectionRows, Hands
<1>2. ASSUME NEW e \in F!Executors, NEW c \in Collections,
             NEW row \in CollectionRows, NEW hand \in Hands,
             hand.phase \in {"claimed", "cleared"}, hand.col = c,
             hand.outcome = "none",
             col[c].status \in {"none", "draft"}, at[e].phase = "idle",
             row.sub \in Subscriptions, row.status = "running",
             \/ row.sched = col[c].sched /\ row.slot = col[c].slot
             \/ \A d \in Collections :
                  ~(col[d].sched = row.sched /\ col[d].slot = row.slot),
             col' = [col EXCEPT ![c] = row],
             at' = [at EXCEPT ![e] = hand],
             UNCHANGED <<sub, entries, sched, fetches, crashes>>
      PROVE  FeedInv'
  <2>1. /\ \A d \in Collections : col'[d] = IF d = c THEN row ELSE col[d]
        /\ \A f \in F!Executors : f # e => at'[f] = at[f]
        /\ at'[e] = hand
    BY <1>1, <1>2
  <2>2. /\ col' \in [Collections -> CollectionRows]
        /\ at' \in [F!Executors -> Hands]
    BY <1>1, <1>2
  <2>3. FeedTypes'
    BY <2>1, <2>2, <1>2 DEF FeedTypes, F!TypeOK, CollectionRows, Hands
  <2>4. fetches[c] = 0
    BY <1>2 DEF HolderInv
  <2>5. HolderInv'
    <3>1. ASSUME NEW f \in F!Executors, f # e, at[f].phase # "idle"
          PROVE  at[f].col # c
      BY <3>1, <1>2 DEF HolderInv
    <3> QED BY <2>1, <2>4, <3>1, <1>2 DEF HolderInv
  <2>6. OccurrenceInv'
    BY <2>1, <1>2 DEF OccurrenceInv
  <2>7. F!DeletedIsClean'
    BY <1>2 DEF F!DeletedIsClean
  <2> QED BY <2>3, <2>5, <2>6, <2>7
<1>3. ASSUME NEW e \in Confirmers, NEW c \in Collections, F!Confirm(e, c)
      PROVE  FeedInv'
  <2> DEFINE row == [col[c] EXCEPT !.status = "running"]
  <2> DEFINE hand == [F!Idle EXCEPT !.phase = "cleared", !.col = c]
  <2>0. /\ hand \in Hands /\ hand.phase = "cleared" /\ hand.col = c
        /\ hand.outcome = "none"
    <3>1. F!Idle \in Hands /\ F!Idle.outcome = "none"
      BY DEF F!Idle, Hands
    <3> QED BY <3>1 DEF Hands
  <2>1. /\ row \in CollectionRows /\ row.sub = col[c].sub
        /\ row.status = "running" /\ row.sched = col[c].sched
        /\ row.slot = col[c].slot
    BY <1>1 DEF CollectionRows
  <2>2. col[c].status = "draft" /\ col[c].sub \in Subscriptions
    BY <1>3 DEF F!Confirm, F!ClaimCollection, FeedTypes
  <2>3. col' = [col EXCEPT ![c] = row]
    BY <1>3, <1>1 DEF F!Confirm, F!ClaimCollection
  <2>4. at' = [at EXCEPT ![e] = hand]
    BY <1>3 DEF F!Confirm
  <2>5. e \in F!Executors
    BY DEF F!Executors
  <2> HIDE DEF row, hand
  <2> QED BY <2>0, <2>1, <2>2, <2>3, <2>4, <2>5, <1>2, <1>3 DEF F!Confirm
<1>4. ASSUME NEW e \in FeedRunners, NEW k \in FeedSchedules,
             NEW c \in Collections, F!RunSchedule(e, k, c)
      PROVE  FeedInv'
  <2> DEFINE row == [F!NoCol EXCEPT !.status = "running",
                       !.sub = sched[k].sub, !.revision = sched[k].revision,
                       !.source = sched[k].source, !.sched = k,
                       !.slot = sched[k].slot]
  <2> DEFINE hand == [F!Idle EXCEPT !.phase = "claimed", !.col = c]
  <2>0. /\ hand \in Hands /\ hand.phase = "claimed" /\ hand.col = c
        /\ hand.outcome = "none"
    <3>1. F!Idle \in Hands /\ F!Idle.outcome = "none"
      BY DEF F!Idle, Hands
    <3> QED BY <3>1 DEF Hands
  <2>1. /\ sched[k] \in FeedScheduleRows /\ sched[k].status = "active"
        /\ sched[k].sub \in Subscriptions
    BY <1>4 DEF F!RunSchedule, F!Scanned, FeedTypes, F!TypeOK, FeedScheduleRows
  <2>2. /\ row \in CollectionRows /\ row.status = "running"
        /\ row.sub = sched[k].sub /\ row.sched = k
        /\ row.slot = sched[k].slot
    <3>1. F!NoCol \in CollectionRows
      BY FeedsAssumption DEF F!NoCol, CollectionRows
    <3> QED BY <3>1, <2>1 DEF FeedScheduleRows, CollectionRows
  <2>3. col[c].status = "none" /\ ~F!AlreadyClaimed(k)
    BY <1>4 DEF F!RunSchedule, F!ClaimScheduled
  <2>4. col' = [col EXCEPT ![c] = row]
    BY <1>4 DEF F!RunSchedule, F!ClaimScheduled
  <2>5. at' = [at EXCEPT ![e] = hand]
    BY <1>4 DEF F!RunSchedule
  <2>6. e \in F!Executors
    BY DEF F!Executors
  <2>7. \A d \in Collections :
          ~(col[d].sched = row.sched /\ col[d].slot = row.slot)
    BY <2>2, <2>3 DEF F!AlreadyClaimed
  <2>8. row.sub \in Subscriptions
    BY <2>1, <2>2
  <2>9. at[e].phase = "idle" /\ UNCHANGED <<sub, entries, sched, fetches, crashes>>
    BY <1>4 DEF F!RunSchedule
  <2> HIDE DEF row, hand
  <2> QED BY <2>0, <2>2, <2>3, <2>4, <2>5, <2>6, <2>7, <2>8, <2>9, <1>2
<1> QED BY <1>3, <1>4 DEF F!Begin

\* What a write does: one collection that runs ends, and what it brought is
\* written of a subscription that is as it was planned.
LEMMA FinishMoves ==
    ASSUME FeedInv, NEW c \in Collections, NEW outcome \in F!Fetched,
           col[c].status \notin {"none", "draft"}, F!FinishFeed(c, outcome)
    PROVE  /\ \A d \in Collections :
              /\ col'[d].sub = col[d].sub /\ col'[d].sched = col[d].sched
              /\ col'[d].slot = col[d].slot
              /\ col'[d].status # col[d].status =>
                    d = c /\ col'[d].status \in F!Ended
           /\ col' \in [Collections -> CollectionRows]
           /\ entries' \in [Subscriptions -> SUBSET Sources]
           /\ \A s \in Subscriptions :
                sub[s].deleted => entries'[s] = entries[s]
           /\ \A s \in Subscriptions : entries'[s] # entries[s] =>
                /\ s = col[c].sub /\ F!SamePlan(col[c])
                /\ entries'[s] \ entries[s] = {col[c].source}
                /\ col[c].status = "running" /\ col'[c].status = "succeeded"
                /\ ~F!ScheduledInvalid(c) /\ outcome = "feed"
<1>1. /\ col \in [Collections -> CollectionRows]
      /\ entries \in [Subscriptions -> SUBSET Sources]
      /\ col[c].sub \in Subscriptions
      /\ sub[col[c].sub].enabled =>
           ~sub[col[c].sub].deleted /\ sub[col[c].sub].source \in Sources
  BY DEF FeedInv, FeedTypes, F!TypeOK, CollectionRows
<1>2. CASE col[c].status # "running"
  BY <1>1, <1>2 DEF F!FinishFeed
<1>3. CASE col[c].status = "running"
  <2> DEFINE verdict == F!Verdict(c, outcome)
             row == [col[c] EXCEPT !.status = verdict]
  <2>1. /\ verdict \in F!Ended
        /\ verdict = "succeeded" =>
             F!SamePlan(col[c]) /\ ~F!ScheduledInvalid(c) /\ outcome = "feed"
    <3>1. CASE col[c].late
      BY <3>1 DEF F!Verdict, F!Ended
    <3>2. CASE ~col[c].late /\ (F!ScheduledInvalid(c) \/ ~F!SamePlan(col[c]))
      BY <3>2 DEF F!Verdict, F!Ended
    <3>3. CASE ~col[c].late /\ ~F!ScheduledInvalid(c) /\ F!SamePlan(col[c])
      <4>1. verdict = CASE outcome = "feed" -> "succeeded"
                        [] outcome \in {"garbage", "transport"} -> "failed"
                        [] outcome = "timeout" -> "unknown"
        BY <3>3 DEF F!Verdict
      <4> HIDE DEF verdict
      <4> QED BY <4>1, <3>3 DEF F!Ended, F!Fetched
    <3> QED BY <3>1, <3>2, <3>3
  <2>2. /\ col' = [col EXCEPT ![c] = row]
        /\ entries' = IF verdict = "succeeded"
                      THEN [entries EXCEPT ![col[c].sub] = @ \cup {col[c].source}]
                      ELSE entries
    BY <1>1, <1>3 DEF F!FinishFeed
  <2> HIDE DEF verdict
  <2>3. /\ row \in CollectionRows /\ row.status = verdict
        /\ row.sub = col[c].sub /\ row.sched = col[c].sched
        /\ row.slot = col[c].slot
    BY <1>1, <2>1 DEF CollectionRows
  <2> HIDE DEF row
  <2>4. /\ col' \in [Collections -> CollectionRows]
        /\ \A d \in Collections : col'[d] = IF d = c THEN row ELSE col[d]
    BY <1>1, <2>2, <2>3
  <2>5. CASE verdict = "succeeded"
    <3>1. /\ sub[col[c].sub].enabled /\ col[c].source \in Sources
          /\ ~sub[col[c].sub].deleted
      BY <1>1, <2>1, <2>5 DEF F!SamePlan
    <3>2. /\ entries' \in [Subscriptions -> SUBSET Sources]
          /\ \A s \in Subscriptions : entries'[s] =
               IF s = col[c].sub THEN entries[s] \cup {col[c].source}
               ELSE entries[s]
      BY <1>1, <2>2, <2>5, <3>1
    <3>3. ASSUME NEW s \in Subscriptions, entries'[s] # entries[s]
          PROVE  /\ s = col[c].sub
                 /\ entries'[s] \ entries[s] = {col[c].source}
      BY <3>2, <3>3
    <3>4. \A s \in Subscriptions : sub[s].deleted => entries'[s] = entries[s]
      BY <3>1, <3>2
    <3>5. \A d \in Collections :
             /\ col'[d].sub = col[d].sub /\ col'[d].sched = col[d].sched
             /\ col'[d].slot = col[d].slot
             /\ col'[d].status # col[d].status =>
                   d = c /\ col'[d].status \in F!Ended
      BY <2>1, <2>3, <2>4
    <3>6. col'[c].status = "succeeded"
      BY <2>3, <2>4, <2>5
    <3> QED BY <3>2, <3>3, <3>4, <3>5, <3>6, <2>1, <2>4, <2>5, <1>3
  <2>6. CASE verdict # "succeeded"
    <3>1. entries' = entries
      BY <2>2, <2>6
    <3> QED BY <3>1, <1>1, <2>1, <2>3, <2>4
  <2> QED BY <2>5, <2>6
<1> QED BY <1>2, <1>3

\* The executor of a collection goes on or gives up.
LEMMA WorkKeeps ==
    ASSUME FeedInv, NEW e \in F!Executors, F!Work(e) \/ F!Fault(e)
    PROVE  FeedInv'
<1> USE DEF FeedInv
<1>1. /\ col \in [Collections -> CollectionRows]
      /\ at \in [F!Executors -> Hands]
      /\ fetches \in [Collections -> Nat] /\ crashes \in 0 .. MaxCrashes
  BY DEF FeedTypes, F!TypeOK, CollectionRows, Hands
<1>2. at[e].phase # "idle"
  BY DEF F!Work, F!Dispatch, F!Fetch, F!Finish, F!Fault
<1> DEFINE c == at[e].col
<1>3. c \in Collections /\ col[c].status \notin {"none", "draft"}
  BY <1>2 DEF HolderInv
<1>4. CASE F!Fault(e)
  <2>1. /\ \A f \in F!Executors : f # e => at'[f] = at[f]
        /\ at'[e] = F!Idle
    BY <1>1, <1>4 DEF F!Fault
  <2>2. FeedTypes'
    BY <1>1, <1>4, FeedsAssumption DEF FeedTypes, F!TypeOK, F!Fault, F!Idle
  <2>3. HolderInv'
    BY <2>1, <1>4 DEF HolderInv, F!Fault, F!Idle
  <2>4. OccurrenceInv' /\ F!DeletedIsClean'
    BY <1>4 DEF OccurrenceInv, F!DeletedIsClean, F!Fault
  <2> QED BY <2>2, <2>3, <2>4
<1>5. CASE F!Fetch(e)
  <2>1. PICK o \in F!Fetched :
          at' = [at EXCEPT ![e].phase = "answered", ![e].outcome = o]
    BY <1>5 DEF F!Fetch
  <2> DEFINE hand == [at[e] EXCEPT !.phase = "answered", !.outcome = o]
  <2>2. fetches[c] = 0
    BY <1>5, <1>3 DEF F!Fetch, HolderInv
  <2>3. /\ hand \in Hands /\ hand.phase = "answered" /\ hand.col = c
        /\ hand.outcome = o
    BY <1>1 DEF Hands
  <2>9. at' = [at EXCEPT ![e] = hand]
    BY <1>1, <2>1
  <2> HIDE DEF hand
  <2>7. fetches' = [fetches EXCEPT ![c] = @ + 1]
    BY <1>5 DEF F!Fetch
  <2>8. UNCHANGED <<sub, entries, col, sched, crashes>>
    BY <1>5 DEF F!Fetch
  <2> HIDE DEF c
  <2>10. /\ \A f \in F!Executors : at'[f] = IF f = e THEN hand ELSE at[f]
         /\ \A d \in Collections : fetches'[d] = IF d = c THEN 1 ELSE fetches[d]
    BY <1>1, <1>3, <2>9, <2>2, <2>7
  <2>4. FeedTypes'
    <3>1. at' \in [F!Executors -> Hands]
      BY <1>1, <2>3, <2>9
    <3>2. fetches' \in [Collections -> Nat]
      BY <1>1, <1>3, <2>7
    <3> QED BY <3>1, <3>2, <2>8 DEF FeedTypes, F!TypeOK, Hands
  <2>5. HolderInv'
    <3>1. ASSUME NEW f \in F!Executors, f # e, at[f].phase # "idle"
          PROVE  at[f].col # c
      BY <3>1, <1>2 DEF HolderInv, c
    <3>2. /\ \A f \in F!Executors : f # e => at'[f] = at[f]
          /\ at'[e].phase = "answered" /\ at'[e].col = c
          /\ at'[e].outcome \in F!Fetched
          /\ fetches'[c] = 1 /\ col' = col
          /\ \A d \in Collections : d # c => fetches'[d] = fetches[d]
      BY <2>1, <2>3, <2>8, <2>10, <1>3
    <3>3. \A f \in F!Executors : at'[f].phase # "idle" =>
            /\ at'[f].col \in Collections
            /\ col[at'[f].col].status \notin {"none", "draft"}
            /\ at'[f].phase \in {"claimed", "cleared"} => fetches'[at'[f].col] = 0
            /\ at'[f].outcome = "feed" => fetches'[at'[f].col] = 1
            /\ at'[f].phase = "answered" => at'[f].outcome \in F!Fetched
      BY <3>1, <3>2, <1>3 DEF HolderInv
    <3>4. \A f, g \in F!Executors :
            at'[f].phase # "idle" /\ at'[g].phase # "idle" /\ f # g =>
              at'[f].col # at'[g].col
      BY <3>1, <3>2 DEF HolderInv
    <3>5. \A d \in Collections :
            /\ fetches'[d] <= 1
            /\ col[d].status \in {"none", "draft"} => fetches'[d] = 0
      BY <3>2, <1>3 DEF HolderInv
    <3> QED BY <3>2, <3>3, <3>4, <3>5 DEF HolderInv
  <2>6. OccurrenceInv' /\ F!DeletedIsClean'
    BY <2>8 DEF OccurrenceInv, F!DeletedIsClean
  <2> QED BY <2>4, <2>5, <2>6
<1>6. CASE F!Dispatch(e)
  <2>1. CASE F!MayDispatch(c)
    <3> DEFINE row == [col[c] EXCEPT !.dispatched = TRUE]
    <3>1. /\ col' = [col EXCEPT ![c] = row]
          /\ at' = [at EXCEPT ![e].phase = "cleared"]
          /\ at[e].phase = "claimed"
      BY <2>1, <1>1, <1>3, <1>6 DEF F!Dispatch
    <3>2. /\ row \in CollectionRows /\ row.status = col[c].status
          /\ row.sub = col[c].sub /\ row.sched = col[c].sched
          /\ row.slot = col[c].slot
      BY <1>1, <1>3, ZenonT(60) DEF CollectionRows
    <3> HIDE DEF row
    <3>3. /\ \A d \in Collections : col'[d] = IF d = c THEN row ELSE col[d]
          /\ \A f \in F!Executors :
               /\ at'[f].col = at[f].col /\ at'[f].outcome = at[f].outcome
               /\ at'[f].phase = IF f = e THEN "cleared" ELSE at[f].phase
      BY <1>1, <3>1 DEF Hands
    <3>4. FeedTypes'
      <4>1. col' \in [Collections -> CollectionRows]
        BY <1>1, <3>1, <3>2
      <4>2. at' \in [F!Executors -> Hands]
        BY <1>1, <3>1 DEF Hands
      <4> QED BY <4>1, <4>2, <3>2, <3>3, <1>6
             DEF FeedTypes, F!TypeOK, F!Dispatch, CollectionRows, Hands
    <3>5. HolderInv'
      BY <3>1, <3>2, <3>3, <1>3, <1>6, SMTT(60) DEF HolderInv, F!Dispatch
    <3>6. OccurrenceInv'
      BY <3>2, <3>3 DEF OccurrenceInv
    <3>7. F!DeletedIsClean'
      BY <1>6 DEF F!DeletedIsClean, F!Dispatch
    <3> QED BY <3>4, <3>5, <3>6, <3>7
  <2>2. CASE ~F!MayDispatch(c)
    <3>1. /\ at' = [at EXCEPT ![e].phase = "answered", ![e].outcome = "timeout"]
          /\ UNCHANGED <<col, sub, entries, sched, fetches, crashes>>
      BY <2>2, <1>6 DEF F!Dispatch
    <3>2. /\ at' \in [F!Executors -> Hands]
          /\ \A f \in F!Executors :
               /\ f # e => at'[f] = at[f]
               /\ at'[e].phase = "answered" /\ at'[e].col = c
               /\ at'[e].outcome = "timeout"
      BY <1>1, <3>1 DEF Hands, F!Fetched
    <3>3. FeedTypes'
      BY <3>1, <3>2 DEF FeedTypes, F!TypeOK, Hands
    <3>4. HolderInv'
      BY <3>1, <3>2, <1>2 DEF HolderInv, F!Fetched
    <3>5. OccurrenceInv' /\ F!DeletedIsClean'
      BY <3>1 DEF OccurrenceInv, F!DeletedIsClean
    <3> QED BY <3>3, <3>4, <3>5
  <2> QED BY <2>1, <2>2
<1>7. CASE F!Finish(e)
  <2>1. /\ at' = [at EXCEPT ![e] = F!Idle] /\ F!FinishFeed(c, at[e].outcome)
        /\ UNCHANGED <<sub, sched, fetches, crashes>>
    BY <1>7 DEF F!Finish
  <2>2. /\ \A f \in F!Executors : f # e => at'[f] = at[f]
        /\ at'[e] = F!Idle
        /\ at' \in [F!Executors -> Hands]
    BY <1>1, <2>1 DEF F!Idle, Hands
  <2>11. at[e].outcome \in F!Fetched
    BY <1>7, <1>2 DEF F!Finish, HolderInv
  <2> HIDE DEF c
  <2>3. /\ \A d \in Collections :
              /\ col'[d].sub = col[d].sub /\ col'[d].sched = col[d].sched
              /\ col'[d].slot = col[d].slot
              /\ col'[d].status # col[d].status =>
                    d = c /\ col'[d].status \in F!Ended
        /\ col' \in [Collections -> CollectionRows]
    BY <2>1, <2>11, <1>3, FinishMoves
  <2>4. /\ entries' \in [Subscriptions -> SUBSET Sources]
        /\ \A s \in Subscriptions :
             sub[s].deleted => entries'[s] = entries[s]
    BY <2>1, <2>11, <1>3, FinishMoves
  <2>5. FeedTypes'
    <3>1. F!TypeOK'
      BY <2>1, <2>2, <2>3, <2>4 DEF FeedTypes, F!TypeOK, CollectionRows, Hands
    <3>2. \A d \in Collections :
            col'[d].status # "none" => col'[d].sub \in Subscriptions
      BY <2>3, <1>3 DEF FeedTypes
    <3> QED BY <3>1, <3>2, <2>1 DEF FeedTypes
  <2>6. HolderInv'
    BY <2>1, <2>2, <2>3 DEF HolderInv, F!Idle, F!Ended
  <2>7. OccurrenceInv'
    BY <2>3 DEF OccurrenceInv
  <2>8. F!DeletedIsClean'
    BY <2>1, <2>4 DEF F!DeletedIsClean
  <2> QED BY <2>5, <2>6, <2>7, <2>8
<1> QED BY <1>4, <1>5, <1>6, <1>7 DEF F!Work

LEMMA FeedStepKeeps == FeedInv /\ [F!Next]_feedVars => FeedInv'
<1> SUFFICES ASSUME FeedInv, [F!Next]_feedVars PROVE FeedInv'
  OBVIOUS
<1>1. CASE F!SubscriptionRequests
  BY <1>1, SubscriptionRequestKeeps
<1>2. CASE F!CollectionRequests
  BY <1>2, CollectionRequestKeeps DEF F!CollectionRequests
<1>3. CASE F!ScheduleRequests
  BY <1>3, ScheduleRequestKeeps
<1>4. CASE F!Begin
  BY <1>4, BeginKeeps
<1>5. CASE \E e \in F!Executors : F!Work(e) \/ F!Fault(e)
  BY <1>5, WorkKeeps
<1>6. CASE \E c \in Collections : F!RecoverScheduled(c)
  BY <1>6, CollectionRequestKeeps DEF F!RecoverScheduled
<1>7. CASE F!TimePasses
  BY <1>7, CollectionRequestKeeps, ScheduleTimeKeeps DEF F!TimePasses
<1>8. CASE UNCHANGED feedVars
  BY <1>8 DEF feedVars, FeedInv, FeedTypes, HolderInv, OccurrenceInv,
     F!TypeOK, F!DeletedIsClean
<1> QED BY <1>1, <1>2, <1>3, <1>4, <1>5, <1>6, <1>7, <1>8 DEF F!Next

LEMMA FeedsInvariant == FeedsSpec => []FeedInv
<1>1. FeedsInit => FeedInv
  BY FeedsInitial DEF FeedsInit
<1>2. FeedInv /\ [FeedStep \/ BriefStep]_<<feedVars, briefVars, turn>> => FeedInv'
  BY FeedStepKeeps DEF FeedStep, BriefStep
<1> QED BY <1>1, <1>2, PTL DEF FeedsSpec

\* However confirmers, runners, the user and the clock interleave: a source
\* is asked at most once for a collection and for an occurrence of a
\* schedule, and a deleted subscription keeps no entry and no schedule that
\* could still collect for it.
THEOREM CollectionsAreSoundHolds == FeedsSpec => []CollectionsAreSound
<1>1. FeedInv => F!FetchOnce
  BY DEF FeedInv, HolderInv, OccurrenceInv, F!FetchOnce
<1>2. FeedInv => CollectionsAreSound
  BY <1>1 DEF FeedInv, FeedTypes, CollectionsAreSound
<1> QED BY <1>2, FeedsInvariant, PTL

\* Nothing is written of a subscription but from the source it has at that
\* moment, while it is enabled, and for a schedule while that is in force.
THEOREM EntriesAreCurrentHolds == FeedsSpec => EntriesAreCurrent
<1> DEFINE Written(s) ==
      LET new == entries'[s] \ entries[s] IN
      new # {} =>
        /\ new = {sub[s].source} /\ sub[s].enabled /\ ~sub[s].deleted
        /\ \E c \in Collections :
             /\ col[c].status = "running" /\ col'[c].status = "succeeded"
             /\ col[c].revision = sub[s].revision
             /\ fetches[c] = 1
             /\ col[c].sched # Empty =>
                  sched[col[c].sched].status = "active" /\ col[c].dispatched
<1>1. ASSUME FeedInv, [F!Next]_feedVars, NEW s \in Subscriptions,
             entries'[s] \ entries[s] # {}
      PROVE  Written(s)
  <2>1. ASSUME UNCHANGED entries PROVE FALSE
    BY <2>1, <1>1
  <2>2. ASSUME NEW r \in Subscriptions, F!DeleteSubscription(r) PROVE FALSE
    BY <2>2, <1>1 DEF F!DeleteSubscription, FeedInv, FeedTypes, F!TypeOK
  <2>3. ASSUME NEW e \in F!Executors, F!Finish(e) PROVE Written(s)
    <3> DEFINE c == at[e].col
    <3>1. /\ at[e].phase # "idle" /\ F!FinishFeed(c, at[e].outcome)
          /\ at[e].outcome \in F!Fetched
          /\ at[e].outcome = "feed" => fetches[c] = 1
          /\ c \in Collections /\ col[c].status \notin {"none", "draft"}
      BY <2>3, <1>1 DEF F!Finish, FeedInv, FeedTypes, F!TypeOK, HolderInv
    <3> HIDE DEF c
    <3>2. entries'[s] # entries[s]
      BY <1>1
    <3>3. /\ s = col[c].sub /\ F!SamePlan(col[c])
          /\ entries'[s] \ entries[s] = {col[c].source}
          /\ col[c].status = "running" /\ col'[c].status = "succeeded"
          /\ ~F!ScheduledInvalid(c) /\ at[e].outcome = "feed"
      BY <1>1, <3>1, <3>2, FinishMoves
    <3>4. /\ sub[s].enabled /\ col[c].source = sub[s].source
          /\ col[c].revision = sub[s].revision /\ ~sub[s].deleted
      BY <3>3, <1>1 DEF F!SamePlan, FeedInv, FeedTypes
    <3>5. col[c].sched # Empty =>
            sched[col[c].sched].status = "active" /\ col[c].dispatched
      BY <3>3 DEF F!ScheduledInvalid
    <3> QED BY <3>1, <3>3, <3>4, <3>5
  <2>4. CASE F!SubscriptionRequests
    BY <2>1, <2>2, <2>4
       DEF F!SubscriptionRequests, F!CreateSubscription, F!UpdateSubscription
  <2>5. CASE F!CollectionRequests
    BY <2>1, <2>5 DEF F!CollectionRequests, F!PreviewCollection,
       F!CancelCollection, F!Recover
  <2>6. CASE F!ScheduleRequests
    BY <2>1, <2>6 DEF F!ScheduleRequests, F!PreviewSchedule,
       F!ApproveSchedule, F!CancelSchedule, F!ReadSchedules
  <2>7. CASE F!Begin
    BY <2>1, <2>7 DEF F!Begin, F!Confirm, F!RunSchedule
  <2>8. CASE \E e \in F!Executors : F!Work(e) \/ F!Fault(e)
    BY <2>1, <2>3, <2>8 DEF F!Work, F!Dispatch, F!Fetch, F!Fault
  <2>9. CASE \E c \in Collections : F!RecoverScheduled(c)
    BY <2>1, <2>9 DEF F!RecoverScheduled, F!Recover
  <2>10. CASE F!TimePasses
    BY <2>1, <2>10 DEF F!TimePasses, F!CollectionLate, F!ApprovalLapses,
       F!SlotBegins, F!WindowCloses, F!ScheduleEnds
  <2>11. CASE UNCHANGED feedVars
    BY <2>1, <2>11 DEF feedVars
  <2> QED BY <1>1, <2>4, <2>5, <2>6, <2>7, <2>8, <2>9, <2>10, <2>11
         DEF F!Next
<1>2. FeedInv /\ [FeedStep \/ BriefStep]_<<feedVars, briefVars, turn>> =>
        [\A s \in Subscriptions : Written(s)]_feedVars
  BY <1>1 DEF FeedStep, BriefStep, feedVars
<1>3. FeedsSpec => [][\A s \in Subscriptions : Written(s)]_feedVars
  BY <1>2, FeedsInvariant, PTL DEF FeedsSpec
<1> QED BY <1>3 DEF EntriesAreCurrent, F!EntriesAreCurrent, feedVars, F!vars

-----------------------------------------------------------------------------
(* Briefs. *)

\* The attempts of a day are remembered by the last one, which is not ahead
\* of the clock.
BriefInv ==
    /\ B!TypeOK
    /\ B!NothingOfDeleted
    /\ daily.last # Empty => daily.last <= clock
    /\ \A d \in B!Days : attempts[d] # 0 => B!AttemptedOn(daily.last, d)

LEMMA DaysGoOn ==
    ASSUME NEW t \in Nat, NEW u \in Nat, t <= u
    PROVE  B!Day(t) \in Nat /\ B!Day(u) \in Nat /\ B!Day(t) <= B!Day(u)
<1> DEFINE p == t \div DayTicks  q == u \div DayTicks
<1>1. /\ DayTicks \in Nat \ {0} /\ p \in Nat /\ q \in Nat
      /\ p * DayTicks <= t /\ t < (p + 1) * DayTicks
      /\ q * DayTicks <= u /\ u < (q + 1) * DayTicks
  BY FeedsAssumption
<1>2. p <= q
  BY <1>1
<1> QED BY <1>1, <1>2 DEF B!Day

LEMMA ClockIsADay == BriefInv => clock \in Nat /\ B!Day(clock) \in B!Days
<1> SUFFICES ASSUME BriefInv PROVE clock \in Nat /\ B!Day(clock) \in B!Days
  OBVIOUS
<1>1. clock \in 0 .. MaxClock /\ MaxClock \in Nat
  BY FeedsAssumption DEF BriefInv, B!TypeOK
<1> QED BY <1>1, DaysGoOn DEF B!Days

\* The next minute is a time.
LEMMA NextRunIsATime ==
    ASSUME NEW t \in Nat, NEW minute \in B!Minutes, NEW last
    PROVE  B!NextRun(t, minute, last) \in Nat
<1>1. DayTicks \in Nat /\ minute \in Nat /\ B!Day(t) \in Nat
  BY FeedsAssumption, DaysGoOn DEF B!Minutes
<1>2. B!Target(t, minute) \in Nat
  BY <1>1 DEF B!Target
<1> QED BY <1>1, <1>2 DEF B!NextRun

BriefRows ==
    [status : {"none", "ready", "invalidated", "deleted"},
     revision : 0 .. MaxPreferences, day : B!Days,
     sources : SUBSET Subscriptions]

BriefPlans ==
    [revision : 0 .. MaxEdits, enabled : BOOLEAN, minute : B!Minutes,
     next : Nat \cup {Empty}, last : Nat \cup {Empty},
     outcome : {"none", "generated", "skipped"}]

LEMMA BriefsInitial == B!Init => BriefInv
<1> SUFFICES ASSUME B!Init PROVE BriefInv
  OBVIOUS
<1>1. 0 \in B!Days /\ 0 \in B!Minutes
  BY FeedsAssumption, DaysGoOn DEF B!Days, B!Minutes
<1>2. B!NoPlan \in BriefPlans /\ B!NoBrief \in BriefRows
  BY <1>1, FeedsAssumption DEF B!NoPlan, B!NoBrief, BriefPlans, BriefRows
<1>3. B!TypeOK
  <2>1. brief \in [Briefs -> BriefRows] /\ daily \in BriefPlans
    BY <1>2 DEF B!Init
  <2>2. ~daily.enabled /\ daily.next = Empty
    BY DEF B!Init, B!NoPlan
  <2>3. /\ clock \in 0 .. MaxClock /\ preference \in 0 .. MaxPreferences
        /\ picked \in BOOLEAN /\ attempts \in [B!Days -> Nat]
        /\ feed \in [Subscriptions -> {"enabled", "disabled", "deleted"}]
        /\ seen \in [Subscriptions -> SUBSET B!Days]
    <3>1. 0 \in 0 .. MaxClock /\ 0 \in 0 .. MaxPreferences
      BY FeedsAssumption
    <3>2. /\ clock = 0 /\ preference = 0 /\ picked = FALSE
          /\ attempts = [d \in B!Days |-> 0]
          /\ feed = [s \in Subscriptions |-> "enabled"]
          /\ seen = [s \in Subscriptions |-> {}]
      BY DEF B!Init
    <3> QED BY <3>1, <3>2
  <2> QED BY <2>1, <2>2, <2>3 DEF B!TypeOK, BriefPlans, BriefRows
<1>4. B!NothingOfDeleted
  BY DEF B!Init, B!NothingOfDeleted, B!NoBrief
<1>5. /\ daily.last = Empty
      /\ \A d \in B!Days : attempts[d] = 0
  BY DEF B!Init, B!NoPlan
<1> QED BY <1>3, <1>4, <1>5 DEF BriefInv

\* A brief that is made shows what is enabled.
LEMMA CreatedIsSound ==
    ASSUME BriefInv, NEW b \in Briefs, NEW r, B!Creatable(b, r),
           B!CreateBrief(b, r), UNCHANGED <<feed, preference>>
    PROVE  /\ brief' \in [Briefs -> BriefRows]
           /\ B!NothingOfDeleted'
<1> DEFINE row == [status |-> "ready", revision |-> r, day |-> B!Day(clock),
                   sources |-> B!Candidates]
<1>1. /\ brief \in [Briefs -> BriefRows] /\ r \in 0 .. MaxPreferences
      /\ brief' = [brief EXCEPT ![b] = row]
  BY DEF BriefInv, B!TypeOK, BriefRows, B!Creatable, B!CreateBrief
<1>2. row \in BriefRows
  BY <1>1, ClockIsADay DEF BriefRows, B!Candidates
<1>3. \A s \in row.sources : feed[s] # "deleted"
  BY DEF B!Candidates
<1> HIDE DEF row
<1>4. \A c \in Briefs : brief'[c] = IF c = b THEN row ELSE brief[c]
  BY <1>1
<1>5. B!NothingOfDeleted'
  BY <1>3, <1>4 DEF BriefInv, B!NothingOfDeleted
<1> QED BY <1>1, <1>2, <1>5

\* An attempt is remembered.
LEMMA AttemptIsRemembered ==
    ASSUME BriefInv, NEW outcome \in {"generated", "skipped"},
           B!Due, B!Attempted(outcome), UNCHANGED clock
    PROVE  /\ daily' \in BriefPlans /\ daily'.enabled /\ daily'.next # Empty
           /\ daily'.last = clock
           /\ attempts' \in [B!Days -> Nat]
           /\ \A d \in B!Days : attempts'[d] # 0 => B!AttemptedOn(daily'.last, d)
<1>1. /\ daily \in BriefPlans /\ attempts \in [B!Days -> Nat]
      /\ clock \in Nat /\ B!Day(clock) \in B!Days /\ Empty \notin Nat
      /\ B!Days \subseteq Nat /\ daily.enabled
  BY ClockIsADay, FeedsAssumption
     DEF BriefInv, B!TypeOK, BriefPlans, B!Days, B!Due
<1> DEFINE next == B!NextRun(clock, daily.minute, clock)
           row == [daily EXCEPT !.next = next, !.last = clock,
                                !.outcome = outcome]
<1>2. next \in Nat
  BY <1>1, NextRunIsATime DEF BriefPlans
<1>3. daily' = row
  BY DEF B!Attempted
<1>4. /\ row \in BriefPlans /\ row.enabled /\ row.next = next
      /\ row.last = clock
  <2> HIDE DEF next
  <2> QED BY <1>1, <1>2 DEF BriefPlans
<1>5. attempts' = [attempts EXCEPT ![B!Day(clock)] = @ + 1]
  BY DEF B!Attempted
<1>6. /\ attempts' \in [B!Days -> Nat]
      /\ \A d \in B!Days : d # B!Day(clock) => attempts'[d] = attempts[d]
  <2> DEFINE today == B!Day(clock)
  <2>1. today \in B!Days /\ attempts' = [attempts EXCEPT ![today] = @ + 1]
    BY <1>1, <1>5
  <2> HIDE DEF today
  <2>2. attempts[today] + 1 \in Nat
    BY <1>1, <2>1
  <2>3. attempts' \in [B!Days -> Nat]
    BY <1>1, <2>1, <2>2
  <2>4. \A d \in B!Days : d # today => attempts'[d] = attempts[d]
    BY <1>1, <2>1
  <2> QED BY <2>3, <2>4 DEF today
<1>7. ASSUME NEW d \in B!Days, attempts'[d] # 0
      PROVE  B!AttemptedOn(clock, d)
  <2>1. CASE d = B!Day(clock)
    BY <2>1, <1>1 DEF B!AttemptedOn
  <2>2. CASE d # B!Day(clock)
    <3>1. B!AttemptedOn(daily.last, d)
      BY <1>6, <1>7, <2>2 DEF BriefInv
    <3>2. daily.last \in Nat /\ daily.last <= clock /\ B!Day(daily.last) >= d
      BY <3>1, <1>1 DEF B!AttemptedOn, BriefInv, BriefPlans
    <3> QED BY <3>2, <1>1, DaysGoOn DEF B!AttemptedOn
  <2> QED BY <2>1, <2>2
<1> HIDE DEF row, next
<1> QED BY <1>1, <1>2, <1>3, <1>4, <1>6, <1>7

LEMMA GenerateKeeps ==
    ASSUME BriefInv, B!Generate
    PROVE  BriefInv'
<1>1. /\ brief \in [Briefs -> BriefRows] /\ daily \in BriefPlans
      /\ clock \in Nat /\ Empty \notin Nat
  BY ClockIsADay, FeedsAssumption
     DEF BriefInv, B!TypeOK, BriefRows, BriefPlans
<1>2. picked' = FALSE /\ UNCHANGED <<clock, feed, seen, preference>>
  BY DEF B!Generate
<1>3. ASSUME brief' \in [Briefs -> BriefRows], B!NothingOfDeleted',
             B!Due, NEW outcome \in {"generated", "skipped"},
             B!Attempted(outcome)
      PROVE  BriefInv'
  <2>1. /\ daily' \in BriefPlans /\ daily'.enabled /\ daily'.next # Empty
        /\ daily'.last = clock
        /\ attempts' \in [B!Days -> Nat]
        /\ \A d \in B!Days : attempts'[d] # 0 => B!AttemptedOn(daily'.last, d)
    BY <1>2, <1>3, AttemptIsRemembered
  <2>2. B!TypeOK'
    BY <2>1, <1>2, <1>3 DEF BriefInv, B!TypeOK, BriefRows, BriefPlans
  <2>3. daily'.last <= clock'
    BY <2>1, <1>1, <1>2
  <2> QED BY <2>1, <2>2, <2>3, <1>3 DEF BriefInv
<1>4. CASE ~B!Due
  BY <1>2, <1>4 DEF B!Generate, BriefInv, B!TypeOK, B!NothingOfDeleted
<1>5. CASE B!Due /\ ~B!MayAttempt
  <2> DEFINE next == B!NextRun(clock, daily.minute, daily.last)
             row == [daily EXCEPT !.next = next]
  <2>1. daily' = row /\ UNCHANGED <<brief, attempts>>
    BY <1>5 DEF B!Generate
  <2>2. next \in Nat
    BY <1>1, NextRunIsATime DEF BriefPlans
  <2> HIDE DEF next
  <2>3. /\ row \in BriefPlans /\ row.enabled /\ row.next # Empty
        /\ row.last = daily.last
    BY <2>2, <1>1, <1>5 DEF BriefPlans, B!Due
  <2> HIDE DEF row
  <2>4. B!TypeOK'
    BY <2>1, <2>3, <1>2 DEF BriefInv, B!TypeOK, BriefPlans
  <2> QED BY <2>1, <2>3, <2>4, <1>2 DEF BriefInv, B!NothingOfDeleted
<1>6. ASSUME B!Due, NEW b \in Briefs, B!Creatable(b, preference),
             B!CreateBrief(b, preference), B!Attempted("generated")
      PROVE  BriefInv'
  BY <1>2, <1>3, <1>6, CreatedIsSound
<1>7. CASE B!Due /\ B!Attempted("skipped") /\ UNCHANGED brief
  BY <1>1, <1>2, <1>3, <1>7 DEF BriefInv, B!NothingOfDeleted
<1> QED BY <1>4, <1>5, <1>6, <1>7 DEF B!Generate

\* A request changes one brief or the schedule.
LEMMA BriefRequestKeeps ==
    ASSUME BriefInv, B!Requests
    PROVE  BriefInv'
<1>1. /\ brief \in [Briefs -> BriefRows] /\ daily \in BriefPlans
      /\ clock \in Nat /\ Empty \notin Nat
  BY ClockIsADay, FeedsAssumption
     DEF BriefInv, B!TypeOK, BriefRows, BriefPlans
<1>2. ASSUME NEW b \in Briefs, B!DeleteBrief(b) PROVE BriefInv'
  <2> DEFINE row == [brief[b] EXCEPT !.status = "deleted", !.sources = {}]
  <2>1. row \in BriefRows /\ row.status = "deleted"
    BY <1>1 DEF BriefRows
  <2>2. brief' = [brief EXCEPT ![b] = row]
    BY <1>1, <1>2 DEF B!DeleteBrief
  <2> HIDE DEF row
  <2>3. /\ brief' \in [Briefs -> BriefRows]
        /\ \A c \in Briefs : brief'[c] = IF c = b THEN row ELSE brief[c]
    BY <1>1, <2>1, <2>2
  <2>4. UNCHANGED <<clock, feed, seen, preference, daily, picked, attempts>>
    BY <1>2 DEF B!DeleteBrief
  <2> QED BY <2>1, <2>3, <2>4 DEF BriefInv, B!TypeOK, B!NothingOfDeleted,
         BriefRows
<1>3. ASSUME NEW b \in Briefs, NEW r \in 0 .. MaxPreferences, B!Request(b, r)
      PROVE  BriefInv'
  <2>1. /\ B!Creatable(b, r) /\ B!CreateBrief(b, r)
        /\ UNCHANGED <<clock, feed, seen, preference, daily, picked, attempts>>
    BY <1>3 DEF B!Request
  <2>2. brief' \in [Briefs -> BriefRows] /\ B!NothingOfDeleted'
    BY <2>1, CreatedIsSound
  <2> QED BY <2>1, <2>2 DEF BriefInv, B!TypeOK, BriefRows
<1>4. ASSUME NEW on \in BOOLEAN, NEW minute \in B!Minutes,
             B!SaveSchedule(on, minute)
      PROVE  BriefInv'
  <2> DEFINE next == IF on THEN B!NextRun(clock, minute, daily.last) ELSE Empty
             row == [daily EXCEPT !.revision = @ + 1, !.enabled = on,
                       !.minute = minute, !.next = next]
  <2>1. /\ daily' = row
        /\ UNCHANGED <<clock, feed, seen, preference, brief, picked, attempts>>
        /\ daily.revision < MaxEdits
    BY <1>4 DEF B!SaveSchedule
  <2>2. next \in Nat \cup {Empty} /\ (on <=> next # Empty)
    BY <1>1, NextRunIsATime
  <2> HIDE DEF next
  <2>3. /\ row \in BriefPlans /\ row.last = daily.last
        /\ row.enabled <=> row.next # Empty
    <3>1. daily.revision + 1 \in 0 .. MaxEdits
      BY <2>1, <1>1, FeedsAssumption DEF BriefPlans
    <3>2. row \in BriefPlans /\ row.last = daily.last
      BY <3>1, <2>2, <1>1 DEF BriefPlans
    <3>3. row.enabled = on /\ row.next = next
      BY <1>1 DEF BriefPlans
    <3> QED BY <2>2, <3>2, <3>3
  <2> HIDE DEF row
  <2>4. B!TypeOK'
    BY <2>1, <2>3 DEF BriefInv, B!TypeOK, BriefPlans
  <2> QED BY <2>1, <2>3, <2>4 DEF BriefInv, B!NothingOfDeleted
<1>5. ASSUME B!SavePreferences PROVE BriefInv'
  BY <1>5, FeedsAssumption DEF B!SavePreferences, BriefInv, B!TypeOK,
     B!NothingOfDeleted
<1> QED BY <1>2, <1>3, <1>4, <1>5 DEF B!Requests

LEMMA FeedOfBriefKeeps ==
    ASSUME BriefInv, NEW s \in Subscriptions,
           \/ B!Collect(s) \/ B!Delete(s)
           \/ \E on \in BOOLEAN : B!Enable(s, on)
    PROVE  BriefInv'
<1>1. B!Day(clock) \in B!Days
  BY ClockIsADay
<1>2. CASE B!Collect(s)
  BY <1>1, <1>2 DEF B!Collect, BriefInv, B!TypeOK, B!NothingOfDeleted
<1>3. ASSUME NEW on \in BOOLEAN, B!Enable(s, on) PROVE BriefInv'
  BY <1>3 DEF B!Enable, BriefInv, B!TypeOK, B!NothingOfDeleted
<1>4. CASE B!Delete(s)
  <2>1. ASSUME NEW b \in Briefs
        PROVE  /\ brief'[b] \in BriefRows
               /\ brief'[b].status = "ready" =>
                    brief'[b] = brief[b] /\ s \notin brief[b].sources
    <3>1. /\ brief[b] \in BriefRows
          /\ brief'[b] = IF brief[b].status = "ready" /\ s \in brief[b].sources
                         THEN [brief[b] EXCEPT !.status = "invalidated"]
                         ELSE brief[b]
      BY <1>4 DEF B!Delete, B!InvalidateBriefs, BriefInv, B!TypeOK, BriefRows
    <3>2. CASE brief[b].status = "ready" /\ s \in brief[b].sources
      BY <3>1, <3>2 DEF BriefRows
    <3>3. CASE ~(brief[b].status = "ready" /\ s \in brief[b].sources)
      BY <3>1, <3>3
    <3> QED BY <3>2, <3>3
  <2>2. brief' \in [Briefs -> BriefRows]
    BY <2>1, <1>4 DEF B!Delete, B!InvalidateBriefs
  <2>3. /\ feed' = [feed EXCEPT ![s] = "deleted"]
        /\ seen' = [seen EXCEPT ![s] = {}]
        /\ UNCHANGED <<clock, preference, daily, picked, attempts>>
    BY <1>4 DEF B!Delete
  <2>4. B!TypeOK'
    BY <2>2, <2>3 DEF BriefInv, B!TypeOK, BriefRows
  <2>5. B!NothingOfDeleted'
    BY <2>1, <2>3 DEF BriefInv, B!TypeOK, B!NothingOfDeleted
  <2> QED BY <2>3, <2>4, <2>5 DEF BriefInv
<1> QED BY <1>2, <1>3, <1>4

LEMMA BriefStepKeeps == BriefInv /\ [B!Next]_briefVars => BriefInv'
<1> SUFFICES ASSUME BriefInv, [B!Next]_briefVars PROVE BriefInv'
  OBVIOUS
<1>1. CASE \E s \in Subscriptions :
             \/ B!Collect(s) \/ B!Delete(s)
             \/ \E on \in BOOLEAN : B!Enable(s, on)
  BY <1>1, FeedOfBriefKeeps
<1>2. CASE B!Requests
  BY <1>2, BriefRequestKeeps
<1>3. CASE B!Pick
  BY <1>3 DEF B!Pick, BriefInv, B!TypeOK, B!NothingOfDeleted
<1>4. CASE B!Generate
  BY <1>4, GenerateKeeps
<1>5. CASE B!Tick
  <2>1. /\ clock \in 0 .. MaxClock /\ clock < MaxClock /\ clock' = clock + 1
        /\ UNCHANGED <<feed, seen, preference, brief, daily, picked, attempts>>
        /\ MaxClock \in Nat
    BY <1>5, FeedsAssumption DEF B!Tick, BriefInv, B!TypeOK
  <2>2. B!TypeOK'
    BY <2>1 DEF BriefInv, B!TypeOK
  <2>3. daily.last # Empty => daily.last \in Nat
    BY DEF BriefInv, B!TypeOK
  <2> QED BY <2>1, <2>2, <2>3 DEF BriefInv, B!NothingOfDeleted
<1>6. CASE UNCHANGED briefVars
  BY <1>6 DEF briefVars, BriefInv, B!TypeOK, B!NothingOfDeleted
<1> QED BY <1>1, <1>2, <1>3, <1>4, <1>5, <1>6 DEF B!Next

LEMMA BriefsInvariant == FeedsSpec => []BriefInv
<1>1. FeedsInit => BriefInv
  BY BriefsInitial DEF FeedsInit
<1>2. BriefInv /\ [FeedStep \/ BriefStep]_<<feedVars, briefVars, turn>> => BriefInv'
  BY BriefStepKeeps DEF FeedStep, BriefStep
<1> QED BY <1>1, <1>2, PTL DEF FeedsSpec

\* However the owner moves the minute, disables and enables, and whatever the
\* scheduler read before: a brief is attempted by itself only when its
\* schedule is due, once a day, and none shows a deleted subscription.
THEOREM AttemptsAreDueHolds == FeedsSpec => AttemptsAreDue
<1> DEFINE Right ==
      attempts' # attempts =>
        /\ daily.enabled /\ daily.next <= clock
        /\ B!Target(clock, daily.minute) <= clock
        /\ attempts[B!Day(clock)] = 0
<1>1. ASSUME BriefInv, [B!Next]_briefVars, attempts' # attempts
      PROVE  Right
  <2>1. B!Generate
    BY <1>1 DEF B!Next, B!Collect, B!Delete, B!Enable, B!Requests,
       B!DeleteBrief, B!Request, B!SaveSchedule, B!SavePreferences, B!Pick,
       B!Tick, briefVars
  <2>2. B!Due /\ B!MayAttempt
    BY <1>1, <2>1 DEF B!Generate
  <2>3. attempts[B!Day(clock)] = 0
    BY <1>1, <2>2, ClockIsADay DEF B!MayAttempt, BriefInv
  <2> QED BY <2>2, <2>3 DEF B!Due, B!MayAttempt
<1>2. BriefInv /\ [FeedStep \/ BriefStep]_<<feedVars, briefVars, turn>> =>
        [Right]_briefVars
  BY <1>1 DEF FeedStep, BriefStep, briefVars
<1>3. BriefInv => B!TypeOK /\ B!NothingOfDeleted
  BY DEF BriefInv
<1>4. FeedsSpec => [][Right]_briefVars /\ [](B!TypeOK /\ B!NothingOfDeleted)
  BY <1>2, <1>3, BriefsInvariant, PTL DEF FeedsSpec
<1> QED BY <1>4 DEF AttemptsAreDue, B!AttemptsAreDue, briefVars, B!briefVars

=============================================================================

------------------------------- MODULE Feeds -------------------------------
(***************************************************************************)
(* The RSS side of one owner: subscriptions, the single collections a user *)
(* previews and confirms, the periodic schedules that collect without him, *)
(* and the two executors that fetch (the API server's for confirmed        *)
(* collections, the scheduler's for due occurrences of a schedule).        *)
(*                                                                         *)
(* Every store operation of these tables locks the owner's row first       *)
(* (feeds.rs `locked`), so each is one atomic action.  What is concurrent  *)
(* is an executor between its operations: it claims, for a schedule passes *)
(* a dispatch fence, fetches the source, and writes what it fetched.       *)
(* Meanwhile the user edits, disables or deletes the subscription, cancels *)
(* the schedule, deadlines pass, and a process dies.                       *)
(*                                                                         *)
(* The wall clock is kept as the facts the code compares it for: `late` of *)
(* a collection (its approval while a draft, its 60 s deadline while it    *)
(* runs), and of a schedule: `lapsed` (approval), `slot` (how many of its  *)
(* occurrences have begun), `open` (the 10 minute window of the last one)  *)
(* and `over` (its end).  Quotas (20 claims a day, 50 enabled              *)
(* subscriptions, 1000 rows) only refuse more and are left out.            *)
(***************************************************************************)
EXTENDS Naturals, FiniteSets

CONSTANTS
    Subscriptions,      \* ids of feed_subscriptions rows
    Sources,            \* source URLs
    Collections,        \* ids of feed_collections rows
    Schedules,          \* ids of feed_schedules rows
    Confirmers,         \* permits of FeedExecutor, in the API server
    Runners,            \* permits of ScheduledFeedExecutor, in schedulers
    None,               \* no schedule, no collection
    MaxRevision,        \* bound on the revisions of a subscription
    MaxSlots,           \* bound on the occurrences of a schedule
    MaxFaults           \* bound on the crashes and lost answers

VARIABLES
    sub,                \* sub[s]: the feed_subscriptions row
    entries,            \* entries[s]: sources its feed_entries came from
    col,                \* col[c]: the feed_collections row and occurrence
    sched,              \* sched[k]: the feed_schedules row and its clock
    at,                 \* at[e]: where the task of a permit stands
    fetches,            \* fetches[c]: requests made to the source for c
    faults              \* faults so far

vars == <<sub, entries, col, sched, at, fetches, faults>>

Executors == Confirmers \cup Runners

Ended == {"succeeded", "failed", "unknown", "cancelled"}
Over == {"cancelled", "expired"}

NoSub == [made |-> FALSE, revision |-> 0, source |-> None, enabled |-> FALSE,
          deleted |-> FALSE]
NoCol == [status |-> "none", sub |-> None, revision |-> 0, source |-> None,
          late |-> FALSE, sched |-> None, slot |-> 0, dispatched |-> FALSE]
NoSched == [status |-> "none", sub |-> None, revision |-> 0, source |-> None,
            lapsed |-> FALSE, slot |-> 0, open |-> FALSE, over |-> FALSE]
Idle == [phase |-> "idle", col |-> None, outcome |-> "none"]

(* What a fetch may bring: a feed, bytes that are no feed, no answer in    *)
(* time, or a refusal of the transport.                                    *)
Fetched == {"feed", "garbage", "timeout", "transport"}

TypeOK ==
    /\ sub \in [Subscriptions ->
         [made : BOOLEAN, revision : 0 .. MaxRevision,
          source : Sources \cup {None}, enabled : BOOLEAN, deleted : BOOLEAN]]
    /\ entries \in [Subscriptions -> SUBSET Sources]
    /\ col \in [Collections ->
         [status : {"none", "draft", "running"} \cup Ended,
          sub : Subscriptions \cup {None}, revision : 0 .. MaxRevision,
          source : Sources \cup {None}, late : BOOLEAN,
          sched : Schedules \cup {None}, slot : 0 .. MaxSlots,
          dispatched : BOOLEAN]]
    /\ sched \in [Schedules ->
         [status : {"none", "draft", "active"} \cup Over,
          sub : Subscriptions \cup {None}, revision : 0 .. MaxRevision,
          source : Sources \cup {None}, lapsed : BOOLEAN,
          slot : 0 .. MaxSlots, open : BOOLEAN, over : BOOLEAN]]
    /\ at \in [Executors ->
         [phase : {"idle", "claimed", "cleared", "answered"},
          col : Collections \cup {None}, outcome : Fetched \cup {"none"}]]
    /\ fetches \in [Collections -> Nat]
    /\ faults \in 0 .. MaxFaults

Init ==
    /\ sub = [s \in Subscriptions |-> NoSub]
    /\ entries = [s \in Subscriptions |-> {}]
    /\ col = [c \in Collections |-> NoCol]
    /\ sched = [k \in Schedules |-> NoSched]
    /\ at = [e \in Executors |-> Idle]
    /\ fetches = [c \in Collections |-> 0]
    /\ faults = 0

-----------------------------------------------------------------------------
(* Subscriptions.                                                          *)

CreateSubscription(s, u, on) ==
    /\ ~sub[s].made
    /\ sub' = [sub EXCEPT ![s] = [made |-> TRUE, revision |-> 1, source |-> u,
                                  enabled |-> on, deleted |-> FALSE]]
    /\ UNCHANGED <<entries, col, sched, at, fetches, faults>>

(* The trigger invalidate_feed_schedules: a changed, disabled or deleted   *)
(* subscription cancels its drafts and its active schedule.                *)
InvalidateSchedules(s) ==
    sched' = [k \in Schedules |->
        IF sched[k].sub = s /\ sched[k].status \in {"draft", "active"}
        THEN [sched[k] EXCEPT !.status = "cancelled"]
        ELSE sched[k]]

(* An update that changes nothing writes nothing; another bumps the        *)
(* revision the caller gave.                                               *)
UpdateSubscription(s, u, on) ==
    /\ sub[s].made /\ ~sub[s].deleted
    /\ sub[s].revision < MaxRevision
    /\ <<u, on>> # <<sub[s].source, sub[s].enabled>>
    /\ sub' = [sub EXCEPT ![s].source = u, ![s].enabled = on,
                          ![s].revision = @ + 1]
    /\ InvalidateSchedules(s)
    /\ UNCHANGED <<entries, col, at, fetches, faults>>

DeleteSubscription(s) ==
    /\ sub[s].made /\ ~sub[s].deleted
    /\ sub[s].revision < MaxRevision
    /\ sub' = [sub EXCEPT ![s].deleted = TRUE, ![s].enabled = FALSE,
                          ![s].source = None, ![s].revision = @ + 1]
    /\ entries' = [entries EXCEPT ![s] = {}]
    /\ InvalidateSchedules(s)
    /\ UNCHANGED <<col, at, fetches, faults>>

-----------------------------------------------------------------------------
(* Single collections.                                                     *)

(* plan_collection: only an enabled subscription is planned.               *)
Plannable(s) == sub[s].made /\ sub[s].enabled

(* validate_approval, and the rule of authorize_schedule and due: the plan *)
(* made of the subscription now is the plan that was approved.             *)
SamePlan(plan) ==
    LET s == plan.sub IN
    /\ sub[s].enabled
    /\ plan.revision = sub[s].revision
    /\ plan.source = sub[s].source

(* check_collection_quota, and the unique index of running collections.    *)
NoneRunning == \A c \in Collections : col[c].status # "running"

PreviewCollection(c, s) ==
    /\ col[c].status = "none"
    /\ Plannable(s)
    /\ col' = [col EXCEPT ![c] = [NoCol EXCEPT !.status = "draft", !.sub = s,
                                  !.revision = sub[s].revision,
                                  !.source = sub[s].source]]
    /\ UNCHANGED <<sub, entries, sched, at, fetches, faults>>

CancelCollection(c) ==
    /\ col[c].status = "draft"
    /\ col' = [col EXCEPT ![c].status = "cancelled"]
    /\ UNCHANGED <<sub, entries, sched, at, fetches, faults>>

ClaimCollection(c) ==
    /\ col[c].status = "draft" /\ ~col[c].late
    /\ SamePlan(col[c])
    /\ NoneRunning
    /\ col' = [col EXCEPT ![c].status = "running"]

(* FeedExecutor: a permit, then the claim of a confirmed draft.            *)
Confirm(e, c) ==
    /\ at[e].phase = "idle"
    /\ ClaimCollection(c)
    /\ at' = [at EXCEPT ![e] = [Idle EXCEPT !.phase = "cleared", !.col = c]]
    /\ UNCHANGED <<sub, entries, sched, fetches, faults>>

(* An occurrence that is not dispatched, or whose schedule is no longer in *)
(* force, gets no result.                                                  *)
ScheduledInvalid(c) ==
    /\ col[c].sched # None
    /\ \/ ~col[c].dispatched
       \/ sched[col[c].sched].status # "active"
       \/ sched[col[c].sched].over

(* Mutation: the write looks at the schedule alone, and not at whether the *)
(* subscription is still the one that was planned.                         *)
VerdictOfSchedule(c, outcome) ==
    CASE col[c].late -> "unknown"
      [] ~col[c].late /\ ScheduledInvalid(c) -> "failed"
      [] OTHER -> CASE outcome = "feed" -> "succeeded"
                    [] outcome \in {"garbage", "transport"} -> "failed"
                    [] outcome = "timeout" -> "unknown"

(* finish_feed decides on what it reads in its own transaction.            *)
Verdict(c, outcome) ==
    CASE col[c].late -> "unknown"
      [] ~col[c].late /\ (ScheduledInvalid(c) \/ ~SamePlan(col[c])) -> "failed"
      [] OTHER -> CASE outcome = "feed" -> "succeeded"
                    [] outcome \in {"garbage", "transport"} -> "failed"
                    [] outcome = "timeout" -> "unknown"

(* A collection that is no longer running is returned as it is.            *)
FinishFeed(c, outcome) ==
    IF col[c].status = "running"
    THEN LET verdict == Verdict(c, outcome) IN
         /\ col' = [col EXCEPT ![c].status = verdict]
         /\ entries' = IF verdict = "succeeded"
                       THEN [entries EXCEPT ![col[c].sub] = @ \cup {col[c].source}]
                       ELSE entries
    ELSE UNCHANGED <<col, entries>>

Finish(e) ==
    /\ at[e].phase = "answered"
    /\ FinishFeed(at[e].col, at[e].outcome)
    /\ at' = [at EXCEPT ![e] = Idle]
    /\ UNCHANGED <<sub, sched, fetches, faults>>

(* The fetch itself reads nothing of the store: it goes to the source of   *)
(* the plan it claimed.                                                    *)
Fetch(e) ==
    /\ at[e].phase = "cleared"
    /\ fetches' = [fetches EXCEPT ![at[e].col] = @ + 1]
    /\ \E o \in Fetched :
         at' = [at EXCEPT ![e].phase = "answered", ![e].outcome = o]
    /\ UNCHANGED <<sub, entries, col, sched, faults>>

(* recover_collection: only past the deadline, and only what still runs.   *)
Recover(c) ==
    /\ col[c].status = "running" /\ col[c].late
    /\ col' = [col EXCEPT ![c].status = "unknown"]
    /\ UNCHANGED <<sub, entries, sched, at, fetches, faults>>

-----------------------------------------------------------------------------
(* Schedules.                                                              *)

(* Whatever opens the schedules of the owner first expires what is due.    *)
Expired(k) ==
    \/ sched[k].status = "draft" /\ sched[k].lapsed
    \/ sched[k].status = "active" /\ sched[k].over

Expire(rows) ==
    [k \in Schedules |->
        IF Expired(k) THEN [rows[k] EXCEPT !.status = "expired"] ELSE rows[k]]

(* authorize_schedule compares the plan it would make now with the saved.  *)
Authorized(k) == SamePlan(sched[k])

PreviewSchedule(k, s) ==
    /\ sched[k].status = "none"
    /\ Plannable(s)
    /\ sched' = [Expire(sched) EXCEPT ![k] =
                   [NoSched EXCEPT !.status = "draft", !.sub = s,
                                   !.revision = sub[s].revision,
                                   !.source = sub[s].source]]
    /\ UNCHANGED <<sub, entries, col, at, fetches, faults>>

ApproveSchedule(k) ==
    /\ sched[k].status = "draft" /\ ~sched[k].lapsed
    /\ Authorized(k)
    /\ \A j \in Schedules :
         sched[j].sub = sched[k].sub => Expire(sched)[j].status # "active"
    /\ sched' = [Expire(sched) EXCEPT ![k].status = "active"]
    /\ UNCHANGED <<sub, entries, col, at, fetches, faults>>

CancelSchedule(k) ==
    /\ sched[k].status \in {"draft", "active"}
    /\ sched' = [sched EXCEPT ![k].status = "cancelled"]
    /\ UNCHANGED <<sub, entries, col, at, fetches, faults>>

(* get, list and audit of schedules write what has expired.                *)
ReadSchedules ==
    /\ \E k \in Schedules : Expired(k)
    /\ sched' = Expire(sched)
    /\ UNCHANGED <<sub, entries, col, at, fetches, faults>>

(* The schedule has an occurrence now.                                     *)
Due(k) == sched[k].slot > 0 /\ sched[k].open /\ ~sched[k].over

(* Mutation: only a collection that succeeded takes the occurrence.        *)
AlreadyCollected(k) ==
    \E c \in Collections :
        /\ col[c].sched = k /\ col[c].slot = sched[k].slot
        /\ col[c].status = "succeeded"

(* The occurrence of this moment has a row.                                *)
AlreadyClaimed(k) ==
    \E c \in Collections : col[c].sched = k /\ col[c].slot = sched[k].slot

(* claim_scheduled_collection: the collection, its claim and the           *)
(* occurrence are written together.                                        *)
ClaimScheduled(k, c) ==
    /\ sched[k].status = "active"
    /\ Authorized(k)
    /\ Due(k)
    /\ ~AlreadyClaimed(k)
    /\ NoneRunning
    /\ col[c].status = "none"
    /\ col' = [col EXCEPT ![c] = [NoCol EXCEPT !.status = "running",
                   !.sub = sched[k].sub, !.revision = sched[k].revision,
                   !.source = sched[k].source, !.sched = k,
                   !.slot = sched[k].slot]]

(* What the scan of due schedules returns; the claim decides again.        *)
Scanned(k) == sched[k].status = "active" /\ Due(k) /\ ~AlreadyClaimed(k)

(* ScheduledFeedExecutor: a permit, then the claim of a scanned schedule.  *)
RunSchedule(e, k, c) ==
    /\ at[e].phase = "idle"
    /\ Scanned(k)
    /\ ClaimScheduled(k, c)
    /\ at' = [at EXCEPT ![e] = [Idle EXCEPT !.phase = "claimed", !.col = c]]
    /\ UNCHANGED <<sub, entries, sched, fetches, faults>>

MayDispatch(c) ==
    LET k == col[c].sched IN
    /\ ~col[c].dispatched
    /\ col[c].status = "running" /\ ~col[c].late
    /\ sched[k].status = "active"
    /\ Due(k) /\ sched[k].slot = col[c].slot
    /\ Authorized(k)

(* dispatch_scheduled_collection: the fence before the fetch.  A refusal   *)
(* goes straight to finish_collection.                                     *)
Dispatch(e) ==
    LET c == at[e].col IN
    /\ at[e].phase = "claimed"
    /\ IF MayDispatch(c)
       THEN /\ col' = [col EXCEPT ![c].dispatched = TRUE]
            /\ at' = [at EXCEPT ![e].phase = "cleared"]
       ELSE /\ at' = [at EXCEPT ![e].phase = "answered",
                                ![e].outcome = "timeout"]
            /\ UNCHANGED col
    /\ UNCHANGED <<sub, entries, sched, fetches, faults>>

(* Mutation: the scan returns the collections that were dispatched.        *)
RecoverDispatched(c) == col[c].dispatched /\ Recover(c)

(* The scheduler's scan of expired collections joins the occurrences: it   *)
(* never finds the collection of a user.                                   *)
RecoverScheduled(c) == col[c].sched # None /\ Recover(c)

-----------------------------------------------------------------------------
(* Time, and what fails.                                                   *)

CollectionLate(c) ==
    /\ col[c].status \in {"draft", "running"} /\ ~col[c].late
    /\ col' = [col EXCEPT ![c].late = TRUE]
    /\ UNCHANGED <<sub, entries, sched, at, fetches, faults>>

Known(k) == sched[k].status \in {"draft", "active"}

ApprovalLapses(k) ==
    /\ Known(k) /\ ~sched[k].lapsed
    /\ sched' = [sched EXCEPT ![k].lapsed = TRUE]
    /\ UNCHANGED <<sub, entries, col, at, fetches, faults>>

(* No occurrence begins before the approval has lapsed, and they are hours *)
(* apart: a collection of the one before is past its deadline.             *)
SlotBegins(k) ==
    /\ Known(k) /\ sched[k].lapsed /\ ~sched[k].open /\ ~sched[k].over
    /\ \A c \in Collections :
         col[c].status = "running" /\ col[c].sched = k => col[c].late
    /\ sched[k].slot < MaxSlots
    /\ sched' = [sched EXCEPT ![k].slot = @ + 1, ![k].open = TRUE]
    /\ UNCHANGED <<sub, entries, col, at, fetches, faults>>

WindowCloses(k) ==
    /\ Known(k) /\ sched[k].open
    /\ sched' = [sched EXCEPT ![k].open = FALSE]
    /\ UNCHANGED <<sub, entries, col, at, fetches, faults>>

ScheduleEnds(k) ==
    /\ Known(k) /\ sched[k].slot > 0 /\ ~sched[k].over
    /\ sched' = [sched EXCEPT ![k].over = TRUE, ![k].open = FALSE]
    /\ UNCHANGED <<sub, entries, col, at, fetches, faults>>

(* The process dies, or an operation exceeds its 5 s: the task ends and    *)
(* what it had written stays.                                              *)
Fault(e) ==
    /\ at[e].phase # "idle"
    /\ faults < MaxFaults
    /\ faults' = faults + 1
    /\ at' = [at EXCEPT ![e] = Idle]
    /\ UNCHANGED <<sub, entries, col, sched, fetches>>

-----------------------------------------------------------------------------
SubscriptionRequests ==
    \E s \in Subscriptions :
        \/ DeleteSubscription(s)
        \/ \E u \in Sources, on \in BOOLEAN :
             CreateSubscription(s, u, on) \/ UpdateSubscription(s, u, on)

CollectionRequests ==
    \E c \in Collections :
        \/ \E s \in Subscriptions : PreviewCollection(c, s)
        \/ CancelCollection(c)
        \/ Recover(c)

ScheduleRequests ==
    \/ \E k \in Schedules :
         \/ \E s \in Subscriptions : PreviewSchedule(k, s)
         \/ ApproveSchedule(k)
         \/ CancelSchedule(k)
    \/ ReadSchedules

Begin ==
    \/ \E e \in Confirmers, c \in Collections : Confirm(e, c)
    \/ \E e \in Runners, k \in Schedules, c \in Collections :
         RunSchedule(e, k, c)

Work(e) == Dispatch(e) \/ Fetch(e) \/ Finish(e)

TimePasses ==
    \/ \E c \in Collections : CollectionLate(c)
    \/ \E k \in Schedules :
         ApprovalLapses(k) \/ SlotBegins(k) \/ WindowCloses(k) \/ ScheduleEnds(k)

Next ==
    \/ SubscriptionRequests
    \/ CollectionRequests
    \/ ScheduleRequests
    \/ Begin
    \/ \E e \in Executors : Work(e) \/ Fault(e)
    \/ \E c \in Collections : RecoverScheduled(c)
    \/ TimePasses

Spec == Init /\ [][Next]_vars

(* A task that is not killed goes on, deadlines pass, and a scheduler goes *)
(* on ticking: its scan returns every scheduled collection that is late.   *)
Fairness ==
    /\ \A e \in Executors : WF_vars(Work(e))
    /\ \A c \in Collections :
         WF_vars(CollectionLate(c)) /\ WF_vars(RecoverScheduled(c))

FairSpec == Spec /\ Fairness

-----------------------------------------------------------------------------
(* No collection asks its source twice, and no occurrence of a schedule is *)
(* asked for twice, by whatever runners that saw it due: feed_schedules/   *)
(* execution.rs writes the occurrence with the claim and the fence once.   *)
FetchOnce ==
    /\ \A c \in Collections : fetches[c] <= 1
    /\ \A c, d \in Collections :
         /\ c # d
         /\ fetches[c] > 0 /\ fetches[d] > 0
         /\ col[c].sched # None
         => <<col[c].sched, col[c].slot>> # <<col[d].sched, col[d].slot>>

(* What is written of a subscription came from the source it has at that   *)
(* moment, while it is enabled, and for a schedule while that is in force: *)
(* whatever was edited between the claim, the fence, the fetch and the     *)
(* write (feeds.rs finish_feed).                                           *)
EntriesAreCurrent ==
    [][\A s \in Subscriptions :
         LET new == entries'[s] \ entries[s] IN
         new # {} =>
           /\ new = {sub[s].source} /\ sub[s].enabled /\ ~sub[s].deleted
           /\ \E c \in Collections :
                /\ col[c].status = "running" /\ col'[c].status = "succeeded"
                /\ col[c].revision = sub[s].revision
                /\ fetches[c] = 1
                /\ col[c].sched # None =>
                     sched[col[c].sched].status = "active" /\ col[c].dispatched
      ]_vars

(* A deleted subscription keeps no entry and no schedule that could still  *)
(* collect for it, whatever was under way when it was deleted.             *)
DeletedIsClean ==
    \A s \in Subscriptions :
        sub[s].deleted =>
          /\ entries[s] = {}
          /\ \A k \in Schedules :
               sched[k].sub = s => sched[k].status \notin {"draft", "active"}

(* A collection of a schedule does not run for ever: when its runner dies  *)
(* the scheduler ends it after its deadline (feed_schedules/scanning.rs    *)
(* EXPIRED).  One running collection holds the place of every other.       *)
ScheduledEnds ==
    \A c \in Collections :
        (col[c].status = "running" /\ col[c].sched # None)
            ~> (col[c].status \in Ended)

=============================================================================

------------------------------- MODULE Briefs -------------------------------
(***************************************************************************)
(* The daily briefs of one owner: a brief is a ranked extract of the feed  *)
(* entries first seen in one UTC day, made on request or by the scheduler  *)
(* at the minute of the day the owner chose, at most one attempt a day.    *)
(*                                                                         *)
(* Every operation locks the owner's row, so each is one action; only the  *)
(* scheduler's search for a due schedule reads before it locks.  Of the    *)
(* feeds the module keeps what a brief reads of them: whether a            *)
(* subscription is enabled and on which days entries of it were first      *)
(* seen.  Time is counted in ticks, DayTicks of them to a UTC day.         *)
(***************************************************************************)
EXTENDS Naturals, FiniteSets

CONSTANTS
    Subscriptions,      \* ids of feed_subscriptions rows
    Briefs,             \* ids of feed_briefs rows, DailyQuota for each day
    None,               \* no time
    DayTicks,           \* ticks of a day: DAY
    MaxClock,           \* bound on the clock
    MaxRevision,        \* bound on the revisions of the schedule
    MaxPreferences,     \* bound on the revisions of the preferences
    DailyQuota          \* briefs of one day (10 in the code)

VARIABLES
    clock,              \* the database's clock_timestamp()
    source,             \* source[s]: state of the subscription
    seen,               \* seen[s]: days on which entries were first seen
    preference,         \* revision of feed_brief_preferences
    brief,              \* brief[b]: the feed_briefs row and its sources
    plan,               \* the feed_brief_schedules row
    picked,             \* the scheduler's search has returned the owner
    attempts            \* attempts[d]: automatic attempts on day d

briefVars == <<clock, source, seen, preference, brief, plan, picked, attempts>>

Day(t) == t \div DayTicks
Days == 0 .. Day(MaxClock)
Minutes == 0 .. DayTicks - 1
Target(t, minute) == Day(t) * DayTicks + minute

NoBrief == [status |-> "none", revision |-> 0, day |-> 0, sources |-> {}]
NoPlan == [revision |-> 0, enabled |-> FALSE, minute |-> 0, next |-> None,
           last |-> None, outcome |-> "none"]

TypeOK ==
    /\ clock \in 0 .. MaxClock
    /\ source \in [Subscriptions -> {"enabled", "disabled", "deleted"}]
    /\ seen \in [Subscriptions -> SUBSET Days]
    /\ preference \in 0 .. MaxPreferences
    /\ brief \in [Briefs ->
         [status : {"none", "ready", "invalidated", "deleted"},
          revision : 0 .. MaxPreferences, day : Days,
          sources : SUBSET Subscriptions]]
    /\ plan \in [revision : 0 .. MaxRevision, enabled : BOOLEAN,
                 minute : Minutes, next : Nat \cup {None},
                 last : Nat \cup {None},
                 outcome : {"none", "generated", "skipped"}]
    /\ plan.enabled <=> plan.next # None
    /\ picked \in BOOLEAN
    /\ attempts \in [Days -> Nat]

Init ==
    /\ clock = 0
    /\ source = [s \in Subscriptions |-> "enabled"]
    /\ seen = [s \in Subscriptions |-> {}]
    /\ preference = 0
    /\ brief = [b \in Briefs |-> NoBrief]
    /\ plan = NoPlan
    /\ picked = FALSE
    /\ attempts = [d \in Days |-> 0]

-----------------------------------------------------------------------------
(* What the feeds do meanwhile.                                            *)

Collect(s) ==
    /\ source[s] = "enabled"
    /\ seen' = [seen EXCEPT ![s] = @ \cup {Day(clock)}]
    /\ UNCHANGED <<clock, source, preference, brief, plan, picked, attempts>>

Enable(s, on) ==
    /\ source[s] = IF on THEN "disabled" ELSE "enabled"
    /\ source' = [source EXCEPT ![s] = IF on THEN "enabled" ELSE "disabled"]
    /\ UNCHANGED <<clock, seen, preference, brief, plan, picked, attempts>>

(* The trigger invalidate_feed_briefs: every brief that had an entry of    *)
(* the deleted subscription among its candidates loses its text.           *)
InvalidateBriefs(s) ==
    brief' = [b \in Briefs |->
        IF brief[b].status = "ready" /\ s \in brief[b].sources
        THEN [brief[b] EXCEPT !.status = "invalidated"]
        ELSE brief[b]]

Delete(s) ==
    /\ source[s] # "deleted"
    /\ source' = [source EXCEPT ![s] = "deleted"]
    /\ seen' = [seen EXCEPT ![s] = {}]
    /\ InvalidateBriefs(s)
    /\ UNCHANGED <<clock, preference, plan, picked, attempts>>

-----------------------------------------------------------------------------
(* Preferences and briefs.                                                 *)

(* Other keywords under the revision the caller read.                      *)
SavePreferences ==
    /\ preference < MaxPreferences
    /\ preference' = preference + 1
    /\ UNCHANGED <<clock, source, seen, brief, plan, picked, attempts>>

Candidates == {s \in Subscriptions : source[s] = "enabled" /\ Day(clock) \in seen[s]}

MadeOn(d) == {b \in Briefs : brief[b].status # "none" /\ brief[b].day = d}

(* create_in_transaction refuses another revision of the preferences, and  *)
(* what exceeds the quota of the day.                                      *)
Creatable(b, revision) ==
    /\ brief[b].status = "none"
    /\ revision = preference
    /\ Cardinality(MadeOn(Day(clock))) < DailyQuota

CreateBrief(b, revision) ==
    brief' = [brief EXCEPT ![b] = [status |-> "ready", revision |-> revision,
                                   day |-> Day(clock), sources |-> Candidates]]

(* The rows of feed_brief_sources go with the text.                        *)
DeleteBrief(b) ==
    /\ brief[b].status \in {"ready", "invalidated"}
    /\ brief' = [brief EXCEPT ![b].status = "deleted", ![b].sources = {}]
    /\ UNCHANGED <<clock, source, seen, preference, plan, picked, attempts>>

Request(b, revision) ==
    /\ Creatable(b, revision)
    /\ CreateBrief(b, revision)
    /\ UNCHANGED <<clock, source, seen, preference, plan, picked, attempts>>

-----------------------------------------------------------------------------
(* The schedule.                                                           *)

AttemptedOn(last, d) == last # None /\ Day(last) >= d

(* The next minute that is neither past nor on a day already attempted.    *)
NextRun(t, minute, last) ==
    IF Target(t, minute) <= t \/ AttemptedOn(last, Day(t))
    THEN Target(t, minute) + DayTicks
    ELSE Target(t, minute)

(* A repeated save of what is saved changes nothing and is left out.       *)
SaveSchedule(on, minute) ==
    /\ plan.revision < MaxRevision
    /\ plan.revision > 0 => <<on, minute>> # <<plan.enabled, plan.minute>>
    /\ plan' = [plan EXCEPT !.revision = @ + 1, !.enabled = on,
                  !.minute = minute,
                  !.next = IF on THEN NextRun(clock, minute, plan.last) ELSE None]
    /\ UNCHANGED <<clock, source, seen, preference, brief, picked, attempts>>

Due == plan.enabled /\ plan.next <= clock

(* The search of generate_due_brief.                                       *)
Pick ==
    /\ Due /\ ~picked
    /\ picked' = TRUE
    /\ UNCHANGED <<clock, source, seen, preference, brief, plan, attempts>>

(* The minute of today has come and today has had no attempt.              *)
MayAttempt ==
    /\ Target(clock, plan.minute) <= clock
    /\ ~AttemptedOn(plan.last, Day(clock))

(* Mutation: only the day of a brief that was made is remembered.          *)
AttemptedIfMade(outcome) ==
    /\ plan' = [plan EXCEPT !.next = NextRun(clock, plan.minute, clock),
                   !.last = IF outcome = "generated" THEN clock ELSE @,
                   !.outcome = outcome]
    /\ attempts' = [attempts EXCEPT ![Day(clock)] = @ + 1]

Attempted(outcome) ==
    /\ plan' = [plan EXCEPT !.next = NextRun(clock, plan.minute, clock),
                            !.last = clock, !.outcome = outcome]
    /\ attempts' = [attempts EXCEPT ![Day(clock)] = @ + 1]

(* generate_due_brief under the lock: it reads the schedule again, moves   *)
(* it on when today is not its day, and otherwise attempts once, whether   *)
(* or not a brief comes of it.                                             *)
Generate ==
    /\ picked
    /\ picked' = FALSE
    /\ IF ~Due
       THEN UNCHANGED <<brief, plan, attempts>>
       ELSE IF ~MayAttempt
       THEN /\ plan' = [plan EXCEPT !.next = NextRun(clock, plan.minute, plan.last)]
            /\ UNCHANGED <<brief, attempts>>
       ELSE \/ \E b \in Briefs :
                 /\ Creatable(b, preference)
                 /\ CreateBrief(b, preference)
                 /\ Attempted("generated")
            \/ /\ Cardinality(MadeOn(Day(clock))) >= DailyQuota
               /\ Attempted("skipped")
               /\ UNCHANGED brief
    /\ UNCHANGED <<clock, source, seen, preference>>

Tick ==
    /\ clock < MaxClock
    /\ clock' = clock + 1
    /\ UNCHANGED <<source, seen, preference, brief, plan, picked, attempts>>

-----------------------------------------------------------------------------
Requests ==
    \/ \E b \in Briefs : DeleteBrief(b)
    \/ \E b \in Briefs, r \in 0 .. MaxPreferences : Request(b, r)
    \/ \E on \in BOOLEAN, minute \in Minutes : SaveSchedule(on, minute)
    \/ SavePreferences

Next ==
    \/ \E s \in Subscriptions :
         \/ Collect(s)
         \/ Delete(s)
         \/ \E on \in BOOLEAN : Enable(s, on)
    \/ Requests
    \/ Pick
    \/ Generate
    \/ Tick

Spec == Init /\ [][Next]_briefVars

(* The scheduler looks for due schedules every two seconds.                *)
Fairness == WF_briefVars(Pick) /\ WF_briefVars(Generate)

FairSpec == Spec /\ Fairness

-----------------------------------------------------------------------------
(* The scheduler attempts a brief only for a schedule that is enabled and  *)
(* due when it does, and at most once in a UTC day, however the owner      *)
(* moves the minute, disables and enables (brief_schedules.rs:140).        *)
AttemptsAreDue ==
    [][attempts' # attempts =>
         /\ plan.enabled /\ plan.next <= clock
         /\ Target(clock, plan.minute) <= clock
         /\ attempts[Day(clock)] = 0]_briefVars

(* The text of a brief is kept only while every subscription that gave a   *)
(* candidate to it exists: deletion reaches what was derived from it.      *)
NothingOfDeleted ==
    \A b \in Briefs :
        brief[b].status = "ready" =>
            \A s \in brief[b].sources : source[s] # "deleted"

(* A due schedule is moved on: generate_due_brief never returns the same   *)
(* owner for ever, which would keep every other from its brief.            *)
DueMovesOn == Due ~> ~Due
=============================================================================

------------------------------ MODULE MCFeeds ------------------------------
(***************************************************************************)
(* One instance of Feeds and one of Briefs.  They share the subscriptions  *)
(* and nothing that either would have to wait for, so a behaviour takes    *)
(* the steps of one of the two, and `turn` says of which.                  *)
(***************************************************************************)
EXTENDS Naturals

CONSTANTS
    Subscriptions, Sources, Collections, FeedSchedules, Confirmers,
    FeedRunners, Empty, MaxEdits, MaxSlots, MaxCrashes,     \* of Feeds
    Briefs, DayTicks, MaxClock, MaxPreferences, DailyQuota  \* of Briefs

ASSUME FeedsAssumption ==
    /\ MaxEdits \in Nat \ {0}
    /\ MaxSlots \in Nat /\ MaxCrashes \in Nat
    /\ MaxClock \in Nat /\ MaxPreferences \in Nat /\ DailyQuota \in Nat
    /\ DayTicks \in Nat \ {0}
    /\ Empty \notin Nat \cup FeedSchedules

VARIABLES sub, entries, col, sched, at, fetches, crashes

F == INSTANCE Feeds WITH Schedules <- FeedSchedules, Runners <- FeedRunners,
                         None <- Empty, MaxRevision <- MaxEdits,
                         MaxFaults <- MaxCrashes, faults <- crashes

VARIABLES clock, feed, seen, preference, brief, daily, picked, attempts

B == INSTANCE Briefs WITH None <- Empty, MaxRevision <- MaxEdits,
                          source <- feed, plan <- daily

VARIABLE turn

feedVars == <<sub, entries, col, sched, at, fetches, crashes>>
briefVars == <<clock, feed, seen, preference, brief, daily, picked, attempts>>

FeedsInit == F!Init /\ B!Init /\ turn \in {"feeds", "briefs"}

FeedStep == turn = "feeds" /\ F!Next /\ UNCHANGED <<briefVars, turn>>
BriefStep == turn = "briefs" /\ B!Next /\ UNCHANGED <<feedVars, turn>>

FeedsSpec ==
    /\ FeedsInit
    /\ [][FeedStep \/ BriefStep]_<<feedVars, briefVars, turn>>
    /\ F!Fairness
    /\ B!Fairness

(* What the collections of a subscription do to their source and leave of  *)
(* it (Feeds): no collection and no occurrence of a schedule asks twice,   *)
(* and a deleted subscription keeps neither entries nor a schedule.        *)
CollectionsAreSound == F!TypeOK /\ F!FetchOnce /\ F!DeletedIsClean

(* What is written of a subscription came from the source it has at that   *)
(* moment, while it is enabled and the schedule in force (Feeds).          *)
EntriesAreCurrent == F!EntriesAreCurrent

(* An automatic brief is attempted when it is due and once a day, and no   *)
(* brief shows anything of a deleted subscription (Briefs).                *)
AttemptsAreDue == B!AttemptsAreDue /\ [](B!TypeOK /\ B!NothingOfDeleted)

(* A collection of a schedule ends although its runner died (Feeds), and   *)
(* a due schedule of briefs moves on whatever becomes of its attempt       *)
(* (Briefs): neither keeps others waiting for ever.                        *)
ScheduledEnds == F!ScheduledEnds /\ B!DueMovesOn

=============================================================================

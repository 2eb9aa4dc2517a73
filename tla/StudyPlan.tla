------------------------------ MODULE StudyPlan ------------------------------
(***************************************************************************)
(* Planning what to learn next (crates/learning/src/planning.rs and        *)
(* planning/snapshot.rs): the skills of a learner are sorted by their      *)
(* prerequisites, every skill the goals need is evaluated in that order    *)
(* from the latest self assessment of its current revision, and the minutes*)
(* of the request are given to the skills that can be trained now.         *)
(*                                                                         *)
(* Identifiers are numbers, because the order of identifiers breaks ties.  *)
(* The turns of each loop are steps: of the sort, of the ancestors, of the *)
(* evaluation and of the schedule.                                         *)
(***************************************************************************)
EXTENDS Integers, FiniteSets, Sequences, Sums

CONSTANTS
    Snapshots,          \* the skills a learner may have
    Requests,           \* [goals, budget]
    AssessmentMinutes,  \* 5
    PracticeMinutes,    \* 25
    TargetScore,        \* 70
    MaxTasks,           \* 5
    None

VARIABLES
    skills,     \* skill -> [parents, on, revision, ratings]
    request,
    pc,         \* "load", the loop under way, or "done"
    degree,     \* skill -> prerequisites that are not sorted yet
    ready,      \* the set the sort takes its next skill from
    order,      \* the skills sorted so far
    place,      \* the place of the order a loop has come to
    ancestors,  \* skill -> its prerequisites and theirs
    states,     \* skill -> what the evaluation says of it
    waiting,    \* the skills the schedule has not come to
    schedule,   \* [tasks, remaining]
    outcome     \* None, an error or the plan

sortVars == <<degree, ready, order>>
loopVars == <<place, ancestors, states, waiting, schedule>>
vars == <<skills, request, pc, sortVars, loopVars, outcome>>

Init ==
    /\ skills \in Snapshots
    /\ request \in Requests
    /\ pc = "load"
    /\ degree = [s \in DOMAIN skills |-> 0]
    /\ ready = {}
    /\ order = <<>>
    /\ place = 1
    /\ ancestors = [s \in DOMAIN skills |-> {}]
    /\ states = [s \in DOMAIN skills |-> "not_evaluated"]
    /\ waiting = {}
    /\ schedule = [tasks |-> <<>>, remaining |-> request.budget]
    /\ outcome = None

Parents(s) == skills[s].parents

End(result) == pc' = "done" /\ outcome' = result
Refuse(error) == End([status |-> error])
GoOn(loop) == pc' = loop /\ UNCHANGED outcome

-----------------------------------------------------------------------------
(* The sort. *)

\* Every prerequisite must be a skill of the same learner.
Load ==
    /\ pc = "load"
    /\ IF \E s \in DOMAIN skills : ~(Parents(s) \subseteq DOMAIN skills)
       THEN Refuse("invalid_prerequisite") /\ UNCHANGED <<degree, ready>>
       ELSE /\ degree' = [s \in DOMAIN skills |-> Cardinality(Parents(s))]
            /\ ready' = {s \in DOMAIN skills : Parents(s) = {}}
            /\ GoOn("sort")
    /\ UNCHANGED <<skills, request, order, loopVars>>

\* Mutation: a child is ready with its first prerequisite.
AnyParent(s, parent) == parent \in Parents(s)

\* A child is ready once the last of its prerequisites is sorted.
LastParent(s, parent) == parent \in Parents(s) /\ degree[s] = 1

\* The smallest ready skill comes next.
Visit ==
    /\ pc = "sort"
    /\ \E next \in ready :
           /\ \A s \in ready : next <= s
           /\ order' = Append(order, next)
           /\ degree' = [s \in DOMAIN skills |->
                  degree[s] - IF next \in Parents(s) THEN 1 ELSE 0]
           /\ ready' = (ready \ {next})
                  \cup {s \in DOMAIN skills : LastParent(s, next)}
    /\ UNCHANGED <<skills, request, pc, loopVars, outcome>>

\* Skills that wait for each other are never ready.
SortEnds ==
    /\ pc = "sort" /\ ready = {}
    /\ IF Len(order) # Cardinality(DOMAIN skills) THEN Refuse("cycle")
       ELSE GoOn("ancestors")
    /\ UNCHANGED <<skills, request, sortVars, loopVars>>

-----------------------------------------------------------------------------
(* The snapshot. *)

\* Skill by skill in the order of the sort: its prerequisites and theirs.
Trace ==
    /\ pc = "ancestors" /\ place <= Len(order)
    /\ LET s == order[place] IN
       ancestors' = [ancestors EXCEPT ![s] =
           Parents(s) \cup UNION {ancestors[p] : p \in Parents(s)}]
    /\ place' = place + 1
    /\ UNCHANGED <<skills, request, pc, sortVars, states, waiting, schedule, outcome>>

\* Two ratings of one revision at one instant must agree.
Ambiguous ==
    \E s \in DOMAIN skills : \E a, b \in skills[s].ratings :
        a.revision = b.revision /\ a.at = b.at /\ a.score # b.score

\* Ratings of an older revision no longer count.
OfRevision(s) == {a \in skills[s].ratings : a.revision = skills[s].revision}

Later(a, b) == a.at > b.at \/ (a.at = b.at /\ a.id >= b.id)

\* The score of the latest rating; the unrated skill sorts before every score.
Unrated == -1
Score(s) ==
    IF OfRevision(s) = {} THEN Unrated
    ELSE (CHOOSE a \in OfRevision(s) : \A b \in OfRevision(s) : Later(a, b)).score

\* The ratings are looked at behind the graph, and the goals behind both.
Check ==
    /\ pc = "ancestors" /\ place > Len(order)
    /\ IF Ambiguous THEN Refuse("ambiguous_assessment")
       ELSE IF \E g \in request.goals : g \notin DOMAIN skills \/ ~skills[g].on
       THEN Refuse("invalid_goal")
       ELSE GoOn("evaluate")
    /\ place' = 1
    /\ UNCHANGED <<skills, request, sortVars, ancestors, states, waiting, schedule>>

-----------------------------------------------------------------------------
(* The plan. *)

Relevant == request.goals \cup UNION {ancestors[g] : g \in request.goals}

\* A skill that has no state yet blocks what is above it.
Blocking(s) == {a \in ancestors[s] : states[a] # "satisfied"}

State(s) ==
    CASE ~skills[s].on -> "unavailable"
      [] skills[s].on /\ Blocking(s) # {} -> "blocked"
      [] skills[s].on /\ Blocking(s) = {} /\ Score(s) = Unrated -> "needs_assessment"
      [] skills[s].on /\ Blocking(s) = {} /\ Score(s) # Unrated ->
             IF Score(s) < TargetScore THEN "needs_practice" ELSE "satisfied"

\* The next skill of the order, when a goal needs it.
Evaluate ==
    /\ pc = "evaluate" /\ place <= Len(order)
    /\ LET s == order[place] IN
       states' = IF s \in Relevant THEN [states EXCEPT ![s] = State(s)] ELSE states
    /\ place' = place + 1
    /\ UNCHANGED <<skills, request, pc, sortVars, ancestors, waiting, schedule, outcome>>

Open == {s \in DOMAIN skills : states[s] \in {"needs_assessment", "needs_practice"}}

EvaluationEnds ==
    /\ pc = "evaluate" /\ place > Len(order)
    /\ waiting' = Open
    /\ GoOn("schedule")
    /\ UNCHANGED <<skills, request, sortVars, place, ancestors, states, schedule>>

\* Unknown skills first, then the weakest.
Before(a, b) == Score(a) < Score(b) \/ (Score(a) = Score(b) /\ a < b)

Minutes(s) ==
    IF states[s] = "needs_assessment" THEN AssessmentMinutes ELSE PracticeMinutes

Fits(s) == Len(schedule.tasks) < MaxTasks /\ Minutes(s) <= schedule.remaining

\* What does not fit is passed over.
Schedule ==
    /\ pc = "schedule"
    /\ \E next \in waiting :
           /\ \A s \in waiting \ {next} : Before(next, s)
           /\ waiting' = waiting \ {next}
           /\ schedule' = IF Fits(next)
                  THEN [tasks |-> Append(schedule.tasks, next),
                        remaining |-> schedule.remaining - Minutes(next)]
                  ELSE schedule
    /\ UNCHANGED <<skills, request, pc, sortVars, place, ancestors, states, outcome>>

Plan ==
    /\ pc = "schedule" /\ waiting = {}
    /\ End([status |-> "planned", schedule |-> schedule])
    /\ UNCHANGED <<skills, request, sortVars, loopVars>>

Next ==
    \/ Load \/ Visit \/ SortEnds \/ Trace \/ Check
    \/ Evaluate \/ EvaluationEnds \/ Schedule \/ Plan

-----------------------------------------------------------------------------
(* Properties. *)

\* Some skills that each wait for another of them.
Cyclic ==
    \E S \in (SUBSET DOMAIN skills) \ {{}} : \A s \in S : Parents(s) \cap S # {}

\* The least set with the prerequisites of s that is closed under them.
Basics(s) ==
    {a \in DOMAIN skills :
        \A C \in SUBSET DOMAIN skills :
            Parents(s) \subseteq C /\ (\A c \in C : Parents(c) \subseteq C)
                => a \in C}

Planned == outcome # None /\ outcome.status = "planned"

\* The sort refuses a graph exactly when it has a cycle, and an order it
\* returns has every skill once, behind all of its prerequisites.
SortIsExact ==
    /\ outcome # None /\ outcome.status = "cycle" => Cyclic
    /\ Planned =>
           /\ ~Cyclic
           /\ Len(order) = Cardinality(DOMAIN skills)
           /\ \A i \in DOMAIN order : \A p \in Parents(order[i]) :
                  \E j \in 1 .. i - 1 : order[j] = p

\* A skill the learner has shown to master, by the last word on its current
\* revision.
Mastered(s) ==
    /\ skills[s].on
    /\ \E a \in skills[s].ratings :
           /\ a.revision = skills[s].revision
           /\ a.score >= TargetScore
           /\ \A b \in skills[s].ratings :
                  b.revision = skills[s].revision => b.at <= a.at

\* Who needs what to be trained now: it serves a goal, it is not mastered
\* and everything below it is.
Trainable(s) ==
    /\ skills[s].on /\ ~Mastered(s)
    /\ \A a \in Basics(s) : Mastered(a)
    /\ \E g \in request.goals : s = g \/ s \in Basics(g)

\* The tasks of a plan are trainable skills, fit into the minutes asked for,
\* and leave out a trainable skill only when there are enough tasks or the
\* minutes left are too few for it.
PlanIsSound ==
    Planned =>
        LET plan == outcome.schedule
            tasks == {plan.tasks[i] : i \in DOMAIN plan.tasks}
            Time(s) == IF OfRevision(s) = {} THEN AssessmentMinutes
                       ELSE PracticeMinutes
        IN
        /\ \A s \in tasks : Trainable(s)
        /\ plan.remaining >= 0
        /\ plan.remaining = request.budget
               - SumOf([i \in DOMAIN plan.tasks |-> Time(plan.tasks[i])])
        /\ Cardinality(tasks) = Len(plan.tasks) /\ Len(plan.tasks) <= MaxTasks
        /\ \A s \in DOMAIN skills \ tasks :
               Trainable(s) =>
                   Len(plan.tasks) = MaxTasks \/ Time(s) > plan.remaining
=============================================================================

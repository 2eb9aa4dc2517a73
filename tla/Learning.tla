------------------------------ MODULE Learning ------------------------------
(***************************************************************************)
(* Skills, their assessments, training plans, what the user did of them,   *)
(* the evidence kept of it and its review, whose confirmation is itself an *)
(* assessment (storage-postgres/learning/).                                *)
(*                                                                         *)
(* Every operation locks its owner.  What a row rests on is cleaned up by  *)
(* triggers and cascades, in the transaction that removes it.              *)
(***************************************************************************)
EXTENDS Naturals, FiniteSets

CONSTANTS
    Skills, Plans,
    Assessments,    \* identities an assessment may get
    None,
    MaxRevision, MaxSkillRevision   \* bounds of a behaviour

ASSUME LearningAssumption ==
    /\ {MaxRevision, MaxSkillRevision} \subseteq Nat
    /\ IsFiniteSet(Assessments)
    /\ None \notin Assessments \cup Plans \cup Skills \cup (Plans \X Skills)

VARIABLES
    revision,       \* learning_state: names the skills and the scores
    skill,          \* learning_skills
    assessment,     \* learning_assessments; `of` is an observation: the
                    \* training a score was confirmed for
    plan,           \* learning_plans with their tasks and sources
    training        \* learning_results, learning_evidence, learning_reviews

learningVars == <<revision, skill, assessment, plan, training>>

Scores == {"low", "reached"}    \* below TARGET_SCORE, or not
NoAssessment == [skill |-> None, rev |-> 0, score |-> None, at |-> 0, of |-> None]
NoPlan == [status |-> "absent", sources |-> {}, used |-> {},
           task |-> [s \in Skills |-> 0]]
NoTraining == [result |-> "none", evidence |-> "none", review |-> "none",
               confirmed |-> None]

LearningTypeOK ==
    /\ revision \in 0 .. MaxRevision + Cardinality(Assessments)
    /\ skill \in [Skills -> [rev: 0 .. MaxSkillRevision, enabled: BOOLEAN,
                             deleted: BOOLEAN]]
    /\ assessment \in [Assessments ->
            [skill: Skills \cup {None}, rev: 0 .. MaxSkillRevision,
             score: Scores \cup {None}, at: Nat,
             of: (Plans \X Skills) \cup {None}]]
    /\ plan \in [Plans -> [status: {"absent", "ready", "invalidated", "deleted"},
                           sources: SUBSET Skills, used: SUBSET Assessments,
                           task: [Skills -> 0 .. MaxSkillRevision]]]
    /\ training \in [Plans -> [Skills ->
            [result: {"none", "completed", "cancelled"},
             evidence: {"none", "kept", "deleted"},
             review: {"none", "pending", "confirmed", "invalidated"},
             confirmed: Assessments \cup {None}]]]

LearningInit ==
    /\ revision = 0
    /\ skill = [s \in Skills |-> [rev |-> 0, enabled |-> FALSE, deleted |-> FALSE]]
    /\ assessment = [a \in Assessments |-> NoAssessment]
    /\ plan = [p \in Plans |-> NoPlan]
    /\ training = [p \in Plans |-> [s \in Skills |-> NoTraining]]

-----------------------------------------------------------------------------
(* What an operation reads.                                                *)

Known == {s \in Skills : skill[s].rev > 0}
Current(s, rev) == skill[s].enabled /\ ~skill[s].deleted /\ skill[s].rev = rev

\* The latest assessment of the current revision of s, as a set.
Latest(s) ==
    LET rated == {a \in Assessments : /\ assessment[a].skill = s
                                      /\ assessment[a].rev = skill[s].rev
                                      /\ assessment[a].score # None}
    IN  {a \in rated : \A b \in rated : assessment[b].at <= assessment[a].at}

\* Skills a plan may give a task for: no score, or one below the target.
Ready(s) ==
    /\ skill[s].enabled /\ ~skill[s].deleted
    /\ \A a \in Latest(s) : assessment[a].score = "low"

\* source_assessments_available
Available(p) == \A a \in plan[p].used : assessment[a].score # None

Kept(p, s) == plan[p].status = "ready" /\ training[p][s].evidence = "kept"

-----------------------------------------------------------------------------
(* What goes with a row.                                                   *)

Confirmed(ps) == {training[x[1]][x[2]].confirmed : x \in ps} \ {None}

Scoreless(as) ==
    [a \in Assessments |-> IF a \in as THEN [assessment[a] EXCEPT !.score = None]
                           ELSE assessment[a]]

\* invalidate_learning_review for the confirmed scores `as`: each one that is
\* withdrawn changes the revision.  `own` went before, with their skill.
Withdraw(as, own) ==
    /\ assessment' = Scoreless(as \cup own)
    /\ revision' = revision + Cardinality({a \in as \ own : assessment[a].score # None})

\* clear_learning_result and the cascades below it.
Cleared(ps) ==
    [p \in Plans |-> IF p \in ps THEN [s \in Skills |-> NoTraining]
                     ELSE training[p]]

OfPlans(ps) == {x \in ps \X Skills : training[x[1]][x[2]].review # "none"}

\* What is left of a plan that is no longer ready.
Emptied(p, status) == [NoPlan EXCEPT !.status = status, !.sources = plan[p].sources]

-----------------------------------------------------------------------------
(* Skills and assessments.                                                 *)

MayChange == revision < MaxRevision

\* skills::save, with something that changes; otherwise it is a read.
SaveSkill(s) ==
    /\ MayChange /\ skill[s].rev < MaxSkillRevision /\ ~skill[s].deleted
    /\ \E on \in BOOLEAN :
        skill' = [skill EXCEPT ![s].rev = @ + 1, ![s].enabled = on]
    /\ revision' = revision + 1
    /\ UNCHANGED <<assessment, plan, training>>

\* invalidate_learning_plans: the plans that were made from skill s.
MadeFrom(s) == {p \in Plans : plan[p].status = "ready" /\ s \in plan[p].sources}

\* skills::delete with the trigger of the table.
DeleteSkill(s) ==
    LET own == {a \in Assessments : assessment[a].skill = s}
        lost == Confirmed(OfPlans(MadeFrom(s)))
    IN  /\ MayChange /\ skill[s].rev > 0 /\ ~skill[s].deleted
        /\ skill[s].rev < MaxSkillRevision
        /\ skill' = [skill EXCEPT ![s] =
                        [rev |-> @.rev + 1, enabled |-> FALSE, deleted |-> TRUE]]
        /\ assessment' = Scoreless(lost \cup own)
        /\ revision' = revision + 1 +
             Cardinality({a \in lost \ own : assessment[a].score # None})
        /\ plan' = [p \in Plans |-> IF p \in MadeFrom(s)
                                    THEN Emptied(p, "invalidated") ELSE plan[p]]
        /\ training' = Cleared(MadeFrom(s))

\* skills::assess_locked: a new score of the current revision of a skill.
Assess(a, s, score, of) ==
    /\ MayChange /\ assessment[a] = NoAssessment
    /\ Current(s, skill[s].rev)
    /\ assessment' = [assessment EXCEPT ![a] =
            [skill |-> s, rev |-> skill[s].rev, score |-> score,
             at |-> revision, of |-> of]]
    /\ revision' = revision + 1

RecordAssessment(a) ==
    /\ \E s \in Known, score \in Scores : Assess(a, s, score, None)
    /\ UNCHANGED <<skill, plan, training>>

-----------------------------------------------------------------------------
(* Plans and training.                                                     *)

\* plans::create: every skill is a source; the planner gives tasks to some of
\* the skills that are ready, and keeps which scores it looked at.
CreatePlan(p) ==
    /\ plan[p].status = "absent"
    /\ \E relevant \in SUBSET Known :
        /\ \E s \in relevant : skill[s].enabled /\ ~skill[s].deleted
        /\ \E tasks \in SUBSET {s \in relevant : Ready(s)} :
            plan' = [plan EXCEPT ![p] =
                [status |-> "ready", sources |-> Known,
                 used |-> UNION {Latest(s) : s \in {t \in relevant : ~skill[t].deleted}},
                 task |-> [s \in Skills |-> IF s \in tasks THEN skill[s].rev ELSE 0]]]
    /\ UNCHANGED <<revision, skill, assessment, training>>

\* plans::delete, whatever became of the plan before.
DeletePlan(p) ==
    /\ plan[p].status # "absent"
    /\ plan' = [plan EXCEPT ![p] = [Emptied(p, "deleted") EXCEPT !.sources = {}]]
    /\ training' = Cleared({p})
    /\ Withdraw(Confirmed(OfPlans({p})), {})
    /\ UNCHANGED skill

\* results::record
RecordResult(p, s) ==
    /\ plan[p].status = "ready" /\ plan[p].task[s] > 0
    /\ training[p][s].result = "none"
    /\ Available(p)
    /\ \E outcome \in {"completed", "cancelled"} :
        training' = [training EXCEPT ![p][s].result = outcome]
    /\ UNCHANGED <<revision, skill, assessment, plan>>

\* evidence::save
SaveEvidence(p, s) ==
    /\ plan[p].status = "ready" /\ training[p][s].result = "completed"
    /\ training[p][s].evidence = "none"
    /\ Available(p) /\ Current(s, plan[p].task[s])
    /\ training' = [training EXCEPT ![p][s].evidence = "kept"]
    /\ UNCHANGED <<revision, skill, assessment, plan>>

\* Mutation: a review keeps what it confirmed when its evidence is deleted.
ReviewOnly(p, s) ==
    /\ training' = [training EXCEPT ![p][s].evidence = "deleted",
            ![p][s].review = IF @ = "none" THEN "none" ELSE "invalidated"]
    /\ UNCHANGED <<revision, assessment>>

\* The evidence goes, and with it its review and what that confirmed.
WithdrawEvidence(p, s) ==
    /\ training' = [training EXCEPT ![p][s].evidence = "deleted",
            ![p][s].review = IF @ = "none" THEN "none" ELSE "invalidated"]
    /\ Withdraw(Confirmed({<<p, s>>}), {})

\* evidence::delete; again it changes nothing more.
DeleteEvidence(p, s) ==
    /\ plan[p].status = "ready" /\ training[p][s].evidence # "none"
    /\ WithdrawEvidence(p, s)
    /\ UNCHANGED <<skill, plan>>

\* reviews::save
SaveReview(p, s) ==
    /\ Kept(p, s) /\ training[p][s].review = "none"
    /\ Available(p) /\ Current(s, plan[p].task[s])
    /\ training' = [training EXCEPT ![p][s].review = "pending"]
    /\ UNCHANGED <<revision, skill, assessment, plan>>

\* reviews::confirm, of a review that supports every dimension.
ConfirmReview(p, s) ==
    /\ Kept(p, s) /\ training[p][s].review = "pending"
    /\ Available(p) /\ Current(s, plan[p].task[s])
    /\ \E a \in Assessments, score \in Scores :
        /\ Assess(a, s, score, <<p, s>>)
        /\ training' = [training EXCEPT ![p][s].review = "confirmed",
                                        ![p][s].confirmed = a]
    /\ UNCHANGED <<skill, plan>>

LearningNext ==
    \/ \E s \in Skills : SaveSkill(s) \/ DeleteSkill(s)
    \/ \E a \in Assessments : RecordAssessment(a)
    \/ \E p \in Plans : CreatePlan(p) \/ DeletePlan(p)
    \/ \E p \in Plans, s \in Skills :
        \/ RecordResult(p, s) \/ SaveEvidence(p, s) \/ DeleteEvidence(p, s)
        \/ SaveReview(p, s) \/ ConfirmReview(p, s)

-----------------------------------------------------------------------------
(* A score that came of a review is kept only while the review stands: its *)
(* plan is ready, its evidence is kept and it is still confirmed           *)
(* (0037_learning_reviews.sql:25).                                         *)
ScoresAreBacked ==
    \A a \in Assessments :
        assessment[a].score # None /\ assessment[a].of # None =>
            LET p == assessment[a].of[1] s == assessment[a].of[2] IN
            /\ Kept(p, s)
            /\ training[p][s].review = "confirmed"
            /\ training[p][s].confirmed = a

(* The revision names the skills and the scores: no two of them share one, *)
(* so that what was planned, assessed or confirmed for a snapshot meets    *)
(* that snapshot (learning.rs:58, 0037_learning_reviews.sql:33).           *)
RevisionNamesSnapshot ==
    [][<<skill, assessment>>' # <<skill, assessment>> => revision' > revision]_learningVars

=============================================================================

----------------------------- MODULE MCReviews -----------------------------
(***************************************************************************)
(* Instances of ValueReviews, Learning and Advice that do not wait for one *)
(* another: a behaviour takes the steps of one, and `part` says of which.  *)
(* Learning alone is checked with every skill, with its authorizations for *)
(* one: the cascades between skills do not look at them.                   *)
(***************************************************************************)
EXTENDS Advice

CONSTANTS
    Reviews, Executors, LastRevision, MaxSource,
    ReviewedSkill   \* the one that is trained while authorizations exist

ASSUME ReviewsAssumption ==
    /\ {LastRevision, MaxSource} \subseteq Nat
    /\ None \notin Executors \cup Reviews \cup 0 .. MaxSource

VARIABLES part, source, conn, review, runner, faults, calls

V == INSTANCE ValueReviews

valueVars == <<source, conn, review, runner, faults, calls>>

allVars == <<allLearningVars, valueVars, part>>

MCInit ==
    /\ AdviceInit /\ V!ReviewsInit
    /\ part \in {"values", "learning", "advice"}

ValueStep ==
    part = "values" /\ V!ReviewsNext /\ UNCHANGED <<allLearningVars, part>>
LearningStep ==
    /\ part = "learning" /\ LearningChanges
    /\ UNCHANGED <<valueVars, part>>
AdviceStep ==
    /\ part = "advice" /\ AdviceNext
    /\ \A s \in Skills \ {ReviewedSkill} : UNCHANGED skill[s]
    /\ UNCHANGED <<valueVars, part>>

MCSpec == MCInit /\ [][ValueStep \/ LearningStep \/ AdviceStep]_allVars

(* Scores of entries come of the one call of their review, behind its      *)
(* durable marker, and are kept while they are current (ValueReviews).     *)
ScoresAreCurrent ==
    V!ScoresAreCurrent /\ V!CallBehindMarker

(* Revisions do their work to the end: a connection keeps one for its      *)
(* expiry and one for its revocation (ValueReviews), and no two snapshots  *)
(* of skills and scores share one (Learning).                              *)
RevisionsSuffice ==
    [](V!ReviewsTypeOK /\ V!RevisionsSuffice) /\ RevisionNamesSnapshot

=============================================================================

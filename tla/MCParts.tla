------------------------------- MODULE MCParts -------------------------------
(***************************************************************************)
(* One run for the parts that need no other: the arithmetic of Budget and  *)
(* Quotes, the planners StudyPlan and BriefPlan, the readers TextStreams   *)
(* and Excerpts, and the operator's programs Recovery and Vectors.  A      *)
(* behaviour takes the steps of one of them, and `part` says of which; the *)
(* planners and Excerpts are checked for every one of the inputs below.    *)
(***************************************************************************)
EXTENDS Quotes, Sequences, TLC

CONSTANTS c1, c2, q1, q2

\* Zero, a price below one unit per token, and one above.
SmallPrices == {0, 2, 5}
SmallTokens == {0, 1, 2}
\* A refused limit, one that holds one call, one that holds two.
SmallLimits == {0, 3, 6}
\* One phase of a day's two, a phase that may take all of the day, a day
\* with few calls, and a limit that is refused.
SmallLimitSets ==
    {[phase |-> 3, daily |-> 6, model |-> 4, tool |-> 2],
     [phase |-> 6, daily |-> 6, model |-> 6, tool |-> 3],
     [phase |-> 6, daily |-> 6, model |-> 2, tool |-> 3],
     [phase |-> 6, daily |-> 0, model |-> 2, tool |-> 2]}

-----------------------------------------------------------------------------
(* Inputs of StudyPlan: up to three skills with every graph between them,  *)
(* a skill switched off, never rated on its revision, improved, worsened.  *)

Rating(id, rev, at, score) ==
    [id |-> id, revision |-> rev, at |-> at, score |-> score]
Histories ==
    {{Rating(1, 1, 1, 90)},
     {Rating(1, 2, 1, 10), Rating(2, 2, 2, 90)},
     {Rating(1, 2, 1, 90), Rating(2, 2, 2, 10)}}
Skill(parents, on, ratings) ==
    [parents |-> parents, on |-> on, revision |-> 2, ratings |-> ratings]
SkillsOf(s) ==
    {Skill(p, TRUE, h) : p \in SUBSET ((1 .. 3) \ {s}), h \in Histories}
    \cup {Skill(p, FALSE, {Rating(1, 2, 1, 90)}) : p \in SUBSET ((1 .. 3) \ {s})}
\* Two ratings of one instant that disagree, and two that agree.
TiedSkills ==
    {Skill({}, TRUE, {Rating(1, 2, 1, 90), Rating(2, 2, 1, n)}) : n \in {10, 90}}
StudySnapshots ==
    {<<a, b, c>> : a \in SkillsOf(1), b \in SkillsOf(2), c \in SkillsOf(3)}
    \cup {<<a, b>> : a \in SkillsOf(1) \cup TiedSkills, b \in SkillsOf(2)}
StudyRequests ==
    {[goals |-> {2}, budget |-> 50], [goals |-> {1, 3}, budget |-> 30],
     [goals |-> {1, 2}, budget |-> 5]}

-----------------------------------------------------------------------------
(* Inputs of BriefPlan: up to five entries of two subscriptions.           *)

Slots == {<<1, 1>>, <<1, 2>>, <<1, 3>>, <<2, 1>>, <<2, 2>>}
Variants ==
    [usable: {TRUE}, content: {"x", "y", "z"}, seen: {1, 2}, hit: {"none"}]
    \cup [usable: {TRUE}, content: {"x"}, seen: {2}, hit: {"title", "summary"}]
    \cup [usable: {FALSE}, content: {"y"}, seen: {2}, hit: {"title"}]
Entry(slot, v) ==
    [sub |-> slot[1], key |-> slot[2], usable |-> v.usable,
     content |-> v.content, seen |-> v.seen, hit |-> v.hit]
Days ==
    {{Entry(slot, f[slot]) : slot \in Slots} : f \in [Slots -> Variants]}
\* One entry twice with different content, one of yesterday, one of tomorrow.
OddDays ==
    {{Entry(<<1, 1>>, v), Entry(<<1, k>>, w)} : v, w \in Variants, k \in {1, 2}}
    \cup {{[Entry(<<1, 1>>, v) EXCEPT !.seen = n]} : v \in Variants, n \in {-1, 4}}
BriefInputs ==
    {[entries |-> d, as_of |-> 4] : d \in Days}
    \cup {[entries |-> d, as_of |-> n] : d \in OddDays, n \in {1, 4}}

-----------------------------------------------------------------------------
(* Inputs of Excerpts: no passage; three sentences, of which the first and *)
(* the last may be chosen; two passages, one with a blank between its      *)
(* sentences and one with a sentence that ends another; a passage that     *)
(* offers no excerpt; passages with too many units.                        *)

SmallPassages ==
    {<<>>,
     << <<"a", ".", "b", ".", "c">> >>,
     << <<"a", ".", "nl", "b", ".">>, <<"b", "a", ".", "a", ".">> >>,
     << <<"a", ".", "a", ".">> >>,
     << <<"a", ".", "b", ".", "c", ".">>, <<"a", ".", "b", ".", "c", ".">> >>}

-----------------------------------------------------------------------------
CONSTANTS
    MaxStream, MaxNoise, MaxParts,
    SourceSets, MaxQuote, MaxUnits, MaxChecks, MaxEvidence,
    Snapshots, Requests, AssessmentMinutes, PracticeMinutes, TargetScore,
    MaxTasks, Inputs, DayEnd, MaxItems, MaxPerSubscription,
    Kinds, MaxFaults,
    Points, Own, Document, PageSize, MaxStoreErrors

VARIABLES
    part,
    skills, request, pc, degree, ready, order, place, ancestors, states,
    waiting, schedule, outcome,                             \* StudyPlan
    input, ranked, items, plan,                             \* BriefPlan
    protocol, stream, from, held, cr, mark, text, observed, reading,
    profile, passages, stage, kinds, selection, checks, result, \* Excerpts
    kind, row, era, claimed, dump, archive, target, client, tool, faults,
    effects,                                                \* Recovery
    doc, vectors, writes, stopped, search, sweep, chain, landed,
    storeErrors                                             \* Vectors

S == INSTANCE StudyPlan
B == INSTANCE BriefPlan
T == INSTANCE TextStreams
X == INSTANCE Excerpts
R == INSTANCE Recovery WITH held <- claimed, pc <- tool
V == INSTANCE Vectors

\* The kinds of work whose rows the script ends: it leaves answers alone.
ASSUME RecoveryAssumption ==
    Kinds \subseteq DOMAIN R!Life \ {"answer"} /\ MaxFaults \in Nat

\* The point of another user lies between those of two documents.
TwoDocuments == 1 :> "a" @@ 3 :> "b"

budgetVars == <<reservation, settlement, usage, occupied>>
studyVars == <<skills, request, pc, degree, ready, order, place, ancestors,
               states, waiting, schedule, outcome>>
briefVars == <<input, ranked, items, plan>>
streamVars == <<protocol, stream, from, held, cr, mark, text, observed, reading>>
excerptVars == <<profile, passages, stage, kinds, selection, checks, result>>
readerVars == <<streamVars, excerptVars>>
recoveryVars ==
    <<kind, row, era, claimed, dump, archive, target, client, tool, faults, effects>>
vectorVars ==
    <<doc, vectors, writes, stopped, search, sweep, chain, landed, storeErrors>>
programVars == <<recoveryVars, vectorVars>>
planVars == <<studyVars, briefVars>>
moneyVars == <<budgetVars, quoteVars>>

allVars == <<part, moneyVars, planVars, readerVars, programVars>>

\* The inputs of a part that takes no step do not matter.
NoStudy ==
    /\ skills = <<>> /\ request = [goals |-> {}, budget |-> 0]
    /\ pc = "load" /\ degree = <<>> /\ ready = {} /\ order = <<>>
    /\ place = 1 /\ ancestors = <<>> /\ states = <<>> /\ waiting = {}
    /\ schedule = [tasks |-> <<>>, remaining |-> 0] /\ outcome = None
NoBrief ==
    /\ input = [entries |-> {}, as_of |-> 0]
    /\ ranked = {} /\ items = <<>> /\ plan = None
NoStream == T!StreamsInit /\ protocol = "sse"
NoExcerpts == X!ExcerptsInit /\ profile = "free" /\ passages = <<>>

MCInit ==
    /\ part \in {"budget", "quotes", "study", "brief", "streams", "excerpts",
                "recovery", "vectors"}
    /\ Init /\ QuotesInit
    /\ IF part = "study" THEN S!Init ELSE NoStudy
    /\ IF part = "brief" THEN B!Init ELSE NoBrief
    /\ IF part = "streams" THEN T!StreamsInit ELSE NoStream
    /\ IF part = "excerpts" THEN X!ExcerptsInit ELSE NoExcerpts
    /\ R!RecoveryInit /\ V!VectorsInit
    /\ part # "recovery" => kind = "job"

BudgetStep ==
    /\ part = "budget" /\ Next
    /\ UNCHANGED <<part, quoteVars, planVars, readerVars, programVars>>
QuotesStep ==
    /\ part = "quotes" /\ QuotesNext
    /\ UNCHANGED <<part, planVars, readerVars, programVars>>
StudyStep ==
    /\ part = "study" /\ S!Next
    /\ UNCHANGED <<part, moneyVars, briefVars, readerVars, programVars>>
BriefStep ==
    /\ part = "brief" /\ B!Next
    /\ UNCHANGED <<part, moneyVars, studyVars, readerVars, programVars>>
StreamsStep ==
    /\ part = "streams" /\ T!StreamsNext
    /\ UNCHANGED <<part, moneyVars, planVars, excerptVars, programVars>>
ExcerptsStep ==
    /\ part = "excerpts" /\ X!ExcerptsNext
    /\ UNCHANGED <<part, moneyVars, planVars, streamVars, programVars>>
RecoveryStep ==
    /\ part = "recovery" /\ R!RecoveryNext
    /\ UNCHANGED <<part, moneyVars, planVars, readerVars, vectorVars>>
VectorsStep ==
    /\ part = "vectors" /\ V!VectorsNext
    /\ UNCHANGED <<part, moneyVars, planVars, readerVars, recoveryVars>>

MCNext ==
    \/ BudgetStep \/ QuotesStep \/ StudyStep \/ BriefStep
    \/ StreamsStep \/ ExcerptsStep \/ RecoveryStep \/ VectorsStep

MCSpec == MCInit /\ [][MCNext]_allVars

(* The planners (StudyPlan, BriefPlan): the sort refuses a graph exactly   *)
(* when it has a cycle, tasks are what can be trained in the minutes asked *)
(* for, and a brief shows every content that has room once.                *)
PlansAreSound ==
    /\ part = "study" => S!SortIsExact /\ S!PlanIsSound
    /\ part = "brief" => B!BriefIsFair

(* The readers (TextStreams, Excerpts): a text is an answer only if its    *)
(* stream came whole; the application quotes what was chosen and nothing   *)
(* else, and each requirement of a question has a check with evidence.     *)
AnswersAreBacked ==
    /\ part = "streams" => T!StreamsTypeOK /\ T!ResultIsTheStream
    /\ part = "excerpts" =>
           X!ExcerptsTypeOK /\ X!QuotesAreEvidence /\ X!RequirementsAreMet

(* Nothing that a backup holds under way is done on the restored database, *)
(* and the restore replaces and shows nothing by halves (Recovery).        *)
RestoredRunsNothing ==
    part = "recovery" =>
        R!RecoveryTypeOK /\ R!RestoredRunsNothing /\ R!OthersAreSpared

(* Vectors are removed when their document is gone, all of them and no     *)
(* other, and a search shows nothing of it before that (Vectors).          *)
VectorsAreSound == part = "vectors" => V!VectorsTypeOK /\ V!VectorsAreSound

\* Skills are numbered, a learner has finitely many of them and of ratings.
ASSUME StudyAssumption ==
    /\ \A known \in Snapshots :
           /\ DOMAIN known \subseteq Nat /\ IsFiniteSet(DOMAIN known)
           /\ \A s \in DOMAIN known :
                  /\ IsFiniteSet(known[s].parents) /\ IsFiniteSet(known[s].ratings)
                  /\ \A a \in known[s].ratings :
                         a.id \in Nat /\ a.at \in Nat /\ a.score \in Nat
    /\ \A r \in Requests : r.budget \in Nat
    /\ {AssessmentMinutes, PracticeMinutes, TargetScore, MaxTasks} \subseteq Nat

\* A day has finitely many entries.
ASSUME BriefAssumption ==
    /\ \A i \in Inputs :
           IsFiniteSet(i.entries) /\ \A E \in SUBSET i.entries : E # None
    /\ MaxItems \in Nat /\ MaxPerSubscription \in Nat

\* A stream and a text have bounds.
ASSUME StreamsAssumption == MaxStream \in Nat /\ MaxParts \in Nat

\* A passage is a sequence of tokens, a question has a sequence of passages.
ASSUME ExcerptsAssumption ==
    /\ \A ps \in SourceSets :
           /\ ps \in Seq({ps[s] : s \in DOMAIN ps})
           /\ \A s \in DOMAIN ps : ps[s] \in Seq({ps[s][i] : i \in DOMAIN ps[s]})
    /\ MaxChecks \in Nat

\* Points are numbered, and a page lists at least one of them.
ASSUME VectorsAssumption ==
    /\ Points \subseteq Nat \ {0} /\ IsFiniteSet(Points) /\ Own \subseteq Points
    /\ PageSize \in Nat \ {0} /\ MaxStoreErrors \in Nat

CallSymmetry == Permutations({c1, c2}) \cup Permutations({q1, q2})
=============================================================================

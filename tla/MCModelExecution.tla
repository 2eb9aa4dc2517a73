-------------------------- MODULE MCModelExecution --------------------------
(***************************************************************************)
(* One run for ModelExecution and Answers, two ways to spend what a user   *)
(* approved once, that do not wait for one another: a behaviour takes the  *)
(* steps of one, and `part` says of which.                                 *)
(***************************************************************************)
EXTENDS ModelExecution, TLC

CONSTANTS
    e1, p1, s1, s2,
    Requests, Hosts, Targets, Target, Versions, MaxEdits, MaxOutages

VARIABLES
    part,
    doc, edits, session, auth, execution, handler, attempt, outages, calls, shown

A == INSTANCE Answers WITH
        Servers <- Hosts, MaxFaults <- MaxOutages,
        exec <- execution, task <- attempt, faults <- outages

ASSUME AnswerAssumption ==
    /\ Target \in [Hosts -> Targets]
    /\ {MaxEdits, MaxOutages} \subseteq Nat
    /\ None \notin Requests \cup Hosts \cup Targets \cup Versions

TwoSearches == e1 :> 2
SameTarget == s1 :> "t1" @@ s2 :> "t1"

answerVars ==
    <<doc, edits, session, auth, execution, handler, attempt, outages, calls, shown>>

allVars == <<part, vars, answerVars>>

MCInit ==
    /\ part \in {"execution", "answers"}
    /\ Init /\ A!Init
    /\ part = "execution" => doc = "a"

ExecutionStep == part = "execution" /\ Next /\ UNCHANGED <<part, answerVars>>
AnswerStep == part = "answers" /\ A!Next /\ UNCHANGED <<part, vars>>

MCSpec ==
    /\ MCInit /\ [][ExecutionStep \/ AnswerStep]_allVars
    /\ Fairness /\ A!Fairness

(* One call at the approved target behind its marker, and no slot that is  *)
(* held for nobody; a result is shown only of the approved passages, and   *)
(* what ended stays so; the slot of a process is always free again         *)
(* (Answers).                                                              *)
SentAsApproved == A!SentAsApproved /\ A!SlotsAreUsed
ShownIsCurrent == A!ShownIsCurrent /\ A!EndedIsFinal
SlotFreed == A!SlotFreed
=============================================================================

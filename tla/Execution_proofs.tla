--------------------------- MODULE Execution_proofs ---------------------------
(***************************************************************************)
(* Proofs about the parts of MCModelExecution, for every value of their    *)
(* constants.                                                              *)
(*                                                                         *)
(* ModelExecution: the invariant is a conjunction over the executions, of  *)
(* each a part about its rows and a part about its task.  A transaction    *)
(* either leaves the rows of an execution alone, ends it, or is the one of *)
(* its own task.                                                           *)
(*                                                                         *)
(* Answers: the invariant says of a grant what its rows say of each other, *)
(* of the attempt at it what it knows of them, and of a process which      *)
(* request its slot is held for.                                           *)
(***************************************************************************)
EXTENDS MCModelExecution, Sums_proofs, TLAPS

-----------------------------------------------------------------------------
(* The invariant. *)

\* The places of a task that has claimed a step, of one that has not sent it
\* yet, and of one that has.
Taken == Places \ {"none", "claim"}
Unsent == {"recheck", "revision", "verify", "send"}
Sent == {"wait", "again", "retrieve", "disable"}

\* The states of a step that was claimed once.
Begun == {"dispatching", "succeeded", "failed", "unknown"}

Tasks == [pc: Places, server: Servers \union {None}, at: Nat,
          outcome: Outcomes \union {None}, usage: Nat \union {None}]

\* The types but those of the three totals, which are sums over the steps.
TypeInv ==
    /\ day \in Days /\ revision \in Nat
    /\ deleted \in BOOLEAN /\ lapsed \in BOOLEAN /\ disabled \subseteq Phases
    /\ exec \in [Executions -> ExecRows]
    /\ step \in [Steps -> StepStates]
    /\ charge \in [Steps -> Nat \union {None}]
    /\ toolCall \in [Steps -> {"none", "running", "succeeded", "failed", "timed_out"}]
    /\ server \in [Servers -> {"down", "up", "halted"}]
    /\ call \in [Servers -> [Executions -> {"none", "asked", "approve"}]]
    /\ task \in [Executions -> Tasks]
    /\ faults \in 0 .. MaxFaults
    /\ sends \in [Steps -> Nat] /\ billed \in [Steps -> Nat]

\* What the state of a step says of its money and of the provider.
StepInv(s) ==
    /\ charge[s] = None <=> step[s] \in OpenStep \union {"none"}
    /\ step[s] = "cancelled" => charge[s] = 0
    /\ step[s] \in {"failed", "unknown"} => charge[s] = Price(s)
    /\ sends[s] <= 1
    /\ step[s] \notin Begun => sends[s] = 0
    /\ IsSearch(s) => ((toolCall[s] = "running") <=> (step[s] = "dispatching"))

\* The steps of a request against one another and against its row.
RowInv(e) ==
    /\ \A s, r \in StepsOf(e) :
           step[s] \in Begun /\ r[2] < s[2] => step[r] = "succeeded"
    /\ \A s \in StepsOf(e) :
           /\ step[s] \in OpenStep => Status(e) \in Active
           /\ Status(e) = "succeeded" => step[s] = "succeeded"
           /\ step[s] = "dispatching" /\ ~IsSearch(s) => exec[e].evidence
           /\ ~deleted /\ Status(e) \in {"absent", "draft"} => step[s] = "none"

\* A task that has claimed a step is the one that sends it, and what it
\* learned is of that step.
TaskInv(e) ==
    LET t == task[e] IN
    /\ t.pc # "none" => t.at <= Searches[e]
    /\ ~deleted /\ Status(e) \in {"absent", "draft"} => t.pc = "none"
    /\ t.pc \in Taken => step[Now(e)] \in {"dispatching", "unknown"}
    /\ t.pc \in Unsent => sends[Now(e)] = 0
    /\ t.pc \in Sent => sends[Now(e)] > 0
    /\ t.pc \notin {"again", "retrieve", "finish"} => t.usage = None
    /\ t.usage # None =>
           sends[Now(e)] > 0 /\ t.usage = billed[Now(e)] /\ t.usage <= Price(Now(e))
    /\ (t.pc \in {"again", "retrieve"}
            \/ (t.pc = "finish" /\ t.outcome \in {"hits", "nothing"}))
           => IsSearch(Now(e))
    /\ (t.pc = "finish" /\ t.outcome \in {"answered", "insufficient"})
           => ~IsSearch(Now(e))

Inv ==
    /\ TypeInv
    /\ \A s \in Steps : StepInv(s)
    /\ \A e \in Executions : RowInv(e) /\ TaskInv(e)

\* The amount that a step occupies of a day's money.
Owed(d) == [s \in Steps |-> IF s \in Spent(d) THEN Closing(s) ELSE 0]
Counted(d) == {s \in Spent(d) : step[s] # "cancelled"}
Searched(d) == {s \in Counted(d) : IsSearch(s)}

TotalsInv ==
    /\ money \in [Days -> Nat] /\ models \in [Days -> Nat] /\ tools \in [Days -> Nat]
    /\ ~deleted => \A d \in Days :
           /\ IsFiniteSet(Spent(d)) /\ IsFiniteSet(UnitsOf(Owed(d)))
           /\ money[d] = SumOf(Owed(d))
           /\ models[d] = Cardinality(Counted(d))
           /\ tools[d] = Cardinality(Searched(d))

-----------------------------------------------------------------------------
(* The rows of one execution in a step. *)

\* Nothing of them changes that the invariant looks at.
SameRow(e) ==
    /\ deleted' = deleted /\ Status(e)' = Status(e)
    /\ exec'[e].evidence = exec[e].evidence
    /\ \A s \in StepsOf(e) :
           /\ step'[s] = step[s] /\ charge'[s] = charge[s]
           /\ toolCall'[s] = toolCall[s]
           /\ sends'[s] = sends[s] /\ billed'[s] = billed[s]

\* Every open step is closed, whatever ends the request.
EndedRow(e) ==
    /\ \/ Status(e)' \in Ended \ {"succeeded"}
       \/ Status(e)' = "absent" /\ deleted'
    /\ \A s \in StepsOf(e) :
           /\ step'[s] = Closed(e)[s]
           /\ charge'[s] = CASE step[s] = "reserved" -> 0
                             [] step[s] = "dispatching" -> Price(s)
                             [] OTHER -> charge[s]
           /\ toolCall'[s] = IF step[s] = "dispatching" /\ IsSearch(s)
                             THEN "timed_out" ELSE toolCall[s]
           /\ sends'[s] = sends[s] /\ billed'[s] = billed[s]

\* The task of an execution goes on or is gone.
TaskRests(e) == task'[e] = task[e] \/ task'[e] = NoTask

\* A step is a search or the answer of its execution.
LEMMA StepShape ==
    /\ \A e \in Executions : Searches[e] \in Nat /\ Searches[e] >= 1
    /\ \A s \in Steps : s[1] \in Executions /\ s \in StepsOf(s[1])
    /\ \A e \in Executions : \A s \in StepsOf(e) :
           /\ s \in Steps /\ s[1] = e /\ s = <<e, s[2]>>
           /\ s[2] \in Nat /\ s[2] <= Searches[e]
    /\ \A e \in Executions : \A i \in Nat :
           i <= Searches[e] => <<e, i>> \in StepsOf(e)
    /\ \A s \in Steps : Price(s) \in Nat /\ Price(s) > 0
  BY ExecutionAssumption, SMT DEF Steps, StepsOf, Ordinals, Price

\* The step that a task is at.
LEMMA NowIsStep ==
    ASSUME TypeInv, NEW e \in Executions, task[e].at <= Searches[e]
    PROVE  Now(e) \in StepsOf(e) /\ Now(e) \in Steps /\ Now(e)[2] = task[e].at
  <1>1. task[e].at \in Nat
    BY DEF TypeInv, Tasks
  <1> QED BY <1>1, StepShape DEF Now

\* What ends an execution, or does not touch it, keeps its invariant.
LEMMA RowKept ==
    ASSUME TypeInv, TypeInv', NEW e \in Executions,
           \A s \in StepsOf(e) : StepInv(s), RowInv(e), TaskInv(e),
           SameRow(e) \/ EndedRow(e)
    PROVE  (\A s \in StepsOf(e) : StepInv(s)') /\ RowInv(e)'
  <1>1. None \notin Nat
    BY ExecutionAssumption
  <1>2. CASE SameRow(e)
    <2>1. \A s \in StepsOf(e) : StepInv(s)'
      BY <1>2 DEF SameRow, StepInv
    <2>2. RowInv(e)'
      BY <1>2 DEF SameRow, RowInv
    <2> QED BY <2>1, <2>2
  <1>3. CASE EndedRow(e)
    <2>1. \A s \in StepsOf(e) : StepInv(s)'
      BY <1>1, <1>3, StepShape DEF EndedRow, StepInv, Closed, Begun, OpenStep, Price, IsSearch
    <2>2. \A s \in StepsOf(e) : step'[s] \notin OpenStep
      BY <1>3 DEF EndedRow, Closed, OpenStep
    <2>3. \A s \in StepsOf(e) :
             /\ step'[s] \in Begun => step[s] \in Begun
             /\ step[s] \in {"succeeded", "none"} => step'[s] = step[s]
      BY <1>3 DEF EndedRow, Closed, Begun
    <2>4. \/ Status(e)' \in Ended \ {"succeeded"}
          \/ Status(e)' = "absent" /\ deleted'
      BY <1>3 DEF EndedRow
    <2>5. RowInv(e)'
      BY <2>2, <2>3, <2>4 DEF RowInv, OpenStep, Ended
    <2> QED BY <2>1, <2>5
  <1> QED BY <1>2, <1>3

LEMMA TaskKept ==
    ASSUME TypeInv, TypeInv', NEW e \in Executions,
           TaskInv(e), SameRow(e) \/ EndedRow(e), TaskRests(e)
    PROVE  TaskInv(e)'
  <1>1. Searches[e] \in Nat /\ Searches[e] >= 1
    BY StepShape
  <1>2. CASE task'[e] = NoTask
    BY <1>1, <1>2 DEF NoTask, TaskInv, Taken, Unsent, Sent
  <1>3. CASE task'[e] = task[e] /\ task[e].pc # "none"
    <2>1. Now(e) \in StepsOf(e) /\ Now(e)' = Now(e)
      BY <1>3, NowIsStep DEF TaskInv, Now
    <2>2. /\ sends'[Now(e)] = sends[Now(e)] /\ billed'[Now(e)] = billed[Now(e)]
          /\ step[Now(e)] \in {"dispatching", "unknown"} =>
                 step'[Now(e)] \in {"dispatching", "unknown"}
      BY <2>1 DEF SameRow, EndedRow, Closed
    <2>3. ~(~deleted' /\ Status(e)' \in {"absent", "draft"})
      BY <1>3 DEF SameRow, EndedRow, Ended, TaskInv
    <2>4. IsSearch(Now(e))' = IsSearch(Now(e)) /\ Price(Now(e))' = Price(Now(e))
      BY <2>1 DEF IsSearch, Price
    <2> QED BY <1>3, <2>1, <2>2, <2>3, <2>4 DEF TaskInv
  <1>4. CASE task'[e] = task[e] /\ task[e].pc = "none"
    BY <1>4 DEF TaskInv, Taken, Unsent, Sent
  <1> QED BY <1>2, <1>3, <1>4 DEF TaskRests

-----------------------------------------------------------------------------
(* What a step of the system does to the rows of an execution. *)

SameSteps(e) ==
    \A s \in StepsOf(e) :
        /\ step'[s] = step[s] /\ charge'[s] = charge[s]
        /\ sends'[s] = sends[s] /\ billed'[s] = billed[s]

ReservedRow(e) ==
    \A s \in StepsOf(e) :
        /\ step[s] = "none" /\ step'[s] = "reserved" /\ charge'[s] = charge[s]
        /\ sends'[s] = sends[s] /\ billed'[s] = billed[s]

ClaimedRow(e) ==
    \A s \in StepsOf(e) :
        /\ IF s = Now(e) THEN step[s] = "reserved" /\ step'[s] = "dispatching"
                         ELSE step'[s] = step[s]
        /\ charge'[s] = charge[s]
        /\ sends'[s] = sends[s] /\ billed'[s] = billed[s]

SentRow(e) ==
    \A s \in StepsOf(e) :
        /\ step'[s] = step[s] /\ charge'[s] = charge[s]
        /\ IF s = Now(e)
           THEN /\ step[s] \in {"dispatching", "unknown"}
                /\ sends[s] = 0 /\ sends'[s] = 1 /\ billed'[s] \in Billable(s)
           ELSE sends'[s] = sends[s] /\ billed'[s] = billed[s]

FinishedRow(e) ==
    \A s \in StepsOf(e) :
        /\ IF s = Now(e)
           THEN /\ step[s] = "dispatching"
                /\ step'[s] \in {"succeeded", "failed", "unknown"}
                /\ \/ charge'[s] = Price(s)
                   \/ /\ step'[s] = "succeeded" /\ task[e].usage # None
                      /\ charge'[s] = task[e].usage
           ELSE \/ step'[s] = step[s] /\ charge'[s] = charge[s]
                \/ step[s] = "reserved" /\ step'[s] = "cancelled" /\ charge'[s] = 0
        /\ sends'[s] = sends[s] /\ billed'[s] = billed[s]

RowStep(e) ==
    \/ SameSteps(e) \/ EndedRow(e) \/ ReservedRow(e) \/ ClaimedRow(e)
    \/ SentRow(e) \/ FinishedRow(e)

\* A step of the system keeps the invariant of one execution, of all.
KeepsRow(e) ==
    /\ (\A s \in StepsOf(e) : StepInv(s)') /\ RowInv(e)' /\ TaskInv(e)'
    /\ RowStep(e)

Keeps == TypeInv' /\ \A e \in Executions : KeepsRow(e)

\* A step that does not touch an execution, or ends it.
Rests(e) == (SameRow(e) \/ EndedRow(e)) /\ TaskRests(e)

LEMMA RestKeeps ==
    ASSUME Inv, TypeInv', NEW e \in Executions, Rests(e)
    PROVE  KeepsRow(e)
  <1>1. TypeInv /\ RowInv(e) /\ TaskInv(e) /\ \A s \in StepsOf(e) : StepInv(s)
    BY StepShape DEF Inv
  <1>2. (\A s \in StepsOf(e) : StepInv(s)') /\ RowInv(e)'
    BY <1>1, RowKept DEF Rests
  <1>3. TaskInv(e)'
    BY <1>1, TaskKept DEF Rests
  <1>4. RowStep(e)
    BY DEF Rests, SameRow, RowStep, SameSteps
  <1> QED BY <1>2, <1>3, <1>4 DEF KeepsRow

LEMMA AllRest ==
    ASSUME Inv, TypeInv', \A e \in Executions : Rests(e)
    PROVE  Keeps
  BY RestKeeps DEF Keeps

LEMMA OthersRest ==
    ASSUME Inv, TypeInv', NEW e \in Executions, KeepsRow(e),
           \A f \in Executions \ {e} : Rests(f)
    PROVE  Keeps
  BY RestKeeps DEF Keeps

\* The types of the rows.
RowTypes ==
    /\ exec \in [Executions -> ExecRows]
    /\ step \in [Steps -> StepStates]
    /\ charge \in [Steps -> Nat \union {None}]
    /\ toolCall \in [Steps -> {"none", "running", "succeeded", "failed", "timed_out"}]

LEMMA KeptType ==
    ASSUME NEW s \in Steps, NEW st, NEW usage \in Nat \union {None}
    PROVE  Kept(s, st, usage) \in Nat
  BY StepShape DEF Kept

\* Book settles the steps of one execution.
LEMMA BookRow ==
    ASSUME TypeInv, NEW e \in Executions, NEW now \in [StepsOf(e) -> StepStates],
           NEW usage \in Nat \union {None}, Book(e, now, usage)
    PROVE  /\ step' \in [Steps -> StepStates]
           /\ charge' \in [Steps -> Nat \union {None}]
           /\ toolCall' \in [Steps -> {"none", "running", "succeeded", "failed", "timed_out"}]
           /\ \A s \in Steps : s \notin StepsOf(e) =>
                  /\ step'[s] = step[s] /\ charge'[s] = charge[s]
                  /\ toolCall'[s] = toolCall[s]
           /\ \A s \in StepsOf(e) :
                  /\ step'[s] = now[s]
                  /\ charge'[s] = IF step[s] \in OpenStep /\ now[s] \notin OpenStep
                                  THEN Kept(s, now[s], usage) ELSE charge[s]
                  /\ toolCall'[s] = IF /\ step[s] = "dispatching"
                                       /\ now[s] \notin OpenStep /\ IsSearch(s)
                                    THEN ToolState(now[s]) ELSE toolCall[s]
  <1> DEFINE closed == {s \in StepsOf(e) : step[s] \in OpenStep /\ now[s] \notin OpenStep}
  <1>1. /\ step' = [s \in Steps |-> IF s[1] = e THEN now[s] ELSE step[s]]
        /\ charge' = [s \in Steps |->
               IF s \in closed THEN Kept(s, now[s], usage) ELSE charge[s]]
        /\ toolCall' = [s \in Steps |->
               IF s \in closed /\ step[s] = "dispatching" /\ IsSearch(s)
               THEN ToolState(now[s]) ELSE toolCall[s]]
    BY DEF Book
  <1>2. \A s \in Steps : s \in StepsOf(e) <=> s[1] = e
    BY DEF StepsOf
  <1>3. \A s \in Steps : Kept(s, now[s], usage) \in Nat
    BY KeptType
  <1>4. StepsOf(e) \subseteq Steps
    BY DEF StepsOf
  <1>5. step' \in [Steps -> StepStates]
    BY <1>1, <1>2 DEF TypeInv
  <1>6. charge' \in [Steps -> Nat \union {None}]
    BY <1>1, <1>3 DEF TypeInv
  <1>7. toolCall' \in [Steps -> {"none", "running", "succeeded", "failed", "timed_out"}]
    BY <1>1 DEF TypeInv, ToolState
  <1>8. \A s \in Steps : s \notin StepsOf(e) =>
           /\ step'[s] = step[s] /\ charge'[s] = charge[s]
           /\ toolCall'[s] = toolCall[s]
    BY <1>1, <1>2
  <1>9. \A s \in StepsOf(e) :
           /\ step'[s] = now[s]
           /\ charge'[s] = IF step[s] \in OpenStep /\ now[s] \notin OpenStep
                           THEN Kept(s, now[s], usage) ELSE charge[s]
           /\ toolCall'[s] = IF /\ step[s] = "dispatching"
                                /\ now[s] \notin OpenStep /\ IsSearch(s)
                             THEN ToolState(now[s]) ELSE toolCall[s]
    BY <1>1, <1>2, <1>4 DEF OpenStep
  <1> QED BY <1>5, <1>6, <1>7, <1>8, <1>9

\* The states of the steps of an ended execution.
LEMMA ClosedType ==
    ASSUME TypeInv, NEW e \in Executions
    PROVE  /\ Closed(e) \in [StepsOf(e) -> StepStates]
           /\ \A s \in StepsOf(e) : Closed(e)[s] \notin OpenStep
  BY StepShape DEF TypeInv, Closed, StepStates, OpenStep

\* Row changes the row of one execution.
LEMMA RowSet ==
    ASSUME TypeInv, NEW e \in Executions, NEW status \in Ended, Row(e, status)
    PROVE  /\ exec' \in [Executions -> ExecRows]
           /\ Status(e)' = status /\ exec'[e].day = exec[e].day
           /\ \A f \in Executions \ {e} : exec'[f] = exec[f]
  <1>1. exec[e] \in ExecRows
    BY DEF TypeInv
  <1>2. exec'[e] = [exec[e] EXCEPT !.status = status, !.due = FALSE, !.evidence = FALSE]
    BY DEF Row, TypeInv
  <1>3. exec'[e] \in ExecRows /\ exec'[e].status = status /\ exec'[e].day = exec[e].day
    BY <1>1, <1>2 DEF ExecRows
  <1>4. \A f \in Executions \ {e} : exec'[f] = exec[f]
    BY DEF Row, TypeInv
  <1>5. exec' \in [Executions -> ExecRows]
    BY <1>3, <1>4 DEF Row, TypeInv
  <1> QED BY <1>3, <1>4, <1>5 DEF Status

\* Executions have their own steps.
LEMMA Disjoint ==
    \A e, f \in Executions : e # f => \A s \in StepsOf(f) : s \in Steps /\ s \notin StepsOf(e)
  BY DEF StepsOf

LEMMA TerminateRow ==
    ASSUME TypeInv, NEW e \in Executions, NEW status \in Ended \ {"succeeded"},
           \A s \in StepsOf(e) : StepInv(s),
           Terminate(e, status), UNCHANGED <<deleted, seenVars>>
    PROVE  /\ EndedRow(e) /\ RowTypes'
           /\ \A f \in Executions \ {e} : SameRow(f)
  <1>1. Book(e, Closed(e), None) /\ Row(e, status)
    BY DEF Terminate
  <1>2. /\ exec' \in [Executions -> ExecRows] /\ Status(e)' = status
        /\ \A f \in Executions \ {e} : exec'[f] = exec[f]
    BY <1>1, RowSet
  <1>3. /\ step' \in [Steps -> StepStates]
        /\ charge' \in [Steps -> Nat \union {None}]
        /\ toolCall' \in [Steps -> {"none", "running", "succeeded", "failed", "timed_out"}]
        /\ \A s \in Steps : s \notin StepsOf(e) =>
               /\ step'[s] = step[s] /\ charge'[s] = charge[s]
               /\ toolCall'[s] = toolCall[s]
    BY <1>1, BookRow, ClosedType
  <1>4. ASSUME NEW s \in StepsOf(e)
        PROVE  /\ step'[s] = Closed(e)[s]
               /\ charge'[s] = IF step[s] \in OpenStep
                               THEN Kept(s, Closed(e)[s], None) ELSE charge[s]
               /\ toolCall'[s] = IF step[s] = "dispatching" /\ IsSearch(s)
                                 THEN ToolState(Closed(e)[s]) ELSE toolCall[s]
    <2>1. /\ step'[s] = Closed(e)[s]
          /\ charge'[s] = IF step[s] \in OpenStep /\ Closed(e)[s] \notin OpenStep
                          THEN Kept(s, Closed(e)[s], None) ELSE charge[s]
          /\ toolCall'[s] = IF /\ step[s] = "dispatching"
                               /\ Closed(e)[s] \notin OpenStep /\ IsSearch(s)
                            THEN ToolState(Closed(e)[s]) ELSE toolCall[s]
      BY <1>1, BookRow, ClosedType
    <2> QED BY <2>1, ClosedType
  <1>5. EndedRow(e)
    <2>1. ASSUME NEW s \in StepsOf(e)
          PROVE  /\ charge'[s] = CASE step[s] = "reserved" -> 0
                                   [] step[s] = "dispatching" -> Price(s)
                                   [] OTHER -> charge[s]
                 /\ toolCall'[s] = IF step[s] = "dispatching" /\ IsSearch(s)
                                   THEN "timed_out" ELSE toolCall[s]
      BY <1>4 DEF Kept, OpenStep, Closed, ToolState
    <2> QED BY <1>2, <1>4, <2>1 DEF EndedRow, seenVars
  <1>6. \A f \in Executions \ {e} : SameRow(f)
    BY <1>2, <1>3, Disjoint DEF SameRow, Status, seenVars
  <1> QED BY <1>2, <1>3, <1>5, <1>6 DEF RowTypes

LEMMA ExpireRow ==
    ASSUME TypeInv, NEW e \in Executions, \A s \in StepsOf(e) : StepInv(s),
           Expire(e), UNCHANGED <<deleted, seenVars>>
    PROVE  /\ EndedRow(e) /\ RowTypes'
           /\ \A f \in Executions \ {e} : SameRow(f)
  <1>1. PICK status \in {"unknown", "expired"} : Terminate(e, status)
    BY DEF Expire
  <1>2. status \in Ended \ {"succeeded"}
    BY DEF Ended
  <1> QED BY <1>1, <1>2, TerminateRow

\* What Inv says of one execution.
LEMMA InvOf ==
    ASSUME Inv, NEW e \in Executions
    PROVE  /\ TypeInv /\ RowInv(e) /\ TaskInv(e)
           /\ \A s \in StepsOf(e) : StepInv(s)
  BY StepShape DEF Inv

-----------------------------------------------------------------------------
(* The actions that touch no row, and those that end executions.           *)

LEMMA NothingSame ==
    ASSUME rowVars' = rowVars, deleted' = deleted, seenVars' = seenVars
    PROVE  \A e \in Executions : SameRow(e)
  BY DEF rowVars, bookVars, seenVars, SameRow, Status

LEMMA TimeStep ==
    ASSUME Inv, \/ NewDay \/ PricesLapse \/ OperatorDisables \/ AppendMessage
                \/ \E e \in Executions : Lapse(e)
    PROVE  Keeps
  <1>1. TypeInv
    BY DEF Inv
  <1>2. CASE NewDay \/ OperatorDisables \/ AppendMessage
    <2>1. /\ rowVars' = rowVars /\ deleted' = deleted /\ seenVars' = seenVars
          /\ task' = task /\ server' = server /\ call' = call
      BY <1>2 DEF NewDay, OperatorDisables, AppendMessage, confVars, processVars
    <2>2. TypeInv'
      <3>1. /\ day' \in Days /\ revision' \in Nat /\ lapsed' \in BOOLEAN
            /\ disabled' \subseteq Phases /\ faults' \in 0 .. MaxFaults
        BY <1>1, <1>2, ExecutionAssumption
           DEF TypeInv, NewDay, OperatorDisables, AppendMessage, Fault, confVars, Days
      <3> QED BY <1>1, <2>1, <3>1 DEF TypeInv, rowVars, bookVars, seenVars
    <2> QED BY <2>1, <2>2, NothingSame, AllRest DEF Rests, TaskRests
  <1>3. CASE PricesLapse
    <2>1. /\ bookVars' = bookVars /\ deleted' = deleted /\ seenVars' = seenVars
          /\ processVars' = processVars
          /\ day' = day /\ revision' = revision /\ disabled' = disabled
          /\ lapsed' = TRUE /\ faults' \in 0 .. MaxFaults
          /\ exec' = [e \in Executions |->
                 IF Status(e) \in Open THEN [exec[e] EXCEPT !.due = TRUE] ELSE exec[e]]
      BY <1>1, <1>3, ExecutionAssumption DEF PricesLapse, Fault, TypeInv
    <2>2. \A e \in Executions :
             /\ exec'[e] \in ExecRows /\ exec'[e].status = exec[e].status
             /\ exec'[e].evidence = exec[e].evidence
      BY <1>1, <2>1, ZenonT(60) DEF TypeInv, ExecRows
    <2>3. exec' \in [Executions -> ExecRows]
      BY <2>1, <2>2
    <2>4. TypeInv'
      BY <1>1, <2>1, <2>3 DEF TypeInv, bookVars, seenVars, processVars
    <2>5. \A e \in Executions : SameRow(e) /\ TaskRests(e)
      BY <2>1, <2>2 DEF SameRow, TaskRests, bookVars, seenVars, processVars, Status
    <2> QED BY <2>4, <2>5, AllRest DEF Rests
  <1>4. ASSUME NEW e \in Executions, Lapse(e) PROVE Keeps
    <2>1. /\ bookVars' = bookVars /\ deleted' = deleted /\ seenVars' = seenVars
          /\ processVars' = processVars /\ confVars' = confVars
          /\ day' = day /\ faults' = faults
          /\ exec' = [exec EXCEPT ![e].due = TRUE]
      BY <1>4 DEF Lapse, confVars
    <2>2. \A f \in Executions :
             /\ exec'[f] \in ExecRows /\ exec'[f].status = exec[f].status
             /\ exec'[f].evidence = exec[f].evidence
      <3>1. exec[e] \in ExecRows /\ exec'[e] = [exec[e] EXCEPT !.due = TRUE]
        BY <1>1, <2>1 DEF TypeInv
      <3>2. /\ exec'[e] \in ExecRows /\ exec'[e].status = exec[e].status
            /\ exec'[e].evidence = exec[e].evidence
        BY <3>1 DEF ExecRows
      <3> QED BY <1>1, <2>1, <3>2 DEF TypeInv
    <2>3. exec' \in [Executions -> ExecRows]
      BY <1>1, <2>1, <2>2 DEF TypeInv
    <2>4. TypeInv'
      BY <1>1, <2>1, <2>3 DEF TypeInv, bookVars, seenVars, processVars, confVars
    <2>5. \A f \in Executions : SameRow(f) /\ TaskRests(f)
      BY <2>1, <2>2 DEF SameRow, TaskRests, bookVars, seenVars, processVars, Status
    <2> QED BY <2>4, <2>5, AllRest DEF Rests
  <1> QED BY <1>2, <1>3, <1>4

\* What a failed or a successful write of the two stops changes.
LEMMA StopWritten ==
    ASSUME TypeInv, WriteStop
    PROVE  disabled' \subseteq Phases /\ faults' \in 0 .. MaxFaults
  <1>1. /\ MaxFaults \in Nat /\ faults \in 0 .. MaxFaults /\ disabled \subseteq Phases
    BY ExecutionAssumption DEF TypeInv
  <1>2. CASE disabled' = Phases /\ faults' = faults
    BY <1>1, <1>2
  <1>3. CASE /\ Fault
             /\ \E written \in {{}, {"planning"}, {"execution"}} :
                    disabled' = disabled \union written
    <2>1. disabled' \subseteq Phases
      BY <1>1, <1>3 DEF Phases
    <2>2. faults' \in 0 .. MaxFaults
      BY <1>1, <1>3 DEF Fault
    <2> QED BY <2>1, <2>2
  <1> QED BY <1>2, <1>3 DEF WriteStop

LEMMA CallStep ==
    ASSUME Inv,
           \/ \E p \in Servers, e \in Executions :
                  Call(p, e) \/ Ready(p, e) \/ HangUp(p, e)
           \/ \E p \in Servers : PlanningHalts(p) \/ Start(p) \/ Crash(p)
    PROVE  Keeps
  <1>1. TypeInv
    BY DEF Inv
  <1>2. /\ rowVars' = rowVars /\ seenVars' = seenVars /\ day' = day
        /\ deleted' = deleted /\ lapsed' = lapsed /\ revision' = revision
        /\ disabled' \subseteq Phases /\ faults' \in 0 .. MaxFaults
    <2>1. /\ rowVars' = rowVars /\ seenVars' = seenVars /\ day' = day
          /\ deleted' = deleted /\ lapsed' = lapsed /\ revision' = revision
      BY DEF Call, Ready, HangUp, PlanningHalts, Start, Crash, confVars
    <2>2. \/ WriteStop
          \/ disabled' = disabled /\ faults' = faults
          \/ disabled' = disabled /\ Fault
      BY DEF Call, Ready, HangUp, PlanningHalts, Start, Crash, confVars
    <2>3. /\ MaxFaults \in Nat /\ faults \in 0 .. MaxFaults /\ disabled \subseteq Phases
      BY <1>1, ExecutionAssumption DEF TypeInv
    <2>4. disabled' \subseteq Phases /\ faults' \in 0 .. MaxFaults
      <3>1. CASE WriteStop
        BY <1>1, <3>1, StopWritten
      <3>2. CASE disabled' = disabled /\ (faults' = faults \/ Fault)
        BY <2>3, <3>2 DEF Fault
      <3> QED BY <2>2, <3>1, <3>2
    <2> QED BY <2>1, <2>4
  <1>3. /\ server' \in [Servers -> {"down", "up", "halted"}]
        /\ call' \in [Servers -> [Executions -> {"none", "asked", "approve"}]]
    <2>1. \/ server' = server
          \/ \E p \in Servers, st \in {"down", "up", "halted"} :
                 server' = [server EXCEPT ![p] = st]
      BY DEF Call, Ready, HangUp, PlanningHalts, Start, Crash
    <2>2. \/ call' = call
          \/ \E p \in Servers, e \in Executions, c \in {"none", "asked", "approve"} :
                 call' = [call EXCEPT ![p][e] = c]
          \/ \E p \in Servers : call' = [call EXCEPT ![p] = [e \in Executions |-> "none"]]
      BY DEF Call, Ready, HangUp, PlanningHalts, Start, Crash
    <2>3. server' \in [Servers -> {"down", "up", "halted"}]
      BY <1>1, <2>1 DEF TypeInv
    <2>4. call' \in [Servers -> [Executions -> {"none", "asked", "approve"}]]
      <3> DEFINE Row1 == [Executions -> {"none", "asked", "approve"}]
      <3>1. call \in [Servers -> Row1]
        BY <1>1 DEF TypeInv
      <3>2. ASSUME NEW p \in Servers, NEW row \in Row1
            PROVE  [call EXCEPT ![p] = row] \in [Servers -> Row1]
        BY <3>1
      <3>3. \A row \in Row1, e \in Executions, c \in {"none", "asked", "approve"} :
               [row EXCEPT ![e] = c] \in Row1
        OBVIOUS
      <3>4. [e \in Executions |-> "none"] \in Row1
        OBVIOUS
      <3>5. ASSUME NEW p \in Servers, NEW e \in Executions,
                   NEW c \in {"none", "asked", "approve"}
            PROVE  [call EXCEPT ![p][e] = c] \in [Servers -> Row1]
        <4>1. [call[p] EXCEPT ![e] = c] \in Row1
          BY <3>1, <3>3
        <4> QED BY <3>2, <4>1
      <3> QED BY <2>2, <3>1, <3>2, <3>4, <3>5
    <2> QED BY <2>3, <2>4
  <1>4. \A e \in Executions : TaskRests(e)
    BY <1>1 DEF Call, Ready, HangUp, PlanningHalts, Start, Crash, TypeInv, TaskRests
  <1>5. task' \in [Executions -> Tasks]
    <2>1. NoTask \in Tasks
      BY DEF NoTask, Tasks, Places
    <2> QED BY <1>1, <2>1 DEF Call, Ready, HangUp, PlanningHalts, Start, Crash, TypeInv
  <1>6. TypeInv'
    BY <1>1, <1>2, <1>3, <1>5 DEF TypeInv, rowVars, bookVars, seenVars
  <1>7. \A e \in Executions : SameRow(e)
    BY <1>2, NothingSame
  <1> QED BY <1>4, <1>6, <1>7, AllRest DEF Rests

\* The types after a transaction that changes only the rows and the tasks.
LEMMA TypesAfter ==
    ASSUME TypeInv, RowTypes', task' \in [Executions -> Tasks],
           call' \in [Servers -> [Executions -> {"none", "asked", "approve"}]],
           UNCHANGED <<day, confVars, server, faults, seenVars>>
    PROVE  TypeInv'
  BY DEF TypeInv, RowTypes, confVars, seenVars

LEMMA TouchStep ==
    ASSUME Inv, NEW e \in Executions, Touch(e) \/ Cancel(e)
    PROVE  Keeps
  <1>1. TypeInv /\ \A s \in StepsOf(e) : StepInv(s)
    BY InvOf
  <1>2. UNCHANGED <<day, confVars, processVars, faults, seenVars>>
    BY DEF Touch, Cancel
  <1>3. /\ EndedRow(e) /\ RowTypes'
        /\ \A f \in Executions \ {e} : SameRow(f)
    <2>1. UNCHANGED <<deleted, seenVars>>
      BY <1>2 DEF confVars
    <2>2. CASE Touch(e)
      BY <1>1, <2>1, <2>2, ExpireRow DEF Touch
    <2>3. CASE Cancel(e)
      <3>1. Terminate(e, "cancelled")
        BY <2>3 DEF Cancel
      <3> QED BY <1>1, <2>1, <3>1, TerminateRow DEF Ended
    <2> QED BY <2>2, <2>3
  <1>4. TypeInv'
    BY <1>1, <1>2, <1>3, TypesAfter DEF processVars, TypeInv
  <1> QED BY <1>2, <1>3, <1>4, AllRest DEF Rests, TaskRests, processVars

\* A deletion closes the open steps of every execution.
LEMMA DeleteStep ==
    ASSUME Inv, DeleteConversation
    PROVE  Keeps
  <1> DEFINE ending == {e \in Executions : Status(e) \in Open}
             now == [s \in Steps |-> IF s[1] \in ending THEN Closed(s[1])[s] ELSE step[s]]
             closed == {s \in Steps : now[s] # step[s]}
  <1>1. TypeInv
    BY DEF Inv
  <1>2. /\ deleted' = TRUE /\ step' = now
        /\ charge' = [s \in Steps |->
               IF s \in closed THEN Kept(s, now[s], None) ELSE charge[s]]
        /\ toolCall' = [s \in Steps |->
               IF s \in closed /\ step[s] = "dispatching" /\ IsSearch(s)
               THEN "timed_out" ELSE toolCall[s]]
        /\ exec' = [e \in Executions |-> NoExec]
        /\ UNCHANGED <<day, revision, lapsed, disabled, processVars, faults, seenVars>>
    BY DEF DeleteConversation
  <1>3. ASSUME NEW e \in Executions, NEW s \in StepsOf(e)
        PROVE  /\ now[s] = Closed(e)[s]
               /\ s \in closed <=> step[s] \in OpenStep
    <2>1. RowInv(e) /\ s \in Steps /\ s[1] = e
      BY InvOf, StepShape
    <2>2. step[s] \in OpenStep => e \in ending
      BY <2>1 DEF RowInv, Open
    <2>3. /\ step[s] \in OpenStep => Closed(e)[s] # step[s]
          /\ step[s] \notin OpenStep => Closed(e)[s] = step[s]
      BY DEF Closed, OpenStep
    <2> QED BY <2>1, <2>2, <2>3
  <1>4. \A s \in Steps : s[1] \in Executions /\ s \in StepsOf(s[1])
    BY StepShape
  <1>5. \A s \in Steps : now[s] \in StepStates
    BY <1>1, <1>3, <1>4, ClosedType, ZenonT(60)
  <1>6. \A s \in Steps : Kept(s, now[s], None) \in Nat
    BY KeptType
  <1>7. RowTypes'
    <2>1. NoExec \in ExecRows
      BY <1>1, ExecutionAssumption DEF NoExec, ExecRows, Days
    <2>2. exec' \in [Executions -> ExecRows]
      BY <1>2, <2>1
    <2>3. step' \in [Steps -> StepStates]
      BY <1>2, <1>5
    <2>4. charge' \in [Steps -> Nat \union {None}]
      BY <1>1, <1>2, <1>6 DEF TypeInv
    <2>5. toolCall' \in [Steps -> {"none", "running", "succeeded", "failed", "timed_out"}]
      BY <1>1, <1>2 DEF TypeInv
    <2> QED BY <2>2, <2>3, <2>4, <2>5 DEF RowTypes
  <1>8. TypeInv'
    BY <1>1, <1>2, <1>7 DEF TypeInv, RowTypes, processVars, seenVars
  <1>9. ASSUME NEW e \in Executions PROVE Rests(e)
    <2>1. ASSUME NEW s \in StepsOf(e)
          PROVE  /\ step'[s] = Closed(e)[s]
                 /\ charge'[s] = CASE step[s] = "reserved" -> 0
                                   [] step[s] = "dispatching" -> Price(s)
                                   [] OTHER -> charge[s]
                 /\ toolCall'[s] = IF step[s] = "dispatching" /\ IsSearch(s)
                                   THEN "timed_out" ELSE toolCall[s]
      <3>1. s \in Steps
        BY StepShape
      <3>2. /\ step'[s] = Closed(e)[s]
            /\ charge'[s] = IF step[s] \in OpenStep
                            THEN Kept(s, Closed(e)[s], None) ELSE charge[s]
            /\ toolCall'[s] = IF step[s] = "dispatching" /\ IsSearch(s)
                              THEN "timed_out" ELSE toolCall[s]
        BY <1>2, <1>3, <3>1 DEF OpenStep
      <3> QED BY <3>2 DEF Kept, OpenStep, Closed
    <2>2. Status(e)' = "absent"
      BY <1>2 DEF Status, NoExec
    <2>3. EndedRow(e)
      BY <1>2, <2>1, <2>2 DEF EndedRow, seenVars
    <2> QED BY <1>2, <2>3 DEF Rests, TaskRests, processVars
  <1> QED BY <1>8, <1>9, AllRest

\* A preview makes a draft, of an execution without rows.
LEMMA CreateStep ==
    ASSUME Inv, NEW p \in Servers, NEW e \in Executions, Create(p, e)
    PROVE  Keeps
  <1>1. /\ TypeInv /\ RowInv(e) /\ TaskInv(e)
        /\ \A s \in StepsOf(e) : StepInv(s)
    BY InvOf
  <1>2. /\ ~deleted /\ Status(e) = "absent"
        /\ exec' = [exec EXCEPT ![e].status = "draft", ![e].revision = revision]
        /\ UNCHANGED <<day, confVars, bookVars, processVars, faults, seenVars>>
    BY DEF Create
  <1>3. exec'[e] = [exec[e] EXCEPT !.status = "draft", !.revision = revision]
    BY <1>1, <1>2 DEF TypeInv
  <1>4. /\ exec'[e] \in ExecRows /\ exec'[e].status = "draft"
        /\ exec'[e].evidence = exec[e].evidence
    <2>1. exec[e] \in ExecRows /\ revision \in Nat
      BY <1>1 DEF TypeInv
    <2> QED BY <1>3, <2>1 DEF ExecRows, Open
  <1>5. \A f \in Executions \ {e} : exec'[f] = exec[f]
    BY <1>1, <1>2 DEF TypeInv
  <1>6. exec' \in [Executions -> ExecRows]
    BY <1>1, <1>2, <1>4, <1>5 DEF TypeInv
  <1>7. TypeInv'
    BY <1>1, <1>2, <1>6 DEF TypeInv, confVars, bookVars, processVars, seenVars
  <1>8. \A f \in Executions \ {e} : Rests(f)
    BY <1>2, <1>5
       DEF Rests, SameRow, TaskRests, Status, confVars, bookVars, processVars, seenVars
  <1>9. KeepsRow(e)
    <2>1. /\ step' = step /\ charge' = charge /\ toolCall' = toolCall
          /\ sends' = sends /\ billed' = billed /\ deleted' = deleted /\ task' = task
      BY <1>2 DEF confVars, bookVars, processVars, seenVars
    <2>2. \A s \in StepsOf(e) : StepInv(s)'
      BY <1>1, <2>1 DEF StepInv
    <2>3. \A s \in StepsOf(e) : step[s] = "none"
      BY <1>1, <1>2 DEF RowInv
    <2>4. RowInv(e)'
      BY <1>4, <2>1, <2>3 DEF RowInv, Begun, OpenStep, Status
    <2>5. task[e].pc = "none"
      BY <1>1, <1>2 DEF TaskInv
    <2>6. TaskInv(e)'
      <3>1. task[e].usage = None
        BY <1>1, <2>5 DEF TaskInv
      <3> QED BY <2>1, <2>5, <3>1 DEF TaskInv, Taken, Unsent, Sent
    <2>7. RowStep(e)
      BY <2>1 DEF RowStep, SameSteps
    <2> QED BY <2>2, <2>4, <2>6, <2>7 DEF KeepsRow
  <1> QED BY <1>7, <1>8, <1>9, OthersRest

\* An approval reserves every step at once.
LEMMA ReserveRow ==
    ASSUME TypeInv, NEW e \in Executions, RowInv(e), ~deleted, Reserve(e),
           UNCHANGED <<deleted, seenVars>>
    PROVE  /\ RowTypes' /\ Status(e)' = "queued" /\ deleted' = deleted
           /\ exec'[e].day = day
           /\ \A s \in StepsOf(e) : step[s] = "none" /\ step'[s] = "reserved"
           /\ charge' = charge /\ toolCall' = toolCall
           /\ \A s \in Steps : s \notin StepsOf(e) => step'[s] = step[s]
           /\ \A f \in Executions \ {e} : exec'[f] = exec[f] /\ SameRow(f)
  <1>1. /\ Status(e) = "draft"
        /\ step' = [s \in Steps |-> IF s[1] = e THEN "reserved" ELSE step[s]]
        /\ exec' = [exec EXCEPT ![e].status = "queued", ![e].day = day]
        /\ charge' = charge /\ toolCall' = toolCall
    BY DEF Reserve
  <1>2. exec'[e] = [exec[e] EXCEPT !.status = "queued", !.day = day]
    BY <1>1 DEF TypeInv
  <1>3. /\ exec'[e] \in ExecRows /\ exec'[e].status = "queued" /\ exec'[e].day = day
    <2>1. exec[e] \in ExecRows /\ day \in Days
      BY DEF TypeInv
    <2> QED BY <1>2, <2>1 DEF ExecRows, Open, Active
  <1>4. \A f \in Executions \ {e} : exec'[f] = exec[f]
    BY <1>1 DEF TypeInv
  <1>5. exec' \in [Executions -> ExecRows]
    BY <1>1, <1>3, <1>4 DEF TypeInv
  <1>6. step' \in [Steps -> StepStates]
    BY <1>1 DEF TypeInv, StepStates, OpenStep
  <1>7. /\ \A s \in StepsOf(e) : step[s] = "none" /\ step'[s] = "reserved"
        /\ \A s \in Steps : s \notin StepsOf(e) => step'[s] = step[s]
    BY <1>1 DEF RowInv, StepsOf
  <1>8. \A f \in Executions \ {e} : SameRow(f)
    BY <1>1, <1>4, <1>7, Disjoint DEF SameRow, Status, seenVars
  <1> QED BY <1>1, <1>3, <1>4, <1>5, <1>6, <1>7, <1>8 DEF RowTypes, TypeInv, Status

LEMMA ApproveStep ==
    ASSUME Inv, NEW p \in Servers, NEW e \in Executions, Approve(p, e)
    PROVE  Keeps
  <1>1. /\ TypeInv /\ RowInv(e) /\ TaskInv(e)
        /\ \A s \in StepsOf(e) : StepInv(s)
    BY InvOf
  <1>2. /\ ~deleted /\ call' = [call EXCEPT ![p][e] = "none"]
        /\ UNCHANGED <<day, confVars, server, faults, seenVars>>
        /\ deleted' = deleted
    BY DEF Approve, confVars
  <1>3. call' \in [Servers -> [Executions -> {"none", "asked", "approve"}]]
    <2> DEFINE Row1 == [Executions -> {"none", "asked", "approve"}]
    <2>1. call \in [Servers -> Row1]
      BY <1>1 DEF TypeInv
    <2>2. [call[p] EXCEPT ![e] = "none"] \in Row1
      BY <2>1
    <2> QED BY <1>2, <2>1, <2>2
  <1>4. CASE Expire(e) /\ UNCHANGED task
    <2>1. /\ EndedRow(e) /\ RowTypes'
          /\ \A f \in Executions \ {e} : SameRow(f)
      BY <1>1, <1>2, <1>4, ExpireRow
    <2>2. TypeInv'
      BY <1>1, <1>2, <1>3, <1>4, <2>1, TypesAfter DEF TypeInv
    <2> QED BY <1>4, <2>1, <2>2, AllRest DEF Rests, TaskRests
  <1>5. CASE Nothing /\ UNCHANGED task
    <2>1. \A f \in Executions : SameRow(f)
      BY <1>2, <1>5, NothingSame DEF Nothing
    <2>2. TypeInv'
      <3>1. RowTypes'
        BY <1>1, <1>5 DEF Nothing, rowVars, bookVars, RowTypes, TypeInv
      <3> QED BY <1>1, <1>2, <1>3, <1>5, <3>1, TypesAfter DEF TypeInv
    <2> QED BY <1>5, <2>1, <2>2, AllRest DEF Rests, TaskRests
  <1>6. CASE Reserve(e)
    <2>1. /\ RowTypes' /\ Status(e)' = "queued"
          /\ \A s \in StepsOf(e) : step[s] = "none" /\ step'[s] = "reserved"
          /\ charge' = charge /\ toolCall' = toolCall
          /\ \A f \in Executions \ {e} : SameRow(f)
      BY <1>1, <1>2, <1>6, ReserveRow
    <2>2. Status(e) = "draft"
      BY <1>6 DEF Reserve
    <2>3. task[e].pc = "none" /\ task[e] \in Tasks
      BY <1>1, <1>2, <2>2 DEF TaskInv, TypeInv
    <2>4. \/ task' = [task EXCEPT ![e].pc = "claim", ![e].server = p, ![e].at = 0]
          \/ task' = task
      BY <1>6, <2>2 DEF Approve, Due, Nothing
    <2>5. /\ \A f \in Executions \ {e} : task'[f] = task[f]
          /\ \/ task'[e] = [task[e] EXCEPT !.pc = "claim", !.server = p, !.at = 0]
             \/ task'[e] = task[e]
      BY <1>1, <2>4 DEF TypeInv
    <2>6. /\ task'[e] \in Tasks /\ task'[e].pc \in {"none", "claim"}
          /\ task'[e].usage = task[e].usage
          /\ task'[e].pc # "none" => task'[e].at = 0
      <3>1. CASE task'[e] = [task[e] EXCEPT !.pc = "claim", !.server = p, !.at = 0]
        <4>1. task'[e] = [pc |-> "claim", server |-> p, at |-> 0,
                          outcome |-> task[e].outcome, usage |-> task[e].usage]
          BY <2>3, <3>1 DEF Tasks
        <4>2. task'[e] \in Tasks
          BY <2>3, <4>1 DEF Tasks, Places
        <4> QED BY <4>1, <4>2
      <3>2. CASE task'[e] = task[e]
        BY <2>3, <3>2
      <3> QED BY <2>5, <3>1, <3>2
    <2>7. task' \in [Executions -> Tasks]
      BY <1>1, <2>4, <2>5, <2>6 DEF TypeInv
    <2>8. TypeInv'
      BY <1>1, <1>2, <1>3, <2>1, <2>7, TypesAfter
    <2>9. KeepsRow(e)
      <3>1. sends' = sends /\ billed' = billed
        BY <1>2 DEF seenVars
      <3>2. \A s \in StepsOf(e) : StepInv(s)'
        BY <1>1, <2>1, <3>1 DEF StepInv, Begun, OpenStep
      <3>3. RowInv(e)'
        BY <2>1 DEF RowInv, Begun, OpenStep, Active
      <3>4. task[e].usage = None
        BY <1>1, <2>3 DEF TaskInv
      <3>5. Searches[e] >= 0
        BY StepShape
      <3>6. TaskInv(e)'
        BY <2>1, <2>6, <3>4, <3>5 DEF TaskInv, Taken, Unsent, Sent
      <3>7. RowStep(e)
        BY <2>1, <3>1 DEF RowStep, ReservedRow
      <3> QED BY <3>2, <3>3, <3>6, <3>7 DEF KeepsRow
    <2> QED BY <2>1, <2>5, <2>8, <2>9, OthersRest DEF Rests, TaskRests
  <1> QED BY <1>4, <1>5, <1>6 DEF Approve

-----------------------------------------------------------------------------
(* The actions of the task. *)

LEMMA GotoSet ==
    ASSUME TypeInv, NEW e \in Executions, NEW pc \in Places, Goto(e, pc)
    PROVE  /\ task' \in [Executions -> Tasks]
           /\ task'[e].pc = pc /\ task'[e].at = task[e].at
           /\ task'[e].usage = task[e].usage /\ task'[e].outcome = task[e].outcome
           /\ \A f \in Executions \ {e} : TaskRests(f)
  <1>1. task[e] \in Tasks
    BY DEF TypeInv
  <1>2. task'[e] = [pc |-> pc, server |-> task[e].server, at |-> task[e].at,
                    outcome |-> task[e].outcome, usage |-> task[e].usage]
    BY <1>1 DEF Goto, TypeInv, Tasks
  <1>3. task'[e] \in Tasks
    BY <1>1, <1>2 DEF Tasks
  <1>4. \A f \in Executions \ {e} : task'[f] = task[f]
    BY DEF Goto, TypeInv
  <1>5. task' \in [Executions -> Tasks]
    BY <1>3, <1>4 DEF Goto, TypeInv
  <1> QED BY <1>2, <1>4, <1>5 DEF TaskRests

LEMMA ConcludeSet ==
    ASSUME TypeInv, NEW e \in Executions, NEW o \in Outcomes,
           NEW u \in Nat \union {None}, Conclude(e, o, u)
    PROVE  /\ task' \in [Executions -> Tasks]
           /\ task'[e].pc = "finish" /\ task'[e].at = task[e].at
           /\ task'[e].usage = u /\ task'[e].outcome = o
           /\ \A f \in Executions \ {e} : TaskRests(f)
  <1>1. task[e] \in Tasks
    BY DEF TypeInv
  <1>2. task'[e] = [pc |-> "finish", server |-> task[e].server, at |-> task[e].at,
                    outcome |-> o, usage |-> u]
    BY <1>1 DEF Conclude, TypeInv, Tasks
  <1>3. task'[e] \in Tasks
    BY <1>1, <1>2 DEF Tasks, Places
  <1>4. \A f \in Executions \ {e} : task'[f] = task[f]
    BY DEF Conclude, TypeInv
  <1>5. task' \in [Executions -> Tasks]
    BY <1>3, <1>4 DEF Conclude, TypeInv
  <1> QED BY <1>2, <1>4, <1>5 DEF TaskRests

LEMMA StopSet ==
    ASSUME TypeInv, NEW e \in Executions, Stop(e)
    PROVE  /\ task' \in [Executions -> Tasks] /\ task'[e] = NoTask
           /\ \A f \in Executions : TaskRests(f)
  <1>1. NoTask \in Tasks
    BY DEF NoTask, Tasks, Places
  <1> QED BY <1>1 DEF Stop, TypeInv, TaskRests

\* A task that goes on with its step, while its row stays or is ended.
LEMMA TaskMoved ==
    ASSUME TypeInv, NEW e \in Executions, TaskInv(e),
           SameRow(e) \/ EndedRow(e),
           task[e].pc \in Taken, task'[e].pc \in Taken, task'[e].at = task[e].at,
           task'[e].pc \in Unsent => sends[Now(e)] = 0,
           task'[e].pc \in Sent => sends[Now(e)] > 0,
           task'[e].pc \notin {"again", "retrieve", "finish"} => task'[e].usage = None,
           task'[e].usage # None =>
               /\ sends[Now(e)] > 0 /\ task'[e].usage = billed[Now(e)]
               /\ task'[e].usage <= Price(Now(e)),
           (task'[e].pc \in {"again", "retrieve"}
               \/ (task'[e].pc = "finish" /\ task'[e].outcome \in {"hits", "nothing"}))
             => IsSearch(Now(e)),
           task'[e].pc = "finish" /\ task'[e].outcome \in {"answered", "insufficient"}
               => ~IsSearch(Now(e))
    PROVE  TaskInv(e)'
  <1>1. /\ task[e].at <= Searches[e] /\ step[Now(e)] \in {"dispatching", "unknown"}
        /\ ~(~deleted /\ Status(e) \in {"absent", "draft"})
    BY DEF TaskInv, Taken
  <1>2. Now(e) \in StepsOf(e) /\ Now(e)' = Now(e)
    BY <1>1, NowIsStep DEF Now
  <1>3. /\ sends'[Now(e)] = sends[Now(e)] /\ billed'[Now(e)] = billed[Now(e)]
        /\ step'[Now(e)] \in {"dispatching", "unknown"}
    BY <1>1, <1>2 DEF SameRow, EndedRow, Closed
  <1>4. ~(~deleted' /\ Status(e)' \in {"absent", "draft"})
    BY <1>1 DEF SameRow, EndedRow, Ended
  <1>5. IsSearch(Now(e))' = IsSearch(Now(e)) /\ Price(Now(e))' = Price(Now(e))
    BY <1>2 DEF IsSearch, Price
  <1> QED BY <1>1, <1>2, <1>3, <1>4, <1>5 DEF TaskInv

LEMMA OwnTask ==
    ASSUME Inv, TypeInv', NEW e \in Executions, SameRow(e) \/ EndedRow(e), TaskInv(e)',
           \A f \in Executions \ {e} : SameRow(f) /\ TaskRests(f)
    PROVE  Keeps
  <1>1. /\ TypeInv /\ RowInv(e) /\ TaskInv(e)
        /\ \A s \in StepsOf(e) : StepInv(s)
    BY InvOf
  <1>2. (\A s \in StepsOf(e) : StepInv(s)') /\ RowInv(e)'
    BY <1>1, RowKept
  <1>3. RowStep(e)
    BY DEF SameRow, RowStep, SameSteps
  <1>4. KeepsRow(e)
    BY <1>2, <1>3 DEF KeepsRow
  <1> QED BY <1>4, OthersRest DEF Rests

\* What the invariant says of a task that has claimed a step.
LEMMA TaskFacts ==
    ASSUME TypeInv, NEW e \in Executions, TaskInv(e), task[e].pc \in Taken
    PROVE  /\ task[e] \in Tasks /\ task[e].at <= Searches[e]
           /\ Now(e) \in StepsOf(e) /\ Now(e) \in Steps /\ Now(e)[2] = task[e].at
           /\ step[Now(e)] \in {"dispatching", "unknown"}
           /\ task[e].pc \in Unsent => sends[Now(e)] = 0
           /\ task[e].pc \in Sent => sends[Now(e)] > 0
           /\ task[e].pc \notin {"again", "retrieve", "finish"} => task[e].usage = None
           /\ task[e].usage # None =>
                  /\ sends[Now(e)] > 0 /\ task[e].usage = billed[Now(e)]
                  /\ task[e].usage <= Price(Now(e))
           /\ task[e].pc \in {"again", "retrieve"} => IsSearch(Now(e))
  <1>1. task[e] \in Tasks
    BY DEF TypeInv
  <1>2. task[e].at <= Searches[e]
    BY DEF TaskInv, Taken
  <1>3. Now(e) \in StepsOf(e) /\ Now(e) \in Steps /\ Now(e)[2] = task[e].at
    BY <1>2, NowIsStep
  <1>4. /\ step[Now(e)] \in {"dispatching", "unknown"}
        /\ task[e].pc \in Unsent => sends[Now(e)] = 0
        /\ task[e].pc \in Sent => sends[Now(e)] > 0
    BY DEF TaskInv
  <1>5. /\ task[e].pc \notin {"again", "retrieve", "finish"} => task[e].usage = None
        /\ task[e].usage # None =>
               /\ sends[Now(e)] > 0 /\ task[e].usage = billed[Now(e)]
               /\ task[e].usage <= Price(Now(e))
    BY DEF TaskInv
  <1>6. task[e].pc \in {"again", "retrieve"} => IsSearch(Now(e))
    BY DEF TaskInv
  <1> QED BY <1>1, <1>2, <1>3, <1>4, <1>5, <1>6

\* The checks before and after the embedding may end an overdue request.
LEMMA RecheckStep ==
    ASSUME Inv, NEW e \in Executions, Recheck(e) \/ RecheckAfter(e)
    PROVE  Keeps
  <1>1. /\ TypeInv /\ RowInv(e) /\ TaskInv(e)
        /\ \A s \in StepsOf(e) : StepInv(s)
    BY InvOf
  <1>2. /\ IF Due(e) THEN Expire(e) ELSE Nothing
        /\ UNCHANGED <<day, confVars, server, call, faults, seenVars>>
        /\ deleted' = deleted
        /\ \/ task[e].pc = "recheck" /\ Goto(e, "revision")
           \/ task[e].pc = "again" /\ Goto(e, "retrieve")
           \/ task[e].pc \in {"recheck", "again"} /\ Conclude(e, "failed", None)
    BY DEF Recheck, RecheckAfter, At, confVars
  <1>3. /\ SameRow(e) \/ EndedRow(e)
        /\ RowTypes'
        /\ \A f \in Executions \ {e} : SameRow(f)
    <2>1. CASE Expire(e)
      BY <1>1, <1>2, <2>1, ExpireRow
    <2>2. CASE Nothing
      <3>1. RowTypes'
        BY <1>1, <2>2 DEF Nothing, rowVars, bookVars, RowTypes, TypeInv
      <3> QED BY <1>2, <2>2, <3>1, NothingSame DEF Nothing
    <2> QED BY <1>2, <2>1, <2>2
  <1>4. /\ task' \in [Executions -> Tasks] /\ task'[e].at = task[e].at
        /\ \A f \in Executions \ {e} : TaskRests(f)
        /\ \/ /\ task[e].pc = "recheck" /\ task'[e].pc = "revision"
              /\ task'[e].usage = task[e].usage
           \/ /\ task[e].pc = "again" /\ task'[e].pc = "retrieve"
              /\ task'[e].usage = task[e].usage
           \/ /\ task[e].pc \in {"recheck", "again"} /\ task'[e].pc = "finish"
              /\ task'[e].usage = None /\ task'[e].outcome = "failed"
    <2>1. {"revision", "retrieve"} \subseteq Places /\ "failed" \in Outcomes
      BY DEF Places, Outcomes
    <2>2. CASE task[e].pc = "recheck" /\ Goto(e, "revision")
      BY <1>1, <2>1, <2>2, GotoSet
    <2>3. CASE task[e].pc = "again" /\ Goto(e, "retrieve")
      BY <1>1, <2>1, <2>3, GotoSet
    <2>4. CASE task[e].pc \in {"recheck", "again"} /\ Conclude(e, "failed", None)
      BY <1>1, <2>1, <2>4, ConcludeSet
    <2> QED BY <1>2, <2>2, <2>3, <2>4
  <1>5. call' = call /\ call \in [Servers -> [Executions -> {"none", "asked", "approve"}]]
    BY <1>1, <1>2 DEF TypeInv
  <1>6. TypeInv'
    BY <1>1, <1>2, <1>3, <1>4, <1>5, TypesAfter
  <1>7. TaskInv(e)'
    <2>1. /\ task[e].pc \in Taken /\ task'[e].pc \in Taken
          /\ task[e].pc = "recheck" => sends[Now(e)] = 0 /\ task[e].usage = None
          /\ task[e].pc = "again" => sends[Now(e)] > 0 /\ IsSearch(Now(e))
          /\ task[e].usage # None =>
                 /\ sends[Now(e)] > 0 /\ task[e].usage = billed[Now(e)]
                 /\ task[e].usage <= Price(Now(e))
      <3>1. task[e].pc \in Taken /\ task'[e].pc \in Taken
        BY <1>4 DEF Taken, Places
      <3> QED BY <1>1, <3>1, TaskFacts DEF Unsent, Sent
    <2>2. task'[e].pc \in Unsent => sends[Now(e)] = 0
      BY <1>4, <2>1 DEF Unsent
    <2>3. task'[e].pc \in Sent => sends[Now(e)] > 0
      BY <1>4, <2>1 DEF Sent
    <2>4. task'[e].pc \notin {"again", "retrieve", "finish"} => task'[e].usage = None
      BY <1>4, <2>1
    <2>5. task'[e].usage # None =>
             /\ sends[Now(e)] > 0 /\ task'[e].usage = billed[Now(e)]
             /\ task'[e].usage <= Price(Now(e))
      BY <1>4, <2>1
    <2>6. /\ (task'[e].pc \in {"again", "retrieve"}
                 \/ (task'[e].pc = "finish" /\ task'[e].outcome \in {"hits", "nothing"}))
               => IsSearch(Now(e))
          /\ task'[e].pc = "finish" /\ task'[e].outcome \in {"answered", "insufficient"}
                 => ~IsSearch(Now(e))
      BY <1>4, <2>1
    <2> QED BY <1>1, <1>3, <1>4, <2>1, <2>2, <2>3, <2>4, <2>5, <2>6, TaskMoved
  <1> QED BY <1>3, <1>4, <1>6, <1>7, OwnTask

\* The actions that only move the task on.
LEMMA MoveStep ==
    ASSUME Inv, NEW e \in Executions,
           \/ CheckRevision(e) \/ Verify(e) \/ Refuse(e) \/ Answered(e)
           \/ ContractViolation(e) \/ PersistDisable(e) \/ Retrieve(e) \/ GiveUp(e)
    PROVE  Keeps
  <1>1. TypeInv /\ TaskInv(e)
    BY InvOf
  <1>2. /\ rowVars' = rowVars /\ seenVars' = seenVars /\ deleted' = deleted
        /\ day' = day /\ revision' = revision /\ lapsed' = lapsed /\ call' = call
    BY DEF CheckRevision, Verify, Refuse, Answered, ContractViolation, PersistDisable,
           Retrieve, GiveUp, confVars
  <1>3. \A f \in Executions : SameRow(f)
    BY <1>2, NothingSame
  <1>4. /\ disabled' \subseteq Phases /\ faults' \in 0 .. MaxFaults
        /\ server' \in [Servers -> {"down", "up", "halted"}]
    <2>1. CASE PersistDisable(e)
      <3>1. WriteStop /\ server' = server
        BY <2>1 DEF PersistDisable
      <3>2. server \in [Servers -> {"down", "up", "halted"}]
        BY <1>1 DEF TypeInv
      <3> QED BY <1>1, <3>1, <3>2, StopWritten
    <2>2. CASE ~PersistDisable(e)
      <3>1. disabled' = disabled /\ faults' = faults
        BY <2>2 DEF CheckRevision, Verify, Refuse, Answered, ContractViolation,
                    Retrieve, GiveUp, confVars
      <3>2. server' = server \/ server' = [server EXCEPT ![task[e].server] = "halted"]
        BY <2>2 DEF CheckRevision, Verify, Refuse, Answered, ContractViolation,
                    Retrieve, GiveUp
      <3> QED BY <1>1, <3>1, <3>2 DEF TypeInv
    <2> QED BY <2>1, <2>2
  <1>5. CASE GiveUp(e)
    <2>1. /\ task' \in [Executions -> Tasks]
          /\ \A f \in Executions : TaskRests(f)
      BY <1>1, <1>5, StopSet DEF GiveUp
    <2>2. TypeInv'
      BY <1>1, <1>2, <1>4, <2>1 DEF TypeInv, rowVars, bookVars, seenVars
    <2> QED BY <1>3, <2>1, <2>2, AllRest DEF Rests
  <1>6. CASE ~GiveUp(e)
    <2>1. /\ task[e].pc \in Taken /\ task[e] \in Tasks
          /\ task[e].pc \in Unsent => sends[Now(e)] = 0
          /\ task[e].pc \in Sent => sends[Now(e)] > 0
          /\ task[e].pc \notin {"again", "retrieve", "finish"} => task[e].usage = None
          /\ task[e].usage # None =>
                 /\ sends[Now(e)] > 0 /\ task[e].usage = billed[Now(e)]
                 /\ task[e].usage <= Price(Now(e))
          /\ task[e].pc \in {"again", "retrieve"} => IsSearch(Now(e))
          /\ Now(e) \in Steps
      <3>1. task[e].pc \in Taken
        BY <1>6 DEF CheckRevision, Verify, Refuse, Answered, ContractViolation,
                    PersistDisable, Retrieve, At, Taken, Places
      <3> QED BY <1>1, <3>1, TaskFacts
    <2>2. /\ task' \in [Executions -> Tasks] /\ task'[e].at = task[e].at
          /\ \A f \in Executions \ {e} : TaskRests(f)
          /\ \/ /\ task[e].pc = "revision" /\ task'[e].pc = "verify"
                /\ task'[e].usage = task[e].usage
             \/ /\ task[e].pc = "verify" /\ task'[e].pc = "send"
                /\ task'[e].usage = task[e].usage
             \/ /\ task[e].pc = "wait" /\ task'[e].pc = "disable"
                /\ task'[e].usage = task[e].usage
             \/ /\ task'[e].pc = "finish" /\ task'[e].usage = None
                /\ task'[e].outcome \in {"failed", "unknown"}
             \/ /\ task[e].pc = "wait" /\ task'[e].pc = "again" /\ IsSearch(Now(e))
                /\ task'[e].usage \in Reported(Now(e))
             \/ /\ task[e].pc = "wait" /\ task'[e].pc = "finish" /\ ~IsSearch(Now(e))
                /\ task'[e].usage \in Reported(Now(e))
                /\ task'[e].outcome \in {"answered", "insufficient"}
             \/ /\ task[e].pc = "retrieve" /\ task'[e].pc = "finish"
                /\ task'[e].usage = task[e].usage
                /\ task'[e].outcome \in {"hits", "nothing"}
      <3>1. /\ Outcomes = {"hits", "nothing", "answered", "insufficient", "failed", "unknown"}
            /\ {"verify", "send", "disable", "again"} \subseteq Places
        BY DEF Places, Outcomes
      <3>2. CASE CheckRevision(e)
        BY <1>1, <3>1, <3>2, GotoSet DEF CheckRevision, At
      <3>3. CASE Verify(e)
        BY <1>1, <3>1, <3>3, GotoSet DEF Verify, At
      <3>4. CASE ContractViolation(e)
        BY <1>1, <3>1, <3>4, GotoSet DEF ContractViolation, At
      <3>5. CASE Refuse(e) \/ PersistDisable(e) \/ Conclude(e, "failed", None)
                 \/ Conclude(e, "unknown", None)
        <4>1. PICK o \in {"failed", "unknown"} : Conclude(e, o, None)
          BY <3>5 DEF Refuse, PersistDisable
        <4> QED BY <1>1, <3>1, <4>1, ConcludeSet
      <3>6. CASE Retrieve(e) /\ ~ \E o \in {"failed", "unknown"} : Conclude(e, o, None)
        <4>1. PICK o \in {"hits", "nothing"} : Conclude(e, o, task[e].usage)
          BY <3>6 DEF Retrieve
        <4>2. task[e].usage \in Nat \union {None} /\ task[e].pc = "retrieve"
          BY <2>1, <3>6 DEF Tasks, Retrieve, At
        <4> QED BY <1>1, <3>1, <4>1, <4>2, ConcludeSet
      <3>7. CASE Answered(e) /\ ~ \E o \in {"failed", "unknown"} : Conclude(e, o, None)
        <4>1. PICK u \in Reported(Now(e)) :
                  IF IsSearch(Now(e))
                  THEN task' = [task EXCEPT ![e].pc = "again", ![e].usage = u]
                  ELSE \E o \in {"answered", "insufficient"} : Conclude(e, o, u)
          BY <3>7 DEF Answered
        <4>2. u \in Nat \union {None} /\ task[e].pc = "wait"
          BY <1>1, <2>1, <3>7 DEF Reported, TypeInv, Answered, At
        <4>3. CASE IsSearch(Now(e))
          <5>1. task' = [task EXCEPT ![e].pc = "again", ![e].usage = u]
            BY <4>1, <4>3
          <5>2. task'[e] = [pc |-> "again", server |-> task[e].server, at |-> task[e].at,
                            outcome |-> task[e].outcome, usage |-> u]
            BY <1>1, <2>1, <5>1 DEF Tasks, TypeInv
          <5>3. task'[e] \in Tasks
            BY <2>1, <3>1, <4>2, <5>2 DEF Tasks
          <5>4. \A f \in Executions \ {e} : task'[f] = task[f]
            BY <1>1, <5>1 DEF TypeInv
          <5>5. task' \in [Executions -> Tasks]
            BY <1>1, <5>1, <5>3, <5>4 DEF TypeInv
          <5> QED BY <4>1, <4>2, <4>3, <5>2, <5>4, <5>5 DEF TaskRests
        <4>4. CASE ~IsSearch(Now(e))
          <5>1. PICK o \in {"answered", "insufficient"} : Conclude(e, o, u)
            BY <4>1, <4>4
          <5> QED BY <1>1, <3>1, <4>1, <4>2, <4>4, <5>1, ConcludeSet
        <4> QED BY <4>3, <4>4
      <3> QED BY <1>6, <3>2, <3>3, <3>4, <3>5, <3>6, <3>7
    <2>3. TypeInv'
      BY <1>1, <1>2, <1>4, <2>2 DEF TypeInv, rowVars, bookVars, seenVars
    <2>4. \A u \in Reported(Now(e)) : u # None => u = billed[Now(e)] /\ u <= Price(Now(e))
      BY <2>1, StepShape DEF Reported
    <2>5. TaskInv(e)'
      <3>1. task'[e].pc \in Taken
        BY <2>2 DEF Taken, Places
      <3>2. task'[e].pc \in Unsent => sends[Now(e)] = 0
        BY <2>1, <2>2 DEF Unsent
      <3>3. task'[e].pc \in Sent => sends[Now(e)] > 0
        BY <2>1, <2>2 DEF Sent
      <3>4. task'[e].pc \notin {"again", "retrieve", "finish"} => task'[e].usage = None
        BY <2>1, <2>2
      <3>5. task'[e].usage # None =>
               /\ sends[Now(e)] > 0 /\ task'[e].usage = billed[Now(e)]
               /\ task'[e].usage <= Price(Now(e))
        BY <2>1, <2>2, <2>4 DEF Sent
      <3>6. /\ (task'[e].pc \in {"again", "retrieve"}
                   \/ (task'[e].pc = "finish" /\ task'[e].outcome \in {"hits", "nothing"}))
                 => IsSearch(Now(e))
            /\ task'[e].pc = "finish" /\ task'[e].outcome \in {"answered", "insufficient"}
                   => ~IsSearch(Now(e))
        BY <2>1, <2>2
      <3> QED BY <1>1, <1>3, <2>1, <2>2, <3>1, <3>2, <3>3, <3>4, <3>5, <3>6, TaskMoved
    <2> QED BY <1>3, <2>2, <2>3, <2>5, OwnTask
  <1> QED BY <1>5, <1>6

\* A claim takes the next step of the order, or ends an execution that is
\* overdue or whose conversation went on.
LEMMA ClaimStep ==
    ASSUME Inv, NEW e \in Executions, Claim(e)
    PROVE  Keeps
  <1>1. /\ TypeInv /\ RowInv(e) /\ TaskInv(e)
        /\ \A s \in StepsOf(e) : StepInv(s)
    BY InvOf
  <1>2. /\ task[e].pc = "claim" /\ ~deleted /\ deleted' = deleted
        /\ UNCHANGED <<day, confVars, server, call, faults, seenVars>>
    BY DEF Claim, At, confVars
  <1>3. call' = call /\ call \in [Servers -> [Executions -> {"none", "asked", "approve"}]]
    BY <1>1, <1>2 DEF TypeInv
  <1>4. CASE Stop(e) /\ (Expire(e) \/ Nothing \/ Terminate(e, "stale"))
    <2>1. RowTypes' /\ \A f \in Executions : SameRow(f) \/ EndedRow(f)
      <3>1. CASE Expire(e)
        BY <1>1, <1>2, <3>1, ExpireRow
      <3>2. CASE Terminate(e, "stale")
        BY <1>1, <1>2, <3>2, TerminateRow DEF Ended
      <3>3. CASE Nothing
        <4>1. RowTypes'
          BY <1>1, <3>3 DEF Nothing, rowVars, bookVars, RowTypes, TypeInv
        <4> QED BY <1>2, <3>3, <4>1, NothingSame DEF Nothing
      <3> QED BY <1>4, <3>1, <3>2, <3>3
    <2>2. /\ task' \in [Executions -> Tasks]
          /\ \A f \in Executions : TaskRests(f)
      BY <1>1, <1>4, StopSet
    <2>3. TypeInv'
      BY <1>1, <1>2, <1>3, <2>1, <2>2, TypesAfter
    <2> QED BY <2>1, <2>2, <2>3, AllRest DEF Rests
  <1>5. CASE /\ Status(e) \in Active /\ Claimable(e) /\ ReceiptValid(Now(e))
             /\ toolCall[Now(e)] = "none"
             /\ step' = [step EXCEPT ![Now(e)] = "dispatching"]
             /\ toolCall' = [toolCall EXCEPT ![Now(e)] =
                    IF IsSearch(Now(e)) THEN "running" ELSE "none"]
             /\ exec' = [exec EXCEPT ![e].status = "running"]
             /\ Goto(e, "recheck")
             /\ UNCHANGED <<charge, money, models, tools>>
    <2>1. /\ Now(e) \in StepsOf(e) /\ Now(e) \in Steps /\ Now(e)[2] = task[e].at
          /\ task[e].at <= Searches[e]
      <3>1. task[e].at <= Searches[e]
        BY <1>1, <1>2 DEF TaskInv
      <3> QED BY <1>1, <3>1, NowIsStep
    <2>2. /\ exec'[e] \in ExecRows /\ exec'[e].status = "running"
          /\ exec'[e].evidence = exec[e].evidence
      <3>1. exec[e] \in ExecRows /\ exec'[e] = [exec[e] EXCEPT !.status = "running"]
        BY <1>1, <1>5 DEF TypeInv
      <3> QED BY <3>1 DEF ExecRows, Open, Active
    <2>3. \A f \in Executions \ {e} : exec'[f] = exec[f]
      BY <1>1, <1>5 DEF TypeInv
    <2>4. exec' \in [Executions -> ExecRows]
      BY <1>1, <1>5, <2>2, <2>3 DEF TypeInv
    <2>5. /\ task' \in [Executions -> Tasks]
          /\ task'[e].pc = "recheck" /\ task'[e].at = task[e].at
          /\ task'[e].usage = task[e].usage
          /\ \A f \in Executions \ {e} : TaskRests(f)
      BY <1>1, <1>5, GotoSet DEF Places
    <2>6. /\ step' \in [Steps -> StepStates]
          /\ toolCall' \in [Steps -> {"none", "running", "succeeded", "failed", "timed_out"}]
          /\ charge' = charge
      BY <1>1, <1>5 DEF TypeInv, StepStates, OpenStep
    <2>7. RowTypes'
      BY <1>1, <2>4, <2>6 DEF RowTypes, TypeInv
    <2>8. TypeInv'
      BY <1>1, <1>2, <1>3, <2>5, <2>7, TypesAfter
    <2>9. /\ step'[Now(e)] = "dispatching" /\ step[Now(e)] = "reserved"
          /\ \A s \in Steps : s # Now(e) => step'[s] = step[s] /\ toolCall'[s] = toolCall[s]
          /\ IsSearch(Now(e)) => toolCall'[Now(e)] = "running"
          /\ \A s \in StepsOf(e) : s[2] < task[e].at => step[s] = "succeeded"
          /\ ~IsSearch(Now(e)) => exec[e].evidence
          /\ sends' = sends /\ billed' = billed
      BY <1>1, <1>2, <1>5, <2>1 DEF TypeInv, Claimable, seenVars
    <2>10. \A f \in Executions \ {e} : SameRow(f)
      <3>1. \A f \in Executions \ {e} : \A s \in StepsOf(f) : s \in Steps /\ s # Now(e)
        BY <2>1, Disjoint
      <3> QED BY <1>2, <2>3, <2>6, <2>9, <3>1 DEF SameRow, Status
    <2>11. KeepsRow(e)
      <3>1. \A s \in StepsOf(e) : s \in Steps
        BY StepShape
      <3>2. \A s \in StepsOf(e) : StepInv(s)'
        <4>1. ASSUME NEW s \in StepsOf(e), s # Now(e) PROVE StepInv(s)'
          BY <1>1, <2>6, <2>9, <3>1, <4>1 DEF StepInv
        <4>2. ASSUME NEW s \in StepsOf(e), s = Now(e) PROVE StepInv(s)'
          <5>1. StepInv(s)
            BY <1>1
          <5>2. /\ charge[s] = None /\ sends[s] <= 1 /\ step'[s] = "dispatching"
                /\ charge'[s] = None /\ sends'[s] <= 1
                /\ IsSearch(s) => toolCall'[s] = "running"
            BY <2>6, <2>9, <4>2, <5>1 DEF StepInv, OpenStep
          <5> QED BY <5>2 DEF StepInv, OpenStep, Begun
        <4> QED BY <4>1, <4>2
      <3>3. RowInv(e)'
        <4>1. \A s, r \in StepsOf(e) :
                 step'[s] \in Begun /\ r[2] < s[2] => step'[r] = "succeeded"
          <5>1. ASSUME NEW s \in StepsOf(e), NEW r \in StepsOf(e),
                       step'[s] \in Begun, r[2] < s[2]
                PROVE  step'[r] = "succeeded"
            <6>1. step[r] = "succeeded"
              <7>1. CASE s = Now(e)
                BY <2>1, <2>9, <5>1, <7>1
              <7>2. CASE s # Now(e)
                BY <1>1, <2>9, <3>1, <5>1, <7>2 DEF RowInv
              <7> QED BY <7>1, <7>2
            <6> QED BY <2>9, <3>1, <6>1
          <5> QED BY <5>1
        <4>2. Status(e) \in Active /\ Status(e)' = "running"
          BY <1>5, <2>2 DEF Status
        <4>3. \A s \in StepsOf(e) :
                 step'[s] = "dispatching" /\ ~IsSearch(s) => exec'[e].evidence
          BY <1>1, <2>2, <2>9, <3>1 DEF RowInv
        <4> QED BY <4>1, <4>2, <4>3 DEF RowInv, Active
      <3>4. TaskInv(e)'
        <4>1. task[e].usage = None /\ sends[Now(e)] = 0
          <5>1. StepInv(Now(e))
            BY <1>1, <2>1
          <5> QED BY <1>1, <1>2, <2>9, <5>1 DEF TaskInv, StepInv, Begun
        <4>2. Now(e)' = Now(e)
          BY <2>5 DEF Now
        <4>3. Status(e)' = "running"
          BY <2>2 DEF Status
        <4> QED BY <2>1, <2>5, <2>9, <4>1, <4>2, <4>3 DEF TaskInv, Unsent, Sent
      <3>5. RowStep(e)
        BY <2>6, <2>9, <3>1 DEF RowStep, ClaimedRow
      <3> QED BY <3>2, <3>3, <3>4, <3>5 DEF KeepsRow
    <2> QED BY <2>5, <2>8, <2>10, <2>11, OthersRest DEF Rests
  <1> QED BY <1>4, <1>5 DEF Claim

\* The provider call, behind the last look at the stop flag and the prices.
LEMMA SendStep ==
    ASSUME Inv, NEW e \in Executions, Send(e)
    PROVE  Keeps
  <1>1. /\ TypeInv /\ RowInv(e) /\ TaskInv(e)
        /\ \A s \in StepsOf(e) : StepInv(s)
    BY InvOf
  <1>2. /\ task[e].pc = "send" /\ deleted' = deleted /\ rowVars' = rowVars
        /\ UNCHANGED <<day, confVars, server, call, faults>>
    BY DEF Send, At, confVars
  <1>3. /\ task[e] \in Tasks /\ task[e].at <= Searches[e]
        /\ Now(e) \in StepsOf(e) /\ Now(e) \in Steps
        /\ step[Now(e)] \in {"dispatching", "unknown"}
        /\ sends[Now(e)] = 0 /\ task[e].usage = None
    <2>1. task[e].pc \in Taken /\ task[e].pc \in Unsent
      BY <1>2 DEF Taken, Places, Unsent
    <2> QED BY <1>1, <1>2, <2>1, TaskFacts
  <1>4. call' = call /\ call \in [Servers -> [Executions -> {"none", "asked", "approve"}]]
    BY <1>1, <1>2 DEF TypeInv
  <1>5. RowTypes'
    BY <1>1, <1>2 DEF rowVars, bookVars, RowTypes, TypeInv
  <1>6. CASE Conclude(e, "failed", None) /\ UNCHANGED seenVars
    <2>1. /\ task' \in [Executions -> Tasks]
          /\ task'[e].pc = "finish" /\ task'[e].at = task[e].at
          /\ task'[e].usage = None /\ task'[e].outcome = "failed"
          /\ \A f \in Executions \ {e} : TaskRests(f)
      BY <1>1, <1>6, ConcludeSet DEF Outcomes
    <2>2. \A f \in Executions : SameRow(f)
      BY <1>2, <1>6, NothingSame
    <2>3. TypeInv'
      BY <1>1, <1>2, <1>4, <1>5, <1>6, <2>1, TypesAfter
    <2>4. TaskInv(e)'
      BY <1>1, <1>2, <2>1, <2>2, TaskMoved DEF Taken, Places, Unsent, Sent
    <2> QED BY <2>1, <2>2, <2>3, <2>4, OwnTask
  <1>7. CASE /\ sends' = [sends EXCEPT ![Now(e)] = @ + 1]
             /\ \E n \in Billable(Now(e)) : billed' = [billed EXCEPT ![Now(e)] = n]
             /\ Goto(e, "wait")
    <2>1. /\ task' \in [Executions -> Tasks]
          /\ task'[e].pc = "wait" /\ task'[e].at = task[e].at
          /\ task'[e].usage = task[e].usage
          /\ \A f \in Executions \ {e} : TaskRests(f)
      BY <1>1, <1>7, GotoSet DEF Places
    <2>2. /\ sends' \in [Steps -> Nat] /\ billed' \in [Steps -> Nat]
          /\ sends'[Now(e)] = 1 /\ billed'[Now(e)] \in Billable(Now(e))
          /\ \A s \in Steps : s # Now(e) => sends'[s] = sends[s] /\ billed'[s] = billed[s]
      <3>1. Price(Now(e)) \in Nat
        BY <1>3, StepShape
      <3>2. PICK n \in Billable(Now(e)) : billed' = [billed EXCEPT ![Now(e)] = n]
        BY <1>7
      <3>3. n \in Nat
        BY <3>1, <3>2 DEF Billable
      <3> QED BY <1>1, <1>3, <1>7, <3>2, <3>3 DEF TypeInv
    <2>3. /\ step' = step /\ charge' = charge /\ toolCall' = toolCall /\ exec' = exec
      BY <1>2 DEF rowVars, bookVars
    <2>4. TypeInv'
      BY <1>1, <1>2, <1>4, <2>1, <2>2, <2>3 DEF TypeInv, confVars
    <2>5. \A f \in Executions \ {e} : SameRow(f)
      <3>1. \A f \in Executions \ {e} : \A s \in StepsOf(f) : s \in Steps /\ s # Now(e)
        BY <1>3, Disjoint
      <3> QED BY <1>2, <2>2, <2>3, <3>1 DEF SameRow, Status
    <2>6. KeepsRow(e)
      <3>1. \A s \in StepsOf(e) : s \in Steps /\ sends'[s] <= 1
        BY <1>1, <2>2, StepShape DEF StepInv
      <3>2. step[Now(e)] \in Begun
        BY <1>3 DEF Begun
      <3>3. \A s \in StepsOf(e) : step[s] \notin Begun => sends'[s] = 0
        BY <1>1, <2>2, <3>1, <3>2 DEF StepInv
      <3>4. \A s \in StepsOf(e) : StepInv(s)'
        BY <1>1, <2>3, <3>1, <3>3 DEF StepInv
      <3>5. RowInv(e)'
        BY <1>1, <1>2, <2>3 DEF RowInv, Status
      <3>6. Now(e)' = Now(e)
        BY <2>1 DEF Now
      <3>7. ~(~deleted' /\ Status(e)' \in {"absent", "draft"})
        BY <1>1, <1>2, <2>3 DEF TaskInv, Status
      <3>8. TaskInv(e)'
        BY <1>3, <2>1, <2>2, <2>3, <3>6, <3>7 DEF TaskInv, Unsent, Sent
      <3>9. RowStep(e)
        BY <1>3, <2>2, <2>3, <3>1 DEF RowStep, SentRow
      <3> QED BY <3>4, <3>5, <3>8, <3>9 DEF KeepsRow
    <2> QED BY <2>1, <2>4, <2>5, <2>6, OthersRest DEF Rests
  <1> QED BY <1>6, <1>7 DEF Send

\* The finish of the step in flight, whether the steps behind it stay
\* reserved or are cancelled with it.
LEMMA FinishRow ==
    ASSUME Inv, NEW e \in Executions, task[e].pc = "finish",
           step[Now(e)] = "dispatching",
           NEW st \in {"succeeded", "failed", "unknown"},
           NEW usage \in {None, task[e].usage},
           NEW now \in [StepsOf(e) -> StepStates], now[Now(e)] = st,
           \A s \in StepsOf(e) :
               s # Now(e) => now[s] = step[s] \/ now[s] = Closed(e)[s],
           Book(e, now, usage), UNCHANGED <<deleted, seenVars>>
    PROVE  /\ step' \in [Steps -> StepStates]
           /\ charge' \in [Steps -> Nat \union {None}]
           /\ toolCall' \in [Steps -> {"none", "running", "succeeded", "failed", "timed_out"}]
           /\ \A s \in Steps : s \notin StepsOf(e) =>
                  /\ step'[s] = step[s] /\ charge'[s] = charge[s]
                  /\ toolCall'[s] = toolCall[s]
           /\ FinishedRow(e)
           /\ \A s \in StepsOf(e) :
                  /\ StepInv(s)' /\ step'[s] = now[s] /\ step'[s] # "dispatching"
                  /\ s[2] < task[e].at => step'[s] = "succeeded"
           /\ \A s, r \in StepsOf(e) :
                  step'[s] \in Begun /\ r[2] < s[2] => step'[r] = "succeeded"
  <1>1. /\ TypeInv /\ RowInv(e) /\ TaskInv(e)
        /\ \A s \in StepsOf(e) : StepInv(s)
    BY InvOf
  <1>2. /\ task[e] \in Tasks /\ Now(e) \in StepsOf(e) /\ Now(e) \in Steps
        /\ Now(e)[2] = task[e].at
    <2>1. task[e].pc \in Taken
      BY DEF Taken, Places
    <2> QED BY <1>1, <2>1, TaskFacts
  <1>3. usage \in Nat \union {None}
    BY <1>2 DEF Tasks
  <1>4. /\ step' \in [Steps -> StepStates]
        /\ charge' \in [Steps -> Nat \union {None}]
        /\ toolCall' \in [Steps -> {"none", "running", "succeeded", "failed", "timed_out"}]
        /\ \A s \in Steps : s \notin StepsOf(e) =>
               /\ step'[s] = step[s] /\ charge'[s] = charge[s]
               /\ toolCall'[s] = toolCall[s]
    BY <1>1, <1>3, BookRow
  <1>5. ASSUME NEW s \in StepsOf(e)
        PROVE  /\ step'[s] = now[s]
               /\ charge'[s] = IF step[s] \in OpenStep /\ now[s] \notin OpenStep
                               THEN Kept(s, now[s], usage) ELSE charge[s]
               /\ toolCall'[s] = IF /\ step[s] = "dispatching"
                                    /\ now[s] \notin OpenStep /\ IsSearch(s)
                                 THEN ToolState(now[s]) ELSE toolCall[s]
    BY <1>1, <1>3, BookRow
  <1>6. \A s \in StepsOf(e) :
           /\ s \in Steps /\ s = <<e, s[2]>> /\ s[2] \in Nat
           /\ s[2] < task[e].at => step[s] = "succeeded" /\ s # Now(e)
           /\ s[2] > task[e].at => step[s] \notin Begun
           /\ s[2] = task[e].at => s = Now(e)
    <2>1. \A s \in StepsOf(e) : s \in Steps /\ s = <<e, s[2]>> /\ s[2] \in Nat
      BY StepShape
    <2>2. \A s \in StepsOf(e) : s[2] < task[e].at => step[s] = "succeeded"
      BY <1>1, <1>2, <2>1 DEF RowInv, Begun
    <2>3. \A s \in StepsOf(e) : s[2] > task[e].at => step[s] \notin Begun
      BY <1>1, <1>2, <2>1 DEF RowInv
    <2> QED BY <1>2, <2>1, <2>2, <2>3 DEF Now
  <1>7. \A s \in StepsOf(e) : s # Now(e) => step[s] # "dispatching"
    <2>1. task[e].at \in Nat
      BY <1>2 DEF Tasks
    <2> QED BY <1>6, <2>1 DEF Begun
  <1>8. ASSUME NEW s \in StepsOf(e), s # Now(e)
        PROVE  \/ /\ step'[s] = step[s] /\ charge'[s] = charge[s]
                  /\ toolCall'[s] = toolCall[s]
               \/ /\ step[s] = "reserved" /\ step'[s] = "cancelled" /\ charge'[s] = 0
                  /\ toolCall'[s] = toolCall[s]
    <2>1. step[s] # "dispatching"
      BY <1>7, <1>8
    <2>2. now[s] = step[s] \/ (step[s] = "reserved" /\ now[s] = "cancelled")
      BY <1>8, <2>1 DEF Closed
    <2> QED BY <1>5, <2>1, <2>2 DEF Kept, OpenStep
  <1>9. /\ step'[Now(e)] = st
        /\ charge'[Now(e)] = IF st = "succeeded" /\ usage # None
                             THEN usage ELSE Price(Now(e))
        /\ IsSearch(Now(e)) => toolCall'[Now(e)] # "running"
    <2>1. st \notin OpenStep
      BY DEF OpenStep
    <2>2. /\ step'[Now(e)] = st
          /\ charge'[Now(e)] = Kept(Now(e), st, usage)
          /\ IsSearch(Now(e)) => toolCall'[Now(e)] = ToolState(st)
      BY <1>2, <1>5, <2>1 DEF OpenStep
    <2> QED BY <2>2 DEF Kept, ToolState
  <1>10. FinishedRow(e)
    BY <1>8, <1>9 DEF FinishedRow, seenVars
  <1>11. ASSUME NEW s \in StepsOf(e) PROVE StepInv(s)'
    <2>1. StepInv(s) /\ None \notin Nat /\ Price(s) \in Nat
      BY <1>1, <1>6, StepShape, ExecutionAssumption
    <2>2. sends' = sends
      BY DEF seenVars
    <2>3. CASE s = Now(e)
      <3>1. step[s] = "dispatching" /\ sends[s] <= 1
        BY <2>1, <2>3 DEF StepInv
      <3>2. charge'[s] \in Nat /\ (st \in {"failed", "unknown"} => charge'[s] = Price(s))
        BY <1>3, <1>9, <2>1, <2>3
      <3>3. /\ step'[s] = st /\ (IsSearch(s) => toolCall'[s] # "running")
            /\ step'[s] \in {"succeeded", "failed", "unknown"} /\ sends'[s] <= 1
        BY <1>9, <2>2, <2>3, <3>1
      <3> QED BY <2>1, <3>2, <3>3 DEF StepInv, Begun, OpenStep
    <2>4. CASE s # Now(e)
      <3>1. CASE /\ step'[s] = step[s] /\ charge'[s] = charge[s]
                 /\ toolCall'[s] = toolCall[s]
        BY <2>1, <2>2, <3>1 DEF StepInv
      <3>2. CASE /\ step[s] = "reserved" /\ step'[s] = "cancelled" /\ charge'[s] = 0
                 /\ toolCall'[s] = toolCall[s]
        BY <2>1, <2>2, <3>2 DEF StepInv, Begun, OpenStep
      <3> QED BY <1>8, <2>4, <3>1, <3>2
    <2> QED BY <2>3, <2>4
  <1>12. \A s \in StepsOf(e) :
            /\ step'[s] # "dispatching"
            /\ s[2] < task[e].at => step'[s] = "succeeded"
            /\ step'[s] \in Begun => s = Now(e) \/ step[s] \in Begun
    BY <1>6, <1>7, <1>8, <1>9 DEF Begun
  <1>13. ASSUME NEW s \in StepsOf(e), NEW r \in StepsOf(e),
                step'[s] \in Begun, r[2] < s[2]
         PROVE  step'[r] = "succeeded"
    <2>1. task[e].at \in Nat /\ s[2] \in Nat /\ r[2] \in Nat
      BY <1>2, <1>6 DEF Tasks
    <2>2. s[2] <= task[e].at
      BY <1>2, <1>6, <1>12, <1>13, <2>1
    <2> QED BY <1>12, <1>13, <2>1, <2>2
  <1> QED BY <1>4, <1>5, <1>10, <1>11, <1>12, <1>13

\* finish_model_execution_step.
LEMMA FinishStep ==
    ASSUME Inv, NEW e \in Executions, Finish(e)
    PROVE  Keeps
  <1>1. /\ TypeInv /\ RowInv(e) /\ TaskInv(e)
        /\ \A s \in StepsOf(e) : StepInv(s)
    BY InvOf
  <1>2. /\ task[e].pc = "finish" /\ ~deleted /\ deleted' = deleted
        /\ UNCHANGED <<day, confVars, server, call, faults, seenVars>>
    BY DEF Finish, At, confVars
  <1>3. call' = call /\ call \in [Servers -> [Executions -> {"none", "asked", "approve"}]]
    BY <1>1, <1>2 DEF TypeInv
  <1>4. /\ task[e] \in Tasks /\ task[e].at <= Searches[e]
        /\ Now(e) \in StepsOf(e) /\ Now(e) \in Steps /\ Now(e)[2] = task[e].at
        /\ task[e].at \in Nat
    <2>1. task[e].pc \in Taken
      BY <1>2 DEF Taken, Places
    <2>2. task[e] \in Tasks
      BY <1>1 DEF TypeInv
    <2> QED BY <1>1, <2>1, <2>2, TaskFacts DEF Tasks
  <1>5. CASE Stop(e) /\ (Expire(e) \/ Nothing)
    <2>1. RowTypes' /\ \A f \in Executions : SameRow(f) \/ EndedRow(f)
      <3>1. CASE Expire(e)
        BY <1>1, <1>2, <3>1, ExpireRow
      <3>2. CASE Nothing
        <4>1. RowTypes'
          BY <1>1, <3>2 DEF Nothing, rowVars, bookVars, RowTypes, TypeInv
        <4> QED BY <1>2, <3>2, <4>1, NothingSame DEF Nothing
      <3> QED BY <1>5, <3>1, <3>2
    <2>2. /\ task' \in [Executions -> Tasks]
          /\ \A f \in Executions : TaskRests(f)
      BY <1>1, <1>5, StopSet
    <2>3. TypeInv'
      BY <1>1, <1>2, <1>3, <2>1, <2>2, TypesAfter
    <2> QED BY <2>1, <2>2, <2>3, AllRest DEF Rests
  <1>6. ASSUME step[Now(e)] = "dispatching"
        PROVE  Status(e) \in Active
    BY <1>1, <1>4, <1>6 DEF RowInv, OpenStep
  <1>7. ASSUME step[Now(e)] = "dispatching", NEW hits \in BOOLEAN,
               IsSearch(Now(e)), Succeed(e, hits)
        PROVE  Keeps
    <2> DEFINE now == [s \in StepsOf(e) |-> IF s = Now(e) THEN "succeeded" ELSE step[s]]
    <2>1. /\ Book(e, now, task[e].usage)
          /\ exec' = [exec EXCEPT ![e].evidence = @ \/ hits]
          /\ task' = [task EXCEPT ![e] = [NoTask EXCEPT !.pc = "claim",
                          !.server = task[e].server, !.at = task[e].at + 1]]
      BY <1>7 DEF Succeed
    <2>2. /\ now \in [StepsOf(e) -> StepStates] /\ now[Now(e)] = "succeeded"
          /\ \A s \in StepsOf(e) : s # Now(e) => now[s] = step[s]
      BY <1>1, <1>4, StepShape DEF TypeInv, StepStates
    <2> HIDE DEF now
    <2>3. /\ step' \in [Steps -> StepStates]
          /\ charge' \in [Steps -> Nat \union {None}]
          /\ toolCall' \in [Steps -> {"none", "running", "succeeded", "failed", "timed_out"}]
          /\ \A s \in Steps : s \notin StepsOf(e) =>
                 /\ step'[s] = step[s] /\ charge'[s] = charge[s]
                 /\ toolCall'[s] = toolCall[s]
          /\ FinishedRow(e)
          /\ \A s \in StepsOf(e) :
                 /\ StepInv(s)' /\ step'[s] = now[s] /\ step'[s] # "dispatching"
                 /\ s[2] < task[e].at => step'[s] = "succeeded"
          /\ \A s, r \in StepsOf(e) :
                 step'[s] \in Begun /\ r[2] < s[2] => step'[r] = "succeeded"
      BY <1>2, <1>7, <2>1, <2>2, FinishRow
    <2>4. /\ exec'[e] \in ExecRows /\ exec'[e].status = exec[e].status
      <3>1. exec[e] \in ExecRows
            /\ exec'[e] = [exec[e] EXCEPT !.evidence = exec[e].evidence \/ hits]
        BY <1>1, <2>1 DEF TypeInv
      <3>2. (exec[e].evidence \/ hits) \in BOOLEAN
        OBVIOUS
      <3> QED BY <3>1, <3>2 DEF ExecRows
    <2>5. \A f \in Executions \ {e} : exec'[f] = exec[f] /\ task'[f] = task[f]
      BY <1>1, <2>1 DEF TypeInv
    <2>6. exec' \in [Executions -> ExecRows]
      BY <1>1, <2>1, <2>4, <2>5 DEF TypeInv
    <2>7. /\ task'[e].pc = "claim" /\ task'[e].at = task[e].at + 1
          /\ task'[e].usage = None /\ task'[e] \in Tasks
      <3>1. task'[e] = [pc |-> "claim", server |-> task[e].server, at |-> task[e].at + 1,
                        outcome |-> None, usage |-> None]
        BY <1>1, <2>1 DEF TypeInv, NoTask
      <3> QED BY <1>4, <3>1 DEF Tasks, Places
    <2>8. task' \in [Executions -> Tasks]
      BY <1>1, <2>1, <2>5, <2>7 DEF TypeInv
    <2>9. TypeInv'
      <3>1. RowTypes'
        BY <2>3, <2>6 DEF RowTypes
      <3> QED BY <1>1, <1>2, <1>3, <2>8, <3>1, TypesAfter
    <2>10. \A f \in Executions \ {e} : Rests(f)
      BY <1>2, <2>3, <2>5, Disjoint DEF Rests, SameRow, TaskRests, Status, seenVars
    <2>11. Status(e)' = Status(e) /\ Status(e) \in Active
      BY <1>6, <1>7, <2>4 DEF Status
    <2>12. RowInv(e)'
      BY <2>3, <2>11 DEF RowInv, Active
    <2>13. task[e].at + 1 <= Searches[e]
      BY <1>4, <1>7, StepShape DEF IsSearch, Now
    <2>14. TaskInv(e)'
      BY <2>7, <2>11, <2>13 DEF TaskInv, Taken, Unsent, Sent, Active
    <2>15. KeepsRow(e)
      BY <2>3, <2>12, <2>14 DEF KeepsRow, RowStep
    <2> QED BY <2>9, <2>10, <2>15, OthersRest
  <1>8. ASSUME step[Now(e)] = "dispatching",
               NEW st \in {"succeeded", "failed", "unknown"}, NEW status \in Ended,
               NEW usage \in {None, task[e].usage},
               status = "succeeded" => st = "succeeded" /\ ~IsSearch(Now(e)),
               Conclusion(e, st, status, usage)
        PROVE  Keeps
    <2> DEFINE now == [Closed(e) EXCEPT ![Now(e)] = st]
    <2>1. Book(e, now, usage) /\ Row(e, status) /\ Stop(e)
      BY <1>8 DEF Conclusion
    <2>2. /\ now \in [StepsOf(e) -> StepStates] /\ now[Now(e)] = st
          /\ \A s \in StepsOf(e) : s # Now(e) => now[s] = Closed(e)[s]
          /\ \A s \in StepsOf(e) : now[s] \notin OpenStep
      <3>1. st \in StepStates /\ st \notin OpenStep
        BY DEF StepStates, OpenStep
      <3> QED BY <1>1, <1>4, <3>1, ClosedType
    <2> HIDE DEF now
    <2>3. /\ step' \in [Steps -> StepStates]
          /\ charge' \in [Steps -> Nat \union {None}]
          /\ toolCall' \in [Steps -> {"none", "running", "succeeded", "failed", "timed_out"}]
          /\ \A s \in Steps : s \notin StepsOf(e) =>
                 /\ step'[s] = step[s] /\ charge'[s] = charge[s]
                 /\ toolCall'[s] = toolCall[s]
          /\ FinishedRow(e)
          /\ \A s \in StepsOf(e) :
                 /\ StepInv(s)' /\ step'[s] = now[s] /\ step'[s] # "dispatching"
                 /\ s[2] < task[e].at => step'[s] = "succeeded"
          /\ \A s, r \in StepsOf(e) :
                 step'[s] \in Begun /\ r[2] < s[2] => step'[r] = "succeeded"
      BY <1>2, <1>8, <2>1, <2>2, FinishRow
    <2>4. /\ exec' \in [Executions -> ExecRows] /\ Status(e)' = status
          /\ \A f \in Executions \ {e} : exec'[f] = exec[f]
      BY <1>1, <2>1, RowSet
    <2>5. /\ task' \in [Executions -> Tasks] /\ task'[e] = NoTask
          /\ \A f \in Executions : TaskRests(f)
      BY <1>1, <2>1, StopSet
    <2>6. TypeInv'
      <3>1. RowTypes'
        BY <2>3, <2>4 DEF RowTypes
      <3> QED BY <1>1, <1>2, <1>3, <2>5, <3>1, TypesAfter
    <2>7. \A f \in Executions \ {e} : Rests(f)
      BY <1>2, <2>3, <2>4, <2>5, Disjoint DEF Rests, SameRow, Status, seenVars
    <2>8. ASSUME status = "succeeded", NEW s \in StepsOf(e)
          PROVE  step'[s] = "succeeded"
      <3>1. s[2] \in Nat /\ s[2] <= Searches[e] /\ s = <<e, s[2]>> /\ Searches[e] \in Nat
        BY StepShape
      <3>2. task[e].at = Searches[e]
        BY <1>4, <1>8, <2>8, <3>1 DEF IsSearch, Now
      <3>3. s[2] < task[e].at \/ s = Now(e)
        BY <1>4, <3>1, <3>2 DEF Now
      <3> QED BY <1>8, <2>2, <2>3, <2>8, <3>3
    <2>9. RowInv(e)'
      BY <2>2, <2>3, <2>4, <2>8 DEF RowInv, Ended
    <2>10. TaskInv(e)'
      <3>1. Searches[e] >= 0
        BY StepShape
      <3> QED BY <2>5, <3>1 DEF TaskInv, NoTask, Taken, Unsent, Sent
    <2>11. KeepsRow(e)
      BY <2>3, <2>9, <2>10 DEF KeepsRow, RowStep
    <2> QED BY <2>6, <2>7, <2>11, OthersRest
  <1>9. /\ task[e].outcome \in {"hits", "nothing"} => IsSearch(Now(e))
        /\ task[e].outcome \in {"answered", "insufficient"} => ~IsSearch(Now(e))
    BY <1>1, <1>2 DEF TaskInv
  <1>10. \/ Stop(e) /\ (Expire(e) \/ Nothing)
         \/ /\ step[Now(e)] = "dispatching" /\ task[e].outcome \in {"hits", "nothing"}
            /\ \E hits \in BOOLEAN : Succeed(e, hits)
         \/ /\ step[Now(e)] = "dispatching"
            /\ \/ Conclusion(e, "succeeded", "insufficient_evidence", task[e].usage)
               \/ /\ task[e].outcome = "answered"
                  /\ Conclusion(e, "succeeded", "succeeded", task[e].usage)
               \/ Conclusion(e, "failed", "failed", None)
               \/ Conclusion(e, "unknown", "unknown", None)
    BY DEF Finish
  <1>11. {"insufficient_evidence", "succeeded", "failed", "unknown"} \subseteq Ended
    BY DEF Ended
  <1> QED BY <1>5, <1>7, <1>8, <1>9, <1>10, <1>11

-----------------------------------------------------------------------------
(* The invariant of every behaviour, and what it says.                     *)

LEMMA InitInv == Init => Inv
  <1> SUFFICES ASSUME Init PROVE Inv
    OBVIOUS
  <1>1. NoExec \in ExecRows /\ NoTask \in Tasks /\ 0 \in Days /\ 0 \in 0 .. MaxFaults
    BY ExecutionAssumption DEF NoExec, ExecRows, NoTask, Tasks, Places, Days
  <1>2. TypeInv
    BY <1>1 DEF Init, TypeInv, StepStates, OpenStep
  <1>3. \A s \in Steps : StepInv(s)
    BY DEF Init, StepInv, Begun, OpenStep
  <1>4. \A e \in Executions : RowInv(e) /\ TaskInv(e)
    <2>1. ASSUME NEW e \in Executions PROVE RowInv(e)
      <3>1. \A s \in StepsOf(e) : step[s] = "none"
        BY StepShape DEF Init
      <3>2. Status(e) = "absent"
        BY DEF Init, Status, NoExec
      <3> QED BY <3>1, <3>2 DEF RowInv, Begun, OpenStep
    <2>2. ASSUME NEW e \in Executions PROVE TaskInv(e)
      <3>1. task[e] = NoTask /\ Searches[e] >= 0
        BY StepShape DEF Init
      <3> QED BY <3>1 DEF TaskInv, NoTask, Taken, Unsent, Sent
    <2> QED BY <2>1, <2>2
  <1> QED BY <1>2, <1>3, <1>4 DEF Inv

LEMMA NextKeeps ==
    ASSUME Inv, Next
    PROVE  Keeps
  <1>1. CASE \/ NewDay \/ PricesLapse \/ OperatorDisables \/ AppendMessage
             \/ \E e \in Executions : Lapse(e)
    BY <1>1, TimeStep
  <1>2. CASE DeleteConversation
    BY <1>2, DeleteStep
  <1>3. ASSUME NEW e \in Executions, Touch(e) \/ Cancel(e) PROVE Keeps
    BY <1>3, TouchStep
  <1>4. ASSUME NEW e \in Executions, Run(e) PROVE Keeps
    BY <1>4, ClaimStep, RecheckStep, MoveStep, SendStep, FinishStep DEF Run
  <1>5. ASSUME NEW p \in Servers, NEW e \in Executions, Create(p, e) \/ Approve(p, e)
        PROVE  Keeps
    BY <1>5, CreateStep, ApproveStep
  <1>6. CASE \/ \E p \in Servers, e \in Executions :
                    Call(p, e) \/ Ready(p, e) \/ HangUp(p, e)
             \/ \E p \in Servers : PlanningHalts(p) \/ Start(p) \/ Crash(p)
    BY <1>6, CallStep
  <1> QED BY <1>1, <1>2, <1>3, <1>4, <1>5, <1>6 DEF Next

LEMMA StutterKeeps ==
    ASSUME Inv, UNCHANGED vars
    PROVE  Keeps
  <1>1. TypeInv
    BY DEF Inv
  <1>2. /\ rowVars' = rowVars /\ seenVars' = seenVars /\ deleted' = deleted
        /\ task' = task
    BY DEF vars, confVars, processVars
  <1>3. TypeInv'
    BY <1>1 DEF TypeInv, vars, confVars, rowVars, bookVars, processVars, seenVars
  <1>4. \A e \in Executions : SameRow(e) /\ TaskRests(e)
    BY <1>2, NothingSame DEF TaskRests
  <1> QED BY <1>3, <1>4, AllRest DEF Rests

LEMMA StepKeeps == Inv /\ [Next]_vars => Keeps
  BY NextKeeps, StutterKeeps

\* Keeps is the invariant of the next state.
LEMMA KeepsInv == Keeps => Inv'
  <1> SUFFICES ASSUME Keeps PROVE Inv'
    OBVIOUS
  <1>1. TypeInv'
    BY DEF Keeps
  <1>2. \A e \in Executions : RowInv(e)' /\ TaskInv(e)'
    BY DEF Keeps, KeepsRow
  <1>3. ASSUME NEW s \in Steps PROVE StepInv(s)'
    <2>1. s[1] \in Executions /\ s \in StepsOf(s[1])
      BY StepShape
    <2> QED BY <2>1 DEF Keeps, KeepsRow
  <1> QED BY <1>1, <1>2, <1>3 DEF Inv

THEOREM Invariance == Spec => []Inv
  <1>1. Init => Inv
    BY InitInv
  <1>2. Inv /\ [Next]_vars => Inv'
    BY StepKeeps, KeepsInv
  <1> QED BY <1>1, <1>2, PTL DEF Spec

\* The steps of an execution are made in their order (claim and finish of
\* model_execution.rs): what succeeded is a prefix, one step is in flight,
\* nothing is sent ahead of it, and the answer only on evidence.
THEOREM StepsInOrderHolds == Spec => []StepsInOrder
  <1>1. Inv => StepsInOrder
    <2> SUFFICES ASSUME Inv, NEW e \in Executions, NEW s \in StepsOf(e)
                 PROVE  /\ step[s] \in {"dispatching", "failed", "unknown"} \/ sends[s] > 0 =>
                               \A r \in StepsOf(e) : r[2] < s[2] => step[r] = "succeeded"
                        /\ step[s] \in OpenStep => Status(e) \in Active
                        /\ Status(e) = "succeeded" => step[s] = "succeeded"
                        /\ step[s] = "dispatching" /\ ~IsSearch(s) => exec[e].evidence
                        /\ IsSearch(s) => (toolCall[s] = "running") = (step[s] = "dispatching")
      BY DEF StepsInOrder
    <2>1. RowInv(e) /\ StepInv(s) /\ TypeInv /\ s \in Steps
      BY InvOf, StepShape
    <2>2. step[s] \in {"dispatching", "failed", "unknown"} \/ sends[s] > 0 => step[s] \in Begun
      BY <2>1 DEF StepInv, Begun, TypeInv
    <2> QED BY <2>1, <2>2 DEF RowInv, StepInv
  <1> QED BY <1>1, Invariance, PTL

-----------------------------------------------------------------------------
(* Every step of an execution is one call of module OneShotCall.           *)

BoundOf(s) == IF step[s] = "none" THEN 0 ELSE Price(s)
ChargeKept(s) == IF charge[s] = None THEN 0 ELSE charge[s]

\* The steps of the contract, for one call.
LEMMA Simulates ==
    ASSUME NEW s,
           \/ /\ Phase(s)' = Phase(s) /\ BoundOf(s)' = BoundOf(s)
              /\ ChargeKept(s)' = ChargeKept(s)
              /\ sends'[s] = sends[s] /\ billed'[s] = billed[s]
           \/ /\ Phase(s) = "absent" /\ Phase(s)' = "reserved"
              /\ BoundOf(s)' \in {EmbedCost, AnswerCost}
              /\ ChargeKept(s)' = ChargeKept(s)
              /\ sends'[s] = sends[s] /\ billed'[s] = billed[s]
           \/ /\ Phase(s) = "reserved" /\ Phase(s)' \in {"withdrawn", "taken"}
              /\ BoundOf(s)' = BoundOf(s) /\ ChargeKept(s)' = ChargeKept(s)
              /\ sends'[s] = sends[s] /\ billed'[s] = billed[s]
           \/ /\ Phase(s) \in {"taken", "closed"} /\ Phase(s)' = Phase(s)
              /\ BoundOf(s)' = BoundOf(s) /\ ChargeKept(s)' = ChargeKept(s)
              /\ ~(sends[s] > 0) /\ sends'[s] > 0
              /\ billed'[s] \in UNION {Billable(r) : r \in Steps}
           \/ /\ Phase(s) = "taken" /\ Phase(s)' = "closed"
              /\ BoundOf(s)' = BoundOf(s)
              /\ \/ ChargeKept(s)' = BoundOf(s)
                 \/ /\ sends[s] > 0 /\ billed[s] <= BoundOf(s)
                    /\ ChargeKept(s)' = billed[s]
              /\ sends'[s] = sends[s] /\ billed'[s] = billed[s]
    PROVE  [StepCall(s)!Next]_(StepCall(s)!vars)
  <1> USE DEF StepCall!Next, StepCall!vars
  <1>1. CASE /\ Phase(s)' = Phase(s) /\ BoundOf(s)' = BoundOf(s)
             /\ ChargeKept(s)' = ChargeKept(s)
             /\ sends'[s] = sends[s] /\ billed'[s] = billed[s]
    <2>1. UNCHANGED StepCall(s)!vars
      BY <1>1 DEF BoundOf, ChargeKept
    <2> QED BY <2>1
  <1>2. CASE /\ Phase(s) = "absent" /\ Phase(s)' = "reserved"
             /\ BoundOf(s)' \in {EmbedCost, AnswerCost}
             /\ ChargeKept(s)' = ChargeKept(s)
             /\ sends'[s] = sends[s] /\ billed'[s] = billed[s]
    <2>1. StepCall(s)!Reserve(s)
      BY <1>2 DEF StepCall!Reserve, BoundOf, ChargeKept
    <2> QED BY <2>1
  <1>3. CASE /\ Phase(s) = "reserved" /\ Phase(s)' \in {"withdrawn", "taken"}
             /\ BoundOf(s)' = BoundOf(s) /\ ChargeKept(s)' = ChargeKept(s)
             /\ sends'[s] = sends[s] /\ billed'[s] = billed[s]
    <2>1. StepCall(s)!Withdraw(s) \/ StepCall(s)!Take(s)
      BY <1>3 DEF StepCall!Withdraw, StepCall!Take, BoundOf, ChargeKept
    <2> QED BY <2>1
  <1>4. CASE /\ Phase(s) \in {"taken", "closed"} /\ Phase(s)' = Phase(s)
             /\ BoundOf(s)' = BoundOf(s) /\ ChargeKept(s)' = ChargeKept(s)
             /\ ~(sends[s] > 0) /\ sends'[s] > 0
             /\ billed'[s] \in UNION {Billable(r) : r \in Steps}
    <2>1. StepCall(s)!Call(s)
      BY <1>4 DEF StepCall!Call, BoundOf, ChargeKept
    <2> QED BY <2>1
  <1>5. CASE /\ Phase(s) = "taken" /\ Phase(s)' = "closed"
             /\ BoundOf(s)' = BoundOf(s)
             /\ \/ ChargeKept(s)' = BoundOf(s)
                \/ /\ sends[s] > 0 /\ billed[s] <= BoundOf(s)
                   /\ ChargeKept(s)' = billed[s]
             /\ sends'[s] = sends[s] /\ billed'[s] = billed[s]
    <2>1. StepCall(s)!Close(s)
      BY <1>5 DEF StepCall!Close, BoundOf, ChargeKept
    <2> QED BY <2>1
  <1> QED BY <1>1, <1>2, <1>3, <1>4, <1>5

\* Each step of an execution is one call of the contract, in whatever order
\* answers, cancellations, expiries and deletions arrive.
THEOREM RefinesOneShotCall == Spec => StepCallSpec
  <1>1. Init => \A s \in Steps : StepCall(s)!Init
    <2> SUFFICES ASSUME Init, NEW s \in Steps PROVE StepCall(s)!Init
      OBVIOUS
    <2>1. /\ step[s] = "none" /\ charge[s] = None /\ ~(sends[s] > 0)
          /\ billed[s] = 0 /\ Phase(s) = "absent"
      BY DEF Init, Phase
    <2>2. /\ [r \in {s} |-> Phase(r)] = [c \in {s} |-> "absent"]
          /\ [r \in {s} |-> IF step[r] = "none" THEN 0 ELSE Price(r)] = [c \in {s} |-> 0]
          /\ [r \in {s} |-> sends[r] > 0] = [c \in {s} |-> FALSE]
          /\ [r \in {s} |-> billed[r]] = [c \in {s} |-> 0]
          /\ [r \in {s} |-> IF charge[r] = None THEN 0 ELSE charge[r]] = [c \in {s} |-> 0]
      <3>1. \A r \in {s} :
               /\ Phase(r) = "absent" /\ billed[r] = 0
               /\ (IF step[r] = "none" THEN 0 ELSE Price(r)) = 0
               /\ (IF charge[r] = None THEN 0 ELSE charge[r]) = 0
        BY <2>1
      <3>2. \A r \in {s} : (sends[r] > 0) = FALSE
        BY <2>1
      <3> HIDE DEF Phase, Price
      <3>3. [r \in {s} |-> sends[r] > 0] = [c \in {s} |-> FALSE]
        BY <3>2, Zenon
      <3> QED BY <3>1, <3>3
    <2> QED BY <2>2 DEF StepCall!Init
  <1>2. Inv /\ [Next]_vars =>
            \A s \in Steps : [StepCall(s)!Next]_(StepCall(s)!vars)
    <2> SUFFICES ASSUME Inv, [Next]_vars, NEW s \in Steps
                 PROVE  [StepCall(s)!Next]_(StepCall(s)!vars)
      OBVIOUS
    <2> DEFINE e == s[1]
    <2>1. e \in Executions /\ s \in StepsOf(e)
      BY StepShape
    <2> HIDE DEF e
    <2>2. /\ TypeInv /\ StepInv(s) /\ TaskInv(e) /\ None \notin Nat
          /\ Price(s) \in Nat /\ Price(s) \in {EmbedCost, AnswerCost}
          /\ step[s] \in StepStates /\ sends[s] \in Nat
      BY <2>1, InvOf, StepShape, ExecutionAssumption DEF TypeInv, Price
    <2>3. /\ RowStep(e) /\ StepInv(s)' /\ TypeInv'
      BY <2>1, StepKeeps DEF Keeps, KeepsRow
    <2>4. Price(s)' = Price(s)
      BY DEF Price
    <2>5. CASE SameSteps(e)
      BY <2>1, <2>4, <2>5, Simulates DEF SameSteps, Phase, BoundOf, ChargeKept
    <2>6. CASE EndedRow(e)
      <3>1. /\ step'[s] = Closed(e)[s] /\ sends'[s] = sends[s] /\ billed'[s] = billed[s]
            /\ charge'[s] = CASE step[s] = "reserved" -> 0
                              [] step[s] = "dispatching" -> Price(s)
                              [] OTHER -> charge[s]
        BY <2>1, <2>6 DEF EndedRow
      <3>2. step'[s] = CASE step[s] = "reserved" -> "cancelled"
                         [] step[s] = "dispatching" -> "unknown"
                         [] OTHER -> step[s]
        BY <2>1, <3>1 DEF Closed
      <3>3. CASE step[s] = "reserved"
        <4>1. /\ Phase(s) = "reserved" /\ Phase(s)' = "withdrawn"
              /\ BoundOf(s)' = BoundOf(s) /\ ChargeKept(s)' = ChargeKept(s)
          BY <2>2, <2>4, <3>1, <3>2, <3>3
             DEF Phase, BoundOf, ChargeKept, StepInv, OpenStep
        <4> QED BY <3>1, <4>1, Simulates
      <3>4. CASE step[s] = "dispatching"
        <4>1. /\ Phase(s) = "taken" /\ Phase(s)' = "closed"
              /\ BoundOf(s)' = BoundOf(s) /\ ChargeKept(s)' = BoundOf(s)
          BY <2>2, <2>4, <3>1, <3>2, <3>4
             DEF Phase, BoundOf, ChargeKept, StepInv, OpenStep
        <4> QED BY <3>1, <4>1, Simulates
      <3>5. CASE step[s] \notin OpenStep
        <4>1. /\ Phase(s)' = Phase(s)
              /\ BoundOf(s)' = BoundOf(s) /\ ChargeKept(s)' = ChargeKept(s)
          BY <2>4, <3>1, <3>2, <3>5 DEF Phase, BoundOf, ChargeKept, OpenStep
        <4> QED BY <3>1, <4>1, Simulates
      <3> QED BY <3>3, <3>4, <3>5 DEF OpenStep
    <2>7. CASE ReservedRow(e)
      <3>1. /\ step[s] = "none" /\ step'[s] = "reserved" /\ charge'[s] = charge[s]
            /\ sends'[s] = sends[s] /\ billed'[s] = billed[s]
        BY <2>1, <2>7 DEF ReservedRow
      <3>2. /\ Phase(s) = "absent" /\ Phase(s)' = "reserved"
            /\ BoundOf(s)' \in {EmbedCost, AnswerCost}
            /\ ChargeKept(s)' = ChargeKept(s)
        BY <2>2, <2>4, <3>1 DEF Phase, BoundOf, ChargeKept
      <3> QED BY <3>1, <3>2, Simulates
    <2>8. CASE ClaimedRow(e)
      <3>1. /\ \/ step[s] = "reserved" /\ step'[s] = "dispatching"
               \/ step'[s] = step[s]
            /\ charge'[s] = charge[s]
            /\ sends'[s] = sends[s] /\ billed'[s] = billed[s]
        BY <2>1, <2>8 DEF ClaimedRow
      <3>2. CASE step[s] = "reserved" /\ step'[s] = "dispatching"
        <4>1. /\ Phase(s) = "reserved" /\ Phase(s)' = "taken"
              /\ BoundOf(s)' = BoundOf(s) /\ ChargeKept(s)' = ChargeKept(s)
          BY <2>4, <3>1, <3>2 DEF Phase, BoundOf, ChargeKept
        <4> QED BY <3>1, <4>1, Simulates
      <3>3. CASE step'[s] = step[s]
        BY <2>4, <3>1, <3>3, Simulates DEF Phase, BoundOf, ChargeKept
      <3> QED BY <3>1, <3>2, <3>3
    <2>9. CASE SentRow(e)
      <3>1. step'[s] = step[s] /\ charge'[s] = charge[s]
        BY <2>1, <2>9 DEF SentRow
      <3>2. /\ Phase(s)' = Phase(s) /\ BoundOf(s)' = BoundOf(s)
            /\ ChargeKept(s)' = ChargeKept(s)
        BY <2>4, <3>1 DEF Phase, BoundOf, ChargeKept
      <3>3. CASE s = Now(e)
        <4>1. /\ step[s] \in {"dispatching", "unknown"}
              /\ sends[s] = 0 /\ sends'[s] = 1 /\ billed'[s] \in Billable(s)
          BY <2>1, <2>9, <3>3 DEF SentRow
        <4>2. Phase(s) \in {"taken", "closed"}
          BY <4>1 DEF Phase
        <4>3. billed'[s] \in UNION {Billable(r) : r \in Steps}
          BY <4>1
        <4>4. ~(sends[s] > 0) /\ sends'[s] > 0
          BY <4>1
        <4> QED BY <3>2, <4>2, <4>3, <4>4, Simulates
      <3>4. CASE s # Now(e)
        <4>1. sends'[s] = sends[s] /\ billed'[s] = billed[s]
          BY <2>1, <2>9, <3>4 DEF SentRow
        <4> QED BY <3>2, <4>1, Simulates
      <3> QED BY <3>3, <3>4
    <2>10. CASE FinishedRow(e)
      <3>1. sends'[s] = sends[s] /\ billed'[s] = billed[s]
        BY <2>1, <2>10 DEF FinishedRow
      <3>2. CASE s = Now(e)
        <4>1. /\ step[s] = "dispatching"
              /\ step'[s] \in {"succeeded", "failed", "unknown"}
              /\ \/ charge'[s] = Price(s)
                 \/ task[e].usage # None /\ charge'[s] = task[e].usage
          BY <2>1, <2>10, <3>2 DEF FinishedRow
        <4>2. /\ Phase(s) = "taken" /\ Phase(s)' = "closed"
              /\ BoundOf(s) = Price(s) /\ BoundOf(s)' = BoundOf(s)
          BY <2>4, <4>1 DEF Phase, BoundOf
        <4>3. charge'[s] # None
          BY <2>3, <4>1 DEF StepInv, OpenStep
        <4>4. ChargeKept(s)' = charge'[s]
          BY <4>3 DEF ChargeKept
        <4>5. task[e].usage # None =>
                 sends[s] > 0 /\ task[e].usage = billed[s] /\ task[e].usage <= Price(s)
          BY <2>2, <3>2 DEF TaskInv
        <4> QED BY <3>1, <4>1, <4>2, <4>4, <4>5, Simulates
      <3>3. CASE s # Now(e)
        <4>1. \/ step'[s] = step[s] /\ charge'[s] = charge[s]
              \/ step[s] = "reserved" /\ step'[s] = "cancelled" /\ charge'[s] = 0
          BY <2>1, <2>10, <3>3 DEF FinishedRow
        <4>2. CASE step'[s] = step[s] /\ charge'[s] = charge[s]
          BY <2>4, <3>1, <4>2, Simulates DEF Phase, BoundOf, ChargeKept
        <4>3. CASE step[s] = "reserved" /\ step'[s] = "cancelled" /\ charge'[s] = 0
          <5>1. charge[s] = None
            BY <2>2, <4>3 DEF StepInv, OpenStep
          <5>2. /\ Phase(s) = "reserved" /\ Phase(s)' = "withdrawn"
                /\ BoundOf(s)' = BoundOf(s) /\ ChargeKept(s)' = ChargeKept(s)
            BY <2>2, <2>4, <4>3, <5>1 DEF Phase, BoundOf, ChargeKept
          <5> QED BY <3>1, <5>2, Simulates
        <4> QED BY <4>1, <4>2, <4>3
      <3> QED BY <3>2, <3>3
    <2> QED BY <2>3, <2>5, <2>6, <2>7, <2>8, <2>9, <2>10 DEF RowStep
  <1>3. Inv /\ [Next]_vars =>
            [\A s \in Steps : [StepCall(s)!Next]_(StepCall(s)!vars)]_vars
    BY <1>2
  <1> QED BY <1>1, <1>3, Invariance, PTL DEF Spec, StepCallSpec

-----------------------------------------------------------------------------
(* The totals of a day.                                                    *)

\* Totals m, n and k of a day are those of the steps P approved on it, of
\* states st and charges c.
AmountIn(P, c) ==
    [s \in Steps |->
        IF s \in P THEN (IF c[s] = None THEN Price(s) ELSE c[s]) ELSE 0]
CountedIn(P, st) == {s \in P : st[s] # "cancelled"}
SearchedIn(P, st) == {s \in CountedIn(P, st) : IsSearch(s)}

AreTotals(P, st, c, m, n, k) ==
    /\ P \subseteq Steps /\ IsFiniteSet(P)
    /\ IsFiniteSet(UnitsOf(AmountIn(P, c)))
    /\ m = SumOf(AmountIn(P, c))
    /\ n = Cardinality(CountedIn(P, st))
    /\ k = Cardinality(SearchedIn(P, st))

TotalsBooks ==
    /\ money \in [Days -> Nat] /\ models \in [Days -> Nat] /\ tools \in [Days -> Nat]
    /\ ~deleted => \A d \in Days :
           AreTotals(Spent(d), step, charge, money[d], models[d], tools[d])

LEMMA TotalsAre == TotalsInv <=> TotalsBooks
  <1>1. ASSUME NEW d \in Days
        PROVE  /\ Owed(d) = AmountIn(Spent(d), charge)
               /\ Counted(d) = CountedIn(Spent(d), step)
               /\ Searched(d) = SearchedIn(Spent(d), step)
               /\ Spent(d) \subseteq Steps
    BY DEF Owed, AmountIn, Closing, Counted, CountedIn, Searched, SearchedIn, Spent
  <1> QED BY <1>1 DEF TotalsInv, TotalsBooks, AreTotals

\* Totals are natural numbers.
LEMMA TotalsType ==
    ASSUME NEW P, NEW st, NEW c \in [Steps -> Nat \union {None}], NEW m, NEW n, NEW k,
           AreTotals(P, st, c, m, n, k)
    PROVE  m \in Nat /\ n \in Nat /\ k \in Nat
  <1>1. AmountIn(P, c) \in [Steps -> Nat]
    BY StepShape DEF AmountIn
  <1>2. m \in Nat
    BY <1>1, SumOfType DEF AreTotals
  <1>3. CountedIn(P, st) \subseteq P /\ SearchedIn(P, st) \subseteq P
    BY DEF CountedIn, SearchedIn
  <1>4. IsFiniteSet(CountedIn(P, st)) /\ IsFiniteSet(SearchedIn(P, st))
    BY <1>3, FS_Subset DEF AreTotals
  <1> QED BY <1>2, <1>4, FS_CardinalityType DEF AreTotals

\* The steps in closed are settled: the part of the money that is not kept
\* goes back, and the calls of the steps that were never claimed.
Settles(P, closed, st, c, st1, c1) ==
    /\ closed \subseteq P
    /\ \A s \in closed :
           /\ c[s] = None /\ c1[s] \in Nat /\ c1[s] <= Price(s)
           /\ st[s] # "cancelled"
           /\ st1[s] = "cancelled" <=> st[s] = "reserved"
    /\ \A s \in P \ closed :
           /\ c1[s] = c[s]
           /\ st1[s] = "cancelled" <=> st[s] = "cancelled"

GoesBack(closed, c1) == SumOf([s \in closed |-> Price(s) - c1[s]])
Unmade(closed, st) == {s \in closed : st[s] = "reserved"}
Unasked(closed, st) == {s \in Unmade(closed, st) : IsSearch(s)}

LEMMA TotalsClose ==
    ASSUME NEW P, NEW st, NEW c \in [Steps -> Nat \union {None}], NEW m, NEW n, NEW k,
           AreTotals(P, st, c, m, n, k),
           NEW closed, NEW st1, NEW c1 \in [Steps -> Nat \union {None}],
           Settles(P, closed, st, c, st1, c1)
    PROVE  AreTotals(P, st1, c1,
                     m - GoesBack(closed, c1),
                     n - Cardinality(Unmade(closed, st)),
                     k - Cardinality(Unasked(closed, st)))
  <1>0. /\ closed \subseteq P
        /\ \A s \in closed :
               /\ c[s] = None /\ c1[s] \in Nat /\ c1[s] <= Price(s)
               /\ st[s] # "cancelled"
               /\ st1[s] = "cancelled" <=> st[s] = "reserved"
        /\ \A s \in P \ closed :
               /\ c1[s] = c[s]
               /\ st1[s] = "cancelled" <=> st[s] = "cancelled"
    BY DEF Settles
  <1> DEFINE f == AmountIn(P, c)
             g == AmountIn(P, c1)
             h == [s \in Steps |-> IF s \in closed THEN Price(s) - c1[s] ELSE 0]
             back == [s \in closed |-> Price(s) - c1[s]]
             unmade == {s \in closed : st[s] = "reserved"}
             asked == {s \in unmade : IsSearch(s)}
  <1>1. P \subseteq Steps /\ IsFiniteSet(P) /\ closed \subseteq Steps /\ None \notin Nat
    BY <1>0, ExecutionAssumption DEF AreTotals
  <1>2. \A s \in Steps : Price(s) \in Nat
    BY StepShape
  <1>3. f \in [Steps -> Nat] /\ g \in [Steps -> Nat]
    BY <1>2 DEF AmountIn
  <1>4. h \in [Steps -> Nat]
    <2>1. \A a, b \in Nat : b <= a => a - b \in Nat
      OBVIOUS
    <2> QED BY <1>0, <1>1, <1>2, <2>1
  <1>5. \A s \in Steps : f[s] = g[s] + h[s]
    <2>1. ASSUME NEW s \in closed PROVE f[s] = g[s] + h[s]
      <3>1. f[s] = Price(s) /\ g[s] = c1[s] /\ h[s] = Price(s) - c1[s]
        BY <1>0, <1>1 DEF AmountIn
      <3> QED BY <1>0, <1>1, <1>2, <3>1
    <2>2. ASSUME NEW s \in Steps, s \notin closed PROVE f[s] = g[s] + h[s]
      <3>1. f[s] = g[s] /\ h[s] = 0
        BY <1>0, <2>2 DEF AmountIn
      <3> QED BY <1>3, <3>1
    <2> QED BY <2>1, <2>2
  <1>6. IsFiniteSet(UnitsOf(f)) /\ m = SumOf(f)
    BY DEF AreTotals
  <1>7. SumOf(h) = SumOf(back)
    BY <1>1, SumOfPart
  <1> HIDE DEF f, g, h, back
  <1>8. /\ IsFiniteSet(UnitsOf(g)) /\ SumOf(g) \in Nat /\ SumOf(h) \in Nat
        /\ SumOf(f) = SumOf(g) + SumOf(h)
    BY <1>3, <1>4, <1>5, <1>6, SumOfSplit
  <1>9. m - SumOf(back) = SumOf(g)
    BY <1>6, <1>7, <1>8
  <1>10. /\ CountedIn(P, st) = CountedIn(P, st1) \cup unmade
         /\ CountedIn(P, st1) \cap unmade = {}
         /\ SearchedIn(P, st) = SearchedIn(P, st1) \cup asked
         /\ SearchedIn(P, st1) \cap asked = {}
    BY <1>0 DEF CountedIn, SearchedIn
  <1>11. /\ IsFiniteSet(CountedIn(P, st1)) /\ IsFiniteSet(unmade)
         /\ IsFiniteSet(SearchedIn(P, st1)) /\ IsFiniteSet(asked)
    <2>1. /\ CountedIn(P, st1) \subseteq P /\ unmade \subseteq P
          /\ SearchedIn(P, st1) \subseteq P /\ asked \subseteq P
      BY <1>0 DEF CountedIn, SearchedIn
    <2> HIDE DEF unmade, asked
    <2> QED BY <1>1, <2>1, FS_Subset
  <1> HIDE DEF unmade, asked
  <1>12. /\ Cardinality(CountedIn(P, st)) = Cardinality(CountedIn(P, st1)) + Cardinality(unmade)
         /\ Cardinality(SearchedIn(P, st)) =
                Cardinality(SearchedIn(P, st1)) + Cardinality(asked)
    BY <1>10, <1>11, DisjointUnion
  <1>13. /\ Cardinality(CountedIn(P, st1)) \in Nat /\ Cardinality(unmade) \in Nat
         /\ Cardinality(SearchedIn(P, st1)) \in Nat /\ Cardinality(asked) \in Nat
    BY <1>11, FS_CardinalityType
  <1>14. /\ n = Cardinality(CountedIn(P, st)) /\ k = Cardinality(SearchedIn(P, st))
    BY DEF AreTotals
  <1>15. /\ n - Cardinality(unmade) = Cardinality(CountedIn(P, st1))
         /\ k - Cardinality(asked) = Cardinality(SearchedIn(P, st1))
    BY <1>12, <1>13, <1>14
  <1>16. AreTotals(P, st1, c1, m - SumOf(back), n - Cardinality(unmade),
                   k - Cardinality(asked))
    BY <1>1, <1>8, <1>9, <1>15 DEF AreTotals, g
  <1> QED BY <1>16 DEF back, unmade, asked, GoesBack, Unmade, Unasked

\* The steps and the price of one execution.
LEMMA StepsCost ==
    ASSUME NEW e \in Executions
    PROVE  LET asked == {s \in StepsOf(e) : IsSearch(s)}
               all == [s \in StepsOf(e) |-> Price(s)]
           IN  /\ IsFiniteSet(StepsOf(e)) /\ Cardinality(StepsOf(e)) = Searches[e] + 1
               /\ IsFiniteSet(asked) /\ Cardinality(asked) = Searches[e]
               /\ IsFiniteSet(UnitsOf(all))
               /\ SumOf(all) = Searches[e] * EmbedCost + AnswerCost
  <1> DEFINE n == Searches[e]
             asked == {s \in StepsOf(e) : IsSearch(s)}
             all == [s \in StepsOf(e) |-> Price(s)]
             last == <<e, n>>
  <1>1. n \in Nat /\ n >= 1 /\ EmbedCost \in Nat /\ AnswerCost \in Nat
    BY StepShape, ExecutionAssumption
  <1>2. \A s : s \in StepsOf(e) <=> \E i \in 0 .. n : s = <<e, i>>
    BY DEF StepsOf, Steps, Ordinals
  <1>3. \A i \in Nat : IsSearch(<<e, i>>) <=> i < n
    BY DEF IsSearch
  <1>4. asked = {e} \X (0 .. n - 1) /\ StepsOf(e) = asked \cup {last}
        /\ asked \cap {last} = {}
    BY <1>1, <1>2, <1>3
  <1>5. IsFiniteSet({e}) /\ Cardinality({e}) = 1 /\ IsFiniteSet({last})
        /\ Cardinality({last}) = 1
    BY FS_Singleton
  <1>6. IsFiniteSet(0 .. n - 1) /\ Cardinality(0 .. n - 1) = n
    <2>1. /\ IsFiniteSet(0 .. n - 1)
          /\ Cardinality(0 .. n - 1) = IF 0 > n - 1 THEN 0 ELSE (n - 1) - 0 + 1
      BY <1>1, FS_Interval, SMTT(60)
    <2> QED BY <1>1, <2>1
  <1>7. IsFiniteSet(asked) /\ Cardinality(asked) = n
    <2> DEFINE I == 0 .. n - 1
    <2>1. asked = {e} \X I /\ IsFiniteSet(I) /\ Cardinality(I) = n
      BY <1>4, <1>6
    <2> HIDE DEF asked, I, n
    <2>2. /\ IsFiniteSet({e} \X I)
          /\ Cardinality({e} \X I) = Cardinality({e}) * Cardinality(I)
      BY <1>5, <2>1, FS_Product
    <2>3. \A a, b \in Nat : a = 1 => a * b = b
      OBVIOUS
    <2> QED BY <1>1, <1>5, <2>1, <2>2, <2>3
  <1>8. IsFiniteSet(StepsOf(e)) /\ Cardinality(StepsOf(e)) = n + 1
    BY <1>4, <1>5, <1>7, DisjointUnion
  <1>9. \A s \in asked : Price(s) = EmbedCost
    BY DEF Price, IsSearch
  <1>10. Price(last) = AnswerCost
    BY <1>1 DEF Price
  <1>11. /\ UnitsOf(all) = (asked \X (1 .. EmbedCost)) \cup ({last} \X (1 .. AnswerCost))
         /\ (asked \X (1 .. EmbedCost)) \cap ({last} \X (1 .. AnswerCost)) = {}
    <2> HIDE DEF asked, last
    <2>1. \A u : u \in UnitsOf(all) <=>
             \E s \in StepsOf(e) : \E i \in 1 .. Price(s) : u = <<s, i>>
      <3>1. UnitsOf(all) = UNION {{s} \X (1 .. Price(s)) : s \in StepsOf(e)}
        BY DEF UnitsOf
      <3> HIDE DEF all
      <3> QED BY <3>1
    <2> QED BY <1>4, <1>9, <1>10, <2>1
  <1>12. /\ IsFiniteSet(asked \X (1 .. EmbedCost))
         /\ Cardinality(asked \X (1 .. EmbedCost)) = n * EmbedCost
    <2>1. IsFiniteSet(1 .. EmbedCost) /\ Cardinality(1 .. EmbedCost) = EmbedCost
      BY <1>1, FS_Interval
    <2> QED BY <1>7, <2>1, FS_Product, ZenonT(60)
  <1>13. /\ IsFiniteSet({last} \X (1 .. AnswerCost))
         /\ Cardinality({last} \X (1 .. AnswerCost)) = AnswerCost
    BY <1>1, UnitsOfOne
  <1>14. IsFiniteSet(UnitsOf(all)) /\ SumOf(all) = n * EmbedCost + AnswerCost
    <2> HIDE DEF asked, last, all, n
    <2> QED BY <1>11, <1>12, <1>13, DisjointUnion DEF SumOf
  <1> QED BY <1>7, <1>8, <1>14

\* Nothing of a step changes that the totals look at.
LEMMA QuietTotals ==
    ASSUME TypeInv, TypeInv', TotalsInv, deleted' = deleted,
           money' = money, models' = models, tools' = tools, charge' = charge,
           \A e \in Executions : exec'[e].day = exec[e].day,
           \A s \in Steps : /\ step'[s] = "none" <=> step[s] = "none"
                            /\ step'[s] = "cancelled" <=> step[s] = "cancelled"
    PROVE  TotalsInv'
  <1>1. ASSUME NEW d \in Days
        PROVE  /\ Spent(d)' = Spent(d)
               /\ CountedIn(Spent(d), step)' = CountedIn(Spent(d), step)
               /\ SearchedIn(Spent(d), step)' = SearchedIn(Spent(d), step)
               /\ AmountIn(Spent(d), charge)' = AmountIn(Spent(d), charge)
    <2>1. Spent(d)' = Spent(d)
      BY StepShape DEF Spent
    <2>2. Spent(d) \subseteq Steps
      BY DEF Spent
    <2>3. /\ CountedIn(Spent(d), step)' = CountedIn(Spent(d), step)
          /\ SearchedIn(Spent(d), step)' = SearchedIn(Spent(d), step)
      BY <2>1, <2>2 DEF CountedIn, SearchedIn, IsSearch
    <2>4. AmountIn(Spent(d), charge)' = AmountIn(Spent(d), charge)
      BY <2>1 DEF AmountIn, Price
    <2> QED BY <2>1, <2>3, <2>4
  <1>2. \A d \in Days :
           AreTotals(Spent(d), step, charge, money[d], models[d], tools[d]) =>
               AreTotals(Spent(d), step, charge, money[d], models[d], tools[d])'
    BY <1>1 DEF AreTotals
  <1>3. TotalsBooks'
    BY <1>2, TotalsAre DEF TotalsBooks
  <1>4. (TotalsInv <=> TotalsBooks)'
    BY TotalsAre, PTL
  <1> QED BY <1>3, <1>4

\* A settlement of steps of one execution.
LEMMA BookTotals ==
    ASSUME TypeInv, TypeInv', \A s \in Steps : StepInv(s), TotalsInv,
           ~deleted, deleted' = deleted, NEW e \in Executions,
           NEW now \in [StepsOf(e) -> StepStates], NEW usage \in Nat \union {None},
           Book(e, now, usage),
           \A f \in Executions : exec'[f].day = exec[f].day,
           \A s \in StepsOf(e) :
               \/ now[s] = step[s]
               \/ step[s] = "reserved" /\ now[s] = "cancelled"
               \/ /\ step[s] = "dispatching"
                  /\ now[s] \in {"succeeded", "failed", "unknown"}
                  /\ now[s] = "succeeded" /\ usage # None => usage <= Price(s)
    PROVE  TotalsInv'
  <1> DEFINE closed == {s \in StepsOf(e) : step[s] \in OpenStep /\ now[s] \notin OpenStep}
             unmade == Unmade(closed, step)
             asked == Unasked(closed, step)
             back == GoesBack(closed, charge')
             d == exec[e].day
  <1>1. TotalsBooks /\ d \in Days
    BY TotalsAre DEF TypeInv, ExecRows
  <1>2. /\ \A s \in Steps : s \notin StepsOf(e) =>
               step'[s] = step[s] /\ charge'[s] = charge[s]
        /\ \A s \in StepsOf(e) :
               /\ step'[s] = now[s]
               /\ charge'[s] = IF step[s] \in OpenStep /\ now[s] \notin OpenStep
                               THEN Kept(s, now[s], usage) ELSE charge[s]
    BY BookRow, ZenonT(60)
  <1>3. \A s \in StepsOf(e) : s \in Steps /\ s[1] = e /\ Price(s) \in Nat
    BY StepShape
  <1>4. /\ money' = [money EXCEPT ![d] = @ - back]
        /\ models' = [models EXCEPT ![d] = @ - Cardinality(unmade)]
        /\ tools' = [tools EXCEPT ![d] = @ - Cardinality(asked)]
    <2>1. [s \in closed |-> Price(s) - charge'[s]] =
              [s \in closed |-> Price(s) - Kept(s, now[s], usage)]
      BY <1>2
    <2> QED BY <2>1 DEF Book, GoesBack, Unmade, Unasked
  <1>5. ASSUME NEW s \in closed
        PROVE  /\ charge[s] = None /\ charge'[s] \in Nat /\ charge'[s] <= Price(s)
               /\ step[s] # "cancelled"
               /\ step'[s] = "cancelled" <=> step[s] = "reserved"
    <2>1. /\ s \in StepsOf(e) /\ s \in Steps /\ Price(s) \in Nat
          /\ step[s] \in {"reserved", "dispatching"} /\ StepInv(s)
      BY <1>3 DEF OpenStep
    <2>2. /\ charge'[s] = Kept(s, now[s], usage) /\ step'[s] = now[s]
          /\ now[s] # step[s]
      BY <1>2 DEF OpenStep
    <2>3. charge'[s] \in Nat /\ charge'[s] <= Price(s)
      BY <2>1, <2>2 DEF Kept
    <2>4. /\ charge[s] = None /\ step[s] # "cancelled"
          /\ step'[s] = "cancelled" <=> step[s] = "reserved"
      BY <2>1, <2>2 DEF StepInv, OpenStep
    <2> QED BY <2>3, <2>4
  <1>6. ASSUME NEW s \in Steps, s \notin closed
        PROVE  /\ charge'[s] = charge[s]
               /\ step'[s] = "cancelled" <=> step[s] = "cancelled"
    BY <1>2, <1>6 DEF OpenStep
  <1>7. \A s \in Steps : step'[s] = "none" <=> step[s] = "none"
    BY <1>2
  <1>8. \A c \in Days : Spent(c)' = Spent(c)
    BY <1>7, StepShape DEF Spent
  <1>9. closed \subseteq Spent(d)
    BY <1>3 DEF Spent, OpenStep
  <1>10. charge \in [Steps -> Nat \union {None}] /\ charge' \in [Steps -> Nat \union {None}]
    BY DEF TypeInv
  <1>11. \A c \in Days : Spent(c) \subseteq Steps
    BY DEF Spent
  <1>12. AreTotals(Spent(d), step', charge', money[d] - back,
                   models[d] - Cardinality(unmade), tools[d] - Cardinality(asked))
    <2> HIDE DEF closed, d
    <2>1. AreTotals(Spent(d), step, charge, money[d], models[d], tools[d])
      BY <1>1 DEF TotalsBooks
    <2>2. Settles(Spent(d), closed, step, charge, step', charge')
      <3>1. \A s \in closed :
               /\ charge[s] = None /\ charge'[s] \in Nat /\ charge'[s] <= Price(s)
               /\ step[s] # "cancelled"
               /\ step'[s] = "cancelled" <=> step[s] = "reserved"
        BY <1>5
      <3>2. \A s \in Spent(d) \ closed :
               charge'[s] = charge[s] /\ (step'[s] = "cancelled" <=> step[s] = "cancelled")
        BY <1>1, <1>6, <1>11
      <3> QED BY <1>9, <3>1, <3>2 DEF Settles
    <2> QED BY <1>10, <2>1, <2>2, TotalsClose
  <1>13. ASSUME NEW c \in Days, c # d
         PROVE  /\ AreTotals(Spent(c), step', charge', money[c], models[c], tools[c])
                /\ money'[c] = money[c] /\ models'[c] = models[c] /\ tools'[c] = tools[c]
    <2>1. \A s \in Spent(c) : s \in Steps /\ s \notin closed
      BY <1>3, <1>13 DEF Spent
    <2>2. /\ CountedIn(Spent(c), step') = CountedIn(Spent(c), step)
          /\ SearchedIn(Spent(c), step') = SearchedIn(Spent(c), step)
          /\ AmountIn(Spent(c), charge') = AmountIn(Spent(c), charge)
      BY <1>6, <2>1 DEF CountedIn, SearchedIn, AmountIn
    <2>3. AreTotals(Spent(c), step, charge, money[c], models[c], tools[c])
      BY <1>1 DEF TotalsBooks
    <2> QED BY <1>1, <1>4, <1>13, <2>2, <2>3 DEF AreTotals, TotalsBooks
  <1>14. /\ money'[d] = money[d] - back
         /\ models'[d] = models[d] - Cardinality(unmade)
         /\ tools'[d] = tools[d] - Cardinality(asked)
    BY <1>1, <1>4 DEF TotalsBooks
  <1> HIDE DEF closed, unmade, asked, back, d
  <1>15. \A c \in Days : AreTotals(Spent(c), step', charge', money'[c], models'[c], tools'[c])
    BY <1>12, <1>13, <1>14
  <1>16. \A c \in Days : money'[c] \in Nat /\ models'[c] \in Nat /\ tools'[c] \in Nat
    BY <1>10, <1>15, TotalsType
  <1>17. /\ money' \in [Days -> Nat] /\ models' \in [Days -> Nat] /\ tools' \in [Days -> Nat]
    BY <1>1, <1>4, <1>16 DEF TotalsBooks
  <1>18. \A c \in Days :
            AreTotals(Spent(c), step, charge, money[c], models[c], tools[c])'
    <2>1. ASSUME NEW c \in Days
          PROVE  AreTotals(Spent(c), step, charge, money[c], models[c], tools[c])'
      <3>1. AreTotals(Spent(c), step', charge', money'[c], models'[c], tools'[c])
        BY <1>15
      <3>2. Spent(c)' = Spent(c)
        BY <1>8
      <3> QED BY <3>1, <3>2 DEF AreTotals, AmountIn, CountedIn, SearchedIn, IsSearch, Price
    <2> QED BY <2>1
  <1>19. TotalsBooks'
    BY <1>17, <1>18 DEF TotalsBooks
  <1>20. (TotalsInv <=> TotalsBooks)'
    BY TotalsAre, PTL
  <1> QED BY <1>19, <1>20

\* The deletion settles the open steps of every day; no total is read of a
\* conversation that is gone, but all of them stay natural numbers.
LEMMA DeleteTotals ==
    ASSUME Inv, TypeInv', TotalsInv, DeleteConversation
    PROVE  TotalsInv'
  <1> DEFINE ending == {e \in Executions : Status(e) \in Open}
             now == [s \in Steps |-> IF s[1] \in ending THEN Closed(s[1])[s] ELSE step[s]]
             closed == {s \in Steps : now[s] # step[s]}
             on(d) == {s \in closed : exec[s[1]].day = d}
             unmade(d) == {s \in on(d) : step[s] = "reserved"}
  <1>1. /\ ~deleted /\ deleted' = TRUE /\ step' = now
        /\ charge' = [s \in Steps |->
               IF s \in closed THEN Kept(s, now[s], None) ELSE charge[s]]
        /\ money' = [d \in Days |->
               money[d] - SumOf([s \in on(d) |-> Price(s) - Kept(s, now[s], None)])]
        /\ models' = [d \in Days |-> models[d] - Cardinality(unmade(d))]
        /\ tools' = [d \in Days |->
               tools[d] - Cardinality({s \in unmade(d) : IsSearch(s)})]
    BY DEF DeleteConversation
  <1>2. TotalsBooks /\ TypeInv
    BY TotalsAre DEF Inv
  <1>3. /\ charge \in [Steps -> Nat \union {None}] /\ charge' \in [Steps -> Nat \union {None}]
    BY <1>2 DEF TypeInv
  <1>4. ASSUME NEW s \in closed
        PROVE  /\ charge[s] = None /\ charge'[s] \in Nat /\ charge'[s] <= Price(s)
               /\ step[s] \in OpenStep
               /\ step'[s] = "cancelled" <=> step[s] = "reserved"
    <2>1. s \in Steps /\ s \in StepsOf(s[1]) /\ Price(s) \in Nat /\ StepInv(s)
      BY StepShape DEF Inv
    <2>2. now[s] = Closed(s[1])[s] /\ Closed(s[1])[s] # step[s]
      BY <2>1
    <2>3. \/ step[s] = "reserved" /\ now[s] = "cancelled"
          \/ step[s] = "dispatching" /\ now[s] = "unknown"
      BY <2>1, <2>2 DEF Closed
    <2>4. charge'[s] = Kept(s, now[s], None) /\ step'[s] = now[s]
      BY <1>1, <2>1
    <2>5. charge'[s] \in Nat /\ charge'[s] <= Price(s)
      BY <2>1, <2>3, <2>4 DEF Kept
    <2> QED BY <2>1, <2>3, <2>4, <2>5 DEF StepInv, OpenStep
  <1>5. ASSUME NEW s \in Steps, s \notin closed
        PROVE  charge'[s] = charge[s] /\ step'[s] = step[s]
    BY <1>1, <1>5
  <1>6. ASSUME NEW d \in Days
        PROVE  money'[d] \in Nat /\ models'[d] \in Nat /\ tools'[d] \in Nat
    <2>1. AreTotals(Spent(d), step, charge, money[d], models[d], tools[d])
      BY <1>1, <1>2 DEF TotalsBooks
    <2>2. on(d) \subseteq Spent(d)
      BY <1>4 DEF Spent, OpenStep
    <2>3. Settles(Spent(d), on(d), step, charge, step', charge')
      <3>1. \A s \in on(d) :
               /\ charge[s] = None /\ charge'[s] \in Nat /\ charge'[s] <= Price(s)
               /\ step[s] # "cancelled"
               /\ step'[s] = "cancelled" <=> step[s] = "reserved"
        BY <1>4 DEF OpenStep
      <3>2. \A s \in Spent(d) \ on(d) : s \in Steps /\ s \notin closed
        BY DEF Spent
      <3>3. \A s \in Spent(d) \ on(d) :
               charge'[s] = charge[s] /\ (step'[s] = "cancelled" <=> step[s] = "cancelled")
        BY <1>5, <3>2
      <3> QED BY <2>2, <3>1, <3>3 DEF Settles
    <2>4. /\ money'[d] = money[d] - GoesBack(on(d), charge')
          /\ models'[d] = models[d] - Cardinality(Unmade(on(d), step))
          /\ tools'[d] = tools[d] - Cardinality(Unasked(on(d), step))
      <3>1. [s \in on(d) |-> Price(s) - charge'[s]] =
                [s \in on(d) |-> Price(s) - Kept(s, now[s], None)]
        BY <1>1
      <3> QED BY <1>1, <3>1 DEF GoesBack, Unmade, Unasked
    <2> HIDE DEF on
    <2>5. AreTotals(Spent(d), step', charge', money'[d], models'[d], tools'[d])
      BY <1>3, <2>1, <2>3, <2>4, TotalsClose
    <2> QED BY <1>3, <2>5, TotalsType
  <1>7. money' \in [Days -> Nat] /\ models' \in [Days -> Nat] /\ tools' \in [Days -> Nat]
    BY <1>1, <1>6
  <1>8. TotalsBooks'
    BY <1>1, <1>7 DEF TotalsBooks
  <1>9. (TotalsInv <=> TotalsBooks)'
    BY TotalsAre, PTL
  <1> QED BY <1>8, <1>9

\* An approval adds the steps of one execution to the totals of today.
LEMMA ReserveTotals ==
    ASSUME Inv, TypeInv', TotalsInv, ~deleted, NEW e \in Executions, Reserve(e),
           UNCHANGED <<deleted, seenVars>>
    PROVE  TotalsInv'
  <1>0. PICK today \in Days : today = day
    BY DEF Inv, TypeInv
  <1> DEFINE mine == StepsOf(e)
             asked == {s \in mine : IsSearch(s)}
             all == [s \in mine |-> Price(s)]
             old == Spent(today)
             new == old \cup mine
  <1>1. TypeInv /\ TotalsBooks /\ RowInv(e) /\ today \in Days
        /\ \A s \in StepsOf(e) : StepInv(s)
    BY TotalsAre, InvOf DEF TypeInv
  <1>2. /\ exec'[e].day = today
        /\ \A s \in mine : step[s] = "none" /\ step'[s] = "reserved"
        /\ charge' = charge
        /\ \A s \in Steps : s \notin mine => step'[s] = step[s]
        /\ \A f \in Executions \ {e} : exec'[f] = exec[f]
    BY <1>0, <1>1, ReserveRow
  <1>3. \A s \in mine : /\ s \in Steps /\ s[1] = e /\ charge[s] = None
                         /\ Price(s) \in Nat
    BY <1>1, <1>2, StepShape DEF StepInv
  <1>4. \A s \in Steps : s[1] \in Executions /\ (s \in mine <=> s[1] = e)
    BY StepShape DEF StepsOf
  <1>5. /\ Spent(today)' = new /\ old \cap mine = {}
        /\ \A d \in Days : d # today => Spent(d)' = Spent(d)
        /\ \A d \in Days : Spent(d) \subseteq Steps /\ Spent(d) \cap mine = {}
    <2>1. \A d \in Days : Spent(d) \subseteq Steps /\ Spent(d) \cap mine = {}
      BY <1>2 DEF Spent
    <2>2. \A s \in Steps : s \in mine => step'[s] # "none" /\ exec'[s[1]].day = today
      BY <1>2, <1>4
    <2>3. \A s \in Steps : s \notin mine =>
             step'[s] = step[s] /\ exec'[s[1]].day = exec[s[1]].day
      BY <1>2, <1>4
    <2>4. mine \subseteq Steps
      BY <1>3
    <2> HIDE DEF mine
    <2>5. ASSUME NEW d \in Days PROVE
             Spent(d)' = IF d = today THEN Spent(d) \cup mine ELSE Spent(d)
      <3>1. Spent(d)' = {s \in Steps : step'[s] # "none" /\ exec'[s[1]].day = d}
        BY DEF Spent
      <3>2. Spent(d) = {s \in Steps : step[s] # "none" /\ exec[s[1]].day = d}
        BY DEF Spent
      <3>3. ASSUME NEW s PROVE s \in Spent(d)' <=>
                s \in Spent(d) \/ (d = today /\ s \in mine)
        <4>1. CASE s \in mine
          BY <2>1, <2>2, <2>4, <3>1, <4>1
        <4>2. CASE s \notin mine
          BY <2>3, <3>1, <3>2, <4>2
        <4> QED BY <4>1, <4>2
      <3> QED BY <3>3
    <2> QED BY <1>1, <2>1, <2>5
  <1>6. /\ IsFiniteSet(mine) /\ Cardinality(mine) = Searches[e] + 1
        /\ IsFiniteSet(asked) /\ Cardinality(asked) = Searches[e]
        /\ IsFiniteSet(UnitsOf(all))
        /\ SumOf(all) = Searches[e] * EmbedCost + AnswerCost
    BY StepsCost
  <1>7. AreTotals(old, step, charge, money[today], models[today], tools[today])
    BY <1>1 DEF TotalsBooks
  <1>8. charge \in [Steps -> Nat \union {None}] /\ charge' \in [Steps -> Nat \union {None}]
    BY <1>1 DEF TypeInv
  <1>9. money[today] \in Nat /\ models[today] \in Nat /\ tools[today] \in Nat
    BY <1>1 DEF TotalsBooks
  <1>10. /\ IsFiniteSet(UnitsOf(AmountIn(new, charge)))
         /\ SumOf(AmountIn(new, charge)) = SumOf(AmountIn(old, charge)) + SumOf(all)
    <2> DEFINE h == [s \in Steps |-> IF s \in mine THEN Price(s) ELSE 0]
    <2>1. UnitsOf(h) = UnitsOf(all) /\ SumOf(h) = SumOf(all)
      BY <1>3, SumOfPart
    <2>2. \A s \in Steps :
             \/ AmountIn(new, charge)[s] = AmountIn(old, charge)[s] /\ h[s] = 0
             \/ AmountIn(new, charge)[s] = h[s] /\ AmountIn(old, charge)[s] = 0
      BY <1>3, <1>5 DEF AmountIn
    <2>3. /\ DOMAIN AmountIn(new, charge) = Steps /\ DOMAIN AmountIn(old, charge) = Steps
          /\ DOMAIN h = Steps
      BY DEF AmountIn
    <2>4. IsFiniteSet(UnitsOf(AmountIn(old, charge)))
      BY <1>7 DEF AreTotals
    <2> HIDE DEF h, all, old, new, mine
    <2> QED BY <1>6, <2>1, <2>2, <2>3, <2>4, SumOfApart
  <1>11. /\ CountedIn(new, step') = CountedIn(old, step) \cup mine
         /\ CountedIn(old, step) \cap mine = {}
         /\ SearchedIn(new, step') = SearchedIn(old, step) \cup asked
         /\ SearchedIn(old, step) \cap asked = {}
    <2>1. old \subseteq Steps /\ old \cap mine = {}
      BY <1>1, <1>5
    <2>2. \A s \in old : step'[s] = step[s]
      BY <1>2, <2>1
    <2>3. \A s \in mine : step'[s] # "cancelled"
      BY <1>2
    <2> HIDE DEF old, mine
    <2> QED BY <2>1, <2>2, <2>3 DEF CountedIn, SearchedIn
  <1>12. IsFiniteSet(CountedIn(old, step)) /\ IsFiniteSet(SearchedIn(old, step)) /\ IsFiniteSet(old)
    <2>1. IsFiniteSet(old) /\ CountedIn(old, step) \subseteq old /\ SearchedIn(old, step) \subseteq old
      BY <1>7 DEF AreTotals, CountedIn, SearchedIn
    <2> HIDE DEF old
    <2> QED BY <2>1, FS_Subset
  <1>13. IsFiniteSet(new) /\ new \subseteq Steps
    <2>1. old \subseteq Steps /\ mine \subseteq Steps /\ old \cap mine = {}
      BY <1>1, <1>3, <1>5
    <2> HIDE DEF old, mine
    <2> QED BY <1>6, <1>12, <2>1, DisjointUnion
  <1>14. /\ Cardinality(CountedIn(new, step')) = Cardinality(CountedIn(old, step)) + Cardinality(mine)
         /\ Cardinality(SearchedIn(new, step')) = Cardinality(SearchedIn(old, step)) + Cardinality(asked)
    <2> HIDE DEF old, new, mine, asked
    <2> QED BY <1>6, <1>11, <1>12, DisjointUnion
  <1>15. /\ money[today] = SumOf(AmountIn(old, charge))
         /\ models[today] = Cardinality(CountedIn(old, step))
         /\ tools[today] = Cardinality(SearchedIn(old, step))
    BY <1>7 DEF AreTotals
  <1>16. /\ money' = [money EXCEPT ![today] = @ + (Searches[e] * EmbedCost + AnswerCost)]
         /\ models' = [models EXCEPT ![today] = @ + Searches[e] + 1]
         /\ tools' = [tools EXCEPT ![today] = @ + Searches[e]]
    BY <1>0 DEF Reserve
  <1> HIDE DEF old, new, mine, asked, all
  <1>17. /\ money'[today] = money[today] + SumOf(all)
         /\ models'[today] = models[today] + Cardinality(mine)
         /\ tools'[today] = tools[today] + Cardinality(asked)
    <2>1. Searches[e] \in Nat
      BY StepShape
    <2>2. /\ money'[today] = money[today] + (Searches[e] * EmbedCost + AnswerCost)
          /\ models'[today] = models[today] + Searches[e] + 1
          /\ tools'[today] = tools[today] + Searches[e]
      BY <1>1, <1>16 DEF TotalsBooks
    <2>3. models'[today] = models[today] + (Searches[e] + 1)
      BY <1>9, <2>1, <2>2
    <2> QED BY <1>6, <2>2, <2>3
  <1>18. AreTotals(new, step', charge', money'[today], models'[today], tools'[today])
    BY <1>2, <1>10, <1>13, <1>14, <1>15, <1>17 DEF AreTotals
  <1>19. ASSUME NEW d \in Days, d # today
         PROVE  /\ AreTotals(Spent(d), step', charge', money'[d], models'[d], tools'[d])
                /\ Spent(d)' = Spent(d)
    <2>1. AreTotals(Spent(d), step, charge, money[d], models[d], tools[d])
      BY <1>1 DEF TotalsBooks
    <2>2. \A s \in Spent(d) : step'[s] = step[s]
      BY <1>2, <1>5 DEF mine
    <2>3. /\ CountedIn(Spent(d), step') = CountedIn(Spent(d), step)
          /\ SearchedIn(Spent(d), step') = SearchedIn(Spent(d), step)
      BY <2>2 DEF CountedIn, SearchedIn
    <2>4. money'[d] = money[d] /\ models'[d] = models[d] /\ tools'[d] = tools[d]
      BY <1>1, <1>16, <1>19 DEF TotalsBooks
    <2> QED BY <1>2, <1>5, <1>19, <2>1, <2>3, <2>4 DEF AreTotals
  <1>20. ASSUME NEW d \in Days
         PROVE  /\ AreTotals(Spent(d), step, charge, money[d], models[d], tools[d])'
                /\ money'[d] \in Nat /\ models'[d] \in Nat /\ tools'[d] \in Nat
    <2>1. \E P : /\ P = Spent(d)'
                 /\ AreTotals(P, step', charge', money'[d], models'[d], tools'[d])
      BY <1>5, <1>18, <1>19
    <2>2. PICK P : /\ P = Spent(d)'
                   /\ AreTotals(P, step', charge', money'[d], models'[d], tools'[d])
      BY <2>1
    <2>3. money'[d] \in Nat /\ models'[d] \in Nat /\ tools'[d] \in Nat
      BY <1>8, <2>2, TotalsType
    <2>4. AreTotals(Spent(d), step, charge, money[d], models[d], tools[d])'
      BY <2>2 DEF AreTotals, AmountIn, CountedIn, SearchedIn, IsSearch, Price
    <2> QED BY <2>3, <2>4
  <1>21. money' \in [Days -> Nat] /\ models' \in [Days -> Nat] /\ tools' \in [Days -> Nat]
    BY <1>1, <1>16, <1>20 DEF TotalsBooks
  <1>22. TotalsBooks'
    BY <1>20, <1>21 DEF TotalsBooks
  <1>23. (TotalsInv <=> TotalsBooks)'
    BY TotalsAre, PTL
  <1> QED BY <1>22, <1>23

LEMMA TerminateTotals ==
    ASSUME Inv, TypeInv', TotalsInv, ~deleted, deleted' = deleted,
           NEW e \in Executions, NEW status \in Ended, Terminate(e, status)
    PROVE  TotalsInv'
  <1>1. TypeInv /\ \A s \in Steps : StepInv(s)
    BY DEF Inv
  <1>2. Book(e, Closed(e), None) /\ Row(e, status)
    BY DEF Terminate
  <1>3. \A f \in Executions : exec'[f].day = exec[f].day
    BY <1>1, <1>2, RowSet
  <1>4. \A s \in StepsOf(e) :
           \/ Closed(e)[s] = step[s]
           \/ step[s] = "reserved" /\ Closed(e)[s] = "cancelled"
           \/ step[s] = "dispatching" /\ Closed(e)[s] = "unknown"
    BY DEF Closed
  <1>5. Closed(e) \in [StepsOf(e) -> StepStates]
    BY <1>1, ClosedType
  <1> QED BY <1>1, <1>2, <1>3, <1>4, <1>5, BookTotals

LEMMA ExpireTotals ==
    ASSUME Inv, TypeInv', TotalsInv, ~deleted, deleted' = deleted,
           NEW e \in Executions, Expire(e)
    PROVE  TotalsInv'
  <1>1. PICK status \in {"unknown", "expired"} : Terminate(e, status)
    BY DEF Expire
  <1>2. status \in Ended
    BY DEF Ended
  <1> QED BY <1>1, <1>2, TerminateTotals

\* The rows and the totals stay.
LEMMA NothingTotals ==
    ASSUME Inv, TypeInv', TotalsInv, deleted' = deleted, rowVars' = rowVars
    PROVE  TotalsInv'
  BY QuietTotals DEF Inv, rowVars, bookVars

\* The transaction that finishes the step in flight.
LEMMA FinishTotals ==
    ASSUME Inv, TypeInv', TotalsInv, NEW e \in Executions, Finish(e)
    PROVE  TotalsInv'
  <1>1. /\ TypeInv /\ TaskInv(e) /\ \A s \in Steps : StepInv(s)
        /\ \A s \in StepsOf(e) : s \in Steps
    BY InvOf, StepShape DEF Inv
  <1>2. /\ task[e].pc = "finish" /\ ~deleted /\ deleted' = deleted
    BY DEF Finish, At, confVars
  <1>3. /\ task[e] \in Tasks /\ Now(e) \in StepsOf(e)
        /\ task[e].usage # None => task[e].usage <= Price(Now(e))
    <2>1. task[e].pc \in Taken
      BY <1>2 DEF Taken, Places
    <2> QED BY <1>1, <2>1, TaskFacts
  <1>4. ASSUME step[Now(e)] = "dispatching",
               NEW st \in {"succeeded", "failed", "unknown"},
               NEW usage \in {None, task[e].usage},
               NEW now \in [StepsOf(e) -> StepStates], now[Now(e)] = st,
               \A s \in StepsOf(e) :
                   s # Now(e) => now[s] = step[s] \/ now[s] = Closed(e)[s],
               Book(e, now, usage),
               \A f \in Executions : exec'[f].day = exec[f].day
        PROVE  TotalsInv'
    <2>1. usage \in Nat \union {None}
      BY <1>3 DEF Tasks
    <2>2. ASSUME NEW s \in StepsOf(e)
          PROVE  \/ now[s] = step[s]
                 \/ step[s] = "reserved" /\ now[s] = "cancelled"
                 \/ /\ step[s] = "dispatching"
                    /\ now[s] \in {"succeeded", "failed", "unknown"}
                    /\ now[s] = "succeeded" /\ usage # None => usage <= Price(s)
      <3>1. CASE s = Now(e)
        BY <1>3, <1>4, <3>1
      <3>2. CASE s # Now(e)
        <4>1. now[s] = step[s] \/ now[s] = Closed(e)[s]
          BY <1>4, <3>2
        <4>2. \/ Closed(e)[s] = step[s]
              \/ step[s] = "reserved" /\ Closed(e)[s] = "cancelled"
              \/ step[s] = "dispatching" /\ Closed(e)[s] = "unknown"
          BY DEF Closed
        <4> QED BY <4>1, <4>2
      <3> QED BY <3>1, <3>2
    <2> QED BY <1>1, <1>2, <1>4, <2>1, <2>2, BookTotals
  <1>5. ASSUME step[Now(e)] = "dispatching", NEW hits \in BOOLEAN, Succeed(e, hits)
        PROVE  TotalsInv'
    <2> DEFINE now == [s \in StepsOf(e) |-> IF s = Now(e) THEN "succeeded" ELSE step[s]]
    <2>1. /\ Book(e, now, task[e].usage)
          /\ exec' = [exec EXCEPT ![e].evidence = @ \/ hits]
      BY <1>5 DEF Succeed
    <2>2. /\ now \in [StepsOf(e) -> StepStates] /\ now[Now(e)] = "succeeded"
          /\ \A s \in StepsOf(e) : s # Now(e) => now[s] = step[s]
      BY <1>1, <1>3 DEF TypeInv, StepStates
    <2>3. \A f \in Executions : exec'[f].day = exec[f].day
      <3>1. exec[e] \in ExecRows
            /\ exec'[e] = [exec[e] EXCEPT !.evidence = exec[e].evidence \/ hits]
        BY <1>1, <2>1 DEF TypeInv
      <3>2. exec'[e].day = exec[e].day
        BY <3>1 DEF ExecRows
      <3> QED BY <1>1, <2>1, <3>2 DEF TypeInv
    <2> HIDE DEF now
    <2> QED BY <1>4, <1>5, <2>1, <2>2, <2>3
  <1>6. ASSUME step[Now(e)] = "dispatching",
               NEW st \in {"succeeded", "failed", "unknown"}, NEW status \in Ended,
               NEW usage \in {None, task[e].usage},
               Conclusion(e, st, status, usage)
        PROVE  TotalsInv'
    <2> DEFINE now == [Closed(e) EXCEPT ![Now(e)] = st]
    <2>1. Book(e, now, usage) /\ Row(e, status)
      BY <1>6 DEF Conclusion
    <2>2. /\ now \in [StepsOf(e) -> StepStates] /\ now[Now(e)] = st
          /\ \A s \in StepsOf(e) : s # Now(e) => now[s] = Closed(e)[s]
      <3>1. st \in StepStates
        BY DEF StepStates
      <3> QED BY <1>1, <1>3, <3>1, ClosedType
    <2>3. \A f \in Executions : exec'[f].day = exec[f].day
      BY <1>1, <2>1, RowSet
    <2> HIDE DEF now
    <2> QED BY <1>4, <1>6, <2>1, <2>2, <2>3
  <1>7. \/ Expire(e) \/ Nothing
        \/ /\ step[Now(e)] = "dispatching" /\ \E hits \in BOOLEAN : Succeed(e, hits)
        \/ /\ step[Now(e)] = "dispatching"
           /\ \/ Conclusion(e, "succeeded", "insufficient_evidence", task[e].usage)
              \/ Conclusion(e, "succeeded", "succeeded", task[e].usage)
              \/ Conclusion(e, "failed", "failed", None)
              \/ Conclusion(e, "unknown", "unknown", None)
    BY DEF Finish
  <1>8. {"insufficient_evidence", "succeeded", "failed", "unknown"} \subseteq Ended
    BY DEF Ended
  <1>9. CASE Expire(e)
    BY <1>2, <1>9, ExpireTotals
  <1>10. CASE Nothing
    BY <1>2, <1>10, NothingTotals DEF Nothing
  <1> QED BY <1>5, <1>6, <1>7, <1>8, <1>9, <1>10

\* What is left: actions that touch no book, and those that end a request.
LEMMA NextTotals ==
    ASSUME Inv, TotalsInv, [Next]_vars
    PROVE  TotalsInv'
  <1>1. TypeInv /\ TypeInv'
    BY StepKeeps DEF Inv, Keeps
  <1>2. CASE \/ NewDay \/ OperatorDisables \/ AppendMessage \/ UNCHANGED vars
             \/ \E e \in Executions :
                    \/ CheckRevision(e) \/ Verify(e) \/ Refuse(e) \/ Send(e) \/ Answered(e)
                    \/ ContractViolation(e) \/ PersistDisable(e) \/ Retrieve(e) \/ GiveUp(e)
             \/ \E p \in Servers, e \in Executions :
                    Call(p, e) \/ Ready(p, e) \/ HangUp(p, e)
             \/ \E p \in Servers : PlanningHalts(p) \/ Start(p) \/ Crash(p)
    <2>1. rowVars' = rowVars /\ deleted' = deleted
      <3>1. CASE NewDay \/ OperatorDisables \/ AppendMessage \/ UNCHANGED vars
        BY <3>1 DEF NewDay, OperatorDisables, AppendMessage, vars, confVars
      <3>2. ASSUME NEW e \in Executions,
                   \/ CheckRevision(e) \/ Verify(e) \/ Refuse(e) \/ Send(e) \/ Answered(e)
                   \/ ContractViolation(e) \/ PersistDisable(e) \/ Retrieve(e) \/ GiveUp(e)
            PROVE  rowVars' = rowVars /\ deleted' = deleted
        BY <3>2 DEF CheckRevision, Verify, Refuse, Send, Answered, ContractViolation,
                    PersistDisable, Retrieve, GiveUp, confVars
      <3>3. CASE \/ \E p \in Servers, e \in Executions :
                        Call(p, e) \/ Ready(p, e) \/ HangUp(p, e)
                 \/ \E p \in Servers : PlanningHalts(p) \/ Start(p) \/ Crash(p)
        BY <3>3 DEF Call, Ready, HangUp, PlanningHalts, Start, Crash, confVars
      <3> QED BY <1>2, <3>1, <3>2, <3>3
    <2> QED BY <1>1, <2>1, NothingTotals
  <1>3. CASE \/ PricesLapse \/ \E e \in Executions : Lapse(e)
             \/ \E p \in Servers, e \in Executions : Create(p, e)
    <2>1. bookVars' = bookVars /\ deleted' = deleted
      BY <1>3 DEF PricesLapse, Lapse, Create, confVars
    <2>2. \A f \in Executions : exec'[f].day = exec[f].day
      <3>1. exec \in [Executions -> ExecRows]
        BY <1>1 DEF TypeInv
      <3>2. CASE PricesLapse
        BY <3>1, <3>2 DEF PricesLapse, ExecRows
      <3>3. ASSUME NEW e \in Executions, Lapse(e)
            PROVE  \A f \in Executions : exec'[f].day = exec[f].day
        BY <3>1, <3>3 DEF Lapse, ExecRows
      <3>4. ASSUME NEW p \in Servers, NEW e \in Executions, Create(p, e)
            PROVE  \A f \in Executions : exec'[f].day = exec[f].day
        <4>1. exec' = [exec EXCEPT ![e].status = "draft", ![e].revision = revision]
          BY <3>4 DEF Create
        <4>2. exec'[e] = [exec[e] EXCEPT !.status = "draft", !.revision = revision]
          BY <3>1, <4>1
        <4>3. exec[e] \in ExecRows
          BY <3>1
        <4>4. exec'[e].day = exec[e].day
          BY <4>2, <4>3 DEF ExecRows
        <4> QED BY <3>1, <4>1, <4>4
      <3> QED BY <1>3, <3>2, <3>3, <3>4
    <2> QED BY <1>1, <2>1, <2>2, QuietTotals DEF bookVars
  <1>4. CASE DeleteConversation
    BY <1>1, <1>4, DeleteTotals
  <1>5. ASSUME NEW e \in Executions,
               Touch(e) \/ Cancel(e) \/ Recheck(e) \/ RecheckAfter(e)
        PROVE  TotalsInv'
    <2>1. ~deleted /\ deleted' = deleted
      BY <1>5 DEF Touch, Cancel, Recheck, RecheckAfter, confVars
    <2>2. Expire(e) \/ Terminate(e, "cancelled") \/ rowVars' = rowVars
      BY <1>5 DEF Touch, Cancel, Recheck, RecheckAfter, Nothing
    <2> QED BY <1>1, <2>1, <2>2, ExpireTotals, TerminateTotals, NothingTotals DEF Ended
  <1>6. ASSUME NEW e \in Executions, Claim(e) PROVE TotalsInv'
    <2>1. ~deleted /\ deleted' = deleted
      BY <1>6 DEF Claim, confVars
    <2>2. CASE Expire(e) \/ Terminate(e, "stale") \/ Nothing
      BY <1>1, <2>1, <2>2, ExpireTotals, TerminateTotals, NothingTotals DEF Ended, Nothing
    <2>3. CASE /\ step[Now(e)] = "reserved"
               /\ step' = [step EXCEPT ![Now(e)] = "dispatching"]
               /\ exec' = [exec EXCEPT ![e].status = "running"]
               /\ UNCHANGED <<charge, money, models, tools>>
      <3>1. \A f \in Executions : exec'[f].day = exec[f].day
        BY <1>1, <2>3 DEF TypeInv, ExecRows
      <3>2. \A s \in Steps : /\ step'[s] = "none" <=> step[s] = "none"
                             /\ step'[s] = "cancelled" <=> step[s] = "cancelled"
        BY <1>1, <2>3 DEF TypeInv
      <3> QED BY <1>1, <2>1, <2>3, <3>1, <3>2, QuietTotals
    <2> QED BY <1>6, <2>2, <2>3 DEF Claim, Claimable
  <1>7. ASSUME NEW e \in Executions, Finish(e) PROVE TotalsInv'
    BY <1>1, <1>7, FinishTotals
  <1>8. ASSUME NEW p \in Servers, NEW e \in Executions, Approve(p, e) PROVE TotalsInv'
    <2>1. ~deleted /\ UNCHANGED <<deleted, seenVars>>
      BY <1>8 DEF Approve, confVars
    <2>2. Expire(e) \/ Nothing \/ Reserve(e)
      BY <1>8 DEF Approve
    <2> QED BY <1>1, <2>1, <2>2, ExpireTotals, NothingTotals, ReserveTotals DEF Nothing
  <1> QED BY <1>2, <1>3, <1>4, <1>5, <1>6, <1>7, <1>8 DEF Next, Run

LEMMA InitTotals == Init => TotalsInv
  <1> SUFFICES ASSUME Init PROVE TotalsInv
    OBVIOUS
  <1>1. /\ money \in [Days -> Nat] /\ models \in [Days -> Nat] /\ tools \in [Days -> Nat]
    BY DEF Init
  <1>2. ASSUME NEW d \in Days
        PROVE  /\ IsFiniteSet(Spent(d)) /\ IsFiniteSet(UnitsOf(Owed(d)))
               /\ money[d] = SumOf(Owed(d))
               /\ models[d] = Cardinality(Counted(d))
               /\ tools[d] = Cardinality(Searched(d))
    <2>1. Spent(d) = {} /\ Counted(d) = {} /\ Searched(d) = {}
      BY DEF Init, Spent, Counted, Searched
    <2>2. \A s \in DOMAIN Owed(d) : Owed(d)[s] = 0
      BY <2>1 DEF Owed
    <2>3. IsFiniteSet(UnitsOf(Owed(d))) /\ SumOf(Owed(d)) = 0
      BY <2>2, SumOfZeros
    <2>4. money[d] = 0 /\ models[d] = 0 /\ tools[d] = 0
      BY DEF Init
    <2> QED BY <2>1, <2>3, <2>4, FS_EmptySet
  <1> QED BY <1>1, <1>2 DEF TotalsInv

LEMMA TotalsInvariant == Spec => []TotalsInv
  <1>1. Init => TotalsInv
    BY InitTotals
  <1>2. Inv /\ TotalsInv /\ [Next]_vars => TotalsInv'
    BY NextTotals
  <1> QED BY <1>1, <1>2, Invariance, PTL DEF Spec

\* A step that is open on a day is one of those that its totals count, with
\* its whole price.
LEMMA OpenIsOwed ==
    ASSUME Inv, TotalsInv, NEW d \in Days
    PROVE  /\ OpenOn(d) \subseteq Counted(d) /\ Counted(d) \subseteq Spent(d)
           /\ Spent(d) \subseteq Steps
           /\ Owed(d) \in [Steps -> Nat]
           /\ \A s \in OpenOn(d) : charge[s] = None /\ Owed(d)[s] = Price(s)
  <1>1. /\ Counted(d) \subseteq Spent(d) /\ Spent(d) \subseteq Steps
        /\ OpenOn(d) \subseteq Counted(d)
    BY DEF OpenOn, Counted, Spent, OpenStep
  <1>2. \A s \in OpenOn(d) : charge[s] = None
    BY DEF OpenOn, Inv, StepInv, OpenStep
  <1>3. Owed(d) \in [Steps -> Nat]
    BY StepShape DEF Inv, TypeInv, Owed, Closing
  <1>4. \A s \in OpenOn(d) : Owed(d)[s] = Price(s)
    BY <1>1, <1>2 DEF Owed, Closing
  <1> QED BY <1>1, <1>2, <1>3, <1>4

\* What is open together takes no more of a day than the day has.
LEMMA OpenTogether ==
    ASSUME Inv, TotalsInv, ~deleted, NEW d \in Days
    PROVE  /\ money[d] >= SumOf([s \in OpenOn(d) |-> Price(s)])
           /\ models[d] >= Cardinality(OpenOn(d))
           /\ tools[d] >= Cardinality({s \in OpenOn(d) : IsSearch(s)})
  <1> DEFINE f == Owed(d)
             h == [s \in Steps |-> IF s \in OpenOn(d) THEN Price(s) ELSE 0]
             g == [s \in Steps |-> IF s \in OpenOn(d) THEN 0 ELSE Owed(d)[s]]
             open == [s \in OpenOn(d) |-> Price(s)]
             asked == {s \in OpenOn(d) : IsSearch(s)}
  <1>1. \A s \in Steps : Price(s) \in Nat
    BY StepShape
  <1>2. OpenOn(d) \subseteq Steps /\ f \in [Steps -> Nat]
    BY OpenIsOwed
  <1>3. g \in [Steps -> Nat] /\ h \in [Steps -> Nat]
    BY <1>1, <1>2
  <1>4. \A s \in Steps : f[s] = g[s] + h[s]
    BY <1>2, <1>3, OpenIsOwed
  <1>5. SumOf(h) = SumOf(open)
    BY <1>2, SumOfPart
  <1>6. /\ IsFiniteSet(Spent(d)) /\ IsFiniteSet(UnitsOf(f)) /\ money[d] = SumOf(f)
        /\ models[d] = Cardinality(Counted(d)) /\ tools[d] = Cardinality(Searched(d))
    BY DEF TotalsInv
  <1> HIDE DEF f, g, h, open, asked
  <1>7. /\ SumOf(g) \in Nat /\ SumOf(h) \in Nat
        /\ SumOf(f) = SumOf(g) + SumOf(h)
    BY <1>2, <1>3, <1>4, <1>6, SumOfSplit
  <1>8. money[d] >= SumOf(open)
    BY <1>5, <1>6, <1>7
  <1>9. IsFiniteSet(Counted(d)) /\ IsFiniteSet(Searched(d))
    <2>1. Searched(d) \subseteq Counted(d) /\ Counted(d) \subseteq Spent(d)
      BY OpenIsOwed DEF Searched
    <2> QED BY <1>6, <2>1, FS_Subset
  <1>10. Cardinality(OpenOn(d)) <= Cardinality(Counted(d))
    BY <1>9, OpenIsOwed, FS_Subset
  <1>11. Cardinality(asked) <= Cardinality(Searched(d))
    <2>1. asked \subseteq Searched(d)
      BY OpenIsOwed DEF asked, Searched
    <2> QED BY <1>9, <2>1, FS_Subset
  <1>12. /\ Cardinality(OpenOn(d)) \in Nat /\ Cardinality(Counted(d)) \in Nat
         /\ Cardinality(asked) \in Nat /\ Cardinality(Searched(d)) \in Nat
    <2>1. OpenOn(d) \subseteq Counted(d) /\ asked \subseteq Counted(d)
      BY OpenIsOwed DEF asked
    <2>2. IsFiniteSet(OpenOn(d)) /\ IsFiniteSet(asked)
      BY <1>9, <2>1, FS_Subset
    <2> QED BY <1>9, <2>2, FS_CardinalityType
  <1> QED BY <1>6, <1>8, <1>10, <1>11, <1>12 DEF open, asked

\* The receipt of each step that is open is valid.
LEMMA OpenAlone ==
    ASSUME Inv, TotalsInv, ~deleted, NEW d \in Days, NEW s \in OpenOn(d)
    PROVE  ReceiptValid(s)
  <1>1. exec[s[1]].day = d
    BY DEF OpenOn
  <1>2. /\ s \in Steps /\ s \in Counted(d) /\ charge[s] = None
        /\ Owed(d) \in [Steps -> Nat] /\ Owed(d)[s] = Price(s)
    BY OpenIsOwed
  <1>3. /\ IsFiniteSet(Counted(d)) /\ IsFiniteSet(Searched(d))
        /\ IsFiniteSet(UnitsOf(Owed(d))) /\ money[d] = SumOf(Owed(d))
        /\ models[d] = Cardinality(Counted(d)) /\ tools[d] = Cardinality(Searched(d))
    <2>1. Searched(d) \subseteq Counted(d) /\ Counted(d) \subseteq Spent(d)
      BY OpenIsOwed DEF Searched
    <2>2. IsFiniteSet(Spent(d))
      BY DEF TotalsInv
    <2>3. IsFiniteSet(Counted(d)) /\ IsFiniteSet(Searched(d))
      BY <2>1, <2>2, FS_Subset
    <2> QED BY <2>3 DEF TotalsInv
  <1>4. money[d] >= Price(s)
    <2>1. Owed(d)[s] <= SumOf(Owed(d))
      BY <1>2, <1>3, SumOfType
    <2>2. SumOf(Owed(d)) \in Nat /\ Price(s) \in Nat
      BY <1>2, <1>3, SumOfType, StepShape
    <2> QED BY <1>2, <1>3, <2>1, <2>2
  <1>5. ASSUME NEW set, IsFiniteSet(set), s \in set PROVE Cardinality(set) >= 1
    <2>1. IsFiniteSet({s}) /\ Cardinality({s}) = 1
      BY FS_Singleton
    <2>2. Cardinality({s}) <= Cardinality(set)
      BY <1>5, FS_Subset
    <2>3. Cardinality(set) \in Nat
      BY <1>5, FS_CardinalityType
    <2> QED BY <2>1, <2>2, <2>3
  <1>6. models[d] >= 1
    BY <1>2, <1>3, <1>5
  <1>7. IsSearch(s) => tools[d] >= 1
    BY <1>2, <1>3, <1>5 DEF Searched
  <1> QED BY <1>1, <1>2, <1>4, <1>6, <1>7 DEF ReceiptValid

\* The totals of every day cover all that is still open on it, so no end of a
\* request, in any order, is rolled back as inconsistent (verify_receipt and
\* settle of model_execution.rs, delete_conversation).
THEOREM OpenIsCoveredHolds == Spec => []OpenIsCovered
  <1>1. Inv /\ TotalsInv => OpenIsCovered
    BY OpenTogether, OpenAlone DEF OpenIsCovered
  <1> QED BY <1>1, Invariance, TotalsInvariant, PTL

\* An execution makes its steps in order, and the money, the model calls and
\* the tool calls of a day are exactly those of the steps approved on it,
\* whichever of them succeed, fail or are never made (reserve and settle of
\* model_execution.rs): one of several steps that fails leaks nothing, and what
\* is open can be settled.
THEOREM StepsAndTotalsHolds == Spec => []StepsAndTotals
  <1>1. Inv /\ TotalsInv => TypeOK
    BY DEF Inv, TotalsInv, TypeInv, TypeOK, Tasks
  <1>2. TotalsInv => TotalsExact
    <2> SUFFICES ASSUME TotalsInv, ~deleted, NEW d \in Days
                 PROVE  /\ money[d] = SumOf([s \in Spent(d) |-> Closing(s)])
                        /\ models[d] = Cardinality(Counted(d))
                        /\ tools[d] = Cardinality(Searched(d))
      BY DEF TotalsExact, Counted, Searched
    <2>1. Spent(d) \subseteq Steps
      BY DEF Spent
    <2>2. SumOf(Owed(d)) = SumOf([s \in Spent(d) |-> Closing(s)])
      BY <2>1, SumOfPart DEF Owed
    <2> QED BY <2>2 DEF TotalsInv
  <1> QED BY <1>1, <1>2, Invariance, StepsInOrderHolds, TotalsInvariant,
             OpenIsCoveredHolds, PTL DEF StepsAndTotals

-----------------------------------------------------------------------------
(* Answers: the invariant is one about the grant, the execution and the    *)
(* attempt of a request, and one about the slots.                          *)

GrantRows == [status: A!AuthStatuses, bound: Versions \cup {None},
              target: Targets \cup {None}, late: BOOLEAN]
ExecutionRows == [status: A!ExecStatuses, bound: Versions \cup {None},
                  sent: BOOLEAN, late: BOOLEAN, result: Versions \cup {None}]
Attempts == [pc: {"none", "answered", "finish", "done"} \cup A!Holding,
             server: Hosts \cup {None}, out: A!Outcomes]
Slots == [pc: {"free", "guard", "admitted", "running"}, req: Requests \cup {None}]

\* An execution is made by the claim of its grant and bound to the same
\* passages; only a successful one has a result, and it is of those.
GrantInv(r) ==
    /\ auth[r].status # "none" => auth[r].bound # None
    /\ auth[r].status = "consumed" <=> execution[r].status # "none"
    /\ execution[r].status # "none" => execution[r].bound = auth[r].bound
    /\ execution[r].result # None =>
           /\ execution[r].status = "succeeded"
           /\ execution[r].result = auth[r].bound
           /\ calls[r].n = 1

\* Only the attempt that holds the slot is before its call, the marker is
\* written between the two looks at the row, and a call has its target.
AttemptInv(r) ==
    /\ calls[r].n <= 1
    /\ calls[r].n = 1 => execution[r].sent /\ calls[r].to = auth[r].target
    /\ attempt[r].pc \in {"none", "guard", "check", "begin"} => ~execution[r].sent
    /\ attempt[r].pc \in {"recheck", "send"} => execution[r].sent /\ calls[r].n = 0
    /\ attempt[r].pc = "sent" => calls[r].n = 1
    /\ attempt[r].out = "succeeded" => calls[r].n = 1
    /\ attempt[r].pc # "none" <=> attempt[r].server # None
    /\ attempt[r].pc # "none" \/ execution[r].sent => execution[r].status # "none"
    /\ attempt[r].pc \in A!Holding =>
           handler[attempt[r].server] = [pc |-> "running", req |-> r]

\* A slot is taken for a grant that names the target of its process.
SlotInv(s) ==
    handler[s].pc # "free" =>
        /\ handler[s].req \in Requests
        /\ auth[handler[s].req].status # "none"
        /\ auth[handler[s].req].target = Target[s]

AnswerInv ==
    /\ A!TypeOK
    /\ \A r \in Requests : GrantInv(r) /\ AttemptInv(r)
    /\ \A s \in Hosts : SlotInv(s)

LEMMA AnswerInitHolds == A!Init => AnswerInv
BY AnswerAssumption
   DEF A!Init, AnswerInv, A!TypeOK, GrantInv, AttemptInv, SlotInv, A!NoAuth,
       A!NoExec, A!Free, A!NoTask, A!AuthStatuses, A!ExecStatuses, A!Ended,
       A!Outcomes, A!Holding

-----------------------------------------------------------------------------
(* Answers: what a transaction does to the rows of a request. *)

\* A grant keeps what it is bound to, and is neither spent nor revived.
GrantMoves(r) ==
    /\ auth'[r] \in GrantRows
    /\ auth'[r].bound = auth[r].bound /\ auth'[r].target = auth[r].target
    /\ auth'[r].status = "none" <=> auth[r].status = "none"
    /\ auth'[r].status = "consumed" <=> auth[r].status = "consumed"
    /\ ~A!Open(auth[r]) => auth'[r].status = auth[r].status

\* An execution keeps its passages and its marker, and gives its result up.
ExecutionMoves(r) ==
    /\ execution'[r] \in ExecutionRows
    /\ execution'[r].bound = execution[r].bound
    /\ execution'[r].sent = execution[r].sent
    /\ execution'[r].status = "none" <=> execution[r].status = "none"
    /\ execution[r].status \in A!Ended => execution'[r].status = execution[r].status
    /\ execution'[r].result # None =>
           execution'[r].result = execution[r].result /\ execution'[r].status = "succeeded"

\* What EndedIsFinal says of a step.
EndsStay ==
    \A r \in Requests :
        /\ auth[r].status \notin {"none", "draft", "authorized"} =>
               auth'[r].status = auth[r].status
        /\ execution[r].status \in A!Ended =>
               execution'[r].status = execution[r].status /\ execution'[r].result = None
        /\ execution[r].status # "none" => execution'[r].status # "none"

AnswerKeeps == AnswerInv' /\ EndsStay

LEMMA AnswerRows ==
    AnswerInv =>
        /\ auth \in [Requests -> GrantRows]
        /\ execution \in [Requests -> ExecutionRows]
        /\ attempt \in [Requests -> Attempts]
        /\ handler \in [Hosts -> Slots]
BY DEF AnswerInv, A!TypeOK, GrantRows, ExecutionRows, Attempts, Slots

LEMMA ReadsMove ==
    ASSUME AnswerInv, NEW r \in Requests
    PROVE  /\ A!AuthRead(r) \in GrantRows
           /\ A!AuthRead(r).bound = auth[r].bound
           /\ A!AuthRead(r).target = auth[r].target
           /\ A!AuthRead(r).status = "none" <=> auth[r].status = "none"
           /\ A!AuthRead(r).status = "consumed" <=> auth[r].status = "consumed"
           /\ ~A!Open(auth[r]) => A!AuthRead(r) = auth[r]
           /\ A!Open(A!AuthRead(r)) => A!AuthRead(r) = auth[r] /\ auth[r].bound = doc
           /\ A!ExecRead(r) \in ExecutionRows
           /\ A!ExecRead(r).bound = execution[r].bound
           /\ A!ExecRead(r).sent = execution[r].sent
           /\ A!ExecRead(r).status = "none" <=> execution[r].status = "none"
           /\ execution[r].status \notin {"running", "succeeded"} =>
                  A!ExecRead(r) = execution[r]
           /\ A!ExecRead(r).result # None =>
                  /\ A!ExecRead(r) = execution[r] /\ execution[r].status = "succeeded"
                  /\ execution[r].bound = doc
           /\ A!ExecRead(r).status \in {"running", "succeeded"} =>
                  A!ExecRead(r) = execution[r]
<1>1. auth[r] \in GrantRows /\ execution[r] \in ExecutionRows
  BY AnswerRows
<1>2. GrantInv(r)
  BY DEF AnswerInv
<1>3. /\ A!AuthRead(r) \in GrantRows
      /\ A!AuthRead(r).bound = auth[r].bound
      /\ A!AuthRead(r).target = auth[r].target
      /\ A!AuthRead(r).status = "none" <=> auth[r].status = "none"
      /\ A!AuthRead(r).status = "consumed" <=> auth[r].status = "consumed"
      /\ ~A!Open(auth[r]) => A!AuthRead(r) = auth[r]
      /\ A!Open(A!AuthRead(r)) => A!AuthRead(r) = auth[r] /\ auth[r].bound = doc
  BY <1>1 DEF A!AuthRead, A!Open, A!Rebuilds, GrantRows, A!AuthStatuses
<1> DEFINE e == A!ExecRead(r)
<1>4. /\ e \in ExecutionRows
      /\ e.bound = execution[r].bound
      /\ e.sent = execution[r].sent
      /\ e.status = "none" <=> execution[r].status = "none"
      /\ execution[r].status \notin {"running", "succeeded"} => e = execution[r]
      /\ e.result # None =>
             e = execution[r] /\ execution[r].status = "succeeded"
             /\ execution[r].bound = doc
      /\ e.status \in {"running", "succeeded"} => e = execution[r]
  BY <1>1, <1>2 DEF A!ExecRead, A!End, A!Rebuilds, ExecutionRows, A!ExecStatuses, A!Ended,
                    GrantInv
<1> QED BY <1>3, <1>4

\* Rows of which each moves so, or stays, keep the invariant.
LEMMA RowsMove ==
    ASSUME AnswerInv,
           doc' \in Versions \cup {None}, edits' \in 0 .. MaxEdits,
           session' \in BOOLEAN, outages' \in 0 .. MaxOutages,
           UNCHANGED <<handler, attempt, calls>>,
           shown' \in [Requests -> [status: A!ExecStatuses, result: Versions \cup {None}]],
           auth' \in [Requests -> GrantRows],
           execution' \in [Requests -> ExecutionRows],
           \A r \in Requests : auth'[r] = auth[r] \/ GrantMoves(r),
           \A r \in Requests : execution'[r] = execution[r] \/ ExecutionMoves(r)
    PROVE  AnswerKeeps
<1>1. A!TypeOK'
  BY DEF AnswerInv, A!TypeOK, GrantRows, ExecutionRows
<1>2. ASSUME NEW r \in Requests PROVE GrantMoves(r) /\ ExecutionMoves(r)
  <2>1. auth[r] \in GrantRows /\ execution[r] \in ExecutionRows /\ GrantInv(r)
    BY AnswerRows DEF AnswerInv
  <2> QED BY <2>1 DEF GrantMoves, ExecutionMoves, GrantInv
<1>3. ASSUME NEW r \in Requests PROVE GrantInv(r)' /\ AttemptInv(r)'
  <2>1. GrantInv(r) /\ AttemptInv(r) /\ GrantMoves(r) /\ ExecutionMoves(r)
    BY <1>2 DEF AnswerInv
  <2> QED BY <2>1 DEF GrantInv, AttemptInv, GrantMoves, ExecutionMoves
<1>4. ASSUME NEW s \in Hosts PROVE SlotInv(s)'
  BY <1>2 DEF AnswerInv, SlotInv, GrantMoves
<1>5. EndsStay
  BY <1>2 DEF EndsStay, GrantMoves, ExecutionMoves, A!Open, A!Ended
<1> QED BY <1>1, <1>3, <1>4, <1>5 DEF AnswerKeeps, AnswerInv

-----------------------------------------------------------------------------
(* Answers: documents, time and the requests of the owner. *)

LEMMA AroundKeeps ==
    ASSUME AnswerInv, A!EditDocument \/ A!SessionEnds
    PROVE  AnswerKeeps
<1>1. UNCHANGED <<auth, execution, handler, attempt, calls, shown>>
  BY DEF A!EditDocument, A!SessionEnds, A!rowVars
<1>2. /\ doc' \in Versions \cup {None} /\ edits' \in 0 .. MaxEdits
      /\ session' \in BOOLEAN /\ outages' \in 0 .. MaxOutages
  <2>1. /\ doc \in Versions \cup {None} /\ edits \in 0 .. MaxEdits
        /\ session \in BOOLEAN /\ outages \in 0 .. MaxOutages
    BY DEF AnswerInv, A!TypeOK
  <2>2. CASE A!EditDocument
    BY <2>1, <2>2, AnswerAssumption DEF A!EditDocument
  <2>3. CASE A!SessionEnds
    BY <2>1, <2>3 DEF A!SessionEnds
  <2> QED BY <2>2, <2>3
<1>3. /\ auth \in [Requests -> GrantRows] /\ execution \in [Requests -> ExecutionRows]
      /\ shown \in [Requests -> [status: A!ExecStatuses, result: Versions \cup {None}]]
  BY AnswerRows DEF AnswerInv, A!TypeOK
<1> QED BY <1>1, <1>2, <1>3, RowsMove

LEMMA LapseMoves ==
    ASSUME AnswerInv, NEW r \in Requests, A!GrantLapses(r) \/ A!ExecutionLapses(r)
    PROVE  AnswerKeeps
<1>1. /\ auth \in [Requests -> GrantRows] /\ execution \in [Requests -> ExecutionRows]
      /\ shown \in [Requests -> [status: A!ExecStatuses, result: Versions \cup {None}]]
      /\ doc \in Versions \cup {None} /\ edits \in 0 .. MaxEdits
      /\ session \in BOOLEAN /\ outages \in 0 .. MaxOutages
  BY AnswerRows DEF AnswerInv, A!TypeOK
<1>2. UNCHANGED <<doc, edits, session, outages, handler, attempt, calls, shown>>
  BY DEF A!GrantLapses, A!ExecutionLapses, A!envVars
<1>3. /\ auth' = auth \/ auth' = [auth EXCEPT ![r].late = TRUE]
      /\ \E b \in BOOLEAN : execution' = [execution EXCEPT ![r].late = b]
  BY DEF A!GrantLapses, A!ExecutionLapses
<1>4. GrantInv(r)
  BY DEF AnswerInv
<1>5. auth' \in [Requests -> GrantRows]
      /\ \A q \in Requests : auth'[q] = auth[q] \/ GrantMoves(q)
  <2>1. auth[r] \in GrantRows
    BY <1>1
  <2>2. [auth[r] EXCEPT !.late = TRUE] \in GrantRows
    BY <2>1 DEF GrantRows
  <2>3. auth' \in [Requests -> GrantRows]
    BY <1>1, <1>3, <2>2
  <2>4. \A q \in Requests \ {r} : auth'[q] = auth[q]
    BY <1>1, <1>3
  <2>5. CASE auth'[r] = [auth[r] EXCEPT !.late = TRUE]
    BY <2>1, <2>2, <2>4, <2>3, <2>5 DEF GrantMoves, GrantRows
  <2> QED BY <1>1, <1>3, <2>3, <2>4, <2>5
<1>6. execution' \in [Requests -> ExecutionRows]
      /\ \A q \in Requests : execution'[q] = execution[q] \/ ExecutionMoves(q)
  <2>1. execution' \in [Requests -> ExecutionRows]
    BY <1>1, <1>3 DEF ExecutionRows
  <2>2. \A q \in Requests \ {r} : execution'[q] = execution[q]
    BY <1>1, <1>3
  <2>3. ExecutionMoves(r)
    BY <1>1, <1>3, <1>4, <2>1 DEF ExecutionMoves, ExecutionRows, GrantInv
  <2> QED BY <2>1, <2>2, <2>3
<1> QED BY <1>1, <1>2, <1>5, <1>6, RowsMove

\* A grant made anew is bound to the passages of the moment.
LEMMA DraftKeeps ==
    ASSUME AnswerInv, NEW r \in Requests, NEW t \in Targets,
           auth[r].status = "none", doc # None,
           auth' = [auth EXCEPT ![r] = A!Prepared(t)],
           UNCHANGED <<doc, edits, session, outages, execution, handler, attempt,
                       calls, shown>>
    PROVE  AnswerKeeps
<1>1. auth \in [Requests -> GrantRows] /\ doc \in Versions
  BY AnswerRows DEF AnswerInv, A!TypeOK
<1>2. /\ auth'[r].status = "draft" /\ auth'[r].bound = doc /\ auth'[r].target = t
      /\ auth'[r] \in GrantRows
  BY <1>1 DEF A!Prepared, A!NoAuth, GrantRows, A!AuthStatuses
<1>3. \A q \in Requests \ {r} : auth'[q] = auth[q]
  BY <1>1
<1>4. auth' \in [Requests -> GrantRows]
  BY <1>1, <1>2, <1>3
<1>5. A!TypeOK'
  BY <1>4 DEF AnswerInv, A!TypeOK, GrantRows
<1>6. execution[r].status = "none" /\ execution[r].result = None
      /\ calls[r].n # 1 /\ attempt[r].pc = "none"
  <2>1. GrantInv(r) /\ AttemptInv(r)
    BY DEF AnswerInv
  <2> QED BY <2>1, <1>1 DEF GrantInv, AttemptInv
<1>7. ASSUME NEW q \in Requests PROVE GrantInv(q)' /\ AttemptInv(q)'
  <2>1. GrantInv(q) /\ AttemptInv(q)
    BY DEF AnswerInv
  <2>2. CASE q = r
    BY <2>1, <2>2, <1>1, <1>2, <1>6, AnswerAssumption DEF GrantInv, AttemptInv, A!Holding
  <2>3. CASE q # r
    BY <2>1, <2>3, <1>3 DEF GrantInv, AttemptInv
  <2> QED BY <2>2, <2>3
<1>8. ASSUME NEW s \in Hosts PROVE SlotInv(s)'
  BY <1>2, <1>3 DEF AnswerInv, SlotInv
<1>9. EndsStay
  BY <1>3, <1>6 DEF EndsStay, AnswerInv, GrantInv, A!Ended
<1> QED BY <1>5, <1>7, <1>8, <1>9 DEF AnswerKeeps, AnswerInv

\* Reading a grant, approving it and cancelling it.
LEMMA GrantMoved ==
    ASSUME AnswerInv, NEW r \in Requests, NEW a \in GrantRows,
           a.bound = auth[r].bound, a.target = auth[r].target,
           a.status = "none" <=> auth[r].status = "none",
           a.status = "consumed" <=> auth[r].status = "consumed",
           ~A!Open(auth[r]) => a.status = auth[r].status,
           auth' = [auth EXCEPT ![r] = a],
           UNCHANGED <<doc, edits, session, outages, execution, handler, attempt,
                       calls, shown>>
    PROVE  AnswerKeeps
<1>1. /\ auth \in [Requests -> GrantRows] /\ execution \in [Requests -> ExecutionRows]
      /\ shown \in [Requests -> [status: A!ExecStatuses, result: Versions \cup {None}]]
      /\ doc \in Versions \cup {None} /\ edits \in 0 .. MaxEdits
      /\ session \in BOOLEAN /\ outages \in 0 .. MaxOutages
  BY AnswerRows DEF AnswerInv, A!TypeOK
<1>2. auth' \in [Requests -> GrantRows]
      /\ \A q \in Requests : auth'[q] = auth[q] \/ GrantMoves(q)
  BY <1>1 DEF GrantMoves
<1> QED BY <1>1, <1>2, RowsMove

LEMMA OwnerKeeps ==
    ASSUME AnswerInv, NEW r \in Requests, A!Prepare(r) \/ A!Detail(r) \/ A!Approve(r)
    PROVE  AnswerKeeps
<1>1. UNCHANGED <<doc, edits, session, outages, execution, handler, attempt, calls, shown>>
  BY DEF A!Prepare, A!Detail, A!Approve, A!envVars
<1>2. auth[r] \in GrantRows
  BY AnswerRows
<1>3. CASE auth' = [auth EXCEPT ![r] = A!AuthRead(r)]
  <2>1. PICK a \in GrantRows : a = A!AuthRead(r)
    BY ReadsMove
  <2> QED BY <2>1, <1>1, <1>3, ReadsMove, GrantMoved
<1>4. CASE A!Approve(r)
  <2>1. PICK a \in GrantRows : a = A!AuthRead(r)
    BY ReadsMove
  <2>2. CASE ~A!Open(a)
    BY <2>1, <2>2, <1>3, <1>4 DEF A!Approve
  <2>3. CASE A!Open(a)
    <3>1. PICK b : b = [a EXCEPT !.status = "authorized"]
      OBVIOUS
    <3>2. /\ b \in GrantRows /\ b.bound = a.bound /\ b.target = a.target
          /\ b.status = "authorized"
      BY <2>1, <3>1 DEF GrantRows, A!AuthStatuses
    <3>3. auth' = [auth EXCEPT ![r] = b]
      BY <2>1, <2>3, <3>1, <1>4 DEF A!Approve
    <3>4. a.bound = auth[r].bound /\ a.target = auth[r].target /\ A!Open(auth[r])
      BY <2>1, <2>3, ReadsMove
    <3> QED BY <3>2, <3>3, <3>4, <1>1, GrantMoved DEF A!Open
  <2> QED BY <2>2, <2>3
<1>5. CASE A!Prepare(r) /\ ~(auth' = [auth EXCEPT ![r] = A!AuthRead(r)])
  BY <1>1, <1>5, DraftKeeps DEF A!Prepare
<1> QED BY <1>3, <1>4, <1>5 DEF A!Detail

\* Reading an execution, or ending it.
LEMMA ExecutionMoved ==
    ASSUME AnswerInv, NEW r \in Requests, NEW e \in ExecutionRows,
           e.bound = execution[r].bound, e.sent = execution[r].sent,
           e.status = "none" <=> execution[r].status = "none",
           execution[r].status \in A!Ended => e.status = execution[r].status,
           e.result # None => e.result = execution[r].result /\ e.status = "succeeded",
           execution' = [execution EXCEPT ![r] = e],
           shown' \in [Requests -> [status: A!ExecStatuses, result: Versions \cup {None}]],
           UNCHANGED <<doc, edits, session, outages, auth, handler, attempt, calls>>
    PROVE  AnswerKeeps
<1>1. /\ auth \in [Requests -> GrantRows] /\ execution \in [Requests -> ExecutionRows]
      /\ doc \in Versions \cup {None} /\ edits \in 0 .. MaxEdits
      /\ session \in BOOLEAN /\ outages \in 0 .. MaxOutages
  BY AnswerRows DEF AnswerInv, A!TypeOK
<1>2. execution' \in [Requests -> ExecutionRows]
      /\ \A q \in Requests : execution'[q] = execution[q] \/ ExecutionMoves(q)
  BY <1>1 DEF ExecutionMoves
<1> QED BY <1>1, <1>2, RowsMove

LEMMA CancelKeeps ==
    ASSUME AnswerInv, NEW r \in Requests, A!Cancel(r)
    PROVE  AnswerKeeps
<1>1. UNCHANGED <<doc, edits, session, outages, handler, attempt, calls, shown>>
  BY DEF A!Cancel, A!envVars
<1>2. auth[r] \in GrantRows /\ execution[r] \in ExecutionRows
      /\ shown \in [Requests -> [status: A!ExecStatuses, result: Versions \cup {None}]]
  BY AnswerRows DEF AnswerInv, A!TypeOK
<1>3. CASE A!Open(auth[r]) /\ auth' = [auth EXCEPT ![r].status = "cancelled"]
           /\ UNCHANGED execution
  <2>1. PICK a : a = [auth[r] EXCEPT !.status = "cancelled"]
    OBVIOUS
  <2>2. /\ a \in GrantRows /\ a.bound = auth[r].bound /\ a.target = auth[r].target
        /\ a.status = "cancelled"
    BY <2>1, <1>2 DEF GrantRows, A!AuthStatuses
  <2>3. auth' = [auth EXCEPT ![r] = a]
    BY <2>1, <1>3
  <2> QED BY <2>2, <2>3, <1>1, <1>3, GrantMoved DEF A!Open
<1>4. CASE auth[r].status = "consumed" /\ UNCHANGED auth
           /\ execution' = [execution EXCEPT ![r] =
                  IF A!ExecRead(r).status \in {"running", "succeeded"}
                  THEN A!End(A!ExecRead(r), "cancelled") ELSE A!ExecRead(r)]
  <2>1. PICK e \in ExecutionRows : e = A!ExecRead(r)
    BY ReadsMove
  <2>2. /\ e.bound = execution[r].bound /\ e.sent = execution[r].sent
        /\ e.status = "none" <=> execution[r].status = "none"
        /\ execution[r].status \in A!Ended => e = execution[r]
        /\ e.result # None => e = execution[r] /\ execution[r].status = "succeeded"
        /\ e.status \in {"running", "succeeded"} => e = execution[r]
    BY <2>1, ReadsMove DEF A!Ended
  <2>3. PICK f : f = IF e.status \in {"running", "succeeded"}
                     THEN A!End(e, "cancelled") ELSE e
    OBVIOUS
  <2>4. /\ f \in ExecutionRows /\ f.bound = e.bound /\ f.sent = e.sent
        /\ f.status = "none" <=> e.status = "none"
        /\ execution[r].status \in A!Ended => f.status = execution[r].status
        /\ f.result # None => f.result = execution[r].result /\ f.status = "succeeded"
    BY <2>2, <2>3, <1>2 DEF A!End, ExecutionRows, A!ExecStatuses, A!Ended
  <2>5. execution' = [execution EXCEPT ![r] = f]
    BY <2>1, <2>3, <1>4
  <2>6. /\ f.bound = execution[r].bound /\ f.sent = execution[r].sent
        /\ f.status = "none" <=> execution[r].status = "none"
    BY <2>2, <2>4
  <2>7. /\ shown' \in [Requests -> [status: A!ExecStatuses, result: Versions \cup {None}]]
        /\ UNCHANGED <<doc, edits, session, outages, auth, handler, attempt, calls>>
    BY <1>1, <1>2, <1>4
  <2> QED BY <2>4, <2>5, <2>6, <2>7, ExecutionMoved
<1> QED BY <1>3, <1>4 DEF A!Cancel

LEMMA ViewKeeps ==
    ASSUME AnswerInv, NEW r \in Requests, A!View(r)
    PROVE  AnswerKeeps
<1>1. UNCHANGED <<doc, edits, session, outages, auth, handler, attempt, calls>>
  BY DEF A!View, A!envVars
<1>2. PICK e \in ExecutionRows : e = A!ExecRead(r)
  BY ReadsMove
<1>3. /\ e.bound = execution[r].bound /\ e.sent = execution[r].sent
      /\ e.status = "none" <=> execution[r].status = "none"
      /\ execution[r].status \in A!Ended => e = execution[r]
      /\ e.result # None => e = execution[r] /\ execution[r].status = "succeeded"
  BY <1>2, ReadsMove DEF A!Ended
<1>4. /\ execution' = [execution EXCEPT ![r] = e]
      /\ shown' = [shown EXCEPT ![r] = [status |-> e.status, result |-> e.result]]
  BY <1>2 DEF A!View
<1>5. shown' \in [Requests -> [status: A!ExecStatuses, result: Versions \cup {None}]]
  BY <1>2, <1>4 DEF AnswerInv, A!TypeOK, ExecutionRows
<1> QED BY <1>1, <1>3, <1>4, <1>5, ExecutionMoved

LEMMA ListKeeps ==
    ASSUME AnswerInv, A!List
    PROVE  AnswerKeeps
<1>1. /\ auth \in [Requests -> GrantRows] /\ execution \in [Requests -> ExecutionRows]
      /\ doc \in Versions \cup {None} /\ edits \in 0 .. MaxEdits
      /\ session \in BOOLEAN /\ outages \in 0 .. MaxOutages
  BY AnswerRows DEF AnswerInv, A!TypeOK
<1>2. UNCHANGED <<doc, edits, session, outages, handler, attempt, calls>>
  BY DEF A!List, A!envVars
<1>3. ASSUME NEW r \in Requests PROVE auth'[r] = auth[r] \/ GrantMoves(r)
  <2>1. auth[r] \in GrantRows
    BY <1>1
  <2>2. CASE A!Open(auth[r]) /\ auth[r].late
    <3>1. auth'[r] = [auth[r] EXCEPT !.status = "expired"]
      BY <2>2 DEF A!List
    <3> QED BY <2>1, <2>2, <3>1 DEF GrantMoves, GrantRows, A!AuthStatuses, A!Open
  <2> QED BY <2>2 DEF A!List
<1>4. ASSUME NEW r \in Requests PROVE execution'[r] = execution[r] \/ ExecutionMoves(r)
  <2>1. execution[r] \in ExecutionRows
    BY <1>1
  <2>2. CASE execution[r].status = "running" /\ execution[r].late
    <3>1. execution'[r] = A!End(execution[r], "unknown")
      BY <2>2 DEF A!List
    <3> QED BY <2>1, <2>2, <3>1
            DEF ExecutionMoves, ExecutionRows, A!ExecStatuses, A!Ended, A!End
  <2> QED BY <2>2 DEF A!List
<1>5. auth' \in [Requests -> GrantRows]
  <2>1. \A r \in Requests : auth'[r] \in GrantRows
    BY <1>1, <1>3 DEF GrantMoves
  <2>2. DOMAIN auth' = Requests /\ auth' = [r \in Requests |-> auth'[r]]
    BY DEF A!List
  <2> QED BY <2>1, <2>2
<1>6. execution' \in [Requests -> ExecutionRows]
  <2>1. \A r \in Requests : execution'[r] \in ExecutionRows
    BY <1>1, <1>4 DEF ExecutionMoves
  <2>2. execution' = [r \in Requests |-> execution'[r]]
    BY DEF A!List
  <2> QED BY <2>1, <2>2
<1>7. shown' \in [Requests -> [status: A!ExecStatuses, result: Versions \cup {None}]]
  <2>1. shown' = [r \in Requests |-> [status |-> execution'[r].status, result |-> None]]
    BY DEF A!List
  <2>2. \A r \in Requests : execution'[r].status \in A!ExecStatuses
    BY <1>6 DEF ExecutionRows
  <2> QED BY <2>1, <2>2
<1> QED BY <1>1, <1>2, <1>3, <1>4, <1>5, <1>6, <1>7, RowsMove

-----------------------------------------------------------------------------
(* Answers: a step of the attempt of a request. *)

\* Nobody holds the slot of another.
HandedOn(r) ==
    \/ handler' = handler /\ (attempt'[r].pc \in A!Holding => attempt[r].pc \in A!Holding)
    \/ /\ attempt[r].pc \in A!Holding /\ attempt'[r].pc \notin A!Holding
       /\ handler' = [handler EXCEPT ![attempt[r].server] = A!Free]

\* The rows and the attempt of a request move so, in a step of the attempt.
AttemptTo(r, e, k, c) ==
    /\ execution' = [execution EXCEPT ![r] = e]
    /\ attempt' = [attempt EXCEPT ![r] = k]
    /\ calls' = [calls EXCEPT ![r] = c]
    /\ attempt[r].pc # "none" /\ k.pc # "none" /\ k.server = attempt[r].server
    /\ HandedOn(r)
    /\ execution[r].status # "none" => e.status # "none"
    /\ e.bound = execution[r].bound
    /\ execution[r].status \in A!Ended => e.status = execution[r].status
    /\ e.result # None => e.status = "succeeded" /\ e.result = e.bound /\ c.n = 1
    /\ c.n <= 1 /\ (c.n = 1 => e.sent /\ c.to = auth[r].target)
    /\ k.pc \in {"guard", "check", "begin"} => ~e.sent
    /\ k.pc \in {"recheck", "send"} => e.sent /\ c.n = 0
    /\ k.pc = "sent" => c.n = 1
    /\ k.out = "succeeded" => c.n = 1

LEMMA StepMoves ==
    ASSUME AnswerInv, NEW r \in Requests, NEW e \in ExecutionRows, NEW k \in Attempts,
           NEW c \in [n: 0 .. 2, to: Targets \cup {None}],
           UNCHANGED <<doc, edits, session, auth, shown>>, outages' \in 0 .. MaxOutages,
           AttemptTo(r, e, k, c)
    PROVE  AnswerKeeps
<1> USE DEF AttemptTo
<1>1. /\ auth \in [Requests -> GrantRows] /\ execution \in [Requests -> ExecutionRows]
      /\ attempt \in [Requests -> Attempts] /\ handler \in [Hosts -> Slots]
      /\ calls \in [Requests -> [n: 0 .. 2, to: Targets \cup {None}]]
  BY AnswerRows DEF AnswerInv, A!TypeOK
<1>2. execution' \in [Requests -> ExecutionRows] /\ attempt' \in [Requests -> Attempts]
      /\ calls' \in [Requests -> [n: 0 .. 2, to: Targets \cup {None}]]
  BY <1>1
<1>3. /\ execution'[r] = e /\ attempt'[r] = k /\ calls'[r] = c
      /\ \A q \in Requests \ {r} : /\ execution'[q] = execution[q]
                                   /\ attempt'[q] = attempt[q] /\ calls'[q] = calls[q]
  BY <1>1
<1>4. A!Free \in Slots
  BY DEF A!Free, Slots
<1>5. handler' \in [Hosts -> Slots]
  BY <1>1, <1>4 DEF HandedOn
<1>6. A!TypeOK'
  BY <1>2, <1>5 DEF AnswerInv, A!TypeOK, ExecutionRows, Attempts, Slots
<1>7. GrantInv(r) /\ AttemptInv(r)
  BY DEF AnswerInv
<1>8. attempt[r].server # None /\ attempt[r].server \in Hosts
  BY <1>1, <1>7 DEF AttemptInv, Attempts
<1>9. ASSUME NEW q \in Requests, q # r, attempt[q].pc \in A!Holding
      PROVE  handler'[attempt[q].server] = handler[attempt[q].server]
  <2>1. handler[attempt[q].server] = [pc |-> "running", req |-> q]
    BY <1>9 DEF AnswerInv, AttemptInv
  <2>2. attempt[r].pc \in A!Holding =>
            handler[attempt[r].server] = [pc |-> "running", req |-> r]
    BY <1>7 DEF AttemptInv
  <2>3. attempt[q].server \in Hosts
    <3>1. attempt[q].server # None
      BY <1>9 DEF AnswerInv, AttemptInv, A!Holding
    <3> QED BY <1>1, <3>1 DEF Attempts
  <2> QED BY <1>1, <1>9, <2>1, <2>2, <2>3 DEF HandedOn
<1>10. ASSUME NEW q \in Requests, q # r PROVE GrantInv(q)' /\ AttemptInv(q)'
  <2>1. GrantInv(q) /\ AttemptInv(q)
    BY DEF AnswerInv
  <2>2. /\ execution'[q] = execution[q] /\ attempt'[q] = attempt[q] /\ calls'[q] = calls[q]
        /\ auth' = auth
    BY <1>3, <1>10
  <2> QED BY <2>1, <2>2, <1>9, <1>10 DEF GrantInv, AttemptInv
<1>11. GrantInv(r)'
  BY <1>3, <1>7 DEF GrantInv, AttemptInv
<1>12. AttemptInv(r)'
  <2>1. k.pc \in A!Holding => handler'[k.server] = [pc |-> "running", req |-> r]
    BY <1>3, <1>7 DEF AttemptInv, HandedOn
  <2>2. k.pc # "none" /\ k.server # None /\ e.status # "none"
    BY <1>7, <1>8 DEF AttemptInv
  <2> QED BY <1>3, <2>1, <2>2 DEF AttemptInv
<1>13. ASSUME NEW s \in Hosts PROVE SlotInv(s)'
  <2>1. SlotInv(s) /\ (handler'[s] = handler[s] \/ handler'[s] = A!Free)
    BY <1>1 DEF AnswerInv, HandedOn
  <2> QED BY <2>1 DEF SlotInv, A!Free
<1>14. EndsStay
  <2>1. ASSUME NEW q \in Requests, execution[q].status \in A!Ended
        PROVE  execution'[q].status = execution[q].status /\ execution'[q].result = None
    BY <1>3, <2>1 DEF AnswerInv, GrantInv, A!Ended
  <2>2. ASSUME NEW q \in Requests, execution[q].status # "none"
        PROVE  execution'[q].status # "none"
    BY <1>3, <2>2
  <2> QED BY <2>1, <2>2 DEF EndsStay
<1> QED BY <1>6, <1>10, <1>11, <1>12, <1>13, <1>14 DEF AnswerKeeps, AnswerInv

\* What the invariant says of an attempt that is under way.
LEMMA UnderWay ==
    ASSUME AnswerInv, NEW r \in Requests, attempt[r].pc # "none"
    PROVE  /\ attempt[r] \in Attempts /\ attempt[r].server \in Hosts
           /\ execution[r] \in ExecutionRows /\ auth[r] \in GrantRows
           /\ calls[r] \in [n: 0 .. 2, to: Targets \cup {None}]
           /\ execution = [execution EXCEPT ![r] = execution[r]]
           /\ calls = [calls EXCEPT ![r] = calls[r]]
           /\ execution[r].status # "none"
           /\ execution[r].result # None =>
                  /\ execution[r].status = "succeeded" /\ calls[r].n = 1
                  /\ execution[r].result = execution[r].bound
           /\ calls[r].n <= 1
           /\ calls[r].n = 1 => execution[r].sent /\ calls[r].to = auth[r].target
           /\ attempt[r].out = "succeeded" => calls[r].n = 1
<1>1. GrantInv(r) /\ AttemptInv(r)
  BY DEF AnswerInv
<1>2. /\ attempt[r] \in Attempts /\ execution[r] \in ExecutionRows /\ auth[r] \in GrantRows
      /\ calls[r] \in [n: 0 .. 2, to: Targets \cup {None}]
      /\ execution = [execution EXCEPT ![r] = execution[r]]
      /\ calls = [calls EXCEPT ![r] = calls[r]]
  BY AnswerRows DEF AnswerInv, A!TypeOK
<1> QED BY <1>1, <1>2 DEF GrantInv, AttemptInv, Attempts

\* The look at the session and the row: it ends an execution or leaves it.
LEMMA LookMoves ==
    ASSUME AnswerInv, NEW r \in Requests, NEW valid \in BOOLEAN,
           A!StillValid(r, valid), attempt[r].pc # "none"
    PROVE  \E e \in ExecutionRows :
               /\ execution' = [execution EXCEPT ![r] = e]
               /\ e.bound = execution[r].bound /\ e.sent = execution[r].sent
               /\ e.status # "none"
               /\ execution[r].status \in A!Ended => e.status = execution[r].status
               /\ e.result # None => e.status = "succeeded" /\ e.result = e.bound
                                     /\ calls[r].n = 1
<1>1. CASE session
  <2>1. PICK e \in ExecutionRows : e = A!ExecRead(r)
    BY ReadsMove
  <2>2. execution' = [execution EXCEPT ![r] = e]
    BY <1>1, <2>1 DEF A!StillValid
  <2> QED BY <2>1, <2>2, ReadsMove, UnderWay DEF A!Ended
<1>2. CASE ~session
  <2>1. execution' = execution
    BY <1>2 DEF A!StillValid
  <2> QED BY <2>1, UnderWay
<1> QED BY <1>1, <1>2

LEMMA GotoMoves ==
    ASSUME AnswerInv, NEW r \in Requests, attempt[r].pc # "none",
           NEW pc \in {"answered", "finish", "done"} \cup A!Holding, A!Goto(r, pc),
           pc \in A!Holding => attempt[r].pc \in A!Holding
    PROVE  /\ HandedOn(r)
           /\ \E k \in Attempts :
               /\ attempt' = [attempt EXCEPT ![r] = k]
               /\ k.pc = pc /\ k.server = attempt[r].server /\ k.out = attempt[r].out
<1>1. attempt \in [Requests -> Attempts] /\ attempt[r] \in Attempts
  BY AnswerRows
<1>2. PICK k : k = [attempt[r] EXCEPT !.pc = pc]
  OBVIOUS
<1>3. k \in Attempts /\ k.pc = pc /\ k.server = attempt[r].server /\ k.out = attempt[r].out
  BY <1>1, <1>2 DEF Attempts
<1>4. attempt' = [attempt EXCEPT ![r] = k] /\ handler' = handler
  BY <1>2 DEF A!Goto
<1>5. attempt'[r] = k
  BY <1>1, <1>4
<1> QED BY <1>3, <1>4, <1>5 DEF HandedOn

LEMMA LeaveMoves ==
    ASSUME AnswerInv, NEW r \in Requests, attempt[r].pc # "none",
           NEW out \in A!Outcomes, A!Leave(r, out)
    PROVE  /\ HandedOn(r)
           /\ \E k \in Attempts :
               /\ attempt' = [attempt EXCEPT ![r] = k]
               /\ k.pc = "finish" /\ k.server = attempt[r].server /\ k.out = out
<1>1. attempt \in [Requests -> Attempts] /\ attempt[r] \in Attempts
  BY AnswerRows
<1>2. PICK k : k = [attempt[r] EXCEPT !.pc = "finish", !.out = out]
  OBVIOUS
<1>3. k \in Attempts /\ k.pc = "finish" /\ k.server = attempt[r].server /\ k.out = out
  BY <1>1, <1>2 DEF Attempts
<1>4. attempt' = [attempt EXCEPT ![r] = k]
  BY <1>2 DEF A!Leave
<1>5. attempt'[r] = k
  BY <1>1, <1>4
<1>6. HandedOn(r)
  BY <1>3, <1>5 DEF A!Leave, A!Release, HandedOn, A!Holding
<1> QED BY <1>3, <1>4, <1>6

\* The attempt leaves, after a look at the row or without one.
LEMMA LeavingKeeps ==
    ASSUME AnswerInv, NEW r \in Requests, attempt[r].pc # "none",
           NEW out \in A!Outcomes, A!Leave(r, out),
           out = "succeeded" => calls[r].n = 1,
           execution' = execution \/ \E valid \in BOOLEAN : A!StillValid(r, valid),
           UNCHANGED <<doc, edits, session, outages, auth, calls, shown>>
    PROVE  AnswerKeeps
<1>1. PICK k \in Attempts :
          /\ attempt' = [attempt EXCEPT ![r] = k]
          /\ k.pc = "finish" /\ k.server = attempt[r].server /\ k.out = out
  BY LeaveMoves
<1>2. HandedOn(r)
  BY LeaveMoves
<1>3. PICK e \in ExecutionRows :
          /\ execution' = [execution EXCEPT ![r] = e]
          /\ e.bound = execution[r].bound /\ e.sent = execution[r].sent
          /\ e.status # "none"
          /\ execution[r].status \in A!Ended => e.status = execution[r].status
          /\ e.result # None => e.status = "succeeded" /\ e.result = e.bound
                                /\ calls[r].n = 1
  <2>1. CASE execution' = execution
    BY <2>1, UnderWay
  <2>2. CASE \E valid \in BOOLEAN : A!StillValid(r, valid)
    BY <2>2, LookMoves
  <2> QED BY <2>1, <2>2
<1>4. PICK c \in [n: 0 .. 2, to: Targets \cup {None}] : c = calls[r]
  BY UnderWay
<1>5. calls' = [calls EXCEPT ![r] = c]
  BY <1>4, UnderWay
<1>6. outages' \in 0 .. MaxOutages
  BY DEF AnswerInv, A!TypeOK
<1>7. c.n <= 1 /\ (c.n = 1 => e.sent /\ c.to = auth[r].target)
  BY <1>3, <1>4, UnderWay
<1>20. AttemptTo(r, e, k, c)
  BY <1>1, <1>2, <1>3, <1>4, <1>5, <1>6, <1>7, UnderWay DEF AttemptTo
<1> QED BY <1>1, <1>2, <1>3, <1>4, <1>5, <1>6, <1>7, <1>20, StepMoves

\* The attempt goes on, after a look at the row or without one.
LEMMA GoingKeeps ==
    ASSUME AnswerInv, NEW r \in Requests, attempt[r].pc \in A!Holding,
           NEW pc \in A!Holding, A!Goto(r, pc),
           pc \in {"guard", "check", "begin"} =>
               attempt[r].pc \in {"guard", "check", "begin"},
           pc \in {"recheck", "send"} => attempt[r].pc \in {"recheck", "send"},
           pc # "sent",
           execution' = execution \/ \E valid \in BOOLEAN : A!StillValid(r, valid),
           UNCHANGED <<doc, edits, session, outages, auth, calls, shown>>
    PROVE  AnswerKeeps
<1>0. attempt[r].pc # "none"
  BY DEF A!Holding
<1>1. PICK k \in Attempts :
          /\ attempt' = [attempt EXCEPT ![r] = k]
          /\ k.pc = pc /\ k.server = attempt[r].server /\ k.out = attempt[r].out
  <2>1. /\ pc \in {"answered", "finish", "done"} \cup A!Holding
        /\ pc \in A!Holding => attempt[r].pc \in A!Holding
    OBVIOUS
  <2> QED BY <1>0, <2>1, GotoMoves, SMTT(30)
<1>2. HandedOn(r)
  BY <1>0, GotoMoves
<1>3. PICK e \in ExecutionRows :
          /\ execution' = [execution EXCEPT ![r] = e]
          /\ e.bound = execution[r].bound /\ e.sent = execution[r].sent
          /\ e.status # "none"
          /\ execution[r].status \in A!Ended => e.status = execution[r].status
          /\ e.result # None => e.status = "succeeded" /\ e.result = e.bound
                                /\ calls[r].n = 1
  <2>1. CASE execution' = execution
    BY <1>0, <2>1, UnderWay
  <2>2. CASE \E valid \in BOOLEAN : A!StillValid(r, valid)
    BY <1>0, <2>2, LookMoves
  <2> QED BY <2>1, <2>2
<1>4. PICK c \in [n: 0 .. 2, to: Targets \cup {None}] : c = calls[r]
  BY <1>0, UnderWay
<1>5. calls' = [calls EXCEPT ![r] = c]
  BY <1>0, <1>4, UnderWay
<1>6. outages' \in 0 .. MaxOutages
  BY DEF AnswerInv, A!TypeOK
<1>7. c.n <= 1 /\ (c.n = 1 => e.sent /\ c.to = auth[r].target)
  BY <1>0, <1>3, <1>4, UnderWay
<1>8. AttemptInv(r)
  BY DEF AnswerInv
<1>9. /\ k.pc \in {"guard", "check", "begin"} => ~e.sent
      /\ k.pc \in {"recheck", "send"} => e.sent /\ c.n = 0
      /\ k.pc # "sent" /\ k.pc # "none"
      /\ k.out = "succeeded" => c.n = 1
  BY <1>1, <1>3, <1>4, <1>8 DEF AttemptInv, A!Holding
<1>20. AttemptTo(r, e, k, c)
  BY <1>0, <1>1, <1>2, <1>3, <1>4, <1>5, <1>6, <1>7, <1>9, UnderWay DEF AttemptTo
<1> QED BY <1>0, <1>1, <1>2, <1>3, <1>4, <1>5, <1>6, <1>7, <1>9, <1>20, StepMoves

LEMMA LooksKeep ==
    ASSUME AnswerInv, NEW r \in Requests,
           A!GuardAgain(r) \/ A!Check(r) \/ A!Poll(r) \/ A!Stopped(r) \/ A!FinalCheck(r)
    PROVE  AnswerKeeps
<1>1. UNCHANGED <<doc, edits, session, outages, auth, calls, shown>>
  BY DEF A!GuardAgain, A!Check, A!Poll, A!Stopped, A!FinalCheck, A!envVars, A!rowVars
<1>2. /\ attempt[r].pc # "none"
      /\ A!GuardAgain(r) \/ A!Check(r) \/ A!Poll(r) => attempt[r].pc \in A!Holding
      /\ attempt[r].out \in A!Outcomes
  BY AnswerRows DEF A!GuardAgain, A!Check, A!Poll, A!Stopped, A!FinalCheck, A!At,
                    A!Holding, Attempts
<1>3. attempt[r].out = "succeeded" => calls[r].n = 1
  BY <1>2, UnderWay
<1>4. "unknown" \in A!Outcomes /\ "failed" \in A!Outcomes
  BY DEF A!Outcomes
<1>5. CASE \E out \in A!Outcomes :
              /\ A!Leave(r, out) /\ (out = "succeeded" => calls[r].n = 1)
              /\ execution' = execution \/ \E valid \in BOOLEAN : A!StillValid(r, valid)
  BY <1>1, <1>2, <1>5, LeavingKeeps
<1>6. CASE A!GuardAgain(r) /\ A!Goto(r, "check")
  <2>1. execution' = execution /\ attempt[r].pc = "guard"
    BY <1>6 DEF A!GuardAgain, A!At, A!rowVars
  <2> QED BY <2>1, <1>1, <1>6, GoingKeeps DEF A!Holding
<1>7. CASE A!Check(r) /\ attempt[r].pc = "check" /\ A!StillValid(r, TRUE)
           /\ A!Goto(r, "begin")
  BY <1>1, <1>7, GoingKeeps DEF A!Holding
<1>8. CASE A!Check(r) /\ attempt[r].pc = "recheck" /\ A!StillValid(r, TRUE)
           /\ A!Goto(r, "send")
  BY <1>1, <1>8, GoingKeeps DEF A!Holding
<1>9. CASE A!GuardAgain(r)
  <2>1. execution' = execution
    BY <1>9 DEF A!GuardAgain, A!rowVars
  <2> QED BY <2>1, <1>4, <1>5, <1>6, <1>9 DEF A!GuardAgain
<1>10. CASE A!Check(r)
  BY <1>4, <1>5, <1>7, <1>8, <1>10 DEF A!Check, A!At
<1>11. CASE A!Poll(r)
  BY <1>4, <1>5, <1>11 DEF A!Poll
<1>12. CASE A!Stopped(r)
  <2>1. execution' = execution
    BY <1>12 DEF A!Stopped, A!rowVars
  <2> QED BY <2>1, <1>4, <1>5, <1>12 DEF A!Stopped
<1>13. CASE A!FinalCheck(r)
  BY <1>2, <1>3, <1>4, <1>5, <1>13 DEF A!FinalCheck
<1> QED BY <1>9, <1>10, <1>11, <1>12, <1>13

LEMMA BeginKeeps ==
    ASSUME AnswerInv, NEW r \in Requests, A!Begin(r)
    PROVE  AnswerKeeps
<1>1. UNCHANGED <<doc, edits, session, outages, auth, calls, shown>>
  BY DEF A!Begin, A!envVars
<1>2. attempt[r].pc = "begin"
  BY DEF A!Begin, A!At
<1>3. PICK d \in ExecutionRows : d = A!ExecRead(r)
  BY ReadsMove
<1>4. /\ d.bound = execution[r].bound /\ d.sent = execution[r].sent
      /\ d.status = "none" <=> execution[r].status = "none"
      /\ execution[r].status \in A!Ended => d = execution[r]
      /\ d.result # None => d = execution[r]
      /\ d.status = "running" => d = execution[r]
  BY <1>3, ReadsMove DEF A!Ended
<1>5. PICK may \in BOOLEAN : may = (d.status = "running" /\ ~d.sent)
  OBVIOUS
<1>6. PICK e : e = IF may THEN [d EXCEPT !.sent = TRUE] ELSE d
  OBVIOUS
<1>7. /\ e \in ExecutionRows /\ e.bound = d.bound /\ e.status = d.status
      /\ e.result = d.result /\ (d.sent => e.sent) /\ (may => e.sent)
  BY <1>3, <1>6 DEF ExecutionRows
<1>8. execution' = [execution EXCEPT ![r] = e]
  BY <1>3, <1>5, <1>6 DEF A!Begin
<1>9. PICK c \in [n: 0 .. 2, to: Targets \cup {None}] : c = calls[r]
  BY <1>2, UnderWay
<1>10. calls' = [calls EXCEPT ![r] = c] /\ outages' \in 0 .. MaxOutages
  BY <1>1, <1>2, <1>9, UnderWay DEF AnswerInv, A!TypeOK
<1>11. /\ c.n = 0 /\ ~execution[r].sent /\ attempt[r].out # "succeeded"
       /\ execution[r].status # "none" /\ execution[r].result = None
  <2>1. AttemptInv(r) /\ GrantInv(r)
    BY DEF AnswerInv
  <2> QED BY <1>2, <1>9, <2>1 DEF AttemptInv, GrantInv
<1>12. e.result = None /\ e.status # "none"
  BY <1>4, <1>7, <1>11
<1>13. HandedOn(r)
       /\ \E k \in Attempts :
              /\ attempt' = [attempt EXCEPT ![r] = k]
              /\ k.pc = "finish" \/ (k.pc = "recheck" /\ may)
              /\ k.server = attempt[r].server /\ k.out # "succeeded"
  <2>1. CASE A!Leave(r, "failed")
    BY <1>2, <2>1, LeaveMoves DEF A!Outcomes
  <2>2. CASE may /\ A!Goto(r, "recheck")
    BY <1>2, <1>11, <2>2, GotoMoves DEF A!Holding
  <2>3. (may /\ A!Goto(r, "recheck")) \/ A!Leave(r, "failed")
    BY <1>3, <1>5 DEF A!Begin
  <2> QED BY <2>1, <2>2, <2>3
<1>14. PICK k \in Attempts :
              /\ attempt' = [attempt EXCEPT ![r] = k]
              /\ k.pc = "finish" \/ (k.pc = "recheck" /\ may)
              /\ k.server = attempt[r].server /\ k.out # "succeeded"
  BY <1>13
<1>15. /\ execution[r].status # "none" => e.status # "none"
       /\ e.bound = execution[r].bound
       /\ execution[r].status \in A!Ended => e.status = execution[r].status
       /\ c.n <= 1
  BY <1>4, <1>7, <1>11, <1>12
<1>16. /\ k.pc \notin {"none", "guard", "check", "begin", "send", "sent"}
       /\ k.pc = "recheck" => e.sent
       /\ attempt[r].pc # "none"
  BY <1>2, <1>7, <1>14
<1>17. /\ c.n # 1 /\ (k.pc = "recheck" => c.n = 0) /\ k.pc # "sent" /\ k.pc # "none"
       /\ k.pc \notin {"guard", "check", "begin"}
       /\ k.pc \in {"recheck", "send"} => k.pc = "recheck"
  BY <1>11, <1>16
<1>20. AttemptTo(r, e, k, c)
  BY <1>8, <1>10, <1>12, <1>13, <1>14, <1>15, <1>16, <1>17 DEF AttemptTo
<1> QED BY <1>1, <1>7, <1>8, <1>10, <1>11, <1>12, <1>13, <1>14, <1>15, <1>16, <1>20, StepMoves

LEMMA SendKeeps ==
    ASSUME AnswerInv, NEW r \in Requests, A!Send(r)
    PROVE  AnswerKeeps
<1>1. UNCHANGED <<doc, edits, session, outages, auth, execution, shown>>
  BY DEF A!Send, A!envVars, A!rowVars
<1>2. attempt[r].pc = "send" /\ attempt[r].pc # "none" /\ attempt[r].pc \in A!Holding
  BY DEF A!Send, A!At, A!Holding
<1>3. PICK k \in Attempts :
          /\ attempt' = [attempt EXCEPT ![r] = k]
          /\ k.pc = "sent" /\ k.server = attempt[r].server /\ k.out = attempt[r].out
  BY <1>2, GotoMoves DEF A!Send, A!Holding
<1>4. HandedOn(r)
  BY <1>2, GotoMoves DEF A!Send, A!Holding
<1>5. AttemptInv(r)
  BY DEF AnswerInv
<1>6. calls[r].n = 0 /\ execution[r].sent
  BY <1>2, <1>5 DEF AttemptInv
<1>7. Target[attempt[r].server] = auth[r].target /\ Target[attempt[r].server] \in Targets
  <2>1. attempt[r].server \in Hosts
    BY <1>2, UnderWay
  <2>2. handler[attempt[r].server] = [pc |-> "running", req |-> r]
    BY <1>2, <1>5 DEF AttemptInv
  <2>3. SlotInv(attempt[r].server)
    BY <2>1 DEF AnswerInv
  <2> QED BY <2>1, <2>2, <2>3, AnswerAssumption DEF SlotInv
<1>8. PICK c : c = [n |-> calls[r].n + 1, to |-> Target[attempt[r].server]]
  OBVIOUS
<1>9. /\ c \in [n: 0 .. 2, to: Targets \cup {None}]
      /\ c.n = 1 /\ c.to = auth[r].target
  BY <1>6, <1>7, <1>8
<1>10. calls' = [calls EXCEPT ![r] = c]
  BY <1>8 DEF A!Send
<1>11. PICK e \in ExecutionRows : e = execution[r]
  BY AnswerRows
<1>12. execution' = [execution EXCEPT ![r] = e] /\ outages' \in 0 .. MaxOutages
  BY <1>1, <1>2, <1>11, UnderWay DEF AnswerInv, A!TypeOK
<1>13. e.result # None => e.status = "succeeded" /\ e.result = e.bound
  BY <1>2, <1>11, UnderWay
<1>14. e.status # "none" /\ e.sent
  BY <1>2, <1>6, <1>11, UnderWay
<1>20. AttemptTo(r, e, k, c)
  BY <1>2, <1>3, <1>4, <1>9, <1>10, <1>11, <1>12, <1>13, <1>14 DEF AttemptTo
<1> QED BY <1>1, <1>2, <1>3, <1>4, <1>6, <1>9, <1>10, <1>11, <1>12, <1>13, <1>20, StepMoves

LEMMA AnswerArrives ==
    ASSUME AnswerInv, NEW r \in Requests, A!Answer(r)
    PROVE  AnswerKeeps
<1>1. UNCHANGED <<doc, edits, session, outages, auth, execution, calls, shown>>
  BY DEF A!Answer, A!envVars, A!rowVars
<1>2. attempt[r].pc = "sent" /\ attempt[r].pc # "none" /\ attempt[r].pc \in A!Holding
  BY DEF A!Answer, A!At, A!Holding
<1>3. PICK out \in A!Outcomes :
          attempt' = [attempt EXCEPT ![r].pc = "answered", ![r].out = out]
  BY DEF A!Answer
<1>4. PICK k : k = [attempt[r] EXCEPT !.pc = "answered", !.out = out]
  OBVIOUS
<1>5. attempt \in [Requests -> Attempts] /\ attempt[r] \in Attempts
  BY AnswerRows
<1>6. k \in Attempts /\ k.pc = "answered" /\ k.server = attempt[r].server
  BY <1>4, <1>5 DEF Attempts
<1>7. attempt' = [attempt EXCEPT ![r] = k]
  BY <1>3, <1>4
<1>8. HandedOn(r)
  BY <1>2, <1>5, <1>6, <1>7 DEF HandedOn, A!Answer, A!Release, A!Holding
<1>9. AttemptInv(r)
  BY DEF AnswerInv
<1>10. calls[r].n = 1
  BY <1>2, <1>9 DEF AttemptInv
<1>11. PICK e \in ExecutionRows : e = execution[r]
  BY AnswerRows
<1>12. PICK c \in [n: 0 .. 2, to: Targets \cup {None}] : c = calls[r]
  BY <1>2, UnderWay
<1>13. execution' = [execution EXCEPT ![r] = e] /\ outages' \in 0 .. MaxOutages
       /\ calls' = [calls EXCEPT ![r] = c]
  BY <1>1, <1>2, <1>11, <1>12, UnderWay DEF AnswerInv, A!TypeOK
<1>14. /\ e.result # None => e.status = "succeeded" /\ e.result = e.bound
       /\ e.sent /\ c.n = 1 /\ c.to = auth[r].target
  BY <1>2, <1>10, <1>11, <1>12, UnderWay
<1>15. e.status # "none"
  BY <1>2, <1>11, UnderWay
<1>20. AttemptTo(r, e, k, c)
  BY <1>2, <1>6, <1>7, <1>8, <1>11, <1>13, <1>14, <1>15 DEF AttemptTo
<1> QED BY <1>1, <1>2, <1>6, <1>7, <1>8, <1>11, <1>13, <1>14, <1>20, StepMoves

LEMMA AttemptEnds ==
    ASSUME AnswerInv, NEW r \in Requests, A!Finish(r)
    PROVE  AnswerKeeps
<1>1. UNCHANGED <<doc, edits, session, auth, calls, shown>>
  BY DEF A!Finish
<1>2. attempt[r].pc = "finish" /\ attempt[r].pc # "none" /\ outages' \in 0 .. MaxOutages
  BY AnswerAssumption DEF A!Finish, A!At, AnswerInv, A!TypeOK
<1>3. PICK k \in Attempts :
          /\ attempt' = [attempt EXCEPT ![r] = k]
          /\ k.pc = "done" /\ k.server = attempt[r].server /\ k.out = attempt[r].out
  BY <1>2, GotoMoves DEF A!Finish, A!Holding
<1>4. HandedOn(r)
  BY <1>2, GotoMoves DEF A!Finish, A!Holding
<1>5. PICK c \in [n: 0 .. 2, to: Targets \cup {None}] : c = calls[r]
  BY <1>2, UnderWay
<1>6. calls' = [calls EXCEPT ![r] = c]
  BY <1>1, <1>2, <1>5, UnderWay
<1>7. PICK d \in ExecutionRows : d = A!ExecRead(r)
  BY ReadsMove
<1>8. /\ d.bound = execution[r].bound /\ d.sent = execution[r].sent
      /\ d.status = "none" <=> execution[r].status = "none"
      /\ execution[r].status \in A!Ended => d = execution[r]
      /\ d.result # None => d = execution[r]
      /\ d.status = "running" => d = execution[r]
  BY <1>7, ReadsMove DEF A!Ended
<1>9. execution[r] \in ExecutionRows /\ attempt[r].out \in A!Outcomes
  BY AnswerRows DEF Attempts
<1>10. \E e \in ExecutionRows :
          /\ execution' = [execution EXCEPT ![r] = e]
          /\ e.bound = execution[r].bound /\ e.sent = execution[r].sent
          /\ e.status # "none"
          /\ execution[r].status \in A!Ended => e.status = execution[r].status
          /\ e.result # None => e.status = "succeeded" /\ e.result = e.bound /\ c.n = 1
  <2>1. CASE execution' = execution
    BY <1>2, <1>5, <2>1, UnderWay
  <2>2. CASE execution' = [execution EXCEPT ![r] = A!Outcome(r)]
    <3>1. PICK e : e = A!Outcome(r)
      OBVIOUS
    <3>2. CASE e = d
      BY <1>2, <1>5, <1>8, <2>2, <3>1, <3>2, UnderWay
    <3>3. CASE /\ d.status = "running" /\ attempt[r].out # "succeeded"
               /\ e = A!End(d, attempt[r].out)
      <4>1. /\ e \in ExecutionRows /\ e.bound = d.bound /\ e.sent = d.sent
            /\ e.status = attempt[r].out /\ e.result = None
        BY <1>7, <1>9, <3>3 DEF A!End, ExecutionRows, A!Outcomes, A!ExecStatuses, A!Ended
      <4>2. execution[r].status \notin A!Ended /\ e.status # "none"
        BY <1>8, <1>9, <3>3, <4>1 DEF A!Ended, A!Outcomes
      <4> QED BY <1>8, <2>2, <3>1, <4>1, <4>2
    <3>4. CASE /\ d.status = "running" /\ attempt[r].out = "succeeded" /\ d.sent
               /\ e = [d EXCEPT !.status = "succeeded", !.result = d.bound]
      <4>1. /\ e \in ExecutionRows /\ e.bound = d.bound /\ e.sent = d.sent
            /\ e.status = "succeeded" /\ e.result = e.bound
        BY <1>7, <3>4 DEF ExecutionRows, A!ExecStatuses
      <4>2. execution[r].status \notin A!Ended /\ c.n = 1
        BY <1>2, <1>5, <1>8, <3>4, UnderWay DEF A!Ended
      <4> QED BY <1>8, <2>2, <3>1, <4>1, <4>2
    <3> QED BY <1>7, <3>1, <3>2, <3>3, <3>4 DEF A!Outcome
  <2> QED BY <2>1, <2>2 DEF A!Finish
<1>11. PICK e \in ExecutionRows :
          /\ execution' = [execution EXCEPT ![r] = e]
          /\ e.bound = execution[r].bound /\ e.sent = execution[r].sent
          /\ e.status # "none"
          /\ execution[r].status \in A!Ended => e.status = execution[r].status
          /\ e.result # None => e.status = "succeeded" /\ e.result = e.bound /\ c.n = 1
  BY <1>10
<1>12. /\ c.n <= 1 /\ (c.n = 1 => e.sent /\ c.to = auth[r].target)
       /\ k.out = "succeeded" => c.n = 1
  BY <1>2, <1>3, <1>5, <1>11, UnderWay
<1>20. AttemptTo(r, e, k, c)
  BY <1>1, <1>2, <1>3, <1>4, <1>6, <1>11, <1>12, UnderWay DEF AttemptTo
<1> QED BY <1>1, <1>2, <1>3, <1>4, <1>6, <1>11, <1>12, <1>20, StepMoves

-----------------------------------------------------------------------------
(* Answers: the slot of a process. *)

\* A slot that no attempt holds changes hands.
LEMMA SlotMoves ==
    ASSUME AnswerInv, NEW s \in Hosts, NEW h \in Slots,
           handler' = [handler EXCEPT ![s] = h],
           handler[s].pc # "running", h.pc # "running",
           h.pc # "free" => /\ h.req \in Requests /\ auth[h.req].status # "none"
                            /\ auth[h.req].target = Target[s],
           UNCHANGED <<doc, edits, session, outages, auth, execution, attempt, calls, shown>>
    PROVE  AnswerKeeps
<1>1. handler \in [Hosts -> Slots] /\ attempt \in [Requests -> Attempts]
  BY AnswerRows
<1>2. handler' \in [Hosts -> Slots] /\ handler'[s] = h
      /\ \A p \in Hosts \ {s} : handler'[p] = handler[p]
  BY <1>1
<1>3. A!TypeOK'
  BY <1>2 DEF AnswerInv, A!TypeOK, Slots
<1>4. ASSUME NEW r \in Requests PROVE GrantInv(r)' /\ AttemptInv(r)'
  <2>1. GrantInv(r) /\ AttemptInv(r)
    BY DEF AnswerInv
  <2>2. attempt[r].pc \in A!Holding => handler'[attempt[r].server] = handler[attempt[r].server]
    <3>1. SUFFICES ASSUME attempt[r].pc \in A!Holding
                   PROVE  handler'[attempt[r].server] = handler[attempt[r].server]
      OBVIOUS
    <3>2. attempt[r].server \in Hosts
      BY <3>1, UnderWay DEF A!Holding
    <3>3. handler[attempt[r].server].pc = "running"
      BY <2>1, <3>1 DEF AttemptInv
    <3> QED BY <1>2, <3>2, <3>3
  <2> QED BY <2>1, <2>2 DEF GrantInv, AttemptInv
<1>5. ASSUME NEW p \in Hosts PROVE SlotInv(p)'
  BY <1>2 DEF AnswerInv, SlotInv
<1>6. EndsStay
  BY DEF EndsStay, AnswerInv, GrantInv, A!Ended
<1> QED BY <1>3, <1>4, <1>5, <1>6 DEF AnswerKeeps, AnswerInv

LEMMA AdmitKeeps ==
    ASSUME AnswerInv, NEW s \in Hosts, NEW r \in Requests, A!Admit(s, r)
    PROVE  AnswerKeeps
<1>1. UNCHANGED <<doc, edits, session, outages, execution, attempt, calls, shown>>
  BY DEF A!Admit, A!envVars
<1>2. PICK a \in GrantRows : a = A!AuthRead(r)
  BY ReadsMove
<1>3. auth' = [auth EXCEPT ![r] = a] /\ auth[r].status \notin {"none", "consumed"}
  BY <1>2 DEF A!Admit
<1>4. CASE handler' = handler
  BY <1>1, <1>2, <1>3, <1>4, ReadsMove, GrantMoved
<1>5. CASE handler' # handler
  <2>1. /\ a.status = "authorized" /\ a.target = Target[s] /\ handler[s] = A!Free
        /\ handler' = [handler EXCEPT ![s] = [pc |-> "guard", req |-> r]]
    BY <1>2, <1>5 DEF A!Admit, A!MayAdmit
  <2>2. a = auth[r]
    BY <1>2, <2>1, ReadsMove DEF A!Open
  <2>3. auth' = auth
    BY <1>3, <2>2, AnswerRows
  <2>4. PICK h : h = [pc |-> "guard", req |-> r]
    OBVIOUS
  <2>5. h \in Slots /\ h.pc = "guard" /\ h.req = r
    BY <2>4 DEF Slots
  <2>6. handler' = [handler EXCEPT ![s] = h] /\ handler[s].pc # "running"
    BY <2>1, <2>4 DEF A!Free
  <2> QED BY <1>1, <1>3, <2>1, <2>2, <2>3, <2>5, <2>6, SlotMoves
<1> QED BY <1>4, <1>5

LEMMA GuardKeeps ==
    ASSUME AnswerInv, NEW s \in Hosts, A!GuardAdmits(s) \/ A!Refused(s)
    PROVE  AnswerKeeps
<1>1. UNCHANGED <<doc, edits, session, outages, auth, execution, attempt, calls, shown>>
  BY DEF A!GuardAdmits, A!Refused, A!envVars, A!rowVars
<1>2. handler[s] \in Slots /\ SlotInv(s) /\ handler[s].pc \in {"guard", "admitted"}
  BY AnswerRows DEF A!GuardAdmits, A!Refused, AnswerInv
<1>3. CASE A!GuardAdmits(s)
  <2>1. PICK h : h = [handler[s] EXCEPT !.pc = "admitted"]
    OBVIOUS
  <2>2. h \in Slots /\ h.pc = "admitted" /\ h.req = handler[s].req
    BY <1>2, <2>1 DEF Slots
  <2>3. handler' = [handler EXCEPT ![s] = h]
    BY <1>3, <2>1 DEF A!GuardAdmits
  <2> QED BY <1>1, <1>2, <2>2, <2>3, SlotMoves DEF SlotInv
<1>4. CASE A!Refused(s)
  <2>1. PICK h \in Slots : h = A!Free
    BY DEF A!Free, Slots
  <2>2. h.pc = "free" /\ handler' = [handler EXCEPT ![s] = h]
    BY <1>4, <2>1 DEF A!Free, A!Refused
  <2> QED BY <1>1, <1>2, <2>2, SlotMoves
<1> QED BY <1>3, <1>4

\* The claim makes an execution of the passages that were approved, whether
\* its answer arrives and the attempt starts, or is lost.
LEMMA GrantedKeeps ==
    ASSUME AnswerInv, NEW s \in Hosts, NEW r \in Requests, handler[s].req = r,
           handler[s].pc = "admitted",
           execution[r].status = "none", auth[r].status = "authorized",
           auth[r].bound = doc, A!Consume(r),
           UNCHANGED <<doc, edits, session, calls, shown>>,
           \/ /\ handler' = [handler EXCEPT ![s].pc = "running"]
              /\ attempt' = [attempt EXCEPT ![r].pc = "guard", ![r].server = s]
              /\ UNCHANGED outages
           \/ /\ handler' = [handler EXCEPT ![s] = A!Free] /\ attempt' = attempt
              /\ outages < MaxOutages /\ outages' = outages + 1
    PROVE  AnswerKeeps
<1>1. /\ auth \in [Requests -> GrantRows] /\ execution \in [Requests -> ExecutionRows]
      /\ attempt \in [Requests -> Attempts] /\ handler \in [Hosts -> Slots]
      /\ doc \in Versions \cup {None}
  BY AnswerRows DEF AnswerInv, A!TypeOK
<1>2. GrantInv(r) /\ AttemptInv(r) /\ SlotInv(s)
  BY DEF AnswerInv
<1>3. PICK a : a = [auth[r] EXCEPT !.status = "consumed"]
  OBVIOUS
<1>4. /\ a \in GrantRows /\ a.status = "consumed" /\ a.bound = doc
      /\ a.target = auth[r].target
  BY <1>1, <1>3 DEF GrantRows, A!AuthStatuses
<1>5. /\ auth' \in [Requests -> GrantRows] /\ auth'[r] = a
      /\ \A q \in Requests \ {r} : auth'[q] = auth[q]
  BY <1>1, <1>3, <1>4 DEF A!Consume
<1>6. PICK e : e = [status |-> "running", bound |-> doc, sent |-> FALSE, late |-> FALSE,
                    result |-> None]
  OBVIOUS
<1>7. e \in ExecutionRows
  BY <1>1, <1>6 DEF ExecutionRows, A!ExecStatuses
<1>8. /\ execution' \in [Requests -> ExecutionRows] /\ execution'[r] = e
      /\ \A q \in Requests \ {r} : execution'[q] = execution[q]
  BY <1>1, <1>6, <1>7 DEF A!Consume, A!NoExec
<1>9. /\ attempt' \in [Requests -> Attempts] /\ handler' \in [Hosts -> Slots]
      /\ outages' \in 0 .. MaxOutages
      /\ \A q \in Requests \ {r} : attempt'[q] = attempt[q]
      /\ \A p \in Hosts \ {s} : handler'[p] = handler[p]
      /\ \/ /\ handler'[s] = [pc |-> "running", req |-> r]
            /\ attempt'[r].pc = "guard" /\ attempt'[r].server = s
            /\ attempt'[r].out = attempt[r].out
         \/ handler'[s] = A!Free /\ attempt'[r] = attempt[r]
  <2>0. outages \in 0 .. MaxOutages /\ MaxOutages \in Nat
    BY AnswerAssumption DEF AnswerInv, A!TypeOK
  <2>1. CASE /\ handler' = [handler EXCEPT ![s].pc = "running"]
             /\ attempt' = [attempt EXCEPT ![r].pc = "guard", ![r].server = s]
             /\ UNCHANGED outages
    <3>1. PICK k : k = [attempt[r] EXCEPT !.pc = "guard", !.server = s]
      OBVIOUS
    <3>2. k \in Attempts /\ k.pc = "guard" /\ k.server = s /\ k.out = attempt[r].out
      BY <1>1, <3>1, ZenonT(60) DEF Attempts, A!Holding
    <3>3. attempt' = [attempt EXCEPT ![r] = k]
      BY <2>1, <3>1
    <3>4. PICK h : h = [handler[s] EXCEPT !.pc = "running"]
      OBVIOUS
    <3>5. h \in Slots /\ h = [pc |-> "running", req |-> r]
      BY <1>1, <3>4 DEF Slots
    <3>6. handler' = [handler EXCEPT ![s] = h]
      BY <2>1, <3>4
    <3>7. /\ attempt' \in [Requests -> Attempts] /\ attempt'[r] = k
          /\ \A q \in Requests \ {r} : attempt'[q] = attempt[q]
      BY <1>1, <3>2, <3>3
    <3>8. /\ handler' \in [Hosts -> Slots] /\ handler'[s] = h
          /\ \A p \in Hosts \ {s} : handler'[p] = handler[p]
      BY <1>1, <3>5, <3>6
    <3> QED BY <2>0, <2>1, <3>2, <3>5, <3>7, <3>8
  <2>2. CASE /\ handler' = [handler EXCEPT ![s] = A!Free] /\ attempt' = attempt
             /\ outages < MaxOutages /\ outages' = outages + 1
    <3>1. A!Free \in Slots
      BY DEF A!Free, Slots
    <3> QED BY <1>1, <2>0, <2>2, <3>1
  <2> QED BY <2>1, <2>2
<1>10. A!TypeOK'
  BY <1>5, <1>8, <1>9 DEF AnswerInv, A!TypeOK, GrantRows, ExecutionRows, Attempts, Slots
<1>11. /\ attempt[r].pc = "none" /\ ~execution[r].sent /\ calls[r].n # 1
       /\ attempt[r].out # "succeeded" /\ doc # None
  BY <1>2 DEF GrantInv, AttemptInv
<1>12. GrantInv(r)'
  BY <1>4, <1>5, <1>6, <1>8, <1>11 DEF GrantInv
<1>13. AttemptInv(r)'
  <2>1. AttemptInv(r) /\ None \notin Hosts
    BY AnswerAssumption DEF AnswerInv
  <2> QED BY <1>5, <1>6, <1>8, <1>9, <1>11, <2>1 DEF AttemptInv, A!Holding
<1>14. ASSUME NEW q \in Requests, q # r PROVE GrantInv(q)' /\ AttemptInv(q)'
  <2>1. GrantInv(q) /\ AttemptInv(q)
    BY DEF AnswerInv
  <2>2. attempt[q].pc \in A!Holding => handler'[attempt[q].server] = handler[attempt[q].server]
    <3>1. SUFFICES ASSUME attempt[q].pc \in A!Holding
                   PROVE  handler'[attempt[q].server] = handler[attempt[q].server]
      OBVIOUS
    <3>2. attempt[q].server \in Hosts
      BY <3>1, UnderWay DEF A!Holding
    <3>3. handler[attempt[q].server].pc = "running"
      BY <2>1, <3>1 DEF AttemptInv
    <3> QED BY <1>9, <3>2, <3>3
  <2> QED BY <1>5, <1>8, <1>9, <1>14, <2>1, <2>2 DEF GrantInv, AttemptInv
<1>15. ASSUME NEW p \in Hosts PROVE SlotInv(p)'
  <2>1. SlotInv(p)
    BY DEF AnswerInv
  <2>2. \A q \in Requests : /\ auth'[q].target = auth[q].target
                            /\ auth[q].status # "none" => auth'[q].status # "none"
    BY <1>4, <1>5
  <2>3. CASE p # s
    BY <1>9, <2>1, <2>2, <2>3 DEF SlotInv
  <2>4. CASE p = s
    BY <1>2, <1>9, <2>2, <2>4 DEF SlotInv, A!Free
  <2> QED BY <2>3, <2>4
<1>16. EndsStay
  <2>1. ASSUME NEW q \in Requests, q # r, execution[q].status \in A!Ended
        PROVE  execution[q].result = None
    BY <2>1 DEF AnswerInv, GrantInv, A!Ended
  <2> QED BY <1>5, <1>8, <2>1 DEF EndsStay, A!Ended
<1> QED BY <1>10, <1>12, <1>13, <1>14, <1>15, <1>16 DEF AnswerKeeps, AnswerInv

\* A request that claims nothing gives its slot back, and what it read of the
\* grant is written down.
LEMMA GivenBackKeeps ==
    ASSUME AnswerInv, NEW s \in Hosts, NEW r \in Requests, NEW h \in Slots,
           h.pc = "free", handler[s].pc # "running",
           handler' = [handler EXCEPT ![s] = h],
           auth' = [auth EXCEPT ![r] = A!AuthRead(r)],
           UNCHANGED <<doc, edits, session, outages, execution, attempt, calls, shown>>
    PROVE  AnswerKeeps
<1>1. /\ handler \in [Hosts -> Slots] /\ attempt \in [Requests -> Attempts]
      /\ auth \in [Requests -> GrantRows]
  BY AnswerRows
<1>2. handler' \in [Hosts -> Slots] /\ handler'[s] = h
      /\ \A p \in Hosts \ {s} : handler'[p] = handler[p]
  BY <1>1
<1>3. PICK a \in GrantRows : a = A!AuthRead(r)
  BY ReadsMove
<1>4. /\ auth' \in [Requests -> GrantRows] /\ auth'[r] = a
      /\ \A q \in Requests \ {r} : auth'[q] = auth[q]
  BY <1>1, <1>3
<1>5. /\ a.bound = auth[r].bound /\ a.target = auth[r].target
      /\ a.status = "none" <=> auth[r].status = "none"
      /\ a.status = "consumed" <=> auth[r].status = "consumed"
      /\ ~A!Open(auth[r]) => a.status = auth[r].status
  BY <1>3, ReadsMove
<1>6. A!TypeOK'
  BY <1>2, <1>4 DEF AnswerInv, A!TypeOK, Slots, GrantRows
<1>7. ASSUME NEW q \in Requests PROVE GrantInv(q)' /\ AttemptInv(q)'
  <2>1. GrantInv(q) /\ AttemptInv(q)
    BY DEF AnswerInv
  <2>2. attempt[q].pc \in A!Holding => handler'[attempt[q].server] = handler[attempt[q].server]
    <3>1. SUFFICES ASSUME attempt[q].pc \in A!Holding
                   PROVE  handler'[attempt[q].server] = handler[attempt[q].server]
      OBVIOUS
    <3>2. attempt[q].server \in Hosts
      BY <3>1, UnderWay DEF A!Holding
    <3>3. handler[attempt[q].server].pc = "running"
      BY <2>1, <3>1 DEF AttemptInv
    <3> QED BY <1>2, <3>2, <3>3
  <2>3. /\ auth'[q].bound = auth[q].bound /\ auth'[q].target = auth[q].target
        /\ auth'[q].status = "none" <=> auth[q].status = "none"
        /\ auth'[q].status = "consumed" <=> auth[q].status = "consumed"
    BY <1>4, <1>5
  <2> QED BY <2>1, <2>2, <2>3 DEF GrantInv, AttemptInv
<1>8. ASSUME NEW p \in Hosts PROVE SlotInv(p)'
  BY <1>2, <1>4, <1>5 DEF AnswerInv, SlotInv
<1>9. EndsStay
  BY <1>4, <1>5 DEF EndsStay, AnswerInv, GrantInv, A!Ended, A!Open
<1> QED BY <1>6, <1>7, <1>8, <1>9 DEF AnswerKeeps, AnswerInv

LEMMA ClaimKeeps ==
    ASSUME AnswerInv, NEW s \in Hosts, A!Claim(s)
    PROVE  AnswerKeeps
<1>1. handler[s].pc = "admitted" /\ UNCHANGED <<doc, edits, session, calls, shown>>
  BY DEF A!Claim
<1>2. PICK r \in Requests : r = handler[s].req
  BY <1>1 DEF AnswerInv, SlotInv
<1>3. PICK a \in GrantRows : a = A!AuthRead(r)
  BY ReadsMove
<1>4. PICK granted \in BOOLEAN :
          granted = (session /\ execution[r].status = "none" /\ a.status = "authorized")
  OBVIOUS
<1>5. PICK h \in Slots : h = A!Free
  BY DEF A!Free, Slots
<1>6. CASE /\ ~granted /\ handler' = [handler EXCEPT ![s] = A!Free]
           /\ auth' = IF session /\ execution[r].status = "none"
                      THEN [auth EXCEPT ![r] = a] ELSE auth
           /\ UNCHANGED <<execution, attempt, outages>>
  <2>1. h.pc = "free" /\ handler' = [handler EXCEPT ![s] = h]
    BY <1>5, <1>6 DEF A!Free
  <2>2. CASE auth' = auth
    BY <1>1, <1>6, <2>1, <2>2, SlotMoves
  <2>3. CASE auth' # auth
    BY <1>1, <1>2, <1>3, <1>6, <2>1, <2>3, GivenBackKeeps
  <2> QED BY <2>2, <2>3
<1>7. CASE /\ granted /\ A!Consume(r)
           /\ \/ /\ handler' = [handler EXCEPT ![s].pc = "running"]
                 /\ attempt' = [attempt EXCEPT ![r].pc = "guard", ![r].server = s]
                 /\ UNCHANGED outages
              \/ /\ handler' = [handler EXCEPT ![s] = A!Free] /\ attempt' = attempt
                 /\ outages < MaxOutages /\ outages' = outages + 1
  <2>1. a = auth[r] /\ auth[r].bound = doc /\ a.status = "authorized"
    BY <1>3, <1>4, <1>7, ReadsMove DEF A!Open
  <2> QED BY <1>1, <1>2, <1>4, <1>7, <2>1, GrantedKeeps
<1> QED BY <1>2, <1>3, <1>4, <1>6, <1>7 DEF A!Claim, A!Release

LEMMA CrashKeeps ==
    ASSUME AnswerInv, NEW s \in Hosts, A!Crash(s)
    PROVE  AnswerKeeps
<1>1. UNCHANGED <<doc, edits, session, auth, execution, calls, shown>>
  BY DEF A!Crash, A!rowVars
<1>2. outages' \in 0 .. MaxOutages
  BY AnswerAssumption DEF A!Crash, AnswerInv, A!TypeOK
<1>3. handler \in [Hosts -> Slots] /\ attempt \in [Requests -> Attempts]
  BY AnswerRows
<1>4. A!Free \in Slots
  BY DEF A!Free, Slots
<1>5. /\ handler' \in [Hosts -> Slots] /\ handler'[s] = A!Free
      /\ \A p \in Hosts \ {s} : handler'[p] = handler[p]
  BY <1>3, <1>4 DEF A!Crash
<1>6. ASSUME NEW r \in Requests
      PROVE  /\ attempt'[r] \in Attempts /\ attempt'[r].server = attempt[r].server
             /\ attempt'[r].out = attempt[r].out
             /\ attempt[r].server # s => attempt'[r] = attempt[r]
             /\ attempt[r].server = s => attempt'[r].pc = "done"
  <2>1. attempt[r] \in Attempts
    BY <1>3
  <2> QED BY <2>1 DEF A!Crash, Attempts
<1>7. attempt' \in [Requests -> Attempts]
  <2>1. attempt' = [r \in Requests |-> attempt'[r]]
    BY DEF A!Crash
  <2> QED BY <1>6, <2>1
<1>8. A!TypeOK'
  BY <1>1, <1>2, <1>5, <1>7 DEF AnswerInv, A!TypeOK, Attempts, Slots
<1>9. ASSUME NEW r \in Requests PROVE GrantInv(r)' /\ AttemptInv(r)'
  <2>1. GrantInv(r) /\ AttemptInv(r)
    BY DEF AnswerInv
  <2>2. CASE attempt[r].server = s
    <3>1. attempt[r].pc # "none" /\ attempt'[r].pc = "done"
      BY <1>6, <2>1, <2>2, AnswerAssumption DEF AttemptInv
    <3> QED BY <1>1, <1>6, <2>1, <2>2, <3>1 DEF GrantInv, AttemptInv, A!Holding
  <2>3. CASE attempt[r].server # s
    <3>1. attempt[r].pc \in A!Holding =>
              handler'[attempt[r].server] = handler[attempt[r].server]
      BY <1>5, <2>3, UnderWay DEF A!Holding
    <3> QED BY <1>1, <1>6, <2>1, <2>3, <3>1 DEF GrantInv, AttemptInv
  <2> QED BY <2>2, <2>3
<1>10. ASSUME NEW p \in Hosts PROVE SlotInv(p)'
  BY <1>1, <1>5 DEF AnswerInv, SlotInv, A!Free
<1>11. EndsStay
  BY <1>1 DEF EndsStay, AnswerInv, GrantInv, A!Ended
<1> QED BY <1>8, <1>9, <1>10, <1>11 DEF AnswerKeeps, AnswerInv

-----------------------------------------------------------------------------
(* Answers: theorems. *)

LEMMA AnswerNextKeeps ==
    ASSUME AnswerInv, A!Next
    PROVE  AnswerKeeps
<1>1. CASE A!EditDocument \/ A!SessionEnds \/ A!List
  BY <1>1, AroundKeeps, ListKeeps
<1>2. ASSUME NEW r \in Requests,
             \/ A!GrantLapses(r) \/ A!ExecutionLapses(r) \/ A!Prepare(r) \/ A!Detail(r)
             \/ A!Approve(r) \/ A!Cancel(r) \/ A!View(r)
      PROVE  AnswerKeeps
  BY <1>2, LapseMoves, OwnerKeeps, CancelKeeps, ViewKeeps
<1>3. ASSUME NEW r \in Requests, A!Step(r) \/ A!Poll(r) PROVE AnswerKeeps
  BY <1>3, LooksKeep, BeginKeeps, SendKeeps, AnswerArrives, AttemptEnds DEF A!Step
<1>4. ASSUME NEW s \in Hosts,
             \/ \E r \in Requests : A!Admit(s, r)
             \/ A!GuardAdmits(s) \/ A!Refused(s) \/ A!Claim(s) \/ A!Crash(s)
      PROVE  AnswerKeeps
  BY <1>4, AdmitKeeps, GuardKeeps, ClaimKeeps, CrashKeeps
<1> QED BY <1>1, <1>2, <1>3, <1>4 DEF A!Next

LEMMA AnswerStepKeeps == AnswerInv /\ [A!Next]_(A!vars) => AnswerKeeps
<1>1. AnswerInv /\ A!Next => AnswerKeeps
  BY AnswerNextKeeps
<1>2. ASSUME AnswerInv, UNCHANGED A!vars PROVE AnswerKeeps
  <2>1. AnswerInv'
    <3>1. UNCHANGED <<doc, edits, session, outages, auth, execution, handler, attempt,
                      calls, shown>>
      BY <1>2 DEF A!vars, A!envVars, A!rowVars
    <3> QED BY <1>2, <3>1 DEF AnswerInv, A!TypeOK, GrantInv, AttemptInv, SlotInv
  <2>2. UNCHANGED <<auth, execution>>
    BY <1>2 DEF A!vars, A!rowVars
  <2> QED BY <1>2, <2>1, <2>2 DEF AnswerKeeps, EndsStay, AnswerInv, GrantInv, A!Ended
<1> QED BY <1>1, <1>2

\* What a reader is shown is a result of the passages of the moment.
LEMMA ShownStep ==
    ASSUME AnswerInv, [A!Next]_(A!vars), NEW r \in Requests, shown'[r] # shown[r],
           shown'[r].result # None
    PROVE  shown'[r].result = doc /\ doc = auth[r].bound /\ calls[r].n = 1
<1>1. shown \in [Requests -> [status: A!ExecStatuses, result: Versions \cup {None}]]
  BY DEF AnswerInv, A!TypeOK
<1>2. CASE A!List
  BY <1>2 DEF A!List
<1>3. CASE \E q \in Requests : A!View(q)
  <2>1. PICK q \in Requests : A!View(q)
    BY <1>3
  <2>2. PICK e \in ExecutionRows : e = A!ExecRead(q)
    BY ReadsMove
  <2>3. shown' = [shown EXCEPT ![q] = [status |-> e.status, result |-> e.result]]
    BY <2>1, <2>2 DEF A!View
  <2>4. q = r /\ shown'[r].result = e.result
    BY <1>1, <2>3
  <2>5. e = execution[r] /\ execution[r].bound = doc
    BY <2>2, <2>4, ReadsMove
  <2>6. GrantInv(r)
    BY DEF AnswerInv
  <2> QED BY <2>4, <2>5, <2>6, AnswerRows DEF GrantInv
<1>4. CASE UNCHANGED shown
  BY <1>4
<1> QED
  BY <1>2, <1>3, <1>4
     DEF A!Next, A!Step, A!vars, A!EditDocument, A!SessionEnds, A!GrantLapses,
         A!ExecutionLapses, A!Prepare, A!Detail, A!Approve, A!Cancel, A!GuardAgain,
         A!Check, A!Begin, A!Send, A!Answer, A!FinalCheck, A!Stopped, A!Finish, A!Poll,
         A!Admit, A!GuardAdmits, A!Refused, A!Claim, A!Crash

LEMMA AnswersAlone ==
    /\ MCInit => A!Init
    /\ [ExecutionStep \/ AnswerStep]_allVars => [A!Next]_(A!vars)
BY DEF MCInit, ExecutionStep, AnswerStep, allVars, answerVars, A!vars, A!envVars, A!rowVars

LEMMA AnswerInvariance == MCSpec => []AnswerInv
<1>1. AnswerKeeps => AnswerInv'
  BY DEF AnswerKeeps
<1> QED BY <1>1, AnswerInitHolds, AnswerStepKeeps, AnswersAlone, PTL DEF MCSpec

-----------------------------------------------------------------------------
(* Answers: the slots.  What a step does to them, one kind after another.  *)

\* Neither a slot nor an attempt changes.
LEMMA SlotsStay ==
    ASSUME A!SlotsAreUsed, UNCHANGED <<handler, attempt>>
    PROVE  A!SlotsAreUsed'
BY DEF A!SlotsAreUsed

\* A slot is on its way to a claim, or given back before it.
LEMMA SlotPasses ==
    ASSUME AnswerInv, A!SlotsAreUsed, NEW s \in Hosts, NEW row,
           row.pc # "running", handler' = [handler EXCEPT ![s] = row],
           UNCHANGED attempt
    PROVE  A!SlotsAreUsed'
<1>1. handler'[s] = row /\ \A p \in Hosts \ {s} : handler'[p] = handler[p]
  BY AnswerRows
<1> QED BY <1>1 DEF A!SlotsAreUsed

\* An attempt goes on and keeps its slot.
LEMMA AttemptGoesOn ==
    ASSUME AnswerInv, A!SlotsAreUsed, NEW r \in Requests, NEW pc \in A!Holding,
           A!Goto(r, pc)
    PROVE  A!SlotsAreUsed'
<1>1. /\ attempt'[r].pc = pc /\ attempt'[r].server = attempt[r].server
      /\ \A q \in Requests \ {r} : attempt'[q] = attempt[q]
      /\ handler' = handler
  BY AnswerRows DEF A!Goto, Attempts
<1>2. ASSUME NEW s \in Hosts, handler[s].pc = "running"
      PROVE  handler[s].req \in Requests
  BY <1>2 DEF AnswerInv, SlotInv
<1> QED BY <1>1, <1>2 DEF A!SlotsAreUsed

\* An attempt gives its slot back, or had none.
LEMMA AttemptGivesBack ==
    ASSUME AnswerInv, A!SlotsAreUsed, NEW r \in Requests,
           \A q \in Requests \ {r} : attempt'[q] = attempt[q],
           IF attempt[r].pc \in A!Holding
           THEN handler' = [handler EXCEPT ![attempt[r].server] = A!Free]
           ELSE handler' = handler
    PROVE  A!SlotsAreUsed'
<1> SUFFICES ASSUME NEW s \in Hosts, handler'[s].pc = "running"
             PROVE  /\ attempt'[handler'[s].req].pc \in A!Holding
                    /\ attempt'[handler'[s].req].server = s
  BY DEF A!SlotsAreUsed
<1>1. handler'[s] = handler[s] /\ (attempt[r].pc \in A!Holding => attempt[r].server # s)
  BY AnswerRows DEF A!Free
<1>2. handler[s].req \in Requests
  BY <1>1 DEF AnswerInv, SlotInv
<1>3. /\ attempt[handler[s].req].pc \in A!Holding
      /\ attempt[handler[s].req].server = s
  BY <1>1 DEF A!SlotsAreUsed
<1>4. handler[s].req # r
  BY <1>1, <1>3
<1> QED BY <1>1, <1>2, <1>3, <1>4

\* A claim takes its slot for good only with an attempt that was never made.
LEMMA ClaimTakesSlot ==
    ASSUME AnswerInv, A!SlotsAreUsed, NEW s \in Hosts, A!Claim(s)
    PROVE  A!SlotsAreUsed'
<1> DEFINE r == handler[s].req
<1>1. r \in Requests /\ handler[s].pc = "admitted"
  BY DEF A!Claim, AnswerInv, SlotInv
<1>2. CASE A!Release(s) /\ UNCHANGED attempt
  <2>1. A!Free.pc # "running"
    BY DEF A!Free
  <2> QED BY <1>2, <2>1, SlotPasses DEF A!Release
<1>3. CASE /\ execution[r].status = "none"
           /\ handler' = [handler EXCEPT ![s].pc = "running"]
           /\ attempt' = [attempt EXCEPT ![r].pc = "guard", ![r].server = s]
  <2>1. attempt[r].pc = "none"
    BY <1>1, <1>3 DEF AnswerInv, AttemptInv
  <2>2. /\ handler'[s].req = r
        /\ \A p \in Hosts \ {s} : handler'[p] = handler[p]
    BY <1>3, AnswerRows DEF Slots
  <2>3. /\ attempt'[r].pc = "guard" /\ attempt'[r].server = s
        /\ \A q \in Requests \ {r} : attempt'[q] = attempt[q]
    BY <1>1, <1>3, AnswerRows DEF Attempts
  <2>4. ASSUME NEW p \in Hosts \ {s}, handler[p].pc = "running"
        PROVE  handler[p].req \in Requests \ {r}
    <3>1. handler[p].req \in Requests
      BY <2>4 DEF AnswerInv, SlotInv
    <3>2. attempt[handler[p].req].pc # "none"
      BY <2>4 DEF A!SlotsAreUsed, A!Holding
    <3> QED BY <2>1, <3>1, <3>2
  <2> QED BY <2>2, <2>3, <2>4 DEF A!SlotsAreUsed, A!Holding
<1> QED BY <1>2, <1>3 DEF A!Claim

\* A process takes its attempts with it.
LEMMA CrashEmptiesSlot ==
    ASSUME AnswerInv, A!SlotsAreUsed, NEW s \in Hosts, A!Crash(s)
    PROVE  A!SlotsAreUsed'
<1>1. /\ handler' = [handler EXCEPT ![s] = A!Free]
      /\ \A q \in Requests : attempt[q].server # s => attempt'[q] = attempt[q]
  BY DEF A!Crash
<1> SUFFICES ASSUME NEW p \in Hosts, handler'[p].pc = "running"
             PROVE  /\ attempt'[handler'[p].req].pc \in A!Holding
                    /\ attempt'[handler'[p].req].server = p
  BY DEF A!SlotsAreUsed
<1>2. p # s /\ handler'[p] = handler[p]
  BY <1>1, AnswerRows DEF A!Free
<1>3. handler[p].req \in Requests
  BY <1>2 DEF AnswerInv, SlotInv
<1>4. /\ attempt[handler[p].req].pc \in A!Holding
      /\ attempt[handler[p].req].server = p
  BY <1>2 DEF A!SlotsAreUsed
<1> QED BY <1>1, <1>2, <1>3, <1>4

\* The steps of an attempt.
LEMMA AttemptSlots ==
    ASSUME AnswerInv, A!SlotsAreUsed, NEW r \in Requests, A!Step(r) \/ A!Poll(r)
    PROVE  A!SlotsAreUsed'
<1>1. ASSUME NEW out, A!Leave(r, out) PROVE A!SlotsAreUsed'
  <2>1. \A q \in Requests \ {r} : attempt'[q] = attempt[q]
    BY <1>1, AnswerRows DEF A!Leave
  <2>2. IF attempt[r].pc \in A!Holding
        THEN handler' = [handler EXCEPT ![attempt[r].server] = A!Free]
        ELSE handler' = handler
    BY <1>1 DEF A!Leave, A!Release
  <2> QED BY <2>1, <2>2, AttemptGivesBack
<1>2. CASE \E out : A!Leave(r, out)
  BY <1>1, <1>2
<1>3. CASE \E pc \in {"check", "begin", "recheck", "send", "sent"} : A!Goto(r, pc)
  BY <1>3, AttemptGoesOn DEF A!Holding
<1>4. CASE A!Answer(r)
  <2>1. \A q \in Requests \ {r} : attempt'[q] = attempt[q]
    BY <1>4, AnswerRows DEF A!Answer
  <2>2. attempt[r].pc \in A!Holding /\ handler' = [handler EXCEPT ![attempt[r].server] = A!Free]
    BY <1>4 DEF A!Answer, A!At, A!Release, A!Holding
  <2> QED BY <2>1, <2>2, AttemptGivesBack
<1>5. CASE A!Finish(r)
  <2>1. attempt[r].pc \notin A!Holding /\ handler' = handler
    BY <1>5 DEF A!Finish, A!At, A!Goto, A!Holding
  <2>2. \A q \in Requests \ {r} : attempt'[q] = attempt[q]
    BY <1>5, AnswerRows DEF A!Finish, A!Goto
  <2> QED BY <2>1, <2>2, AttemptGivesBack
<1> QED
  BY <1>2, <1>3, <1>4, <1>5
     DEF A!Step, A!Poll, A!GuardAgain, A!Check, A!Begin, A!Send, A!FinalCheck, A!Stopped

LEMMA SlotsStep ==
    ASSUME AnswerInv, A!SlotsAreUsed, [A!Next]_(A!vars)
    PROVE  A!SlotsAreUsed'
<1>1. CASE UNCHANGED A!vars
  BY <1>1, SlotsStay DEF A!vars
<1>2. CASE A!EditDocument \/ A!SessionEnds \/ A!List
  BY <1>2, SlotsStay DEF A!EditDocument, A!SessionEnds, A!List
<1>3. ASSUME NEW r \in Requests,
             \/ A!GrantLapses(r) \/ A!ExecutionLapses(r) \/ A!Prepare(r) \/ A!Detail(r)
             \/ A!Approve(r) \/ A!Cancel(r) \/ A!View(r)
      PROVE  A!SlotsAreUsed'
  <2>1. UNCHANGED <<handler, attempt>>
    BY <1>3 DEF A!GrantLapses, A!ExecutionLapses, A!Prepare, A!Detail, A!Approve,
                A!Cancel, A!View
  <2> QED BY <2>1, SlotsStay
<1>4. ASSUME NEW s \in Hosts, NEW r \in Requests, A!Admit(s, r)
      PROVE  A!SlotsAreUsed'
  <2>1. [pc |-> "guard", req |-> r].pc # "running"
    OBVIOUS
  <2> QED BY <1>4, <2>1, SlotsStay, SlotPasses DEF A!Admit
<1>5. ASSUME NEW s \in Hosts, A!GuardAdmits(s) \/ A!Refused(s) PROVE A!SlotsAreUsed'
  <2>1. A!Free.pc # "running" /\ [handler[s] EXCEPT !.pc = "admitted"].pc # "running"
    BY AnswerRows DEF A!Free, Slots
  <2> QED BY <1>5, <2>1, SlotPasses DEF A!GuardAdmits, A!Refused
<1> QED
  BY <1>1, <1>2, <1>3, <1>4, <1>5, AttemptSlots, ClaimTakesSlot, CrashEmptiesSlot
     DEF A!Next

\* Every slot that is taken for good is held by the attempt it was taken for,
\* which can end: refusals, failures and crashes leave no slot held for nobody
\* (AnswerExecutionPermit in answer_execution_runtime.rs).
THEOREM SlotsAreUsedHolds == MCSpec => []A!SlotsAreUsed
<1>1. A!Init => A!SlotsAreUsed
  BY DEF A!Init, A!SlotsAreUsed, A!Free
<1>2. AnswerInv /\ A!SlotsAreUsed /\ [A!Next]_(A!vars) => A!SlotsAreUsed'
  BY SlotsStep
<1> QED BY <1>1, <1>2, AnswerInvariance, AnswersAlone, PTL DEF MCSpec

\* The provider is called at most once for a grant, behind the send marker that
\* only the claim of the grant can write, at the target the user approved, and
\* never by two tasks of a process at a time, and no slot is held for nobody
\* (execute, answer_checked, AnswerExecutionPermit).
THEOREM SentAsApprovedHolds == MCSpec => []SentAsApproved
<1>1. ASSUME AnswerInv PROVE A!SentAsApproved
  <2>1. ASSUME NEW r \in Requests
        PROVE  /\ calls[r].n <= 1
               /\ calls[r].n = 1 => /\ auth[r].status = "consumed" /\ execution[r].sent
                                    /\ calls[r].to = auth[r].target
               /\ attempt[r].pc \in A!Holding =>
                      handler[attempt[r].server] = [pc |-> "running", req |-> r]
    BY <1>1 DEF AnswerInv, GrantInv, AttemptInv
  <2> QED BY <1>1, <2>1 DEF A!SentAsApproved, AnswerInv
<1> QED BY <1>1, AnswerInvariance, SlotsAreUsedHolds, PTL DEF SentAsApproved

\* A result is shown only while the passages are the ones the user approved,
\* and a grant or an execution that ended stays so, whatever arrives late and
\* however the passages change (read, View, terminal, finish).
THEOREM ShownIsCurrentHolds == MCSpec => ShownIsCurrent
<1> DEFINE Current == \A r \in Requests : shown'[r] # shown[r] /\ shown'[r].result # None =>
                          /\ shown'[r].result = doc /\ doc = auth[r].bound
                          /\ calls[r].n = 1
<1>1. AnswerInv /\ [A!Next]_(A!vars) => [Current]_(A!vars)
  BY ShownStep
<1>2. AnswerInv /\ [A!Next]_(A!vars) => [EndsStay]_(A!vars)
  BY AnswerStepKeeps DEF AnswerKeeps
<1>3. MCSpec => [][A!Next]_(A!vars)
  BY AnswersAlone, PTL DEF MCSpec
<1>4. MCSpec => [][Current]_(A!vars)
  BY <1>1, <1>3, AnswerInvariance, PTL
<1>5. MCSpec => [][EndsStay]_(A!vars)
  BY <1>2, <1>3, AnswerInvariance, PTL
<1>6. MCSpec => A!ShownIsCurrent
  BY <1>4 DEF A!ShownIsCurrent
<1>7. MCSpec => A!EndedIsFinal
  BY <1>5 DEF A!EndedIsFinal, EndsStay
<1> QED BY <1>6, <1>7 DEF ShownIsCurrent

=============================================================================

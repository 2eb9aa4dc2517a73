---------------------------- MODULE Agents_proofs ----------------------------
(***************************************************************************)
(* Proofs about the three parts of MCAgents, for every value of their      *)
(* constants: agent plans and their tool calls (AgentPlans), subscription  *)
(* connections (Connect), sessions and credentials (Sessions).             *)
(***************************************************************************)
EXTENDS MCAgents, FiniteSetTheorems, TLAPS

-----------------------------------------------------------------------------
(* Agent plans: the invariant. *)

Held == {"execute", "audit", "finish"}

\* The task of its plan has claimed a step and has not given it back.
Holds(s) == task[s[1]].pc \in Held /\ task[s[1]].at = s[2]

PlanRows == [status: Statuses, revision: 0 .. MaxRevision,
             approved: BOOLEAN, late: BOOLEAN]
CallRows == [status: {"none", "running", "succeeded", "failed"},
             args: {"none", "step", "other"}, late: BOOLEAN, day: Days]
TaskRows == [pc: {"none", "claim", "execute", "audit", "finish"},
             at: 0 .. 3, ok: BOOLEAN]

\* The types but that of the calls of a day, which are counted.
TypeInv ==
    /\ day \in Days /\ revision \in 1 .. MaxRevision /\ deleted \in BOOLEAN
    /\ plan \in [Plans -> PlanRows]
    /\ step \in [Steps -> StepStates]
    /\ call \in [Steps -> CallRows]
    /\ task \in [Plans -> TaskRows]
    /\ direct \in [Steps -> {"none", "execute", "succeeded", "failed"}]
    /\ runs \in [Steps -> Nat]

\* An id is registered by one of the two interfaces, which runs the tool
\* once, and what a task says of its step is what the audit says.
IdInv(s) ==
    LET t == task[s[1]] IN
    /\ call[s].status = "none" =>
           ~call[s].late /\ runs[s] = 0 /\ direct[s] = "none" /\ ~Holds(s)
    /\ direct[s] = "execute" => runs[s] = 0
    /\ direct[s] # "none" => ~Holds(s)
    /\ Holds(s) => call[s].args = "step"
    /\ Holds(s) /\ t.pc = "execute" => runs[s] = 0
    /\ Holds(s) /\ t.pc # "execute" /\ t.ok => runs[s] = 1
    /\ Holds(s) /\ t.pc = "finish" =>
           call[s].status = (IF t.ok THEN "succeeded" ELSE "failed")
    /\ runs[s] <= 1
    /\ step[s] = "succeeded" =>
           call[s].status = "succeeded" /\ call[s].args = "step" /\ runs[s] = 1

\* The steps of a plan against one another and against its row.
OrderInv(k) ==
    /\ \A s \in StepsOf(k) :
           /\ step[s] \in {"dispatching", "succeeded", "failed"} =>
                  \A r \in StepsOf(k) : r[2] < s[2] => step[r] = "succeeded"
           /\ step[s] = "pending" => plan[k].status \in {"draft", "running"}
           /\ step[s] = "failed" => plan[k].status = "failed"
           /\ step[s] = "succeeded" => plan[k].approved
           /\ plan[k].status = "draft" => step[s] = "pending"
           /\ plan[k].status = "running" =>
                  step[s] \in {"pending", "dispatching", "succeeded"}
           /\ plan[k].status = "succeeded" => step[s] = "succeeded"
           /\ plan[k].status = "cancelled" => step[s] = "cancelled"
    /\ plan[k].status = "running" => plan[k].approved

\* What a task points at is a step of its plan.
TaskInv(k) == task[k].pc \in Held => task[k].at \in Ordinals(k)

\* The calls registered on a day, and that the budget has counted them.
Registered(d) == {s \in Steps : call[s].status # "none" /\ call[s].day = d}

CountInv ==
    /\ used \in [Days -> 0 .. DailyCalls]
    /\ \A d \in Days :
           IsFiniteSet(Registered(d)) /\ used[d] = Cardinality(Registered(d))

Inv ==
    /\ TypeInv
    /\ \A s \in Steps : IdInv(s)
    /\ \A k \in Plans : OrderInv(k) /\ TaskInv(k)
    /\ CountInv

-----------------------------------------------------------------------------
(* Steps. *)

LEMMA StepsOfPlan ==
    ASSUME NEW k \in Plans
    PROVE  StepsOf(k) = {<<k, i>> : i \in Ordinals(k)}
BY DEF StepsOf, Steps

LEMMA StepsArePairs ==
    ASSUME NEW s \in Steps
    PROVE  /\ s[1] \in Plans /\ s[2] \in Ordinals(s[1]) /\ s[2] \in 1 .. 3
           /\ s = <<s[1], s[2]>> /\ s \in StepsOf(s[1])
<1>1. PICK k \in Plans : \E i \in Ordinals(k) : s = <<k, i>>
  BY DEF Steps
<1>0. PICK i \in Ordinals(k) : s = <<k, i>>
  BY <1>1
<1>2. i \in 1 .. 3
  BY PlanAssumption DEF Ordinals
<1> QED BY <1>0, <1>2 DEF StepsOf

LEMMA OrdinalsAreFew ==
    ASSUME NEW k \in Plans
    PROVE  Ordinals(k) \subseteq 1 .. 3 /\ 1 \in Ordinals(k)
BY PlanAssumption DEF Ordinals

LEMMA StepOfPlan ==
    ASSUME NEW k \in Plans, NEW i \in Ordinals(k)
    PROVE  <<k, i>> \in StepsOf(k) /\ <<k, i>> \in Steps
BY DEF StepsOf, Steps

\* The steps of one plan are not those of another.
LEMMA StepsApart ==
    ASSUME NEW k \in Plans, NEW s \in StepsOf(k)
    PROVE  s \in Steps /\ s[1] = k /\ s[2] \in Ordinals(k) /\ s = <<k, s[2]>>
BY StepsArePairs DEF StepsOf

\* The first of the pending steps is one.
LEMMA NextIsFirst ==
    ASSUME TypeInv, NEW k \in Plans, \E s \in StepsOf(k) : step[s] = "pending"
    PROVE  /\ NextStep(k) \in StepsOf(k)
           /\ step[NextStep(k)] = "pending"
           /\ \A r \in StepsOf(k) : step[r] = "pending" => NextStep(k)[2] <= r[2]
<1>1. \E s \in StepsOf(k) :
          /\ step[s] = "pending"
          /\ \A r \in StepsOf(k) : step[r] = "pending" => s[2] <= r[2]
  <2>1. PICK n \in Ordinals(k) : step[<<k, n>>] = "pending"
    BY StepsOfPlan
  <2>2. \E i \in Ordinals(k) :
            /\ step[<<k, i>>] = "pending"
            /\ \A j \in Ordinals(k) : step[<<k, j>>] = "pending" => i <= j
    <3>1. \A i \in Ordinals(k) : i \in {1, 2, 3}
      BY OrdinalsAreFew
    <3>2. CASE 1 \in Ordinals(k) /\ step[<<k, 1>>] = "pending"
      BY <3>1, <3>2
    <3>3. CASE 2 \in Ordinals(k) /\ step[<<k, 2>>] = "pending"
               /\ ~(1 \in Ordinals(k) /\ step[<<k, 1>>] = "pending")
      BY <3>1, <3>3
    <3>4. CASE 3 \in Ordinals(k) /\ step[<<k, 3>>] = "pending"
               /\ ~(1 \in Ordinals(k) /\ step[<<k, 1>>] = "pending")
               /\ ~(2 \in Ordinals(k) /\ step[<<k, 2>>] = "pending")
      BY <3>1, <3>4
    <3> QED BY <2>1, <3>1, <3>2, <3>3, <3>4
  <2>3. PICK i \in Ordinals(k) :
            /\ step[<<k, i>>] = "pending"
            /\ \A j \in Ordinals(k) : step[<<k, j>>] = "pending" => i <= j
    BY <2>2
  <2>4. /\ <<k, i>> \in StepsOf(k) /\ step[<<k, i>>] = "pending"
        /\ \A r \in StepsOf(k) : step[r] = "pending" => <<k, i>>[2] <= r[2]
    BY <2>3, StepsOfPlan
  <2> QED BY <2>4
<1> QED BY <1>1 DEF NextStep

-----------------------------------------------------------------------------
(* What a step has to show of what it changes. *)

LEMMA IdKept ==
    ASSUME NEW s \in Steps, IdInv(s),
           call'[s] = call[s], runs'[s] = runs[s], direct'[s] = direct[s],
           step'[s] = "succeeded" => step[s] = "succeeded",
           task'[s[1]] = task[s[1]] \/ task'[s[1]].pc \notin Held
    PROVE  IdInv(s)'
BY DEF IdInv, Holds

LEMMA OrderKept ==
    ASSUME NEW k \in Plans, OrderInv(k),
           plan'[k].status = plan[k].status, plan'[k].approved = plan[k].approved,
           \A s \in StepsOf(k) : step'[s] = step[s]
    PROVE  OrderInv(k)'
BY DEF OrderInv

LEMMA TaskKept ==
    ASSUME NEW k \in Plans, TaskInv(k),
           task'[k] = task[k] \/ task'[k].pc \notin Held
    PROVE  TaskInv(k)'
BY DEF TaskInv

LEMMA CountKept ==
    ASSUME CountInv, used' = used,
           \A s \in Steps : /\ call'[s].status = "none" <=> call[s].status = "none"
                            /\ call'[s].day = call[s].day
    PROVE  CountInv'
<1>1. \A d \in Days : Registered(d)' = Registered(d)
  BY DEF Registered
<1> QED BY <1>1 DEF CountInv

\* A plan that is stopped leaves what was claimed as it is.
LEMMA Stopped ==
    ASSUME NEW k \in Plans, TypeInv, OrderInv(k),
           NEW status \in {"stale", "unknown", "failed"},
           plan[k].status \in {"draft", "running"}, Stop(k, status)
    PROVE  /\ plan' \in [Plans -> PlanRows] /\ step' \in [Steps -> StepStates]
           /\ OrderInv(k)'
           /\ \A j \in Plans \ {k} : /\ plan'[j] = plan[j]
                                     /\ \A s \in StepsOf(j) : step'[s] = step[s]
           /\ \A s \in Steps : step'[s] = "succeeded" => step[s] = "succeeded"
<1>1. plan' = [plan EXCEPT ![k].status = status]
  BY DEF Stop
<1>2. /\ plan' \in [Plans -> PlanRows]
      /\ plan'[k].status = status /\ plan'[k].approved = plan[k].approved
      /\ \A j \in Plans \ {k} : plan'[j] = plan[j]
  BY <1>1 DEF TypeInv, PlanRows, Statuses
<1>3. step' = [s \in Steps |-> IF s[1] = k /\ step[s] = "pending" THEN "cancelled"
                                                                  ELSE step[s]]
  BY DEF Stop, StepsStopped
<1>4. step' \in [Steps -> StepStates]
  BY <1>3 DEF TypeInv, StepStates
<1>5. \A s \in StepsOf(k) :
          /\ s \in Steps
          /\ step[s] = "pending" => step'[s] = "cancelled"
          /\ step[s] # "pending" => step'[s] = step[s]
  BY <1>3, StepsApart
<1>6. OrderInv(k)'
  BY <1>2, <1>5 DEF OrderInv
<1>7. \A j \in Plans \ {k} : \A s \in StepsOf(j) : step'[s] = step[s]
  BY <1>3, StepsApart
<1> QED BY <1>2, <1>3, <1>4, <1>6, <1>7

\* A registered call is counted on the day it is registered.
LEMMA StartCounts ==
    ASSUME TypeInv, CountInv, NEW s \in Steps, NEW args \in {"step", "other"},
           StartLocked(s, args)
    PROVE  /\ call' \in [Steps -> CallRows]
           /\ call'[s] = [status |-> "running", args |-> args, late |-> FALSE, day |-> day]
           /\ \A r \in Steps \ {s} : call'[r] = call[r]
           /\ CountInv'
<1> DEFINE row == [status |-> "running", args |-> args, late |-> FALSE, day |-> day]
<1>0. row \in CallRows /\ row.status = "running" /\ row.day = day
  BY DEF TypeInv, CallRows
<1>1. /\ call[s].status = "none" /\ used[day] < DailyCalls
      /\ call' = [call EXCEPT ![s] = row]
      /\ used' = [used EXCEPT ![day] = @ + 1]
  BY DEF StartLocked
<1> HIDE DEF row
<1>2. /\ call' \in [Steps -> CallRows] /\ call'[s] = row
      /\ \A r \in Steps \ {s} : call'[r] = call[r]
  BY <1>0, <1>1 DEF TypeInv
<1>3. day \in Days /\ used \in [Days -> 0 .. DailyCalls] /\ DailyCalls \in Nat
  BY PlanAssumption DEF TypeInv, CountInv
<1>4. used' \in [Days -> 0 .. DailyCalls]
  BY <1>1, <1>3
<1>5. ASSUME NEW d \in Days
      PROVE  IsFiniteSet(Registered(d)') /\ used'[d] = Cardinality(Registered(d)')
  <2>1. IsFiniteSet(Registered(d)) /\ used[d] = Cardinality(Registered(d))
    BY DEF CountInv
  <2>2. CASE d # day
    <3>1. Registered(d)' = Registered(d)
      BY <1>0, <1>1, <1>2, <2>2 DEF Registered
    <3>2. used'[d] = used[d]
      BY <1>1, <1>3, <2>2
    <3> QED BY <2>1, <3>1, <3>2
  <2>3. CASE d = day
    <3>1. Registered(d)' = Registered(d) \cup {s} /\ s \notin Registered(d)
      BY <1>0, <1>1, <1>2, <2>3 DEF Registered
    <3>2. /\ IsFiniteSet(Registered(d) \cup {s})
          /\ Cardinality(Registered(d) \cup {s}) = Cardinality(Registered(d)) + 1
      BY <2>1, <3>1, FS_AddElement
    <3>3. used'[d] = used[d] + 1
      BY <1>1, <1>3, <2>3
    <3> QED BY <2>1, <3>1, <3>2, <3>3
  <2> QED BY <2>2, <2>3
<1>6. CountInv'
  BY <1>4, <1>5 DEF CountInv
<1> QED BY <1>2, <1>6 DEF row

\* An audit that is completed keeps what was registered, and one that was
\* complete as it is.
LEMMA FinishAudits ==
    ASSUME TypeInv, CountInv, NEW s \in Steps, NEW ok \in BOOLEAN,
           FinishCall(s, ok), used' = used
    PROVE  /\ call' \in [Steps -> CallRows]
           /\ call'[s].status = (IF ok THEN "succeeded" ELSE "failed")
           /\ call[s].status # "none"
           /\ call'[s].args = call[s].args /\ call'[s].late = call[s].late
           /\ call[s].status = "succeeded" => call'[s] = call[s]
           /\ \A r \in Steps \ {s} : call'[r] = call[r]
           /\ CountInv'
<1> DEFINE outcome == IF ok THEN "succeeded" ELSE "failed"
<1>1. outcome \in {"succeeded", "failed"}
  OBVIOUS
<1>2. /\ call[s].status \in {"running", outcome}
      /\ call' = [call EXCEPT ![s].status = outcome]
  BY DEF FinishCall
<1> HIDE DEF outcome
<1>3. /\ call' \in [Steps -> CallRows]
      /\ call'[s].status = outcome
      /\ call[s].status # "none"
      /\ call'[s].args = call[s].args /\ call'[s].late = call[s].late
      /\ call'[s].day = call[s].day
      /\ \A r \in Steps \ {s} : call'[r] = call[r]
  BY <1>1, <1>2 DEF TypeInv, CallRows
<1>4. call[s].status = "succeeded" => call'[s] = call[s]
  BY <1>1, <1>2 DEF TypeInv, CallRows
<1>5. \A r \in Steps : /\ call'[r].status = "none" <=> call[r].status = "none"
                       /\ call'[r].day = call[r].day
  BY <1>1, <1>3
<1>6. CountInv'
  BY <1>5, CountKept
<1> QED BY <1>3, <1>4, <1>6 DEF outcome

-----------------------------------------------------------------------------
(* Time, the conversation and the user. *)

LEMMA InitInv == Init => Inv
<1> SUFFICES ASSUME Init PROVE Inv
  OBVIOUS
<1>1. TypeInv
  <2>1. 0 \in Days /\ 0 \in 0 .. MaxRevision /\ 1 \in 1 .. MaxRevision
    BY PlanAssumption DEF Days
  <2>2. NoPlan \in PlanRows /\ NoCall \in CallRows /\ NoTask \in TaskRows
    BY <2>1 DEF PlanRows, CallRows, TaskRows, NoPlan, NoCall, NoTask, Statuses
  <2>3. "none" \in StepStates
    BY DEF StepStates
  <2> QED BY <2>1, <2>2, <2>3 DEF Init, TypeInv
<1>2. \A s \in Steps : IdInv(s)
  BY StepsArePairs DEF Init, IdInv, Holds, Held, NoCall, NoTask
<1>3. \A k \in Plans : OrderInv(k) /\ TaskInv(k)
  BY StepsApart DEF Init, OrderInv, TaskInv, Held, NoPlan, NoTask
<1>4. CountInv
  <2>1. \A d \in Days : Registered(d) = {}
    BY DEF Init, Registered, NoCall
  <2>2. IsFiniteSet({}) /\ Cardinality({}) = 0
    BY FS_EmptySet
  <2> QED BY <2>1, <2>2, PlanAssumption DEF Init, CountInv
<1> QED BY <1>1, <1>2, <1>3, <1>4 DEF Inv

\* Whatever does not touch a row.
LEMMA TimeKeeps ==
    ASSUME Inv, NewDay \/ AppendMessage
    PROVE  Inv'
<1>1. UNCHANGED <<rowVars, task, direct, runs>>
  BY DEF NewDay, AppendMessage
<1>2. day' \in Days /\ revision' \in 1 .. MaxRevision /\ deleted' \in BOOLEAN
  BY PlanAssumption DEF Inv, TypeInv, NewDay, AppendMessage, Days
<1>3. TypeInv'
  BY <1>1, <1>2 DEF Inv, TypeInv, rowVars
<1>4. \A s \in Steps : IdInv(s)'
  BY <1>1, IdKept DEF Inv, rowVars
<1>5. \A k \in Plans : OrderInv(k)' /\ TaskInv(k)'
  BY <1>1, OrderKept, TaskKept DEF Inv, rowVars
<1>6. CountInv'
  BY <1>1, CountKept DEF Inv, rowVars
<1> QED BY <1>3, <1>4, <1>5, <1>6 DEF Inv

\* Plans whose rows change while calls, tasks and runs stay.
LEMMA PlansChange ==
    ASSUME Inv, UNCHANGED <<call, used, task, direct, runs>>,
           plan' \in [Plans -> PlanRows], step' \in [Steps -> StepStates],
           day' \in Days, revision' \in 1 .. MaxRevision, deleted' \in BOOLEAN,
           \A s \in Steps : step'[s] = "succeeded" => step[s] = "succeeded",
           \A k \in Plans : OrderInv(k)'
    PROVE  Inv'
<1>1. TypeInv'
  BY DEF Inv, TypeInv
<1>2. \A s \in Steps : IdInv(s)'
  BY IdKept DEF Inv
<1>3. \A k \in Plans : TaskInv(k)'
  BY TaskKept DEF Inv
<1>4. CountInv'
  BY CountKept DEF Inv
<1> QED BY <1>1, <1>2, <1>3, <1>4 DEF Inv

LEMMA PlanLapsesKeeps ==
    ASSUME Inv, NEW k \in Plans, PlanLapses(k)
    PROVE  Inv'
<1>1. /\ plan' = [plan EXCEPT ![k].late = TRUE]
      /\ UNCHANGED <<timeVars, step, call, used, task, direct, runs>>
  BY DEF PlanLapses
<1>2. /\ plan' \in [Plans -> PlanRows]
      /\ \A j \in Plans : /\ plan'[j].status = plan[j].status
                          /\ plan'[j].approved = plan[j].approved
  BY <1>1 DEF Inv, TypeInv, PlanRows
<1>3. \A j \in Plans : OrderInv(j)'
  BY <1>1, <1>2, OrderKept DEF Inv
<1> QED BY <1>1, <1>2, <1>3, PlansChange DEF Inv, TypeInv, timeVars

LEMMA CallLapsesKeeps ==
    ASSUME Inv, NEW s \in Steps, CallLapses(s)
    PROVE  Inv'
<1>1. /\ call' = [call EXCEPT ![s].late = TRUE] /\ call[s].status # "none"
      /\ UNCHANGED <<timeVars, plan, step, used, task, direct, runs>>
  BY DEF CallLapses
<1>2. /\ call' \in [Steps -> CallRows]
      /\ call'[s].status = call[s].status /\ call'[s].args = call[s].args
      /\ call'[s].day = call[s].day
      /\ \A r \in Steps \ {s} : call'[r] = call[r]
  BY <1>1 DEF Inv, TypeInv, CallRows
<1>3. TypeInv'
  BY <1>1, <1>2 DEF Inv, TypeInv, timeVars
<1>4. IdInv(s)'
  BY <1>1, <1>2 DEF Inv, IdInv, Holds
<1>5. \A r \in Steps \ {s} : IdInv(r)'
  BY <1>1, <1>2, IdKept DEF Inv
<1>6. \A k \in Plans : OrderInv(k)' /\ TaskInv(k)'
  BY <1>1, OrderKept, TaskKept DEF Inv
<1>7. CountInv'
  BY <1>1, <1>2, CountKept DEF Inv
<1> QED BY <1>3, <1>4, <1>5, <1>6, <1>7 DEF Inv

LEMMA DeleteKeeps ==
    ASSUME Inv, DeleteConversation
    PROVE  Inv'
<1>1. /\ deleted' = TRUE
      /\ plan' = [k \in Plans |-> NoPlan] /\ step' = [s \in Steps |-> "none"]
      /\ UNCHANGED <<day, revision, call, used, task, direct, runs>>
  BY DEF DeleteConversation
<1>2. NoPlan \in PlanRows /\ NoPlan.status = "absent"
  BY PlanAssumption DEF NoPlan, PlanRows, Statuses, Inv, TypeInv
<1>3. plan' \in [Plans -> PlanRows] /\ step' \in [Steps -> StepStates]
  BY <1>1, <1>2 DEF StepStates
<1>4. \A k \in Plans : OrderInv(k)'
  BY <1>1, <1>2, StepsApart DEF OrderInv
<1> QED BY <1>1, <1>3, <1>4, PlansChange DEF Inv, TypeInv

LEMMA CreateKeeps ==
    ASSUME Inv, NEW k \in Plans, Create(k)
    PROVE  Inv'
<1> DEFINE row == [status |-> "draft", revision |-> revision,
                   approved |-> FALSE, late |-> FALSE]
<1>1. /\ plan' = [plan EXCEPT ![k] = row]
      /\ step' = [s \in Steps |-> IF s[1] = k THEN "pending" ELSE step[s]]
      /\ UNCHANGED <<timeVars, call, used, task, direct, runs>>
  BY DEF Create
<1>2. row \in PlanRows /\ row.status = "draft"
  <2>1. revision \in 0 .. MaxRevision
    BY PlanAssumption DEF Inv, TypeInv
  <2>2. "draft" \in Statuses
    BY DEF Statuses
  <2> QED BY <2>1, <2>2 DEF PlanRows
<1> HIDE DEF row
<1>3. /\ plan' \in [Plans -> PlanRows] /\ plan'[k] = row
      /\ \A j \in Plans \ {k} : plan'[j] = plan[j]
  BY <1>1, <1>2 DEF Inv, TypeInv
<1>4. /\ step' \in [Steps -> StepStates]
      /\ \A s \in Steps : step'[s] = "succeeded" => step[s] = "succeeded"
  BY <1>1 DEF Inv, TypeInv, StepStates
<1>5. OrderInv(k)'
  <2>1. \A s \in StepsOf(k) : step'[s] = "pending"
    BY <1>1, StepsApart
  <2> QED BY <1>2, <1>3, <2>1 DEF OrderInv
<1>6. \A j \in Plans \ {k} : OrderInv(j)'
  <2>1. \A j \in Plans \ {k} : \A s \in StepsOf(j) : step'[s] = step[s]
    BY <1>1, StepsApart
  <2> QED BY <1>3, <2>1, OrderKept DEF Inv
<1> QED BY <1>1, <1>3, <1>4, <1>5, <1>6, PlansChange DEF Inv, TypeInv, timeVars

LEMMA CancelKeeps ==
    ASSUME Inv, NEW k \in Plans, Cancel(k)
    PROVE  Inv'
<1>1. /\ plan' = [plan EXCEPT ![k].status = "cancelled"]
      /\ step' = [s \in Steps |-> IF s[1] = k THEN "cancelled" ELSE step[s]]
      /\ UNCHANGED <<timeVars, call, used, task, direct, runs>>
  BY DEF Cancel
<1>2. /\ plan' \in [Plans -> PlanRows] /\ plan'[k].status = "cancelled"
      /\ \A j \in Plans \ {k} : plan'[j] = plan[j]
  BY <1>1 DEF Inv, TypeInv, PlanRows, Statuses
<1>3. /\ step' \in [Steps -> StepStates]
      /\ \A s \in Steps : step'[s] = "succeeded" => step[s] = "succeeded"
  BY <1>1 DEF Inv, TypeInv, StepStates
<1>4. OrderInv(k)'
  <2>1. \A s \in StepsOf(k) : step'[s] = "cancelled"
    BY <1>1, StepsApart
  <2> QED BY <1>2, <2>1 DEF OrderInv
<1>5. \A j \in Plans \ {k} : OrderInv(j)'
  <2>1. \A j \in Plans \ {k} : \A s \in StepsOf(j) : step'[s] = step[s]
    BY <1>1, StepsApart
  <2> QED BY <1>2, <2>1, OrderKept DEF Inv
<1> QED BY <1>1, <1>2, <1>3, <1>4, <1>5, PlansChange DEF Inv, TypeInv, timeVars

LEMMA ReportedStatus ==
    ASSUME NEW k \in Plans
    PROVE  /\ Reported(k) = "draft" => plan[k].status = "draft"
           /\ Reported(k) = "running" => plan[k].status = "running" /\ ~plan[k].late
BY DEF Reported

LEMMA ApproveKeeps ==
    ASSUME Inv, NEW k \in Plans, Approve(k)
    PROVE  Inv'
<1>1. plan[k].status = "draft" /\ UNCHANGED <<timeVars, call, used, direct, runs>>
  BY ReportedStatus DEF Approve
<1>2. CASE Stop(k, "stale") /\ UNCHANGED task
  <2>1. /\ plan' \in [Plans -> PlanRows] /\ step' \in [Steps -> StepStates]
        /\ OrderInv(k)'
        /\ \A j \in Plans \ {k} : /\ plan'[j] = plan[j]
                                  /\ \A s \in StepsOf(j) : step'[s] = step[s]
        /\ \A s \in Steps : step'[s] = "succeeded" => step[s] = "succeeded"
    BY <1>1, <1>2, Stopped DEF Inv
  <2>2. \A j \in Plans : OrderInv(j)'
    BY <2>1, OrderKept DEF Inv
  <2> QED BY <1>1, <1>2, <2>1, <2>2, PlansChange DEF Inv, TypeInv, timeVars
<1>3. CASE /\ plan' = [plan EXCEPT ![k].status = "running", ![k].approved = TRUE,
                                  ![k].late = FALSE]
           /\ task' = [task EXCEPT ![k].pc = "claim"]
           /\ UNCHANGED step
  <2>1. /\ plan' \in [Plans -> PlanRows]
        /\ plan'[k].status = "running" /\ plan'[k].approved
        /\ \A j \in Plans \ {k} : plan'[j] = plan[j]
    BY <1>3, ZenonT(60) DEF Inv, TypeInv, PlanRows, Statuses
  <2>2. /\ task' \in [Plans -> TaskRows] /\ task'[k].pc = "claim"
        /\ \A j \in Plans \ {k} : task'[j] = task[j]
    BY <1>3 DEF Inv, TypeInv, TaskRows
  <2>3. TypeInv'
    BY <1>1, <1>3, <2>1, <2>2 DEF Inv, TypeInv, timeVars
  <2>4. \A s \in Steps : IdInv(s)'
    <3>1. \A s \in Steps : task'[s[1]] = task[s[1]] \/ task'[s[1]].pc \notin Held
      BY <2>2, StepsArePairs DEF Held
    <3> QED BY <1>1, <1>3, <3>1, IdKept DEF Inv
  <2>5. OrderInv(k)'
    BY <1>1, <1>3, <2>1 DEF Inv, OrderInv
  <2>6. \A j \in Plans \ {k} : OrderInv(j)'
    BY <1>3, <2>1, OrderKept DEF Inv
  <2>7. \A j \in Plans : TaskInv(j)'
    BY <2>2, TaskKept DEF Inv, Held
  <2>8. CountInv'
    BY <1>1, CountKept DEF Inv
  <2> QED BY <2>3, <2>4, <2>5, <2>6, <2>7, <2>8 DEF Inv
<1> QED BY <1>2, <1>3 DEF Approve

-----------------------------------------------------------------------------
(* The tool interface. *)

LEMMA DirectCallKeeps ==
    ASSUME Inv, NEW s \in Steps, DirectCall(s)
    PROVE  Inv'
<1>1. /\ direct[s] = "none" /\ direct' = [direct EXCEPT ![s] = "execute"]
      /\ UNCHANGED <<timeVars, plan, step, task, runs>>
  BY DEF DirectCall
<1>2. PICK args \in {"step", "other"} : StartLocked(s, args)
  BY DEF DirectCall
<1>3. /\ call' \in [Steps -> CallRows]
      /\ call'[s].status = "running"
      /\ \A r \in Steps \ {s} : call'[r] = call[r]
      /\ CountInv'
  BY <1>2, StartCounts DEF Inv
<1>4. call[s].status = "none"
  BY <1>2 DEF StartLocked
<1>5. /\ direct' \in [Steps -> {"none", "execute", "succeeded", "failed"}]
      /\ direct'[s] = "execute" /\ \A r \in Steps \ {s} : direct'[r] = direct[r]
  BY <1>1 DEF Inv, TypeInv
<1>6. TypeInv'
  BY <1>1, <1>3, <1>5 DEF Inv, TypeInv, timeVars
<1>7. IdInv(s)'
  BY <1>1, <1>3, <1>4, <1>5 DEF Inv, IdInv, Holds
<1>8. \A r \in Steps \ {s} : IdInv(r)'
  BY <1>1, <1>3, <1>5, IdKept DEF Inv
<1>9. \A k \in Plans : OrderInv(k)' /\ TaskInv(k)'
  BY <1>1, OrderKept, TaskKept DEF Inv
<1> QED BY <1>3, <1>6, <1>7, <1>8, <1>9 DEF Inv

LEMMA DirectRunKeeps ==
    ASSUME Inv, NEW s \in Steps, DirectRun(s)
    PROVE  Inv'
<1>1. /\ direct[s] = "execute" /\ runs' = [runs EXCEPT ![s] = @ + 1]
      /\ UNCHANGED <<timeVars, rowVars, task>>
  BY DEF DirectRun
<1>2. PICK out \in {"succeeded", "failed"} : direct' = [direct EXCEPT ![s] = out]
  BY DEF DirectRun
<1>3. /\ direct' \in [Steps -> {"none", "execute", "succeeded", "failed"}]
      /\ direct'[s] \in {"succeeded", "failed"}
      /\ \A r \in Steps \ {s} : direct'[r] = direct[r]
  BY <1>2 DEF Inv, TypeInv
<1>4. runs[s] = 0
  BY <1>1 DEF Inv, IdInv
<1>5. /\ runs' \in [Steps -> Nat] /\ runs'[s] = 1
      /\ \A r \in Steps \ {s} : runs'[r] = runs[r]
  BY <1>1, <1>4 DEF Inv, TypeInv
<1>6. TypeInv'
  BY <1>1, <1>3, <1>5 DEF Inv, TypeInv, timeVars, rowVars
<1>7. IdInv(s)'
  BY <1>1, <1>3, <1>4, <1>5 DEF Inv, IdInv, Holds, rowVars
<1>8. \A r \in Steps \ {s} : IdInv(r)'
  BY <1>1, <1>3, <1>5, IdKept DEF Inv, rowVars
<1>9. \A k \in Plans : OrderInv(k)' /\ TaskInv(k)'
  BY <1>1, OrderKept, TaskKept DEF Inv, rowVars
<1>10. CountInv'
  BY <1>1, CountKept DEF Inv, rowVars
<1> QED BY <1>6, <1>7, <1>8, <1>9, <1>10 DEF Inv

LEMMA DirectFinishKeeps ==
    ASSUME Inv, NEW s \in Steps, DirectFinish(s)
    PROVE  Inv'
<1>1. /\ direct[s] \in {"succeeded", "failed"}
      /\ FinishCall(s, direct[s] = "succeeded")
      /\ direct' = [direct EXCEPT ![s] = "none"]
      /\ UNCHANGED <<timeVars, plan, step, used, task, runs>>
  BY DEF DirectFinish
<1>2. /\ call' \in [Steps -> CallRows]
      /\ call'[s].status \in {"succeeded", "failed"}
      /\ call'[s].args = call[s].args
      /\ call[s].status = "succeeded" => call'[s] = call[s]
      /\ \A r \in Steps \ {s} : call'[r] = call[r]
      /\ CountInv'
  <2> DEFINE ok == direct[s] = "succeeded"
  <2>1. ok \in BOOLEAN /\ FinishCall(s, ok) /\ used' = used
    BY <1>1
  <2> HIDE DEF ok
  <2> QED BY <2>1, FinishAudits DEF Inv
<1>3. /\ direct' \in [Steps -> {"none", "execute", "succeeded", "failed"}]
      /\ direct'[s] = "none" /\ \A r \in Steps \ {s} : direct'[r] = direct[r]
  BY <1>1 DEF Inv, TypeInv
<1>4. TypeInv'
  BY <1>1, <1>2, <1>3 DEF Inv, TypeInv, timeVars
<1>5. IdInv(s)'
  BY <1>1, <1>2, <1>3 DEF Inv, IdInv, Holds
<1>6. \A r \in Steps \ {s} : IdInv(r)'
  BY <1>1, <1>2, <1>3, IdKept DEF Inv
<1>7. \A k \in Plans : OrderInv(k)' /\ TaskInv(k)'
  BY <1>1, OrderKept, TaskKept DEF Inv
<1> QED BY <1>2, <1>4, <1>5, <1>6, <1>7 DEF Inv

-----------------------------------------------------------------------------
(* The task of a plan. *)

\* A task that ends or is lost holds nothing.
LEMMA TaskEnds ==
    ASSUME TypeInv, NEW k \in Plans, EndTask(k)
    PROVE  /\ task' \in [Plans -> TaskRows]
           /\ \A j \in Plans : task'[j] = task[j] \/ task'[j].pc \notin Held
           /\ \A s \in Steps : task'[s[1]] = task[s[1]] \/ task'[s[1]].pc \notin Held
<1>1. NoTask \in TaskRows /\ NoTask.pc \notin Held
  BY DEF NoTask, TaskRows, Held
<1>2. task' = [task EXCEPT ![k] = NoTask]
  BY DEF EndTask
<1>3. /\ task' \in [Plans -> TaskRows] /\ task'[k] = NoTask
      /\ \A j \in Plans \ {k} : task'[j] = task[j]
  BY <1>1, <1>2 DEF TypeInv
<1> QED BY <1>1, <1>3, StepsArePairs

\* Rows of a plan change, calls do not, and a task ends.
LEMMA EndKeeps ==
    ASSUME Inv, NEW k \in Plans, EndTask(k),
           UNCHANGED <<timeVars, call, used, direct, runs>>,
           plan' \in [Plans -> PlanRows], step' \in [Steps -> StepStates],
           \A s \in Steps : step'[s] = "succeeded" => step[s] = "succeeded",
           \A j \in Plans : OrderInv(j)'
    PROVE  Inv'
<1>1. /\ task' \in [Plans -> TaskRows]
      /\ \A j \in Plans : task'[j] = task[j] \/ task'[j].pc \notin Held
      /\ \A s \in Steps : task'[s[1]] = task[s[1]] \/ task'[s[1]].pc \notin Held
  BY TaskEnds DEF Inv
<1>2. TypeInv'
  BY <1>1 DEF Inv, TypeInv, timeVars
<1>3. \A s \in Steps : IdInv(s)'
  BY <1>1, IdKept DEF Inv
<1>4. \A j \in Plans : TaskInv(j)'
  BY <1>1, TaskKept DEF Inv
<1>5. CountInv'
  BY CountKept DEF Inv
<1> QED BY <1>2, <1>3, <1>4, <1>5 DEF Inv

LEMMA LostKeeps ==
    ASSUME Inv, NEW k \in Plans, Lost(k)
    PROVE  Inv'
<1>1. EndTask(k) /\ UNCHANGED <<timeVars, rowVars, direct, runs>>
  BY DEF Lost
<1>2. \A j \in Plans : OrderInv(j)'
  BY <1>1, OrderKept DEF Inv, rowVars
<1> QED BY <1>1, <1>2, EndKeeps DEF Inv, TypeInv, rowVars

\* The plan is stopped where its next step would be claimed.
LEMMA StopKeeps ==
    ASSUME Inv, NEW k \in Plans, NEW status \in {"stale", "unknown", "failed"},
           plan[k].status \in {"draft", "running"},
           Stop(k, status), EndTask(k),
           UNCHANGED <<timeVars, call, used, direct, runs>>
    PROVE  Inv'
<1>1. /\ plan' \in [Plans -> PlanRows] /\ step' \in [Steps -> StepStates]
      /\ OrderInv(k)'
      /\ \A j \in Plans \ {k} : /\ plan'[j] = plan[j]
                                /\ \A s \in StepsOf(j) : step'[s] = step[s]
      /\ \A s \in Steps : step'[s] = "succeeded" => step[s] = "succeeded"
  BY Stopped DEF Inv
<1>2. \A j \in Plans : OrderInv(j)'
  BY <1>1, OrderKept DEF Inv
<1> QED BY <1>1, <1>2, EndKeeps

\* What is claimed stands behind successes: the steps before it are not
\* pending, because it is the first, and nothing of the plan is out.
LEMMA DispatchKeeps ==
    ASSUME Inv, NEW k \in Plans, NEW s \in StepsOf(k), s = NextStep(k),
           plan[k].status = "running",
           \A r \in StepsOf(k) : step[r] # "dispatching",
           \E r \in StepsOf(k) : step[r] = "pending",
           StartLocked(s, "step"),
           step' = [step EXCEPT ![s] = "dispatching"],
           task' = [task EXCEPT ![k].pc = "execute", ![k].at = s[2]],
           UNCHANGED <<timeVars, plan, direct, runs>>
    PROVE  Inv'
<1>1. s \in Steps /\ s[1] = k /\ s[2] \in Ordinals(k) /\ s = <<k, s[2]>>
  BY StepsApart
<1>2. /\ call' \in [Steps -> CallRows]
      /\ call'[s].status = "running" /\ call'[s].args = "step"
      /\ \A r \in Steps \ {s} : call'[r] = call[r]
      /\ CountInv'
  <2> DEFINE args == "step"
  <2>1. args \in {"step", "other"} /\ StartLocked(s, args)
    OBVIOUS
  <2>2. /\ call' \in [Steps -> CallRows]
        /\ call'[s].status = "running" /\ call'[s].args = args
        /\ \A r \in Steps \ {s} : call'[r] = call[r]
        /\ CountInv'
    <3> HIDE DEF args
    <3> QED BY <1>1, <2>1, StartCounts DEF Inv
  <2> QED BY <2>2
<1>3. call[s].status = "none"
  BY DEF StartLocked
<1>4. s[2] \in 0 .. 3
  BY <1>1, OrdinalsAreFew
<1>5. /\ task' \in [Plans -> TaskRows]
      /\ task'[k].pc = "execute" /\ task'[k].at = s[2]
      /\ \A j \in Plans \ {k} : task'[j] = task[j]
  BY <1>4 DEF Inv, TypeInv, TaskRows
<1>6. /\ step' \in [Steps -> StepStates] /\ step'[s] = "dispatching"
      /\ \A r \in Steps \ {s} : step'[r] = step[r]
  BY <1>1 DEF Inv, TypeInv, StepStates
<1>7. TypeInv'
  BY <1>2, <1>5, <1>6 DEF Inv, TypeInv, timeVars
<1>8. IdInv(s)'
  BY <1>1, <1>2, <1>3, <1>5, <1>6 DEF Inv, IdInv, Holds, Held
<1>9. ASSUME NEW r \in Steps \ {s} PROVE IdInv(r)'
  <2>1. CASE r[1] # k
    <3>1. task'[r[1]] = task[r[1]]
      BY <1>5, <2>1, StepsArePairs
    <3> QED BY <1>2, <1>6, <3>1, IdKept DEF Inv
  <2>2. CASE r[1] = k
    <3>1. ~Holds(r)'
      BY <1>1, <1>5, <2>2, StepsArePairs DEF Holds
    <3>2. call'[r] = call[r] /\ step'[r] = step[r] /\ direct' = direct /\ runs' = runs
      BY <1>2, <1>6
    <3> QED BY <3>1, <3>2 DEF Inv, IdInv
  <2> QED BY <2>1, <2>2
<1>10. OrderInv(k)'
  <2>1. \A r \in StepsOf(k) : r[2] < s[2] => step[r] = "succeeded"
    <3>1. \A r \in StepsOf(k) : step[r] = "pending" => s[2] <= r[2]
      BY NextIsFirst DEF Inv
    <3>2. \A r \in StepsOf(k) : step[r] \in {"pending", "dispatching", "succeeded"}
      BY DEF Inv, OrderInv
    <3>3. \A r \in StepsOf(k) : r[2] \in 0 .. 3
      BY StepsApart, OrdinalsAreFew
    <3> QED BY <1>4, <3>1, <3>2, <3>3
  <2>2. \A r \in StepsOf(k) : r # s => step'[r] = step[r]
    BY <1>6, StepsApart
  <2>3. step[s] = "pending"
    BY NextIsFirst DEF Inv
  <2> QED BY <1>4, <1>6, <2>1, <2>2, <2>3 DEF Inv, OrderInv
<1>11. \A j \in Plans \ {k} : OrderInv(j)'
  <2>1. \A j \in Plans \ {k} : \A r \in StepsOf(j) : step'[r] = step[r]
    BY <1>1, <1>6, StepsApart
  <2> QED BY <2>1, OrderKept DEF Inv
<1>12. TaskInv(k)'
  BY <1>1, <1>5 DEF TaskInv
<1>13. \A j \in Plans \ {k} : TaskInv(j)'
  BY <1>5, TaskKept DEF Inv
<1> QED BY <1>2, <1>7, <1>8, <1>9, <1>10, <1>11, <1>12, <1>13 DEF Inv

LEMMA ClaimKeeps ==
    ASSUME Inv, NEW k \in Plans, Claim(k)
    PROVE  Inv'
<1> DEFINE s == NextStep(k)
           runnable == /\ Reported(k) = "running"
                       /\ \A r \in StepsOf(k) : step[r] # "dispatching"
           pending == \E r \in StepsOf(k) : step[r] = "pending"
<1>1. UNCHANGED <<timeVars, direct, runs>>
  BY DEF Claim
<1>2. runnable => plan[k].status = "running"
  BY ReportedStatus
<1>3. CASE EndTask(k) /\ UNCHANGED rowVars
  <2>1. \A j \in Plans : OrderInv(j)'
    BY <1>3, OrderKept DEF Inv, rowVars
  <2> QED BY <1>1, <1>3, <2>1, EndKeeps DEF Inv, TypeInv, rowVars
<1>4. CASE runnable /\ Stop(k, "stale") /\ EndTask(k) /\ UNCHANGED <<call, used>>
  BY <1>1, <1>2, <1>4, StopKeeps
<1>5. CASE runnable /\ Stop(k, "unknown") /\ EndTask(k) /\ UNCHANGED <<call, used>>
  BY <1>1, <1>2, <1>5, StopKeeps
<1>6. CASE runnable /\ Stop(k, "failed") /\ EndTask(k) /\ UNCHANGED <<call, used>>
  BY <1>1, <1>2, <1>6, StopKeeps
<1>7. CASE /\ runnable /\ pending /\ StartLocked(s, "step")
           /\ step' = [step EXCEPT ![s] = "dispatching"]
           /\ task' = [task EXCEPT ![k].pc = "execute", ![k].at = s[2]]
           /\ UNCHANGED plan
  <2>1. s \in StepsOf(k)
    BY <1>7, NextIsFirst DEF Inv
  <2> QED BY <1>1, <1>2, <1>7, <2>1, DispatchKeeps
<1> QED BY <1>3, <1>4, <1>5, <1>6, <1>7 DEF Claim

LEMMA NowIsStep ==
    ASSUME Inv, NEW k \in Plans, task[k].pc \in Held
    PROVE  /\ Now(k) \in Steps /\ Now(k) \in StepsOf(k)
           /\ Now(k)[1] = k /\ Now(k)[2] = task[k].at /\ Holds(Now(k))
           /\ \A r \in Steps \ {Now(k)} : r[1] = k => r[2] # task[k].at
BY StepOfPlan, StepsArePairs DEF Inv, TaskInv, Now, Holds

LEMMA ExecuteKeeps ==
    ASSUME Inv, NEW k \in Plans, Execute(k)
    PROVE  Inv'
<1>1. task[k].pc = "execute" /\ UNCHANGED <<timeVars, rowVars, direct>>
  BY DEF Execute, At
<1>0. PICK s \in Steps : s = Now(k)
  BY <1>1, NowIsStep DEF Held
<1>2. /\ s \in Steps /\ s \in StepsOf(k) /\ s[1] = k /\ s[2] = task[k].at /\ Holds(s)
      /\ \A r \in Steps \ {s} : r[1] = k => r[2] # task[k].at
  BY <1>0, <1>1, NowIsStep DEF Held
<1>3. runs[s] = 0 /\ direct[s] = "none" /\ call[s].status # "none"
  BY <1>1, <1>2 DEF Inv, IdInv
<1>4. PICK ok \in BOOLEAN :
          /\ task' = [task EXCEPT ![k].pc = "audit", ![k].ok = ok]
          /\ runs' = [runs EXCEPT ![s] = @ + 1] \/ (UNCHANGED runs /\ ok = FALSE)
  BY <1>0 DEF Execute
<1>5. /\ task' \in [Plans -> TaskRows]
      /\ task'[k].pc = "audit" /\ task'[k].ok = ok /\ task'[k].at = task[k].at
      /\ \A j \in Plans \ {k} : task'[j] = task[j]
  BY <1>4 DEF Inv, TypeInv, TaskRows
<1>6. /\ runs' \in [Steps -> Nat] /\ runs'[s] <= 1 /\ (ok => runs'[s] = 1)
      /\ \A r \in Steps \ {s} : runs'[r] = runs[r]
  BY <1>2, <1>3, <1>4 DEF Inv, TypeInv
<1>7. TypeInv'
  BY <1>1, <1>5, <1>6 DEF Inv, TypeInv, timeVars, rowVars
<1>8. step[s] # "succeeded"
  BY <1>2, <1>3 DEF Inv, IdInv
<1>9. IdInv(s)'
  BY <1>1, <1>2, <1>3, <1>5, <1>6, <1>8 DEF Inv, IdInv, Holds, Held, rowVars
<1>10. ASSUME NEW r \in Steps \ {s} PROVE IdInv(r)'
  <2>1. CASE r[1] # k
    <3>1. task'[r[1]] = task[r[1]]
      BY <1>5, <2>1, StepsArePairs
    <3> QED BY <1>1, <1>6, <3>1, IdKept DEF Inv, rowVars
  <2>2. CASE r[1] = k
    <3>1. ~Holds(r)'
      BY <1>2, <1>5, <2>2 DEF Holds
    <3>2. /\ call'[r] = call[r] /\ step'[r] = step[r] /\ direct'[r] = direct[r]
          /\ runs'[r] = runs[r]
      BY <1>1, <1>6 DEF rowVars
    <3> QED BY <3>1, <3>2 DEF Inv, IdInv
  <2> QED BY <2>1, <2>2
<1>11. \A j \in Plans : OrderInv(j)'
  BY <1>1, OrderKept DEF Inv, rowVars
<1>12. TaskInv(k)'
  BY <1>1, <1>5 DEF Inv, TaskInv, Held
<1>13. \A j \in Plans \ {k} : TaskInv(j)'
  BY <1>5, TaskKept DEF Inv
<1>14. CountInv'
  BY <1>1, CountKept DEF Inv, rowVars
<1> QED BY <1>7, <1>9, <1>10, <1>11, <1>12, <1>13, <1>14 DEF Inv

LEMMA AuditKeeps ==
    ASSUME Inv, NEW k \in Plans, Audit(k)
    PROVE  Inv'
<1>0. PICK s \in Steps, ok \in BOOLEAN : s = Now(k) /\ ok = task[k].ok
  <2>1. Now(k) \in Steps
    BY NowIsStep DEF Audit, At, Held
  <2> QED BY <2>1 DEF Inv, TypeInv, TaskRows
<1>1. /\ task[k].pc = "audit" /\ FinishCall(s, ok)
      /\ task' = [task EXCEPT ![k].pc = "finish"]
      /\ UNCHANGED <<timeVars, plan, step, used, direct, runs>>
  BY <1>0 DEF Audit, At
<1>2. /\ s \in Steps /\ s \in StepsOf(k) /\ s[1] = k /\ s[2] = task[k].at /\ Holds(s)
      /\ \A r \in Steps \ {s} : r[1] = k => r[2] # task[k].at
  BY <1>0, <1>1, NowIsStep DEF Held
<1>3. /\ task' \in [Plans -> TaskRows]
      /\ task'[k].pc = "finish" /\ task'[k].ok = ok /\ task'[k].at = task[k].at
      /\ \A j \in Plans \ {k} : task'[j] = task[j]
  BY <1>0, <1>1 DEF Inv, TypeInv, TaskRows
<1>5. /\ call' \in [Steps -> CallRows]
      /\ call'[s].status = (IF ok THEN "succeeded" ELSE "failed")
      /\ call[s].status # "none" /\ call'[s].args = call[s].args
      /\ call[s].status = "succeeded" => call'[s] = call[s]
      /\ \A r \in Steps \ {s} : call'[r] = call[r]
      /\ CountInv'
  BY <1>1, <1>2, FinishAudits DEF Inv
<1>6. TypeInv'
  BY <1>1, <1>3, <1>5 DEF Inv, TypeInv, timeVars
<1>7. IdInv(s)'
  <2>1. ok => runs[s] = 1
    BY <1>0, <1>1, <1>2 DEF Inv, IdInv
  <2> QED BY <1>1, <1>2, <1>3, <1>5, <2>1 DEF Inv, IdInv, Holds, Held
<1>8. ASSUME NEW r \in Steps \ {s} PROVE IdInv(r)'
  <2>1. CASE r[1] # k
    <3>1. task'[r[1]] = task[r[1]]
      BY <1>3, <2>1, StepsArePairs
    <3> QED BY <1>1, <1>5, <3>1, IdKept DEF Inv
  <2>2. CASE r[1] = k
    <3>1. ~Holds(r)'
      BY <1>2, <1>3, <2>2 DEF Holds
    <3>2. /\ call'[r] = call[r] /\ step'[r] = step[r] /\ direct'[r] = direct[r]
          /\ runs'[r] = runs[r]
      BY <1>1, <1>5
    <3> QED BY <3>1, <3>2 DEF Inv, IdInv
  <2> QED BY <2>1, <2>2
<1>9. \A j \in Plans : OrderInv(j)'
  BY <1>1, OrderKept DEF Inv
<1>10. TaskInv(k)'
  BY <1>1, <1>3 DEF Inv, TaskInv, Held
<1>11. \A j \in Plans \ {k} : TaskInv(j)'
  BY <1>3, TaskKept DEF Inv
<1> QED BY <1>5, <1>6, <1>7, <1>8, <1>9, <1>10, <1>11 DEF Inv

\* A result makes the step a success, or fails the plan; the last success
\* leaves no step behind it, since nothing is claimed before it and what
\* would be pending behind it was looked for.
LEMMA ResultKeeps ==
    ASSUME Inv, NEW k \in Plans, NEW s \in StepsOf(k), NEW ok \in BOOLEAN,
           s = Now(k), ok = task[k].ok,
           plan[k].status = "running", step[s] = "dispatching", Result(k)
    PROVE  /\ plan' \in [Plans -> PlanRows] /\ step' \in [Steps -> StepStates]
           /\ OrderInv(k)'
           /\ \A j \in Plans \ {k} : /\ plan'[j] = plan[j]
                                     /\ \A r \in StepsOf(j) : step'[r] = step[r]
           /\ \A r \in Steps : step'[r] = "succeeded" =>
                                  step[r] = "succeeded" \/ (r = s /\ ok)
<1> DEFINE steps == [step EXCEPT ![s] = IF ok THEN "succeeded" ELSE "failed"]
           last == \A r \in StepsOf(k) : steps[r] \notin {"pending", "dispatching"}
<1>1. /\ plan' = [plan EXCEPT ![k].status =
              CASE ~ok -> "failed" [] ok /\ last -> "succeeded" [] OTHER -> @]
      /\ step' = IF ok THEN steps ELSE StepsStopped(k, steps)
  BY DEF Result
<1>2. s \in Steps /\ s[1] = k
  BY StepsApart
<1>3. /\ steps \in [Steps -> StepStates]
      /\ steps[s] = IF ok THEN "succeeded" ELSE "failed"
      /\ \A r \in Steps \ {s} : steps[r] = step[r]
  BY <1>2 DEF Inv, TypeInv, StepStates
<1>4. /\ plan[k].approved
      /\ \A r \in StepsOf(k) : step[r] \in {"pending", "dispatching", "succeeded"}
      /\ \A r \in StepsOf(k) : r[2] < s[2] => step[r] = "succeeded"
      /\ \A q \in StepsOf(k) : step[q] \in {"dispatching", "succeeded"} =>
             \A r \in StepsOf(k) : r[2] < q[2] => step[r] = "succeeded"
  BY DEF Inv, OrderInv
<1>5. \A r \in StepsOf(k) : /\ r \in Steps /\ r[2] \in 1 .. 3
                            /\ r # s => r[2] # s[2]
  BY StepsApart, OrdinalsAreFew
<1>6. CASE ok
  <2> HIDE DEF steps
  <2>1. step' = steps
    BY <1>1, <1>6
  <2>2. /\ plan' \in [Plans -> PlanRows]
        /\ plan'[k].approved = plan[k].approved
        /\ plan'[k].status = IF last THEN "succeeded" ELSE "running"
        /\ \A j \in Plans \ {k} : plan'[j] = plan[j]
    <3> HIDE DEF last
    <3> DEFINE status == IF last THEN "succeeded" ELSE "running"
    <3>1. plan' = [plan EXCEPT ![k].status = status]
      BY <1>1, <1>6
    <3>2. status \in Statuses
      BY DEF Statuses
    <3> HIDE DEF status
    <3>3. /\ plan' \in [Plans -> PlanRows]
          /\ plan'[k].approved = plan[k].approved
          /\ plan'[k].status = status
          /\ \A j \in Plans \ {k} : plan'[j] = plan[j]
      BY <3>1, <3>2 DEF Inv, TypeInv, PlanRows
    <3> QED BY <3>3 DEF status
  <2>3. /\ step'[s] = "succeeded"
        /\ \A r \in StepsOf(k) : step'[r] \in {"pending", "dispatching", "succeeded"}
        /\ \A q \in StepsOf(k) : step'[q] \in {"dispatching", "succeeded"} =>
             \A r \in StepsOf(k) : r[2] < q[2] => step'[r] = "succeeded"
    BY <1>3, <1>4, <1>5, <1>6, <2>1
  <2>4. last => \A r \in StepsOf(k) : step'[r] = "succeeded"
    BY <2>1, <2>3
  <2>5. OrderInv(k)'
    BY <1>4, <2>2, <2>3, <2>4 DEF OrderInv
  <2>6. \A j \in Plans \ {k} : \A r \in StepsOf(j) : step'[r] = step[r]
    BY <1>2, <1>3, <2>1, StepsApart
  <2> QED BY <1>3, <1>6, <2>1, <2>2, <2>5, <2>6
<1>7. CASE ~ok
  <2> HIDE DEF steps
  <2>1. step' = [r \in Steps |-> IF r[1] = k /\ steps[r] = "pending" THEN "cancelled"
                                                                    ELSE steps[r]]
    BY <1>1, <1>7 DEF StepsStopped
  <2>2. /\ plan' \in [Plans -> PlanRows]
        /\ plan'[k].approved = plan[k].approved
        /\ plan'[k].status = "failed"
        /\ \A j \in Plans \ {k} : plan'[j] = plan[j]
    <3> HIDE DEF last
    <3>1. plan' = [plan EXCEPT ![k].status = "failed"]
      BY <1>1, <1>7
    <3> QED BY <3>1 DEF Inv, TypeInv, PlanRows, Statuses
  <2>3. step' \in [Steps -> StepStates]
    BY <1>3, <2>1 DEF StepStates
  <2>4. /\ step'[s] = "failed"
        /\ \A r \in StepsOf(k) : r # s =>
               \/ step'[r] = "cancelled" /\ step[r] = "pending"
               \/ step'[r] = step[r] /\ step[r] \in {"dispatching", "succeeded"}
    BY <1>2, <1>3, <1>4, <1>5, <1>7, <2>1, StepsApart
  <2>5. \A q \in StepsOf(k) : step'[q] \in {"dispatching", "succeeded", "failed"} =>
             \A r \in StepsOf(k) : r[2] < q[2] => step'[r] = "succeeded"
    <3>1. \A q \in StepsOf(k) : q # s => ~(s[2] < q[2] /\ step[q] \in {"dispatching", "succeeded"})
      BY <1>4
    <3> QED BY <1>4, <1>5, <2>4, <3>1
  <2>6. OrderInv(k)'
    BY <1>4, <2>2, <2>4, <2>5 DEF OrderInv
  <2>7. \A j \in Plans \ {k} : \A r \in StepsOf(j) : step'[r] = step[r]
    BY <1>2, <1>3, <2>1, StepsApart
  <2>8. \A r \in Steps : step'[r] = "succeeded" => step[r] = "succeeded"
    BY <1>3, <1>7, <2>1
  <2> QED BY <2>2, <2>3, <2>6, <2>7, <2>8
<1> QED BY <1>6, <1>7

\* The call of a step that is finished may be late by now; else its row stays.
LEMMA FinishedLate ==
    ASSUME Inv, NEW k \in Plans, Finish(k)
    PROVE  /\ call' \in [Steps -> CallRows]
           /\ \A r \in Steps : /\ call'[r].status = call[r].status
                               /\ call'[r].args = call[r].args
                               /\ call'[r].day = call[r].day
                               /\ call[r].late => call'[r].late
                               /\ call'[r] = call[r] \/ call[r].status # "none"
<1>1. CASE UNCHANGED call
  BY <1>1 DEF Inv, TypeInv
<1>2. CASE call' = [call EXCEPT ![Now(k)].late = TRUE]
  <2>1. Now(k) \in Steps /\ Holds(Now(k))
    BY NowIsStep DEF Finish, At, Held
  <2>2. call[Now(k)].status # "none"
    BY <2>1 DEF Inv, IdInv
  <2> QED BY <1>2, <2>1, <2>2 DEF Inv, TypeInv, CallRows
<1> QED BY <1>1, <1>2 DEF Finish

LEMMA FinishKeeps ==
    ASSUME Inv, NEW k \in Plans, Finish(k)
    PROVE  Inv'
<1>1. /\ task[k].pc = "finish" /\ UNCHANGED <<timeVars, used, direct, runs>>
      /\ task' = [task EXCEPT ![k] = IF task[k].ok THEN [pc |-> "claim", at |-> 0, ok |-> FALSE]
                                     ELSE NoTask]
  BY DEF Finish, At
<1>a. /\ call' \in [Steps -> CallRows]
      /\ \A r \in Steps : /\ call'[r].status = call[r].status
                          /\ call'[r].args = call[r].args
                          /\ call'[r].day = call[r].day
                          /\ call'[r] = call[r] \/ call[r].status # "none"
  BY FinishedLate
<1>2. PICK s \in StepsOf(k), ok \in BOOLEAN :
          s = Now(k) /\ ok = task[k].ok /\ s \in Steps /\ Holds(s) /\ s[1] = k
  <2>1. /\ Now(k) \in StepsOf(k) /\ Now(k) \in Steps /\ Holds(Now(k))
        /\ Now(k)[1] = k
    BY <1>1, NowIsStep DEF Held
  <2> QED BY <2>1 DEF Inv, TypeInv, TaskRows
<1>3. /\ task' \in [Plans -> TaskRows]
      /\ \A j \in Plans : task'[j] = task[j] \/ task'[j].pc \notin Held
  <2> DEFINE row == IF task[k].ok THEN [pc |-> "claim", at |-> 0, ok |-> FALSE] ELSE NoTask
  <2>1. row \in TaskRows /\ row.pc \notin Held
    BY DEF NoTask, TaskRows, Held
  <2>2. task' = [task EXCEPT ![k] = row]
    BY <1>1
  <2> HIDE DEF row
  <2> QED BY <2>1, <2>2 DEF Inv, TypeInv
<1>4. /\ plan' \in [Plans -> PlanRows] /\ step' \in [Steps -> StepStates]
      /\ \A j \in Plans : OrderInv(j)'
      /\ \A r \in Steps : step'[r] = "succeeded" =>
                             step[r] = "succeeded" \/ (r = s /\ ok)
  <2>1. CASE UNCHANGED <<plan, step>>
    <3>1. \A j \in Plans : OrderInv(j)'
      BY <2>1, OrderKept DEF Inv
    <3> QED BY <2>1, <3>1 DEF Inv, TypeInv
  <2>2. CASE AcceptsResult(k) /\ Result(k)
    <3>1. plan[k].status = "running" /\ step[s] = "dispatching"
      BY <1>2, <2>2, ReportedStatus DEF AcceptsResult
    <3>2. /\ plan' \in [Plans -> PlanRows] /\ step' \in [Steps -> StepStates]
          /\ OrderInv(k)'
          /\ \A j \in Plans \ {k} : /\ plan'[j] = plan[j]
                                    /\ \A r \in StepsOf(j) : step'[r] = step[r]
          /\ \A r \in Steps : step'[r] = "succeeded" =>
                                 step[r] = "succeeded" \/ (r = s /\ ok)
      BY <1>2, <2>2, <3>1, ResultKeeps
    <3>3. \A j \in Plans : OrderInv(j)'
      BY <3>2, OrderKept DEF Inv
    <3> QED BY <3>2, <3>3
  <2>3. CASE AcceptsResult(k) /\ Stop(k, "unknown")
    <3>1. plan[k].status = "running"
      BY <2>3, ReportedStatus DEF AcceptsResult
    <3>2. /\ plan' \in [Plans -> PlanRows] /\ step' \in [Steps -> StepStates]
          /\ OrderInv(k)'
          /\ \A j \in Plans \ {k} : /\ plan'[j] = plan[j]
                                    /\ \A r \in StepsOf(j) : step'[r] = step[r]
          /\ \A r \in Steps : step'[r] = "succeeded" => step[r] = "succeeded"
      BY <2>3, <3>1, Stopped DEF Inv
    <3>3. \A j \in Plans : OrderInv(j)'
      BY <3>2, OrderKept DEF Inv
    <3> QED BY <3>2, <3>3
  <2> QED BY <2>1, <2>2, <2>3 DEF Finish
<1>5. TypeInv'
  BY <1>1, <1>a, <1>3, <1>4 DEF Inv, TypeInv, timeVars
<1>6. ok => call[s].status = "succeeded" /\ call[s].args = "step" /\ runs[s] = 1
  BY <1>1, <1>2 DEF Inv, IdInv
<1>7. ASSUME NEW r \in Steps PROVE IdInv(r)'
  <2>1. task'[r[1]] = task[r[1]] \/ task'[r[1]].pc \notin Held
    BY <1>3, StepsArePairs
  <2>2. step'[r] = "succeeded" =>
            call'[r].status = "succeeded" /\ call'[r].args = "step" /\ runs'[r] = 1
    BY <1>1, <1>a, <1>4, <1>6 DEF Inv, IdInv
  <2> QED BY <1>1, <1>a, <2>1, <2>2 DEF Inv, IdInv, Holds
<1>8. \A j \in Plans : TaskInv(j)'
  BY <1>3, TaskKept DEF Inv
<1>9. CountInv'
  BY <1>1, <1>a, CountKept DEF Inv
<1> QED BY <1>4, <1>5, <1>7, <1>8, <1>9 DEF Inv

-----------------------------------------------------------------------------
(* Agent plans: theorems. *)

LEMMA StutterKeeps ==
    ASSUME Inv, UNCHANGED vars
    PROVE  Inv'
<1>1. UNCHANGED <<day, revision, deleted, plan, step, call, used, task, direct, runs>>
  BY DEF vars, timeVars, rowVars
<1>2. TypeInv'
  BY <1>1 DEF Inv, TypeInv
<1>3. \A s \in Steps : IdInv(s)'
  BY <1>1, IdKept DEF Inv
<1>4. \A k \in Plans : OrderInv(k)' /\ TaskInv(k)'
  BY <1>1, OrderKept, TaskKept DEF Inv
<1>5. CountInv'
  BY <1>1, CountKept DEF Inv
<1> QED BY <1>2, <1>3, <1>4, <1>5 DEF Inv

LEMMA StepKeeps == Inv /\ [Next]_vars => Inv'
<1> SUFFICES ASSUME Inv, [Next]_vars PROVE Inv'
  OBVIOUS
<1>1. CASE UNCHANGED vars
  BY <1>1, StutterKeeps
<1>2. CASE NewDay \/ AppendMessage
  BY <1>2, TimeKeeps
<1>3. CASE DeleteConversation
  BY <1>3, DeleteKeeps
<1>4. ASSUME NEW k \in Plans,
             PlanLapses(k) \/ Create(k) \/ Approve(k) \/ Cancel(k)
      PROVE  Inv'
  BY <1>4, PlanLapsesKeeps, CreateKeeps, ApproveKeeps, CancelKeeps
<1>5. ASSUME NEW k \in Plans,
             Claim(k) \/ Execute(k) \/ Audit(k) \/ Finish(k) \/ Lost(k)
      PROVE  Inv'
  BY <1>5, ClaimKeeps, ExecuteKeeps, AuditKeeps, FinishKeeps, LostKeeps
<1>6. ASSUME NEW s \in Steps,
             CallLapses(s) \/ DirectCall(s) \/ DirectRun(s) \/ DirectFinish(s)
      PROVE  Inv'
  BY <1>6, CallLapsesKeeps, DirectCallKeeps, DirectRunKeeps, DirectFinishKeeps
<1> QED BY <1>1, <1>2, <1>3, <1>4, <1>5, <1>6 DEF Next

LEMMA InvGivesProperty == Inv => StepsRunOnceInOrder
<1> SUFFICES ASSUME Inv PROVE StepsRunOnceInOrder
  OBVIOUS
<1>1. TypeOK
  BY DEF Inv, TypeInv, CountInv, TypeOK, PlanRows, CallRows, TaskRows
<1>2. RunsOnce
  <2>1. \A s \in Steps : runs[s] <= 1 /\ (runs[s] = 1 => call[s].status # "none")
    BY DEF Inv, IdInv
  <2> QED BY <2>1 DEF Inv, CountInv, Registered, RunsOnce
<1>3. StepsInOrder
  BY DEF Inv, OrderInv, StepsInOrder
<1>4. OutputIsAudited
  <2>1. \A k \in Plans : \A s \in StepsOf(k) : s \in Steps
    BY StepsApart
  <2> QED BY <2>1 DEF Inv, IdInv, OrderInv, OutputIsAudited
<1> QED BY <1>1, <1>2, <1>3, <1>4 DEF StepsRunOnceInOrder

\* The types, that the tool runs at most once under the id of a step and was
\* counted, that steps are made in order and that outputs are audited, for
\* every set of plans and every limit of a day (start_locked, claim_agent_step,
\* finish_agent_step).
THEOREM StepsRunOnceInOrderHolds == Spec => []StepsRunOnceInOrder
BY InitInv, StepKeeps, InvGivesProperty, PTL DEF Spec

-----------------------------------------------------------------------------
(* What a reader was shown. *)

\* A step of the plan is out whose call is past its deadline.
Overdue(k) == \E s \in StepsOf(k) : step[s] = "dispatching" /\ call[s].late

LEMMA ReportedCases ==
    \A k \in Plans :
        /\ plan[k].status = "draft" =>
               Reported(k) = (IF plan[k].late THEN "expired" ELSE "draft")
        /\ plan[k].status = "running" =>
               Reported(k) = (IF plan[k].late \/ Overdue(k) THEN "unknown" ELSE "running")
        /\ plan[k].status \notin {"draft", "running"} => Reported(k) = plan[k].status
BY DEF Reported, Overdue

\* What a step leaves of a plan if it is not about it: its row, its steps,
\* and whether their calls are late.
RowsKept(k) ==
    /\ plan'[k].status = plan[k].status /\ (plan[k].late => plan'[k].late)
    /\ \A s \in StepsOf(k) :
           /\ step'[s] = step[s]
           /\ call[s].late => call'[s].late

LEMMA FinalKept ==
    ASSUME NEW k \in Plans, RowsKept(k), Reported(k) \in Final
    PROVE  Reported(k)' = Reported(k)
<1>1. Overdue(k) => Overdue(k)'
  BY DEF RowsKept, Overdue
<1>2. /\ plan'[k].status = "draft" =>
             Reported(k)' = (IF plan'[k].late THEN "expired" ELSE "draft")
      /\ plan'[k].status = "running" =>
             Reported(k)' = (IF plan'[k].late \/ Overdue(k)' THEN "unknown" ELSE "running")
      /\ plan'[k].status \notin {"draft", "running"} => Reported(k)' = plan'[k].status
  BY DEF Reported, Overdue
<1>3. CASE plan[k].status = "draft"
  BY <1>2, <1>3, ReportedCases DEF RowsKept, Final
<1>4. CASE plan[k].status = "running"
  BY <1>1, <1>2, <1>4, ReportedCases DEF RowsKept, Final
<1>5. CASE plan[k].status \notin {"draft", "running"}
  BY <1>2, <1>5, ReportedCases DEF RowsKept
<1> QED BY <1>3, <1>4, <1>5

\* A call that starts was not late before, and one that ends is as late as
\* it was.
LEMMA LateKept ==
    ASSUME Inv, NEW s \in Steps,
           \/ \E args \in {"step", "other"} : StartLocked(s, args)
           \/ \E ok \in BOOLEAN : FinishCall(s, ok)
    PROVE  \A r \in Steps : call[r].late => call'[r].late
<1>1. CASE \E args \in {"step", "other"} : StartLocked(s, args)
  <2>1. ~call[s].late
    BY <1>1 DEF Inv, IdInv, StartLocked
  <2>2. \A r \in Steps \ {s} : call'[r] = call[r]
    BY <1>1 DEF Inv, TypeInv, StartLocked
  <2> QED BY <2>1, <2>2
<1>2. CASE \E ok \in BOOLEAN : FinishCall(s, ok)
  <2>1. PICK ok \in BOOLEAN : FinishCall(s, ok)
    BY <1>2
  <2> DEFINE outcome == IF ok THEN "succeeded" ELSE "failed"
  <2>2. call' = [call EXCEPT ![s].status = outcome]
    BY <2>1 DEF FinishCall
  <2> HIDE DEF outcome
  <2> QED BY <2>2 DEF Inv, TypeInv, CallRows
<1> QED BY <1>1, <1>2

\* The steps that are about plan k, and those of another.
LEMMA FinalStep ==
    ASSUME Inv, Next, NEW k \in Plans, Reported(k) \in Final, ~deleted'
    PROVE  \/ Reported(k)' = Reported(k)
           \/ Reported(k) \in {"unknown", "expired"} /\ Reported(k)' = "cancelled"
<1>1. \A s \in StepsOf(k) : s \in Steps /\ s[1] = k
  BY StepsApart
<1>2. CASE UNCHANGED <<plan, step, call>>
  BY <1>2, FinalKept DEF RowsKept
<1>3. ASSUME NEW j \in Plans, PlanLapses(j) PROVE RowsKept(k)
  BY <1>3 DEF PlanLapses, RowsKept, Inv, TypeInv, PlanRows
<1>4. ASSUME NEW j \in Plans, Create(j) PROVE RowsKept(k)
  <2>1. Reported(k) # "absent"
    BY DEF Final
  <2>2. j # k
    BY <1>4, <2>1, ReportedCases DEF Create
  <2> QED BY <1>1, <1>4, <2>2 DEF Create, RowsKept, Inv, TypeInv
<1>5. ASSUME NEW j \in Plans \ {k}, NEW status \in {"stale", "unknown", "failed"},
             Stop(j, status), UNCHANGED call
      PROVE  RowsKept(k)
  BY <1>1, <1>5 DEF Stop, StepsStopped, RowsKept, Inv, TypeInv
<1>6. ASSUME NEW j \in Plans, Approve(j) PROVE RowsKept(k)
  <2>1. j # k
    BY <1>6 DEF Approve, Final
  <2>2. CASE Stop(j, "stale")
    BY <1>5, <1>6, <2>1, <2>2 DEF Approve
  <2>3. CASE plan' = [plan EXCEPT ![j].status = "running", ![j].approved = TRUE,
                                  ![j].late = FALSE] /\ UNCHANGED step
    BY <1>6, <2>1, <2>3 DEF Approve, RowsKept, Inv, TypeInv
  <2> QED BY <1>6, <2>2, <2>3 DEF Approve
<1>7. ASSUME Cancel(k)
      PROVE  Reported(k) \in {"unknown", "expired"} /\ Reported(k)' = "cancelled"
  <2>1. Reported(k) \in {"unknown", "expired"}
    BY <1>7 DEF Cancel, Final
  <2>2. plan'[k].status = "cancelled"
    BY <1>7 DEF Cancel, Inv, TypeInv, PlanRows
  <2>3. Reported(k)' = "cancelled"
    BY <2>2 DEF Reported
  <2> QED BY <2>1, <2>3
<1>8. ASSUME NEW j \in Plans \ {k}, Cancel(j) PROVE RowsKept(k)
  BY <1>1, <1>8 DEF Cancel, RowsKept, Inv, TypeInv
<1>9. ASSUME NEW j \in Plans, Claim(j) PROVE RowsKept(k)
  <2>1. CASE j = k
    BY <1>9, <2>1 DEF Claim, Final, RowsKept, rowVars
  <2>2. CASE j # k /\ UNCHANGED rowVars
    BY <2>2 DEF RowsKept, rowVars
  <2>3. CASE j # k /\ (Stop(j, "stale") \/ Stop(j, "unknown") \/ Stop(j, "failed"))
             /\ UNCHANGED call
    BY <1>5, <2>3
  <2>4. CASE j # k /\ (\E r \in StepsOf(j) : step[r] = "pending")
             /\ StartLocked(NextStep(j), "step")
             /\ step' = [step EXCEPT ![NextStep(j)] = "dispatching"]
             /\ UNCHANGED plan
    <3>1. NextStep(j) \in Steps /\ NextStep(j)[1] = j
      BY <2>4, NextIsFirst, StepsApart DEF Inv
    <3>2. PICK s \in Steps : s = NextStep(j)
      BY <3>1
    <3>3. \A r \in Steps : call[r].late => call'[r].late
      BY <2>4, <3>2, LateKept
    <3>4. \A r \in StepsOf(k) : step'[r] = step[r]
      BY <1>1, <2>4, <3>1 DEF Inv, TypeInv
    <3> QED BY <1>1, <2>4, <3>3, <3>4 DEF RowsKept
  <2> QED BY <1>9, <2>1, <2>2, <2>3, <2>4 DEF Claim
<1>10. ASSUME NEW j \in Plans, Audit(j) PROVE RowsKept(k)
  <2>1. PICK s \in Steps, ok \in BOOLEAN : FinishCall(s, ok)
    <3>1. Now(j) \in Steps
      BY <1>10, NowIsStep DEF Audit, At, Held
    <3>2. task[j].ok \in BOOLEAN
      BY DEF Inv, TypeInv, TaskRows
    <3> QED BY <1>10, <3>1, <3>2 DEF Audit
  <2>2. \A r \in Steps : call[r].late => call'[r].late
    BY <2>1, LateKept
  <2> QED BY <1>1, <1>10, <2>2 DEF Audit, RowsKept
<1>11. ASSUME NEW j \in Plans, Finish(j) PROVE RowsKept(k)
  <2>a. \A r \in Steps : call[r].late => call'[r].late
    BY <1>11, FinishedLate
  <2>1. CASE UNCHANGED <<plan, step>>
    BY <1>1, <2>a, <2>1 DEF RowsKept
  <2>2. CASE j # k /\ AcceptsResult(j) /\ Result(j)
    <3>1. PICK s \in StepsOf(j), ok \in BOOLEAN : s = Now(j) /\ ok = task[j].ok
      <4>1. Now(j) \in StepsOf(j)
        BY <1>11, NowIsStep DEF Finish, At, Held
      <4> QED BY <4>1 DEF Inv, TypeInv, TaskRows
    <3>2. plan[j].status = "running" /\ step[s] = "dispatching"
      BY <2>2, <3>1, ReportedStatus DEF AcceptsResult
    <3>3. plan'[k] = plan[k] /\ \A r \in StepsOf(k) : step'[r] = step[r]
      BY <2>2, <3>1, <3>2, ResultKeeps
    <3> QED BY <1>1, <2>a, <3>3 DEF RowsKept
  <2>3. CASE j # k /\ Stop(j, "unknown")
    BY <1>1, <2>a, <2>3 DEF Stop, StepsStopped, RowsKept, Inv, TypeInv
  <2>4. j = k => ~AcceptsResult(j)
    BY DEF AcceptsResult, Final
  <2> QED BY <1>11, <2>1, <2>2, <2>3, <2>4 DEF Finish
<1>12. ASSUME NEW s \in Steps, CallLapses(s) PROVE RowsKept(k)
  <2>1. \A r \in Steps : call[r].late => call'[r].late
    BY <1>12 DEF CallLapses, Inv, TypeInv, CallRows
  <2> QED BY <1>1, <1>12, <2>1 DEF CallLapses, RowsKept
<1>13. ASSUME NEW s \in Steps, DirectCall(s) \/ DirectFinish(s) PROVE RowsKept(k)
  <2>1. \A r \in Steps : call[r].late => call'[r].late
    BY <1>13, LateKept DEF DirectCall, DirectFinish
  <2> QED BY <1>1, <1>13, <2>1 DEF DirectCall, DirectFinish, RowsKept
<1>14. CASE DeleteConversation
  BY <1>14 DEF DeleteConversation
<1>15. CASE NewDay \/ AppendMessage
  BY <1>2, <1>15 DEF NewDay, AppendMessage, rowVars
<1>16. ASSUME NEW j \in Plans, Execute(j) \/ Lost(j)
       PROVE  UNCHANGED <<plan, step, call>>
  BY <1>16 DEF Execute, Lost, rowVars
<1>17. ASSUME NEW s \in Steps, DirectRun(s)
       PROVE  UNCHANGED <<plan, step, call>>
  BY <1>17 DEF DirectRun, rowVars
<1> QED
  BY <1>2, <1>3, <1>4, <1>6, <1>7, <1>8, <1>9, <1>10, <1>11, <1>12, <1>13, <1>14,
     <1>15, <1>16, <1>17, FinalKept DEF Next

\* What a reader was shown as the end of a plan stays its end, also if it was
\* only computed from the clock (the status of FIELDS and who reads it).
THEOREM ReportedIsFinalHolds == Spec => ReportedIsFinal
<1> DEFINE Shown == \A k \in Plans :
          Reported(k) \in Final /\ ~deleted' =>
              \/ Reported(k)' = Reported(k)
              \/ Reported(k) \in {"unknown", "expired"} /\ Reported(k)' = "cancelled"
<1>1. Inv /\ [Next]_vars => [Shown]_vars
  BY FinalStep
<1> QED BY <1>1, InitInv, StepKeeps, PTL DEF Spec, ReportedIsFinal

-----------------------------------------------------------------------------
(* Sessions and credentials.  That nothing outlives a reset is not         *)
(* inductive: a login that is about to insert its session checked its hash *)
(* two steps ago.  LockInv says why the check still holds: who has the row *)
(* of the user has the hash of today, because a reset needs the same row.  *)

LockInv ==
    \A l \in Logins : login[l].pc \in {"locked", "pruned"} =>
        login[l].hash = password

\* Who waits to issue a credential knows by which session.
IssuerInv ==
    \A i \in Issues : issue[i].pc \in {"waiting", "locking"} =>
        issue[i].by \in Logins

SessionInv == S!SessionsTypeOK /\ LockInv /\ IssuerInv /\ S!NothingOutlivesReset

LEMMA SessionInitHolds == S!SessionsInit => SessionInv
BY DEF S!SessionsInit, SessionInv, S!SessionsTypeOK, LockInv, IssuerInv,
       S!NothingOutlivesReset, S!Hashes, S!Row, S!RowStates, S!NoRow

\* A row that ends keeps its type and is no longer in use.
LEMMA RevokedRow ==
    ASSUME NEW row \in S!Row
    PROVE  S!Revoked(row) \in S!Row /\ S!Revoked(row).state # "live"
BY DEF S!Revoked, S!Row, S!RowStates

LoginRows ==
    [pc: {"idle", "waiting", "locking", "locked", "pruned", "ended"}, hash: S!Hashes]

\* What holds of a login after it moved: its place, its hash and its type.
LEMMA LoginMoves ==
    ASSUME S!SessionsTypeOK, NEW l \in Logins,
           NEW pc \in {"waiting", "locking", "locked", "pruned", "ended"},
           NEW row, row = [pc |-> pc, hash |-> login[l].hash] \/
                    row = [pc |-> pc, hash |-> password],
           login' = [login EXCEPT ![l] = row]
    PROVE  /\ login' \in [Logins -> LoginRows]
           /\ login'[l] = row
           /\ \A k \in Logins \ {l} : login'[k] = login[k]
<1>1. row \in LoginRows
  BY DEF S!SessionsTypeOK, LoginRows
<1> QED BY <1>1 DEF S!SessionsTypeOK, LoginRows

\* A move that keeps the hash, as the module writes it.
LEMMA LoginAtMoves ==
    ASSUME S!SessionsTypeOK, NEW l \in Logins,
           NEW pc \in {"waiting", "locking", "locked", "pruned", "ended"},
           S!LoginAt(l, pc)
    PROVE  /\ login' \in [Logins -> LoginRows]
           /\ login'[l] = [pc |-> pc, hash |-> login[l].hash]
           /\ \A k \in Logins \ {l} : login'[k] = login[k]
<1>1. [login[l] EXCEPT !.pc = pc] = [pc |-> pc, hash |-> login[l].hash]
  BY DEF S!SessionsTypeOK
<1>2. login' = [login EXCEPT ![l] = [pc |-> pc, hash |-> login[l].hash]]
  BY <1>1 DEF S!LoginAt
<1> QED BY <1>2, LoginMoves

LEMMA LoginEnds ==
    ASSUME S!SessionsTypeOK, NEW l \in Logins, S!LoginAt(l, "ended")
    PROVE  /\ login' \in [Logins -> LoginRows]
           /\ login'[l].pc = "ended"
           /\ \A k \in Logins \ {l} : login'[k] = login[k]
<1> DEFINE pc == "ended"
<1>1. pc \in {"waiting", "locking", "locked", "pruned", "ended"} /\ S!LoginAt(l, pc)
  OBVIOUS
<1>2. /\ login' \in [Logins -> LoginRows]
      /\ login'[l] = [pc |-> pc, hash |-> login[l].hash]
      /\ \A k \in Logins \ {l} : login'[k] = login[k]
  <2> HIDE DEF pc
  <2> QED BY <1>1, LoginAtMoves
<1> QED BY <1>2

-----------------------------------------------------------------------------
(* Logins. *)

LEMMA ReadHashKeeps ==
    ASSUME SessionInv, NEW l \in Logins, S!ReadHash(l)
    PROVE  SessionInv'
<1>1. UNCHANGED <<password, session, credential, reset, issue>>
  BY DEF S!ReadHash
<1>2. /\ login' \in [Logins -> LoginRows]
      /\ login'[l].pc \in {"waiting", "ended"}
      /\ \A k \in Logins \ {l} : login'[k] = login[k]
  <2>1. CASE login' = [login EXCEPT ![l] = [pc |-> "waiting", hash |-> password]]
    <3> DEFINE row == [pc |-> "waiting", hash |-> password]
    <3>1. login' = [login EXCEPT ![l] = row]
      BY <2>1
    <3>2. /\ login' \in [Logins -> LoginRows]
          /\ login'[l] = row
          /\ \A k \in Logins \ {l} : login'[k] = login[k]
      <4> HIDE DEF row
      <4>1. row = [pc |-> "waiting", hash |-> password]
        BY DEF row
      <4> QED BY <3>1, <4>1, LoginMoves DEF SessionInv
    <3> QED BY <3>2
  <2>2. CASE S!LoginAt(l, "ended")
    BY <2>2, LoginEnds DEF SessionInv
  <2> QED BY <2>1, <2>2 DEF S!ReadHash
<1>3. S!SessionsTypeOK'
  BY <1>1, <1>2 DEF SessionInv, S!SessionsTypeOK, LoginRows
<1>4. LockInv'
  BY <1>1, <1>2 DEF SessionInv, LockInv
<1>5. IssuerInv' /\ S!NothingOutlivesReset'
  BY <1>1 DEF SessionInv, IssuerInv, S!NothingOutlivesReset
<1> QED BY <1>3, <1>4, <1>5 DEF SessionInv

\* A step of a login changes its own session, or ends ones that are over.
LEMMA LoginKeeps ==
    ASSUME SessionInv, NEW l \in Logins, S!LoginStep(l)
    PROVE  SessionInv'
<1> USE DEF SessionInv
<1>0. UNCHANGED <<password, credential, reset, issue>>
  BY DEF S!LoginStep
<1>1. IssuerInv'
  BY <1>0 DEF IssuerInv
<1>2. ASSUME session' \in [Logins -> S!Row],
             \A k \in Logins : session'[k].state = "live" => session'[k].hash = password,
             NEW pc \in {"waiting", "locking", "locked", "pruned", "ended"},
             S!LoginAt(l, pc),
             pc \in {"locked", "pruned"} => login[l].hash = password
      PROVE  SessionInv'
  <2>1. /\ login' \in [Logins -> LoginRows]
        /\ login'[l] = [pc |-> pc, hash |-> login[l].hash]
        /\ \A k \in Logins \ {l} : login'[k] = login[k]
    BY <1>2, LoginAtMoves
  <2>2. S!SessionsTypeOK'
    BY <2>1, <1>0, <1>2 DEF S!SessionsTypeOK, LoginRows
  <2>3. LockInv'
    BY <2>1, <1>0, <1>2 DEF LockInv
  <2>4. S!NothingOutlivesReset'
    BY <1>0, <1>2 DEF S!NothingOutlivesReset
  <2> QED BY <1>1, <2>2, <2>3, <2>4
<1>3. ASSUME UNCHANGED session
      PROVE  /\ session' \in [Logins -> S!Row]
             /\ \A k \in Logins :
                    session'[k].state = "live" => session'[k].hash = password
  BY <1>3 DEF S!SessionsTypeOK, S!NothingOutlivesReset
<1>4. CASE UNCHANGED session /\ (S!LoginAt(l, "locking") \/ S!LoginAt(l, "ended"))
  BY <1>2, <1>3, <1>4
<1>5. CASE UNCHANGED session /\ S!LoginAt(l, "locked") /\ S!StillProves(l)
  BY <1>2, <1>3, <1>5 DEF S!StillProves
<1>6. CASE login[l].pc = "locked" /\ S!LoginAt(l, "pruned")
           /\ session' = [k \in Logins |->
                  IF session[k].state = "over"
                  THEN [session[k] EXCEPT !.state = "gone"] ELSE session[k]]
  <2>1. session' \in [Logins -> S!Row]
    BY <1>6 DEF S!SessionsTypeOK, S!Row, S!RowStates
  <2>2. \A k \in Logins : session'[k].state = "live" => session'[k] = session[k]
    BY <1>6 DEF S!SessionsTypeOK, S!Row
  <2>3. \A k \in Logins : session'[k].state = "live" => session'[k].hash = password
    BY <2>2 DEF S!NothingOutlivesReset
  <2>4. login[l].hash = password
    BY <1>6 DEF LockInv
  <2> QED BY <1>2, <1>6, <2>1, <2>3, <2>4
<1>7. CASE login[l].pc = "pruned" /\ S!LoginAt(l, "ended")
           /\ session' = [session EXCEPT ![l] =
                  [state |-> "live", hash |-> login[l].hash]]
  <2>1. login[l].hash = password
    BY <1>7 DEF LockInv
  <2>2. session' \in [Logins -> S!Row]
    BY <1>7, <2>1 DEF S!SessionsTypeOK, S!Row, S!RowStates
  <2>3. \A k \in Logins : session'[k].state = "live" => session'[k].hash = password
    BY <1>7, <2>1 DEF S!SessionsTypeOK, S!NothingOutlivesReset
  <2> QED BY <1>2, <1>7, <2>2, <2>3
<1> QED
  BY <1>4, <1>5, <1>6, <1>7 DEF S!LoginStep, S!LoginTimesOut, S!CreateSession

-----------------------------------------------------------------------------
(* Resets. *)

\* A reset changes the password only when nobody has the row of the user,
\* and ends all that is in use with it.
LEMMA ResetKeeps ==
    ASSUME SessionInv, NEW x \in Resets, S!ResetStep(x)
    PROVE  SessionInv'
<1> USE DEF SessionInv, S!ResetAt
<1>1. UNCHANGED <<login, issue>>
  BY DEF S!ResetStep
<1>2. CASE UNCHANGED <<password, session, credential>>
           /\ \E pc \in {"locking", "ended"} : reset' = [reset EXCEPT ![x] = pc]
  BY <1>1, <1>2 DEF S!SessionsTypeOK, LockInv, IssuerInv, S!NothingOutlivesReset
<1>3. CASE S!SetPassword(x)
  <2>1. /\ password' = password + 1
        /\ credential' = [i \in Issues |-> S!Revoked(credential[i])]
        /\ session' = [l \in Logins |-> S!Revoked(session[l])]
        /\ reset' = [reset EXCEPT ![x] = "ended"]
        /\ ~S!UserLocked
    BY <1>3 DEF S!SetPassword
  <2>2. /\ \A i \in Issues : credential'[i] \in S!Row /\ credential'[i].state # "live"
        /\ \A l \in Logins : session'[l] \in S!Row /\ session'[l].state # "live"
    BY <2>1, RevokedRow DEF S!SessionsTypeOK
  <2>3. password' \in S!Hashes /\ reset' \in [Resets -> {"idle", "waiting", "locking", "ended"}]
    BY <2>1 DEF S!SessionsTypeOK, S!Hashes
  <2>4. credential' \in [Issues -> S!Row] /\ session' \in [Logins -> S!Row]
    BY <2>1, <2>2
  <2>5. S!SessionsTypeOK'
    BY <1>1, <2>3, <2>4 DEF S!SessionsTypeOK
  <2>6. LockInv' /\ IssuerInv'
    BY <1>1, <2>1 DEF S!UserLocked, LockInv, IssuerInv
  <2> QED BY <2>2, <2>5, <2>6 DEF S!NothingOutlivesReset
<1> QED BY <1>2, <1>3 DEF S!ResetStep

-----------------------------------------------------------------------------
(* Credentials, and all that ends. *)

LEMMA AuthenticateKeeps ==
    ASSUME SessionInv, NEW i \in Issues, NEW l \in Logins, S!Authenticate(i, l)
    PROVE  SessionInv'
BY DEF SessionInv, S!SessionsTypeOK, LockInv, IssuerInv, S!NothingOutlivesReset, S!Authenticate

\* A credential takes the hash of a session that is still in use.
LEMMA IssueKeeps ==
    ASSUME SessionInv, NEW i \in Issues, S!IssueStep(i)
    PROVE  SessionInv'
<1> USE DEF SessionInv, S!IssueAt
<1>1. UNCHANGED <<password, session, login, reset>>
  BY DEF S!IssueStep
<1>2. \E pc \in {"locking", "ended"} : issue' = [issue EXCEPT ![i].pc = pc]
  BY DEF S!IssueStep, S!CreateMcp
<1>3. issue' \in [Issues -> [pc: {"idle", "waiting", "locking", "ended"},
                             by: Logins \cup {None}]]
  BY <1>2 DEF S!SessionsTypeOK
<1>4. IssuerInv'
  <2>1. issue[i].by \in Logins
    BY DEF S!IssueStep, S!CreateMcp, IssuerInv
  <2> QED BY <2>1, <1>2 DEF S!SessionsTypeOK, IssuerInv
<1>5. CASE UNCHANGED credential
  BY <1>1, <1>3, <1>4, <1>5 DEF S!SessionsTypeOK, LockInv, S!NothingOutlivesReset
<1>6. CASE S!CreateMcp(i) /\ S!SessionHolds(i)
  <2>1. credential' = [credential EXCEPT ![i] =
            [state |-> "live", hash |-> session[issue[i].by].hash]]
    BY <1>6 DEF S!CreateMcp
  <2>2. issue[i].by \in Logins
    BY <1>6 DEF S!CreateMcp, IssuerInv
  <2>3. session[issue[i].by].hash = password
    BY <1>6, <2>2 DEF S!SessionHolds, S!NothingOutlivesReset
  <2>4. credential' \in [Issues -> S!Row]
    BY <2>1, <2>2 DEF S!SessionsTypeOK, S!Row, S!RowStates
  <2>5. S!SessionsTypeOK'
    BY <2>4, <1>1, <1>3 DEF S!SessionsTypeOK
  <2>6. S!NothingOutlivesReset'
    BY <2>1, <2>3, <1>1 DEF S!SessionsTypeOK, S!NothingOutlivesReset
  <2> QED BY <2>5, <2>6, <1>1, <1>4 DEF LockInv
<1> QED BY <1>5, <1>6 DEF S!IssueStep, S!CreateMcp

\* What ends a row or a request opens nothing.
LEMMA SessionEndKeeps ==
    ASSUME SessionInv,
           \/ \E l \in Logins : S!Logout(l)
           \/ \E i \in Issues : S!RevokeMcp(i)
           \/ S!Expires
    PROVE  SessionInv'
<1> USE DEF SessionInv
<1>1. UNCHANGED <<password, login, reset, issue>>
  BY DEF S!Logout, S!RevokeMcp, S!Expires
<1>2. /\ session' \in [Logins -> S!Row]
      /\ \A l \in Logins : session'[l].state = "live" => session'[l] = session[l]
  <2>1. \/ UNCHANGED session
        \/ \E l \in Logins : session' = [session EXCEPT ![l] = S!Revoked(session[l])]
        \/ \E l \in Logins : session' = [session EXCEPT ![l].state = "over"]
    BY DEF S!Logout, S!RevokeMcp, S!Expires
  <2>2. \A l \in Logins : [session[l] EXCEPT !.state = "over"] \in S!Row
    BY DEF S!SessionsTypeOK, S!Row, S!RowStates
  <2>3. ASSUME NEW l \in Logins, NEW row \in S!Row, row.state # "live",
               session' = [session EXCEPT ![l] = row]
        PROVE  /\ session' \in [Logins -> S!Row]
               /\ \A k \in Logins :
                      session'[k].state = "live" => session'[k] = session[k]
    BY <2>3 DEF S!SessionsTypeOK
  <2>4. \A l \in Logins : S!Revoked(session[l]) \in S!Row /\ S!Revoked(session[l]).state # "live"
    BY RevokedRow DEF S!SessionsTypeOK
  <2>5. \A l \in Logins : [session[l] EXCEPT !.state = "over"].state # "live"
    BY DEF S!SessionsTypeOK, S!Row
  <2> QED BY <2>1, <2>2, <2>3, <2>4, <2>5 DEF S!SessionsTypeOK
<1>3. /\ credential' \in [Issues -> S!Row]
      /\ \A i \in Issues : credential'[i].state = "live" => credential'[i] = credential[i]
  <2>1. \/ UNCHANGED credential
        \/ \E i \in Issues :
              credential' = [credential EXCEPT ![i] = S!Revoked(credential[i])]
        \/ \E i \in Issues : credential' = [credential EXCEPT ![i].state = "over"]
    BY DEF S!Logout, S!RevokeMcp, S!Expires
  <2>2. \A i \in Issues : [credential[i] EXCEPT !.state = "over"] \in S!Row
    BY DEF S!SessionsTypeOK, S!Row, S!RowStates
  <2>3. ASSUME NEW i \in Issues, NEW row \in S!Row, row.state # "live",
               credential' = [credential EXCEPT ![i] = row]
        PROVE  /\ credential' \in [Issues -> S!Row]
               /\ \A k \in Issues :
                      credential'[k].state = "live" => credential'[k] = credential[k]
    BY <2>3 DEF S!SessionsTypeOK
  <2>4. \A i \in Issues :
           S!Revoked(credential[i]) \in S!Row /\ S!Revoked(credential[i]).state # "live"
    BY RevokedRow DEF S!SessionsTypeOK
  <2>5. \A i \in Issues : [credential[i] EXCEPT !.state = "over"].state # "live"
    BY DEF S!SessionsTypeOK, S!Row
  <2> QED BY <2>1, <2>2, <2>3, <2>4, <2>5 DEF S!SessionsTypeOK
<1> QED
  BY <1>1, <1>2, <1>3 DEF S!SessionsTypeOK, LockInv, IssuerInv, S!NothingOutlivesReset

LEMMA HangUpKeeps ==
    ASSUME SessionInv, S!HangsUp \/ \E x \in Resets : S!StartReset(x)
    PROVE  SessionInv'
<1> USE DEF SessionInv
<1>1. UNCHANGED <<password, session, credential>>
  BY DEF S!HangsUp, S!StartReset
<1>2. /\ \/ UNCHANGED login
         \/ \E l \in Logins : S!LoginAt(l, "ended")
      /\ \/ UNCHANGED reset
         \/ \E x \in Resets, pc \in {"waiting", "ended"} :
               reset' = [reset EXCEPT ![x] = pc]
      /\ \/ UNCHANGED issue
         \/ \E i \in Issues : issue' = [issue EXCEPT ![i].pc = "ended"]
  BY DEF S!HangsUp, S!StartReset, S!ResetAt, S!IssueAt
<1>3. /\ login' \in [Logins -> LoginRows]
      /\ \A k \in Logins : login'[k] = login[k] \/ login'[k].pc = "ended"
  <2>1. CASE UNCHANGED login
    BY <2>1 DEF S!SessionsTypeOK, LoginRows
  <2>2. CASE \E l \in Logins : S!LoginAt(l, "ended")
    BY <2>2, LoginEnds
  <2> QED BY <1>2, <2>1, <2>2
<1>4. reset' \in [Resets -> {"idle", "waiting", "locking", "ended"}]
  BY <1>2 DEF S!SessionsTypeOK
<1>5. issue' \in [Issues -> [pc: {"idle", "waiting", "locking", "ended"},
                             by: Logins \cup {None}]]
  BY <1>2 DEF S!SessionsTypeOK
<1>6. S!SessionsTypeOK'
  BY <1>1, <1>3, <1>4, <1>5 DEF S!SessionsTypeOK, LoginRows
<1>7. LockInv'
  BY <1>1, <1>3 DEF LockInv
<1>8. IssuerInv'
  BY <1>1, <1>2 DEF S!SessionsTypeOK, IssuerInv
<1> QED BY <1>1, <1>6, <1>7, <1>8 DEF S!NothingOutlivesReset

LEMMA SessionStepKeeps == SessionInv /\ [S!SessionsNext]_(S!sessionVars) => SessionInv'
<1> SUFFICES ASSUME SessionInv, [S!SessionsNext]_(S!sessionVars) PROVE SessionInv'
  OBVIOUS
<1>1. CASE UNCHANGED S!sessionVars
  BY <1>1 DEF S!sessionVars, SessionInv, S!SessionsTypeOK, LockInv, IssuerInv,
              S!NothingOutlivesReset
<1>2. CASE S!SessionsNext
  BY <1>2, ReadHashKeeps, LoginKeeps, ResetKeeps, AuthenticateKeeps, IssueKeeps,
     SessionEndKeeps, HangUpKeeps DEF S!SessionsNext
<1> QED BY <1>1, <1>2

-----------------------------------------------------------------------------
(* The pool and the row of the user.  The connections lent are counted, so *)
(* a free one or an empty pool is all that a request waits for, but for    *)
(* the row; and who has the row waits for nothing else.                    *)

LoginHolds == {l \in Logins : login[l].pc \in {"locking", "locked", "pruned"}}
ResetHolds == {x \in Resets : reset[x] = "locking"}
IssueHolds == {i \in Issues : issue[i].pc = "locking"}

PoolInv ==
    /\ IsFiniteSet(LoginHolds) /\ IsFiniteSet(ResetHolds) /\ IsFiniteSet(IssueHolds)
    /\ 0 <= S!Free

LEMMA FreeIs ==
    /\ S!Free = PoolSize - Cardinality(LoginHolds) - Cardinality(ResetHolds)
                         - Cardinality(IssueHolds)
    /\ S!Free' = PoolSize - Cardinality(LoginHolds') - Cardinality(ResetHolds')
                          - Cardinality(IssueHolds')
<1>1. \A set : S!Cardinality(set) = Cardinality(set)
  BY DEF S!Cardinality, Cardinality
<1> QED BY <1>1 DEF S!Free, LoginHolds, ResetHolds, IssueHolds

\* A set of holders that loses some, and one that gains one.
LEMMA HoldsFewer ==
    ASSUME NEW old, NEW new, IsFiniteSet(old), new \subseteq old
    PROVE  /\ IsFiniteSet(new) /\ Cardinality(new) \in Nat /\ Cardinality(old) \in Nat
           /\ Cardinality(new) <= Cardinality(old)
BY FS_Subset, FS_CardinalityType

LEMMA HoldsOneMore ==
    ASSUME NEW old, NEW new, NEW x, IsFiniteSet(old), new \subseteq old \cup {x}
    PROVE  /\ IsFiniteSet(new) /\ Cardinality(new) \in Nat /\ Cardinality(old) \in Nat
           /\ Cardinality(new) <= Cardinality(old) + 1
<1>1. /\ IsFiniteSet(old \cup {x})
      /\ Cardinality(old \cup {x}) = Cardinality(old) \/
         Cardinality(old \cup {x}) = Cardinality(old) + 1
  BY FS_AddElement
<1>2. /\ IsFiniteSet(new) /\ Cardinality(new) <= Cardinality(old \cup {x})
  BY <1>1, FS_Subset
<1>3. Cardinality(new) \in Nat /\ Cardinality(old) \in Nat
  BY <1>2, FS_CardinalityType
<1> QED BY <1>1, <1>2, <1>3

\* A step that lends no connection, and one that lends a free one.
LEMMA PoolGives ==
    ASSUME PoolInv, LoginHolds' \subseteq LoginHolds, ResetHolds' \subseteq ResetHolds,
           IssueHolds' \subseteq IssueHolds
    PROVE  PoolInv'
<1>1. /\ IsFiniteSet(LoginHolds') /\ Cardinality(LoginHolds') \in Nat
      /\ Cardinality(LoginHolds) \in Nat
      /\ Cardinality(LoginHolds') <= Cardinality(LoginHolds)
  BY HoldsFewer DEF PoolInv
<1>2. /\ IsFiniteSet(ResetHolds') /\ Cardinality(ResetHolds') \in Nat
      /\ Cardinality(ResetHolds) \in Nat
      /\ Cardinality(ResetHolds') <= Cardinality(ResetHolds)
  BY HoldsFewer DEF PoolInv
<1>3. /\ IsFiniteSet(IssueHolds') /\ Cardinality(IssueHolds') \in Nat
      /\ Cardinality(IssueHolds) \in Nat
      /\ Cardinality(IssueHolds') <= Cardinality(IssueHolds)
  BY HoldsFewer DEF PoolInv
<1> QED BY <1>1, <1>2, <1>3, FreeIs, NoneAssumption DEF PoolInv

LEMMA PoolLends ==
    ASSUME PoolInv, S!Free > 0, NEW x,
           \/ /\ LoginHolds' \subseteq LoginHolds \cup {x}
              /\ ResetHolds' \subseteq ResetHolds /\ IssueHolds' \subseteq IssueHolds
           \/ /\ ResetHolds' \subseteq ResetHolds \cup {x}
              /\ LoginHolds' \subseteq LoginHolds /\ IssueHolds' \subseteq IssueHolds
           \/ /\ IssueHolds' \subseteq IssueHolds \cup {x}
              /\ LoginHolds' \subseteq LoginHolds /\ ResetHolds' \subseteq ResetHolds
    PROVE  PoolInv'
<1>1. CASE /\ LoginHolds' \subseteq LoginHolds \cup {x}
           /\ ResetHolds' \subseteq ResetHolds /\ IssueHolds' \subseteq IssueHolds
  <2>1. /\ IsFiniteSet(LoginHolds') /\ Cardinality(LoginHolds') \in Nat
        /\ Cardinality(LoginHolds) \in Nat
        /\ Cardinality(LoginHolds') <= Cardinality(LoginHolds) + 1
    BY <1>1, HoldsOneMore DEF PoolInv
  <2>2. /\ IsFiniteSet(ResetHolds') /\ Cardinality(ResetHolds') \in Nat
        /\ Cardinality(ResetHolds) \in Nat
        /\ Cardinality(ResetHolds') <= Cardinality(ResetHolds)
    BY <1>1, HoldsFewer DEF PoolInv
  <2>3. /\ IsFiniteSet(IssueHolds') /\ Cardinality(IssueHolds') \in Nat
        /\ Cardinality(IssueHolds) \in Nat
        /\ Cardinality(IssueHolds') <= Cardinality(IssueHolds)
    BY <1>1, HoldsFewer DEF PoolInv
  <2> QED BY <2>1, <2>2, <2>3, FreeIs, NoneAssumption DEF PoolInv
<1>2. CASE /\ ResetHolds' \subseteq ResetHolds \cup {x}
           /\ LoginHolds' \subseteq LoginHolds /\ IssueHolds' \subseteq IssueHolds
  <2>1. /\ IsFiniteSet(ResetHolds') /\ Cardinality(ResetHolds') \in Nat
        /\ Cardinality(ResetHolds) \in Nat
        /\ Cardinality(ResetHolds') <= Cardinality(ResetHolds) + 1
    BY <1>2, HoldsOneMore DEF PoolInv
  <2>2. /\ IsFiniteSet(LoginHolds') /\ Cardinality(LoginHolds') \in Nat
        /\ Cardinality(LoginHolds) \in Nat
        /\ Cardinality(LoginHolds') <= Cardinality(LoginHolds)
    BY <1>2, HoldsFewer DEF PoolInv
  <2>3. /\ IsFiniteSet(IssueHolds') /\ Cardinality(IssueHolds') \in Nat
        /\ Cardinality(IssueHolds) \in Nat
        /\ Cardinality(IssueHolds') <= Cardinality(IssueHolds)
    BY <1>2, HoldsFewer DEF PoolInv
  <2> QED BY <2>1, <2>2, <2>3, FreeIs, NoneAssumption DEF PoolInv
<1>3. CASE /\ IssueHolds' \subseteq IssueHolds \cup {x}
           /\ LoginHolds' \subseteq LoginHolds /\ ResetHolds' \subseteq ResetHolds
  <2>1. /\ IsFiniteSet(IssueHolds') /\ Cardinality(IssueHolds') \in Nat
        /\ Cardinality(IssueHolds) \in Nat
        /\ Cardinality(IssueHolds') <= Cardinality(IssueHolds) + 1
    BY <1>3, HoldsOneMore DEF PoolInv
  <2>2. /\ IsFiniteSet(LoginHolds') /\ Cardinality(LoginHolds') \in Nat
        /\ Cardinality(LoginHolds) \in Nat
        /\ Cardinality(LoginHolds') <= Cardinality(LoginHolds)
    BY <1>3, HoldsFewer DEF PoolInv
  <2>3. /\ IsFiniteSet(ResetHolds') /\ Cardinality(ResetHolds') \in Nat
        /\ Cardinality(ResetHolds) \in Nat
        /\ Cardinality(ResetHolds') <= Cardinality(ResetHolds)
    BY <1>3, HoldsFewer DEF PoolInv
  <2> QED BY <2>1, <2>2, <2>3, FreeIs, NoneAssumption DEF PoolInv
<1> QED BY <1>1, <1>2, <1>3

\* Where requests are, and what a step makes of it.
LEMMA StageIs ==
    /\ S!Stage["idle"] = 0 /\ S!Stage["waiting"] = 1 /\ S!Stage["locking"] = 2
    /\ S!Stage["locked"] = 3 /\ S!Stage["pruned"] = 4 /\ S!Stage["ended"] = 5
BY DEF S!Stage

Forward ==
    /\ \A l \in Logins : S!Stage[login'[l].pc] >= S!Stage[login[l].pc]
    /\ \A x \in Resets : S!Stage[reset'[x]] >= S!Stage[reset[x]]
    /\ \A i \in Issues : S!Stage[issue'[i].pc] >= S!Stage[issue[i].pc]

Advances ==
    \/ \E l \in Logins : S!Stage[login'[l].pc] > S!Stage[login[l].pc]
    \/ \E x \in Resets : S!Stage[reset'[x]] > S!Stage[reset[x]]
    \/ \E i \in Issues : S!Stage[issue'[i].pc] > S!Stage[issue[i].pc]

Stages == {"idle", "waiting", "locking", "locked", "pruned", "ended"}

LEMMA StageOrder ==
    /\ \A pc \in Stages : S!Stage[pc] \in 0 .. 5 /\ S!Stage[pc] >= S!Stage[pc]
    /\ \A pc \in Stages \ {"ended"} : S!Stage["ended"] > S!Stage[pc]
BY StageIs DEF Stages

LEMMA PlacesOfRequests ==
    ASSUME S!SessionsTypeOK
    PROVE  /\ \A l \in Logins : login[l].pc \in Stages
           /\ \A x \in Resets : reset[x] \in Stages
           /\ \A i \in Issues : issue[i].pc \in Stages
BY DEF S!SessionsTypeOK, Stages

\* A login moves and nobody else does.
LEMMA LoginPasses ==
    ASSUME S!SessionsTypeOK, PoolInv, NEW l \in Logins, NEW pc \in Stages,
           login' \in [Logins -> LoginRows], login'[l].pc = pc,
           \A k \in Logins \ {l} : login'[k] = login[k],
           UNCHANGED <<reset, issue>>,
           S!Stage[pc] >= S!Stage[login[l].pc],
           \/ pc \notin {"locking", "locked", "pruned"}
           \/ login[l].pc \in {"locking", "locked", "pruned"}
           \/ S!Free > 0
    PROVE  PoolInv' /\ Forward
<1>1. ResetHolds' = ResetHolds /\ IssueHolds' = IssueHolds
  BY DEF ResetHolds, IssueHolds
<1>2. LoginHolds' \subseteq LoginHolds \cup {l}
  BY DEF LoginHolds
<1>3. Forward
  BY StageOrder, PlacesOfRequests DEF Forward
<1>4. CASE S!Free > 0
  BY <1>1, <1>2, <1>3, <1>4, PoolLends
<1>5. CASE \/ pc \notin {"locking", "locked", "pruned"}
           \/ login[l].pc \in {"locking", "locked", "pruned"}
  <2>1. LoginHolds' \subseteq LoginHolds
    BY <1>5 DEF LoginHolds
  <2> QED BY <1>1, <1>3, <2>1, PoolGives
<1> QED BY <1>4, <1>5

LEMMA ResetPasses ==
    ASSUME S!SessionsTypeOK, PoolInv, NEW x \in Resets, NEW pc \in Stages,
           reset' = [reset EXCEPT ![x] = pc], UNCHANGED <<login, issue>>,
           S!Stage[pc] >= S!Stage[reset[x]], pc # "locking" \/ S!Free > 0
    PROVE  PoolInv' /\ Forward
<1>1. LoginHolds' = LoginHolds /\ IssueHolds' = IssueHolds
  BY DEF LoginHolds, IssueHolds
<1>2. reset'[x] = pc /\ \A y \in Resets \ {x} : reset'[y] = reset[y]
  BY DEF S!SessionsTypeOK
<1>3. ResetHolds' \subseteq ResetHolds \cup {x}
  BY <1>2 DEF ResetHolds
<1>4. Forward
  BY <1>2, StageOrder, PlacesOfRequests DEF Forward
<1>5. CASE S!Free > 0
  BY <1>1, <1>3, <1>4, <1>5, PoolLends
<1>6. CASE pc # "locking"
  <2>1. ResetHolds' \subseteq ResetHolds
    BY <1>2, <1>6 DEF ResetHolds
  <2> QED BY <1>1, <1>4, <2>1, PoolGives
<1> QED BY <1>5, <1>6

LEMMA IssuePasses ==
    ASSUME S!SessionsTypeOK, PoolInv, NEW i \in Issues, NEW pc \in Stages,
           issue'[i].pc = pc, \A j \in Issues \ {i} : issue'[j] = issue[j],
           UNCHANGED <<login, reset>>,
           S!Stage[pc] >= S!Stage[issue[i].pc], pc # "locking" \/ S!Free > 0
    PROVE  PoolInv' /\ Forward
<1>1. LoginHolds' = LoginHolds /\ ResetHolds' = ResetHolds
  BY DEF LoginHolds, ResetHolds
<1>3. IssueHolds' \subseteq IssueHolds \cup {i}
  BY DEF IssueHolds
<1>4. Forward
  BY StageOrder, PlacesOfRequests DEF Forward
<1>5. CASE S!Free > 0
  BY <1>1, <1>3, <1>4, <1>5, PoolLends
<1>6. CASE pc # "locking"
  <2>1. IssueHolds' \subseteq IssueHolds
    BY <1>6 DEF IssueHolds
  <2> QED BY <1>1, <1>4, <2>1, PoolGives
<1> QED BY <1>5, <1>6

\* The steps of one that waits.
LEMMA LoginGoesOn ==
    ASSUME SessionInv, PoolInv, NEW l \in Logins, S!LoginStep(l)
    PROVE  PoolInv' /\ Forward /\ Advances
<1>1. S!SessionsTypeOK /\ UNCHANGED <<reset, issue>>
  BY DEF SessionInv, S!LoginStep
<1>2. PICK pc \in {"locking", "locked", "pruned", "ended"} :
          /\ S!LoginAt(l, pc)
          /\ \/ pc = "ended" /\ login[l].pc \in {"waiting", "locking", "locked", "pruned"}
             \/ pc = "locking" /\ login[l].pc = "waiting" /\ S!Free > 0
             \/ pc = "locked" /\ login[l].pc = "locking"
             \/ pc = "pruned" /\ login[l].pc = "locked"
  BY DEF S!LoginStep, S!CreateSession, S!LoginTimesOut
<1>3. /\ login' \in [Logins -> LoginRows] /\ login'[l].pc = pc
      /\ \A k \in Logins \ {l} : login'[k] = login[k]
  <2>1. /\ login' \in [Logins -> LoginRows]
        /\ login'[l] = [pc |-> pc, hash |-> login[l].hash]
        /\ \A k \in Logins \ {l} : login'[k] = login[k]
    BY <1>1, <1>2, LoginAtMoves
  <2> QED BY <2>1
<1>4. S!Stage[pc] > S!Stage[login[l].pc] /\ S!Stage[pc] >= S!Stage[login[l].pc]
  BY <1>2, StageIs
<1>5. pc \in Stages
  BY DEF Stages
<1>6. PoolInv' /\ Forward
  BY <1>1, <1>2, <1>3, <1>4, <1>5, LoginPasses
<1> QED BY <1>3, <1>4, <1>6 DEF Advances

LEMMA ResetGoesOn ==
    ASSUME SessionInv, PoolInv, NEW x \in Resets, S!ResetStep(x)
    PROVE  PoolInv' /\ Forward /\ Advances
<1>1. S!SessionsTypeOK /\ UNCHANGED <<login, issue>>
  BY DEF SessionInv, S!ResetStep
<1>2. PICK pc \in {"locking", "ended"} :
          /\ reset' = [reset EXCEPT ![x] = pc]
          /\ reset[x] \in {"waiting", "locking"}
          /\ pc = "locking" => reset[x] = "waiting" /\ S!Free > 0
  BY DEF S!ResetStep, S!SetPassword, S!ResetAt
<1>3. S!Stage[pc] > S!Stage[reset[x]] /\ S!Stage[pc] >= S!Stage[reset[x]]
  BY <1>2, StageIs
<1>4. reset'[x] = pc
  BY <1>1, <1>2 DEF S!SessionsTypeOK
<1>5. pc \in Stages
  BY DEF Stages
<1>6. PoolInv' /\ Forward
  BY <1>1, <1>2, <1>3, <1>5, ResetPasses
<1> QED BY <1>3, <1>4, <1>6 DEF Advances

LEMMA IssueGoesOn ==
    ASSUME SessionInv, PoolInv, NEW i \in Issues, S!IssueStep(i)
    PROVE  PoolInv' /\ Forward /\ Advances
<1>1. S!SessionsTypeOK /\ UNCHANGED <<login, reset>>
  BY DEF SessionInv, S!IssueStep
<1>2. PICK pc \in {"locking", "ended"} :
          /\ issue' = [issue EXCEPT ![i].pc = pc]
          /\ issue[i].pc \in {"waiting", "locking"}
          /\ pc = "locking" => issue[i].pc = "waiting" /\ S!Free > 0
  BY DEF S!IssueStep, S!CreateMcp, S!IssueAt
<1>3. S!Stage[pc] > S!Stage[issue[i].pc] /\ S!Stage[pc] >= S!Stage[issue[i].pc]
  BY <1>2, StageIs
<1>4. issue'[i].pc = pc /\ \A j \in Issues \ {i} : issue'[j] = issue[j]
  BY <1>1, <1>2 DEF S!SessionsTypeOK
<1>5. pc \in Stages
  BY DEF Stages
<1>6. PoolInv' /\ Forward
  BY <1>1, <1>2, <1>3, <1>4, <1>5, IssuePasses
<1> QED BY <1>3, <1>4, <1>6 DEF Advances

\* Where a request begins, and where its client leaves it.
LEMMA LoginBegins ==
    ASSUME SessionInv, PoolInv, NEW l \in Logins, S!ReadHash(l)
    PROVE  PoolInv' /\ Forward
<1>1. S!SessionsTypeOK /\ UNCHANGED <<reset, issue>> /\ login[l].pc = "idle"
  BY DEF SessionInv, S!ReadHash
<1>2. \E pc \in {"waiting", "ended"} :
          /\ login' \in [Logins -> LoginRows] /\ login'[l].pc = pc
          /\ \A k \in Logins \ {l} : login'[k] = login[k]
  <2>1. CASE S!LoginAt(l, "ended")
    BY <1>1, <2>1, LoginEnds
  <2>2. CASE login' = [login EXCEPT ![l] = [pc |-> "waiting", hash |-> password]]
    <3>1. [pc |-> "waiting", hash |-> password] \in LoginRows
      BY <1>1 DEF S!SessionsTypeOK, LoginRows
    <3> QED BY <1>1, <2>2, <3>1 DEF S!SessionsTypeOK, LoginRows
  <2> QED BY <2>1, <2>2 DEF S!ReadHash
<1>3. PICK pc \in {"waiting", "ended"} :
          /\ login' \in [Logins -> LoginRows] /\ login'[l].pc = pc
          /\ \A k \in Logins \ {l} : login'[k] = login[k]
  BY <1>2
<1>4. pc \in Stages /\ S!Stage[pc] >= S!Stage[login[l].pc]
  BY <1>1, StageIs DEF Stages
<1>5. pc \notin {"locking", "locked", "pruned"}
  OBVIOUS
<1> QED BY <1>1, <1>3, <1>4, <1>5, LoginPasses

LEMMA ResetBegins ==
    ASSUME SessionInv, PoolInv, NEW x \in Resets, S!StartReset(x)
    PROVE  PoolInv' /\ Forward
<1>1. /\ S!SessionsTypeOK /\ UNCHANGED <<login, issue>> /\ reset[x] = "idle"
      /\ reset' = [reset EXCEPT ![x] = "waiting"]
  BY DEF SessionInv, S!StartReset, S!ResetAt
<1>2. S!Stage["waiting"] >= S!Stage[reset[x]] /\ "waiting" \in Stages
  BY <1>1, StageIs DEF Stages
<1> DEFINE pc == "waiting"
<1>3. pc \in Stages /\ reset' = [reset EXCEPT ![x] = pc] /\ pc # "locking"
      /\ S!Stage[pc] >= S!Stage[reset[x]]
  BY <1>1, <1>2
<1> HIDE DEF pc
<1> QED BY <1>1, <1>3, ResetPasses

LEMMA IssueBegins ==
    ASSUME SessionInv, PoolInv, NEW i \in Issues, NEW l \in Logins,
           S!Authenticate(i, l)
    PROVE  PoolInv' /\ Forward
<1>1. /\ S!SessionsTypeOK /\ UNCHANGED <<login, reset>> /\ issue[i].pc = "idle"
      /\ issue' = [issue EXCEPT ![i] = [pc |-> "waiting", by |-> l]]
  BY DEF SessionInv, S!Authenticate
<1> DEFINE pc == "waiting"
<1>2. pc \in Stages /\ S!Stage[pc] >= S!Stage[issue[i].pc] /\ pc # "locking"
  BY <1>1, StageIs DEF Stages
<1>3. issue'[i].pc = pc /\ \A j \in Issues \ {i} : issue'[j] = issue[j]
  BY <1>1 DEF S!SessionsTypeOK
<1> HIDE DEF pc
<1> QED BY <1>1, <1>2, <1>3, IssuePasses

LEMMA ClientLeaves ==
    ASSUME SessionInv, PoolInv, S!HangsUp
    PROVE  PoolInv' /\ Forward
<1> DEFINE pc == "ended"
<1>1. S!SessionsTypeOK /\ pc \in Stages /\ pc \notin {"locking", "locked", "pruned"}
  BY DEF SessionInv, Stages
<1>2. ASSUME NEW p \in Stages \ {"ended"} PROVE S!Stage[pc] >= S!Stage[p]
  BY <1>2, StageIs DEF Stages
<1>3. ASSUME NEW l \in Logins,
             login[l].pc \in {"waiting", "locking", "locked", "pruned"},
             S!LoginAt(l, "ended"), UNCHANGED <<reset, issue>>
      PROVE  PoolInv' /\ Forward
  <2>1. /\ login' \in [Logins -> LoginRows] /\ login'[l].pc = pc
        /\ \A k \in Logins \ {l} : login'[k] = login[k]
    BY <1>1, <1>3, LoginEnds
  <2>2. S!Stage[pc] >= S!Stage[login[l].pc]
    BY <1>2, <1>3 DEF Stages
  <2> HIDE DEF pc
  <2> QED BY <1>1, <1>3, <2>1, <2>2, LoginPasses
<1>4. ASSUME NEW x \in Resets, reset[x] \in {"waiting", "locking"},
             S!ResetAt(x, "ended"), UNCHANGED <<login, issue>>
      PROVE  PoolInv' /\ Forward
  <2>1. reset' = [reset EXCEPT ![x] = pc] /\ pc # "locking"
    BY <1>4 DEF S!ResetAt
  <2>2. S!Stage[pc] >= S!Stage[reset[x]]
    BY <1>2, <1>4 DEF Stages
  <2> HIDE DEF pc
  <2> QED BY <1>1, <1>4, <2>1, <2>2, ResetPasses
<1>5. ASSUME NEW i \in Issues, issue[i].pc \in {"waiting", "locking"},
             S!IssueAt(i, "ended"), UNCHANGED <<login, reset>>
      PROVE  PoolInv' /\ Forward
  <2>1. /\ issue'[i].pc = pc /\ \A j \in Issues \ {i} : issue'[j] = issue[j]
        /\ pc # "locking"
    BY <1>1, <1>5 DEF S!IssueAt, S!SessionsTypeOK
  <2>2. S!Stage[pc] >= S!Stage[issue[i].pc]
    BY <1>2, <1>5 DEF Stages
  <2> HIDE DEF pc
  <2> QED BY <1>1, <1>5, <2>1, <2>2, IssuePasses
<1> QED BY <1>3, <1>4, <1>5 DEF S!HangsUp

\* Nobody moves.
LEMMA RequestsStay ==
    ASSUME SessionInv, PoolInv, UNCHANGED <<login, reset, issue>>
    PROVE  PoolInv' /\ Forward
<1>1. /\ LoginHolds' = LoginHolds /\ ResetHolds' = ResetHolds
      /\ IssueHolds' = IssueHolds
  BY DEF LoginHolds, ResetHolds, IssueHolds
<1>2. Forward
  BY StageOrder, PlacesOfRequests DEF SessionInv, Forward
<1> QED BY <1>1, <1>2, PoolGives

LEMMA PoolInit == S!SessionsInit => PoolInv
<1> SUFFICES ASSUME S!SessionsInit PROVE PoolInv
  OBVIOUS
<1>1. LoginHolds = {} /\ ResetHolds = {} /\ IssueHolds = {}
  BY DEF S!SessionsInit, LoginHolds, ResetHolds, IssueHolds
<1>2. IsFiniteSet({}) /\ Cardinality({}) = 0
  BY FS_EmptySet
<1> QED BY <1>1, <1>2, FreeIs, NoneAssumption DEF PoolInv

LEMMA PoolStep ==
    ASSUME SessionInv, PoolInv, [S!SessionsNext]_(S!sessionVars)
    PROVE  /\ PoolInv'
           /\ [Forward /\ (S!GoesOn => Advances)]_(S!sessionVars)
<1>1. CASE UNCHANGED S!sessionVars
  BY <1>1, RequestsStay DEF S!sessionVars
<1>2. S!GoesOn => PoolInv' /\ Forward /\ Advances
  BY LoginGoesOn, ResetGoesOn, IssueGoesOn DEF S!GoesOn
<1>3. CASE S!SessionsNext
  <2>1. CASE S!GoesOn
    BY <1>2, <2>1
  <2>2. CASE \/ \E l \in Logins : S!ReadHash(l)
             \/ \E x \in Resets : S!StartReset(x)
             \/ \E i \in Issues, l \in Logins : S!Authenticate(i, l)
             \/ S!HangsUp
    BY <1>2, <2>2, LoginBegins, ResetBegins, IssueBegins, ClientLeaves
  <2>3. CASE \/ \E l \in Logins : S!Logout(l)
             \/ \E i \in Issues : S!RevokeMcp(i)
             \/ S!Expires
    <3>1. UNCHANGED <<login, reset, issue>>
      BY <2>3 DEF S!Logout, S!RevokeMcp, S!Expires
    <3> QED BY <1>2, <3>1, RequestsStay
  <2> QED BY <1>3, <2>1, <2>2, <2>3 DEF S!SessionsNext, S!GoesOn
<1> QED BY <1>1, <1>3

\* Somebody has the row, and then goes on; or nobody has it, and then all of
\* them do.
LEMMA PoolInvGives == SessionInv /\ PoolInv => S!NobodyIsStuck
<1> SUFFICES ASSUME SessionInv, PoolInv PROVE S!NobodyIsStuck
  OBVIOUS
<1>1. 0 <= S!Free
  BY DEF PoolInv
<1>2. S!Free \in Int
  BY FreeIs, HoldsFewer, NoneAssumption DEF PoolInv
<1>3. S!Served
  BY <1>1, <1>2 DEF S!Served, S!Exhausted
<1>4. ASSUME S!Busy
      PROVE  \/ \E l \in Logins : S!LoginMayGo(l)
             \/ \E x \in Resets : S!MayGo(reset[x])
             \/ \E i \in Issues : S!MayGo(issue[i].pc)
  <2>1. CASE S!UserLocked
    BY <1>3, <2>1 DEF S!UserLocked, S!LoginMayGo
  <2>2. CASE ~S!UserLocked
    <3>1. CASE \E l \in Logins : login[l].pc \notin {"idle", "ended"}
      <4>1. PICK l \in Logins : login[l].pc \in {"waiting", "locking", "locked", "pruned"}
        BY <3>1 DEF SessionInv, S!SessionsTypeOK
      <4> QED BY <1>3, <2>2, <4>1 DEF S!LoginMayGo
    <3>2. CASE \E x \in Resets : reset[x] \notin {"idle", "ended"}
      <4>1. PICK x \in Resets : reset[x] \in {"waiting", "locking"}
        BY <3>2 DEF SessionInv, S!SessionsTypeOK
      <4> QED BY <1>3, <2>2, <4>1 DEF S!MayGo
    <3>3. CASE \E i \in Issues : issue[i].pc \notin {"idle", "ended"}
      <4>1. PICK i \in Issues : issue[i].pc \in {"waiting", "locking"}
        BY <3>3 DEF SessionInv, S!SessionsTypeOK
      <4> QED BY <1>3, <2>2, <4>1 DEF S!MayGo
    <3> QED BY <1>4, <3>1, <3>2, <3>3 DEF S!Busy
  <2> QED BY <2>1, <2>2
<1> QED BY <1>1, <1>4 DEF S!NobodyIsStuck

-----------------------------------------------------------------------------
(* Subscription connections: the invariant. *)

Book == [Labels -> C!Registration \cup {None}]

CommandRows ==
    [pc: {"idle", "waiting", "exchanging", "prompt", "opened", "answered",
          "ready", "claimed", "calling", "revoking", "revoked"},
     kind: C!Kinds \cup {None}, label: Labels \cup {None},
     data: Book \cup {<<>>}, account: Accounts \cup {None},
     answer: C!Credentials \cup {None}]

ConnectTypes ==
    /\ file \in Book
    /\ lock \in Commands \cup {None}
    /\ command \in [Commands -> CommandRows]
    /\ live \in [Clients -> SUBSET C!Tokens]
    /\ issued \in 0 .. MaxTokens
    /\ binding \in {None} \cup [client: Clients, subject: Accounts]
    /\ faults \in 0 .. MaxFaults

\* Only the command that holds the lock runs.
OneRuns == \A c \in Commands : command[c].pc = "idle" <=> lock # c

\* What a command has in memory is what is on disk, but for the credentials
\* that a logout has cleared already.
Leaving == {"revoking", "revoked"}

MemoryInv(c) ==
    LET r == command[c] IN
    /\ r.pc # "idle" => r.label \in Labels /\ r.data \in Book
    /\ r.pc \notin {"idle"} \cup Leaving => r.data = file
    /\ r.pc \in Leaving =>
           /\ file[r.label] # None
           /\ \A l \in Labels \ {r.label} : r.data[l] = file[l]
           /\ r.data[r.label] = [client |-> file[r.label].client,
                                 subject |-> file[r.label].subject,
                                 credentials |-> None]

\* A login has a registration before it has an answer, any other command
\* works with a session once it has its prompt, and an answer has a token the
\* provider takes or none.
Using(r) ==
    \/ r.pc \in {"opened", "ready", "claimed", "calling"}
    \/ r.pc = "answered" /\ r.kind # "login"

PlaceInv(c) ==
    LET r == command[c] IN
    /\ r.pc \in {"waiting", "exchanging"} => r.kind = "login"
    /\ r.pc \in {"prompt", "opened", "ready", "claimed", "calling"} => r.kind # "login"
    /\ r.pc = "exchanging" \/ (r.pc = "answered" /\ r.kind = "login") =>
           file[r.label] # None /\ r.account \in Accounts
    /\ Using(r) => C!SignedIn(file[r.label])
    /\ r.pc = "answered" =>
           /\ r.answer \in C!Credentials
           /\ r.answer.refresh \in {None} \cup live[file[r.label].client]

\* Labels do not share a client, and who is signed in has an account.
FileInv ==
    /\ \A l, m \in Labels : file[l] # None /\ file[m] # None /\ l # m =>
           file[l].client # file[m].client
    /\ \A l \in Labels : C!SignedIn(file[l]) => file[l].subject \in Accounts

BindInv ==
    binding # None => \E l \in Labels :
        /\ file[l] # None
        /\ file[l].client = binding.client /\ file[l].subject = binding.subject

\* The session of a label whose command is between an answer and its save.
Moving(l) ==
    \E c \in Commands :
        /\ command[c].label = l
        /\ \/ command[c].pc = "revoked"
           \/ command[c].pc = "answered" /\ command[c].kind # "login"

Alive(l) == file[l].credentials.refresh \in {None} \cup live[file[l].client]

LiveInv ==
    faults = 0 => \A l \in Labels : C!SignedIn(file[l]) => Alive(l) \/ Moving(l)

ConnInv ==
    /\ ConnectTypes /\ OneRuns
    /\ \A c \in Commands : MemoryInv(c) /\ PlaceInv(c)
    /\ FileInv /\ BindInv /\ LiveInv

LEMMA ConnectInitHolds == C!ConnectInit => ConnInv
<1> SUFFICES ASSUME C!ConnectInit PROVE ConnInv
  OBVIOUS
<1> USE DEF C!ConnectInit
<1>1. C!Idle \in CommandRows /\ C!Idle.pc = "idle"
  BY DEF C!Idle, CommandRows
<1>2. \A l \in Labels : file[l] = None
  OBVIOUS
<1>3. ConnectTypes
  BY <1>1, NoneAssumption DEF ConnectTypes, Book
<1>4. OneRuns
  BY <1>1, NoneAssumption DEF OneRuns
<1>5. \A c \in Commands : MemoryInv(c) /\ PlaceInv(c)
  BY <1>1 DEF MemoryInv, PlaceInv, Leaving, Using
<1>6. FileInv /\ BindInv /\ LiveInv
  BY <1>2 DEF FileInv, BindInv, LiveInv, C!SignedIn
<1> QED BY <1>3, <1>4, <1>5, <1>6 DEF ConnInv

-----------------------------------------------------------------------------
(* Accounts. *)

\* What has credentials or a client is a registration.
LEMMA Registrations ==
    ASSUME NEW b \in Book, NEW l \in Labels, b[l] # None
    PROVE  /\ b[l] \in C!Registration
           /\ b[l] = [client |-> b[l].client, subject |-> b[l].subject,
                      credentials |-> b[l].credentials]
           /\ b[l].client \in Clients /\ b[l].subject \in Accounts \cup {None}
           /\ b[l].credentials \in C!Credentials \cup {None}
<1>1. b[l] \in C!Registration
  BY DEF Book
<1> QED BY <1>1 DEF C!Registration

\* The credentials of a registration are replaced.
IsRecredited(d, b, l, x) == d = [b EXCEPT ![l].credentials = x]

LEMMA Recredited ==
    ASSUME NEW b \in Book, NEW l \in Labels, b[l] # None,
           NEW x \in C!Credentials \cup {None},
           NEW d, IsRecredited(d, b, l, x)
    PROVE  /\ d \in Book /\ d[l] # None
           /\ d[l] = [client |-> b[l].client, subject |-> b[l].subject, credentials |-> x]
           /\ \A m \in Labels \ {l} : d[m] = b[m]
<1> DEFINE row == [client |-> b[l].client, subject |-> b[l].subject, credentials |-> x]
<1>1. [b[l] EXCEPT !.credentials = x] = row
  <2>1. \A r \in C!Registration :
            [r EXCEPT !.credentials = x] =
                [client |-> r.client, subject |-> r.subject, credentials |-> x]
    BY DEF C!Registration
  <2>2. b[l] \in C!Registration
    BY Registrations
  <2> QED BY <2>1, <2>2
<1>2. row \in C!Registration
  BY Registrations DEF C!Registration
<1>3. d = [b EXCEPT ![l] = row]
  BY <1>1 DEF IsRecredited
<1> HIDE DEF row
<1>4. d \in Book /\ d[l] = row /\ \A m \in Labels \ {l} : d[m] = b[m]
  BY <1>2, <1>3 DEF Book
<1> QED BY <1>2, <1>4, RecordAssumption DEF row

-----------------------------------------------------------------------------
(* What a command has to show of its step. *)

LEMMA Actor ==
    ASSUME ConnInv, NEW c \in Commands,
           command[c].pc # "idle" \/ lock = c \/ lock = None
    PROVE  /\ lock = c \/ lock = None
           /\ command[c].pc # "idle" => lock = c
           /\ \A d \in Commands \ {c} : command[d].pc = "idle"
BY NoneAssumption DEF ConnInv, OneRuns

LEMMA Acts ==
    ASSUME ConnInv, NEW c \in Commands, lock = c \/ lock = None,
           \A d \in Commands \ {c} : command'[d] = command[d],
           lock' = (IF command'[c].pc = "idle" THEN None ELSE c),
           ConnectTypes', MemoryInv(c)', PlaceInv(c)', FileInv', BindInv', LiveInv'
    PROVE  ConnInv'
<1>1. \A d \in Commands \ {c} : command'[d].pc = "idle"
  BY Actor
<1>2. OneRuns'
  BY <1>1, NoneAssumption DEF OneRuns
<1>3. \A d \in Commands \ {c} : MemoryInv(d)' /\ PlaceInv(d)'
  BY <1>1 DEF MemoryInv, PlaceInv, Leaving, Using
<1> QED BY <1>2, <1>3 DEF ConnInv

\* Registrations stay with their client and their account.
FilesKept ==
    \A l \in Labels : file[l] # None =>
        /\ file'[l] # None
        /\ file'[l].client = file[l].client
        /\ file[l].subject # None => file'[l].subject = file[l].subject

LEMMA BindKept ==
    ASSUME ConnInv, FilesKept, binding' = binding
    PROVE  BindInv'
<1>1. CASE binding = None
  BY <1>1 DEF BindInv
<1>2. CASE binding # None
  <2>1. binding.subject \in Accounts
    BY <1>2 DEF ConnInv, ConnectTypes
  <2>2. binding.subject # None
    BY <2>1, NoneAssumption
  <2>3. PICK l \in Labels :
            /\ file[l] # None
            /\ file[l].client = binding.client /\ file[l].subject = binding.subject
    BY <1>2 DEF ConnInv, BindInv
  <2>4. /\ file'[l] # None
        /\ file'[l].client = binding.client /\ file'[l].subject = binding.subject
    BY <2>2, <2>3 DEF FilesKept
  <2> QED BY <2>4 DEF BindInv
<1> QED BY <1>1, <1>2

LEMMA FileSame ==
    ASSUME ConnInv, UNCHANGED file
    PROVE  FilesKept /\ FileInv'
BY DEF ConnInv, FileInv, FilesKept

\* The row of a command at a new place.
LEMMA Places ==
    ASSUME ConnInv, NEW c \in Commands,
           NEW pc \in {"opened", "claimed", "calling", "revoked"}, C!Goto(c, pc)
    PROVE  /\ command' \in [Commands -> CommandRows]
           /\ command'[c].pc = pc
           /\ command'[c].kind = command[c].kind /\ command'[c].label = command[c].label
           /\ command'[c].data = command[c].data
           /\ \A d \in Commands \ {c} : command'[d] = command[d]
<1>1. command' = [command EXCEPT ![c].pc = pc]
  BY DEF C!Goto
<1>2. command \in [Commands -> CommandRows]
  BY DEF ConnInv, ConnectTypes
<1>3. [command[c] EXCEPT !.pc = pc] \in CommandRows
  BY <1>2 DEF CommandRows
<1>4. /\ [command[c] EXCEPT !.pc = pc].pc = pc
      /\ [command[c] EXCEPT !.pc = pc].kind = command[c].kind
      /\ [command[c] EXCEPT !.pc = pc].label = command[c].label
      /\ [command[c] EXCEPT !.pc = pc].data = command[c].data
  BY <1>2 DEF CommandRows
<1> QED BY <1>1, <1>2, <1>3, <1>4

\* A command ends, and with it the lock: without a fault nothing was between
\* an answer and its save.
LEMMA Ends ==
    ASSUME ConnInv, NEW c \in Commands, command[c].pc # "idle", C!End(c),
           UNCHANGED <<file, live, issued>>,
           binding' = binding \/
               \E l \in Labels :
                   /\ C!SignedIn(file[l])
                   /\ binding' = [client |-> file[l].client, subject |-> file[l].subject],
           faults' \in 0 .. MaxFaults,
           faults' = 0 =>
               /\ faults = 0
               /\ \/ command[c].pc \notin {"answered", "revoked"}
                  \/ command[c].pc = "answered" /\ command[c].kind = "login"
    PROVE  ConnInv'
<1>1. /\ command \in [Commands -> CommandRows]
      /\ command' = [command EXCEPT ![c] = C!Idle] /\ lock' = None
  BY DEF C!End, ConnInv, ConnectTypes
<1>2. C!Idle \in CommandRows /\ C!Idle.pc = "idle"
  BY DEF C!Idle, CommandRows
<1>3. /\ command' \in [Commands -> CommandRows] /\ command'[c].pc = "idle"
      /\ \A d \in Commands \ {c} : command'[d] = command[d]
  BY <1>1, <1>2
<1>4. FilesKept /\ FileInv'
  BY FileSame
<1>5. BindInv' /\ binding' \in {None} \cup [client: Clients, subject: Accounts]
  <2>1. CASE binding' = binding
    BY <1>4, <2>1, BindKept DEF ConnInv, ConnectTypes
  <2>2. CASE \E l \in Labels :
                   /\ C!SignedIn(file[l])
                   /\ binding' = [client |-> file[l].client, subject |-> file[l].subject]
    <3>1. PICK l \in Labels :
                   /\ C!SignedIn(file[l])
                   /\ binding' = [client |-> file[l].client, subject |-> file[l].subject]
      BY <2>2
    <3>2. file[l] # None /\ file[l].subject \in Accounts
      BY <3>1 DEF ConnInv, FileInv, C!SignedIn
    <3>3. file[l].client \in Clients
      BY <3>2, Registrations DEF ConnInv, ConnectTypes
    <3>4. binding'.client = file[l].client /\ binding'.subject = file[l].subject
      BY <3>1
    <3>5. BindInv'
      BY <3>2, <3>4 DEF BindInv
    <3> QED BY <3>1, <3>2, <3>3, <3>5
  <2> QED BY <2>1, <2>2
<1>6. LiveInv'
  <2>1. \A d \in Commands \ {c} : command[d].pc = "idle"
    BY Actor
  <2>2. faults' = 0 => \A l \in Labels : ~Moving(l)
    BY <2>1 DEF Moving
  <2> QED BY <2>2 DEF ConnInv, LiveInv, Alive
<1>7. MemoryInv(c)' /\ PlaceInv(c)'
  BY <1>3 DEF MemoryInv, PlaceInv, Leaving, Using
<1>8. ConnectTypes'
  BY <1>1, <1>3, <1>5 DEF ConnInv, ConnectTypes
<1> QED BY <1>1, <1>3, <1>4, <1>5, <1>6, <1>7, <1>8, Actor, Acts

\* A command of the lock goes on with the session it works with.
LEMMA Goes ==
    ASSUME ConnInv, NEW c \in Commands,
           command[c].pc \in {"prompt", "opened", "ready", "claimed", "calling"},
           C!SignedIn(file[command[c].label]),
           NEW pc \in {"opened", "claimed", "calling"}, C!Goto(c, pc),
           UNCHANGED <<file, lock, live, issued, binding, faults>>
    PROVE  ConnInv'
<1>0. command[c].pc \in {"prompt", "opened", "ready", "claimed", "calling"}
  OBVIOUS
<1>1. /\ command' \in [Commands -> CommandRows]
      /\ command'[c].pc = pc
      /\ command'[c].kind = command[c].kind /\ command'[c].label = command[c].label
      /\ command'[c].data = command[c].data
      /\ \A d \in Commands \ {c} : command'[d] = command[d]
  BY Places
<1>2. lock = c
  BY <1>0, Actor
<1>3. ConnectTypes'
  BY <1>1 DEF ConnInv, ConnectTypes
<1>4. MemoryInv(c)' /\ PlaceInv(c)'
  BY <1>0, <1>1 DEF ConnInv, MemoryInv, PlaceInv, Leaving, Using
<1>5. FileInv' /\ BindInv'
  BY FileSame, BindKept
<1>6. LiveInv'
  <2>1. \A l \in Labels : Moving(l) => Moving(l)'
    BY <1>0, <1>1 DEF Moving
  <2> QED BY <2>1 DEF ConnInv, LiveInv, Alive
<1> QED BY <1>1, <1>2, <1>3, <1>4, <1>5, <1>6, Acts

-----------------------------------------------------------------------------
(* Commands start and end. *)

\* Store::open, with the lock and what it reads.
LEMMA Opens ==
    ASSUME ConnInv, NEW c \in Commands, NEW kind \in C!Kinds, NEW l \in Labels,
           NEW pc \in {"waiting", "prompt", "opened", "revoking", "revoked"},
           NEW data \in Book,
           C!Open(c, kind, l, pc, data)
    PROVE  /\ lock = None /\ lock' = c
           /\ command' \in [Commands -> CommandRows]
           /\ command'[c].pc = pc /\ command'[c].kind = kind
           /\ command'[c].label = l /\ command'[c].data = data
           /\ \A d \in Commands \ {c} : command'[d] = command[d]
<1> DEFINE row == [pc |-> pc, kind |-> kind, label |-> l, data |-> data,
                   account |-> None, answer |-> None]
<1>1. row \in CommandRows
  BY DEF CommandRows
<1>2. lock = None /\ lock' = c /\ command' = [command EXCEPT ![c] = row]
  BY DEF C!Open, C!Lockable
<1>3. /\ row.pc = pc /\ row.kind = kind /\ row.label = l /\ row.data = data
  OBVIOUS
<1> HIDE DEF row
<1>4. /\ command' \in [Commands -> CommandRows] /\ command'[c] = row
      /\ \A d \in Commands \ {c} : command'[d] = command[d]
  BY <1>1, <1>2 DEF ConnInv, ConnectTypes
<1> QED BY <1>2, <1>3, <1>4

\* A command that starts leaves everything else as it is.
LEMMA Starts ==
    ASSUME ConnInv, NEW c \in Commands, lock = None, lock' = c,
           command' \in [Commands -> CommandRows], command'[c].pc # "idle",
           \A d \in Commands \ {c} : command'[d] = command[d],
           MemoryInv(c)', PlaceInv(c)',
           UNCHANGED <<file, live, issued, binding, faults>>
    PROVE  ConnInv'
<1>1. ConnectTypes'
  BY DEF ConnInv, ConnectTypes
<1>2. FileInv' /\ BindInv'
  BY FileSame, BindKept
<1>3. LiveInv'
  <2>1. \A d \in Commands : command[d].pc = "idle"
    BY NoneAssumption DEF ConnInv, OneRuns
  <2>2. \A l \in Labels : ~Moving(l)
    BY <2>1 DEF Moving
  <2> QED BY <2>2 DEF ConnInv, LiveInv, Alive
<1> QED BY <1>1, <1>2, <1>3, Acts

LEMMA StartLoginKeeps ==
    ASSUME ConnInv, NEW c \in Commands, C!StartLogin(c)
    PROVE  ConnInv'
<1>1. PICK l \in Labels : C!Open(c, "login", l, "waiting", file)
  BY DEF C!StartLogin
<1>2. UNCHANGED <<file, live, issued, binding, faults>>
  BY DEF C!StartLogin
<1>3. PICK kind \in C!Kinds, pc \in {"waiting", "prompt", "opened", "revoking", "revoked"},
           data \in Book :
          kind = "login" /\ pc = "waiting" /\ data = file
  BY DEF C!Kinds, ConnInv, ConnectTypes
<1>4. /\ lock = None /\ lock' = c
      /\ command' \in [Commands -> CommandRows]
      /\ command'[c].pc = pc /\ command'[c].kind = kind
      /\ command'[c].label = l /\ command'[c].data = data
      /\ \A d \in Commands \ {c} : command'[d] = command[d]
  BY <1>1, <1>3, Opens
<1>5. MemoryInv(c)' /\ PlaceInv(c)'
  BY <1>2, <1>3, <1>4 DEF MemoryInv, PlaceInv, Leaving, Using
<1> QED BY <1>2, <1>3, <1>4, <1>5, Starts

LEMMA StartUseKeeps ==
    ASSUME ConnInv, NEW c \in Commands, C!StartUse(c)
    PROVE  ConnInv'
<1>1. PICK k \in {"models", "bind", "review"}, l \in Labels :
          C!PlanEnabled(file[l]) /\ C!Open(c, k, l, "opened", file)
  BY DEF C!StartUse
<1>2. UNCHANGED <<file, live, issued, binding, faults>>
  BY DEF C!StartUse
<1>3. PICK kind \in C!Kinds, pc \in {"waiting", "prompt", "opened", "revoking", "revoked"},
           data \in Book :
          kind = k /\ pc = "opened" /\ data = file
  BY DEF C!Kinds, ConnInv, ConnectTypes
<1>4. /\ lock = None /\ lock' = c
      /\ command' \in [Commands -> CommandRows]
      /\ command'[c].pc = pc /\ command'[c].kind = kind
      /\ command'[c].label = l /\ command'[c].data = data
      /\ \A d \in Commands \ {c} : command'[d] = command[d]
  BY <1>1, <1>3, Opens
<1>5. MemoryInv(c)' /\ PlaceInv(c)'
  BY <1>1, <1>2, <1>3, <1>4
     DEF MemoryInv, PlaceInv, Leaving, Using, C!PlanEnabled
<1> QED BY <1>2, <1>3, <1>4, <1>5, Starts

LEMMA StartAskKeeps ==
    ASSUME ConnInv, NEW c \in Commands, C!StartAsk(c)
    PROVE  ConnInv'
<1>1. PICK l \in Labels : C!Open(c, "ask", l, "prompt", file)
  BY DEF C!StartAsk
<1>2. UNCHANGED <<file, live, issued, binding, faults>>
  BY DEF C!StartAsk
<1>3. PICK kind \in C!Kinds, pc \in {"waiting", "prompt", "opened", "revoking", "revoked"},
           data \in Book :
          kind = "ask" /\ pc = "prompt" /\ data = file
  BY DEF C!Kinds, ConnInv, ConnectTypes
<1>4. /\ lock = None /\ lock' = c
      /\ command' \in [Commands -> CommandRows]
      /\ command'[c].pc = pc /\ command'[c].kind = kind
      /\ command'[c].label = l /\ command'[c].data = data
      /\ \A d \in Commands \ {c} : command'[d] = command[d]
  BY <1>1, <1>3, Opens
<1>5. MemoryInv(c)' /\ PlaceInv(c)'
  BY <1>2, <1>3, <1>4 DEF MemoryInv, PlaceInv, Leaving, Using
<1> QED BY <1>2, <1>3, <1>4, <1>5, Starts

LEMMA StartLogoutKeeps ==
    ASSUME ConnInv, NEW c \in Commands, C!StartLogout(c)
    PROVE  ConnInv'
<1>1. PICK l \in Labels :
          /\ C!SignedIn(file[l])
          /\ C!Open(c, "logout", l,
                    IF C!Renewable(file[l]) THEN "revoking" ELSE "revoked",
                    [file EXCEPT ![l].credentials = None])
          /\ UNCHANGED <<file, live, issued, binding, faults>>
  BY DEF C!StartLogout
<1>2. file \in Book /\ file[l] # None
  BY <1>1 DEF ConnInv, ConnectTypes, C!SignedIn
<1>3. PICK data : data = [file EXCEPT ![l].credentials = None]
  OBVIOUS
<1>4. PICK b \in Book, x \in C!Credentials \cup {None} : b = file /\ x = None
  BY <1>2
<1>4a. b[l] # None /\ IsRecredited(data, b, l, x)
  BY <1>2, <1>3, <1>4 DEF IsRecredited
<1>4b. /\ data \in Book
       /\ data[l] = [client |-> b[l].client, subject |-> b[l].subject,
                     credentials |-> x]
       /\ \A m \in Labels \ {l} : data[m] = b[m]
  BY <1>4a, Recredited
<1>5. /\ data \in Book
      /\ data[l] = [client |-> file[l].client, subject |-> file[l].subject,
                    credentials |-> None]
      /\ \A m \in Labels \ {l} : data[m] = file[m]
  BY <1>4, <1>4b
<1>6. PICK kind \in C!Kinds, pc \in {"waiting", "prompt", "opened", "revoking", "revoked"} :
          /\ kind = "logout" /\ pc \in Leaving
          /\ pc = IF C!Renewable(file[l]) THEN "revoking" ELSE "revoked"
  BY DEF C!Kinds, Leaving
<1>7. /\ lock = None /\ lock' = c
      /\ command' \in [Commands -> CommandRows]
      /\ command'[c].pc = pc /\ command'[c].kind = kind
      /\ command'[c].label = l /\ command'[c].data = data
      /\ \A d \in Commands \ {c} : command'[d] = command[d]
  BY <1>1, <1>3, <1>5, <1>6, Opens
<1>8. MemoryInv(c)' /\ PlaceInv(c)'
  BY <1>1, <1>2, <1>5, <1>6, <1>7 DEF MemoryInv, PlaceInv, Leaving, Using
<1> QED BY <1>1, <1>6, <1>7, <1>8, Starts

\* A denial or no callback, a refused request, a question that was asked or a
\* review that was run, a lost answer, a crash.
LEMMA EndsKeep ==
    ASSUME ConnInv, NEW c \in Commands,
           \/ C!Abandon(c) \/ C!Ask(c) \/ C!RequestFails(c)
           \/ C!AnswerLost(c) \/ C!Dies(c)
    PROVE  ConnInv'
<1>1. /\ command[c].pc # "idle" /\ C!End(c)
      /\ UNCHANGED <<file, live, issued, binding>>
  BY DEF C!Abandon, C!LoginTimesOut, C!Ask, C!RequestFails, C!AnswerLost, C!Dies
<1>3. CASE C!AnswerLost(c) \/ C!Dies(c)
  <2>1. faults' \in 0 .. MaxFaults /\ faults' # 0
    BY <1>3, NoneAssumption DEF ConnInv, ConnectTypes, C!AnswerLost, C!Dies
  <2> QED BY <1>1, <2>1, Ends
<1>4. CASE C!Abandon(c) \/ C!Ask(c) \/ C!RequestFails(c)
  <2>1. /\ faults' = faults /\ faults' \in 0 .. MaxFaults
        /\ command[c].pc \notin {"answered", "revoked"}
    BY <1>4 DEF ConnInv, ConnectTypes, C!Abandon, C!LoginTimesOut, C!Ask,
                C!RequestFails
  <2> QED BY <1>1, <2>1, Ends
<1> QED BY <1>3, <1>4

\* The saved connection is that of the label in use.
LEMMA BindKeeps ==
    ASSUME ConnInv, NEW c \in Commands, C!Bind(c)
    PROVE  ConnInv'
<1>1. /\ command[c].pc = "calling" /\ C!End(c)
      /\ binding' = IF binding = None
                    THEN [client |-> C!Local(c).client, subject |-> C!Local(c).subject]
                    ELSE binding
      /\ UNCHANGED <<file, live, issued, faults>>
  BY DEF C!Bind
<1>2. command[c].label \in Labels /\ C!Local(c) = file[command[c].label]
  BY <1>1 DEF ConnInv, MemoryInv, Leaving, C!Local
<1>3. C!SignedIn(file[command[c].label])
  BY <1>1 DEF ConnInv, PlaceInv, Using
<1>4. binding' = binding \/
          \E l \in Labels :
              /\ C!SignedIn(file[l])
              /\ binding' = [client |-> file[l].client, subject |-> file[l].subject]
  BY <1>1, <1>2, <1>3
<1>5. faults' \in 0 .. MaxFaults
  BY <1>1 DEF ConnInv, ConnectTypes
<1> QED BY <1>1, <1>4, <1>5, Ends

LEMMA ClaimAndCatalogKeep ==
    ASSUME ConnInv, NEW c \in Commands,
           C!Claim(c) \/ C!Catalog(c) \/ C!ReadPrompt(c)
    PROVE  ConnInv'
<1>1. /\ command[c].pc \in {"prompt", "opened", "ready", "claimed"}
      /\ UNCHANGED <<file, live, issued, binding, faults>>
  BY DEF C!Claim, C!Catalog, C!ReadPrompt, C!Renewed
<1>2. faults' \in 0 .. MaxFaults
  BY <1>1 DEF ConnInv, ConnectTypes
<1>3. \/ C!End(c)
      \/ UNCHANGED lock /\ (C!Goto(c, "claimed") \/ C!Goto(c, "calling"))
         /\ command[c].pc # "prompt"
      \/ UNCHANGED lock /\ C!Goto(c, "opened") /\ C!PlanEnabled(C!Local(c))
  BY DEF C!Claim, C!Catalog, C!ReadPrompt, C!Renewed
<1>4. CASE C!End(c)
  BY <1>1, <1>2, <1>4, Ends
<1>5. CASE UNCHANGED lock /\ (C!Goto(c, "claimed") \/ C!Goto(c, "calling"))
           /\ command[c].pc # "prompt"
  <2>1. PICK pc \in {"opened", "claimed", "calling"} : C!Goto(c, pc)
    BY <1>5
  <2>2. C!SignedIn(file[command[c].label])
    BY <1>1, <1>5 DEF ConnInv, PlaceInv, Using
  <2> QED BY <1>1, <1>5, <2>1, <2>2, Goes
<1>6. CASE UNCHANGED lock /\ C!Goto(c, "opened") /\ C!PlanEnabled(C!Local(c))
  <2>1. PICK pc \in {"opened", "claimed", "calling"} : C!Goto(c, pc)
    BY <1>6
  <2>2. command[c].data = file
    BY <1>1 DEF ConnInv, MemoryInv, Leaving
  <2>3. C!SignedIn(file[command[c].label])
    BY <1>6, <2>2 DEF C!PlanEnabled, C!Local
  <2> QED BY <1>1, <1>6, <2>1, <2>3, Goes
<1> QED BY <1>3, <1>4, <1>5, <1>6

-----------------------------------------------------------------------------
(* Signing in. *)

\* Only the command that runs can be between an answer and its save.
LEMMA NobodyMoves ==
    ASSUME ConnInv, NEW c \in Commands, lock = c,
           command[c].pc \notin {"answered", "revoked"}
           \/ (command[c].pc = "answered" /\ command[c].kind = "login")
    PROVE  \A l \in Labels : ~Moving(l)
BY Actor DEF Moving

\* The first callback keeps a new registration before its code is exchanged.
LEMMA CallbackKeeps ==
    ASSUME ConnInv, NEW c \in Commands, NEW k \in Clients, NEW a \in Accounts,
           C!Callback(c, k, a)
    PROVE  ConnInv' /\ FilesKept
<1> DEFINE label == command[c].label
           kept == IF file[label] = None THEN [file EXCEPT ![label] = C!Pending(k)]
                                         ELSE file
<1>1. /\ command[c].pc = "waiting" /\ UNCHANGED <<live, issued, binding, faults>>
  BY DEF C!Callback
<1>2. /\ command[c].data = file /\ command[c].kind = "login" /\ label \in Labels
      /\ lock = c /\ command \in [Commands -> CommandRows] /\ file \in Book
  BY <1>1, Actor DEF ConnInv, MemoryInv, PlaceInv, ConnectTypes, Leaving
<1>3. CASE C!End(c) /\ UNCHANGED file
  <2>1. faults' \in 0 .. MaxFaults
    BY <1>1 DEF ConnInv, ConnectTypes
  <2> QED BY <1>1, <1>3, <2>1, Ends, FileSame
<1>4. CASE /\ C!Registers(file, label, k)
           /\ C!Saved(kept)
           /\ command' = [command EXCEPT ![c].pc = "exchanging", ![c].data = kept,
                                         ![c].account = a]
           /\ UNCHANGED lock
  <2>1. C!Pending(k) \in C!Registration /\ C!Pending(k) # None
        /\ C!Pending(k).client = k /\ C!Pending(k).credentials = None
    <3>1. C!Pending(k) \in C!Registration
      BY DEF C!Pending, C!Registration
    <3> QED BY <3>1, RecordAssumption DEF C!Pending
  <2>2. /\ file' \in Book /\ file'[label] # None
        /\ file[label] = None => file'[label] = C!Pending(k)
        /\ file[label] # None => file'[label] = file[label]
        /\ \A m \in Labels \ {label} : file'[m] = file[m]
    <3> HIDE DEF label
    <3>1. file' = IF file[label] = None THEN [file EXCEPT ![label] = C!Pending(k)]
                                         ELSE file
      BY <1>4 DEF C!Saved
    <3> QED BY <1>2, <2>1, <3>1 DEF Book
  <2>3. PICK d \in Book : d = kept /\ d = file'
    BY <1>4, <2>2 DEF C!Saved
  <2>4. command' = [command EXCEPT ![c].pc = "exchanging", ![c].data = d,
                                   ![c].account = a]
    BY <1>4, <2>3
  <2>5. /\ command' \in [Commands -> CommandRows]
        /\ command'[c].pc = "exchanging" /\ command'[c].kind = command[c].kind
        /\ command'[c].label = label /\ command'[c].data = d
        /\ command'[c].account = a
        /\ \A e \in Commands \ {c} : command'[e] = command[e]
    <3> HIDE DEF kept, label
    <3> DEFINE row(r) == [r EXCEPT !.pc = "exchanging", !.data = d, !.account = a]
    <3>1. ASSUME NEW r \in CommandRows
          PROVE  /\ row(r).pc = "exchanging" /\ row(r).kind = r.kind
                 /\ row(r).label = r.label /\ row(r).data = d
                 /\ row(r).account = a
      BY DEF CommandRows
    <3>2. ASSUME NEW r \in CommandRows
          PROVE  row(r) \in CommandRows
      BY DEF CommandRows
    <3>3. command[c] \in CommandRows
      BY <1>2
    <3>4. command' = [command EXCEPT ![c] = row(command[c])]
      BY <2>4
    <3> HIDE DEF row
    <3>5. /\ command' \in [Commands -> CommandRows]
          /\ command'[c] = row(command[c])
          /\ \A e \in Commands \ {c} : command'[e] = command[e]
      BY <1>2, <3>2, <3>3, <3>4
    <3> QED BY <3>1, <3>3, <3>5 DEF label
  <2>6. FilesKept
    BY <2>2 DEF FilesKept
  <2>7. FileInv'
    <3>1. \A m \in Labels \ {label} : file[label] = None =>
              file[m] = None \/ file[m].client # k
      BY <1>4 DEF C!Registers
    <3>2. ASSUME NEW l \in Labels, NEW m \in Labels, file'[l] # None, file'[m] # None,
                 l # m
          PROVE  file'[l].client # file'[m].client
      <4> HIDE DEF label
      <4>1. CASE file[label] # None
        BY <2>2, <3>2, <4>1 DEF ConnInv, FileInv
      <4>2. CASE file[label] = None /\ l = label
        BY <2>1, <2>2, <3>1, <3>2, <4>2
      <4>3. CASE file[label] = None /\ m = label
        BY <2>1, <2>2, <3>1, <3>2, <4>3
      <4>4. CASE l # label /\ m # label
        BY <2>2, <3>2, <4>4 DEF ConnInv, FileInv
      <4> QED BY <4>1, <4>2, <4>3, <4>4
    <3>3. \A l \in Labels : C!SignedIn(file'[l]) => file'[l].subject \in Accounts
      BY <2>1, <2>2 DEF ConnInv, FileInv, C!SignedIn
    <3> QED BY <3>2, <3>3 DEF FileInv, C!SignedIn
  <2>8. BindInv'
    BY <1>1, <2>6, BindKept
  <2>9. LiveInv'
    <3>1. \A l \in Labels : C!SignedIn(file'[l]) => file'[l] = file[l]
      BY <2>1, <2>2 DEF C!SignedIn
    <3>2. \A l \in Labels : ~Moving(l)
      BY <1>1, <1>2, NobodyMoves
    <3> QED BY <1>1, <3>1, <3>2 DEF ConnInv, LiveInv, Alive, C!SignedIn
  <2>10. MemoryInv(c)' /\ PlaceInv(c)'
    BY <1>2, <2>2, <2>3, <2>5 DEF MemoryInv, PlaceInv, Leaving, Using
  <2>11. ConnectTypes'
    BY <1>1, <1>4, <2>2, <2>5 DEF ConnInv, ConnectTypes
  <2> QED BY <1>2, <1>4, <2>5, <2>6, <2>7, <2>8, <2>9, <2>10, <2>11, Acts
<1> QED BY <1>2, <1>3, <1>4 DEF C!Callback

\* The provider's answer is a token it takes.
LEMMA ExchangeKeeps ==
    ASSUME ConnInv, NEW c \in Commands, C!Exchange(c)
    PROVE  ConnInv'
<1> DEFINE label == command[c].label
<1>1. /\ command[c].pc = "exchanging" /\ issued < MaxTokens /\ issued' = issued + 1
      /\ UNCHANGED <<file, lock, binding, faults>>
  BY DEF C!Exchange
<1>2. /\ command[c].data = file /\ command[c].kind = "login" /\ label \in Labels
      /\ lock = c /\ command \in [Commands -> CommandRows] /\ file \in Book
      /\ file[label] # None /\ command[c].account \in Accounts
  BY <1>1, Actor DEF ConnInv, MemoryInv, PlaceInv, ConnectTypes, Leaving
<1>3. PICK refresh \in C!Tokens \cup {None}, answer \in C!Credentials :
          /\ command' = [command EXCEPT ![c].pc = "answered", ![c].answer = answer]
          /\ answer.refresh = refresh
          /\ live' = [live EXCEPT ![C!Local(c).client] = @ \cup ({refresh} \ {None})]
  <2>1. issued' \in C!Tokens
    BY <1>1, NoneAssumption DEF ConnInv, ConnectTypes, C!Tokens
  <2>2. PICK refresh \in {None, issued'}, on \in BOOLEAN, over \in BOOLEAN :
            /\ live' = [live EXCEPT ![C!Local(c).client] = @ \cup ({refresh} \ {None})]
            /\ command' = [command EXCEPT ![c].pc = "answered",
                   ![c].answer = [refresh |-> refresh, plan |-> on, over |-> over]]
    BY DEF C!Exchange
  <2>3. [refresh |-> refresh, plan |-> on, over |-> over] \in C!Credentials
    BY <2>1 DEF C!Credentials
  <2>4. refresh \in C!Tokens \cup {None}
    BY <2>1
  <2> QED BY <2>2, <2>3, <2>4
<1>4. file[label].client \in Clients /\ C!Local(c) = file[label]
  BY <1>2, Registrations DEF C!Local
<1>5. /\ command' \in [Commands -> CommandRows]
      /\ command'[c].pc = "answered" /\ command'[c].kind = "login"
      /\ command'[c].label = label /\ command'[c].data = file
      /\ command'[c].account = command[c].account /\ command'[c].answer = answer
      /\ \A e \in Commands \ {c} : command'[e] = command[e]
  BY <1>2, <1>3 DEF CommandRows
<1>6. /\ live' \in [Clients -> SUBSET C!Tokens]
      /\ issued' \in 0 .. MaxTokens
      /\ answer.refresh \in {None} \cup live'[file[label].client]
      /\ \A k \in Clients : live[k] \subseteq live'[k]
  <2>1. issued' \in 0 .. MaxTokens
    BY <1>1, NoneAssumption DEF ConnInv, ConnectTypes
  <2>2. live \in [Clients -> SUBSET C!Tokens]
    BY DEF ConnInv, ConnectTypes
  <2> QED BY <1>1, <1>3, <1>4, <2>1, <2>2
<1>7. ConnectTypes'
  BY <1>1, <1>5, <1>6 DEF ConnInv, ConnectTypes
<1>8. MemoryInv(c)' /\ PlaceInv(c)'
  BY <1>1, <1>2, <1>3, <1>5, <1>6 DEF MemoryInv, PlaceInv, Leaving, Using
<1>9. FileInv' /\ BindInv'
  BY <1>1, FileSame, BindKept
<1>10. LiveInv'
  <2>1. \A l \in Labels : ~Moving(l)
    BY <1>1, <1>2, NobodyMoves
  <2>2. \A l \in Labels : C!SignedIn(file[l]) => file[l].client \in Clients
    BY <1>2, Registrations DEF C!SignedIn
  <2> QED BY <1>1, <1>6, <2>1, <2>2 DEF ConnInv, LiveInv, Alive, C!SignedIn
<1> QED BY <1>1, <1>2, <1>5, <1>7, <1>8, <1>9, <1>10, Acts

\* A verified answer becomes the label's session, unless it is of another
\* account.
LEMMA KeepLoginKeeps ==
    ASSUME ConnInv, NEW c \in Commands, C!KeepLogin(c)
    PROVE  ConnInv' /\ FilesKept
<1>1. /\ command[c].pc = "answered" /\ command[c].kind = "login" /\ C!End(c)
      /\ UNCHANGED <<live, issued, binding, faults>>
  BY DEF C!KeepLogin
<1>2. PICK label \in Labels : label = command[c].label
  BY <1>1 DEF ConnInv, MemoryInv
<1>3. /\ command[c].data = file
      /\ lock = c /\ command \in [Commands -> CommandRows] /\ file \in Book
      /\ file[label] # None /\ command[c].account \in Accounts
      /\ command[c].answer \in C!Credentials
      /\ command[c].answer.refresh \in {None} \cup live[file[label].client]
  BY <1>1, <1>2, Actor DEF ConnInv, MemoryInv, PlaceInv, ConnectTypes, Leaving
<1>4. C!Local(c) = file[label]
  BY <1>2, <1>3 DEF C!Local
<1>5. CASE UNCHANGED file
  <2>1. faults' \in 0 .. MaxFaults
    BY <1>1 DEF ConnInv, ConnectTypes
  <2> QED BY <1>1, <1>5, <2>1, Ends, FileSame
<1>6. ASSUME C!SameAccount(file[label], command[c].account),
             C!Saved([file EXCEPT ![label] = [client |-> file[label].client,
                          subject |-> command[c].account,
                          credentials |-> command[c].answer]])
      PROVE  ConnInv' /\ FilesKept
  <2> DEFINE row == [client |-> file[label].client, subject |-> command[c].account,
                     credentials |-> command[c].answer]
  <2>1. row \in C!Registration
    BY <1>3, Registrations DEF C!Registration
  <2>2. /\ row.client = file[label].client /\ row.subject = command[c].account
        /\ row.credentials = command[c].answer /\ row # None
    BY <2>1, RecordAssumption
  <2>3. file' = [file EXCEPT ![label] = row]
    BY <1>6 DEF C!Saved
  <2> HIDE DEF row
  <2>4. /\ file' \in Book /\ file'[label] = row
        /\ \A m \in Labels \ {label} : file'[m] = file[m]
    BY <1>3, <2>1, <2>3 DEF Book
  <2>5. FilesKept
    BY <1>6, <2>2, <2>4 DEF FilesKept, C!SameAccount
  <2>6. FileInv'
    <3>1. \A l \in Labels : file'[l] # None =>
              file[l] # None /\ file'[l].client = file[l].client
      BY <1>3, <2>2, <2>4
    <3>2. \A l \in Labels : C!SignedIn(file'[l]) => file'[l].subject \in Accounts
      BY <1>3, <2>2, <2>4 DEF ConnInv, FileInv
    <3> QED BY <3>1, <3>2 DEF ConnInv, FileInv, C!SignedIn
  <2>7. BindInv'
    BY <1>1, <2>5, BindKept
  <2>8. LiveInv'
    <3>1. \A l \in Labels : ~Moving(l)
      BY <1>1, <1>3, NobodyMoves
    <3>2. Alive(label)'
      BY <1>1, <1>3, <2>2, <2>4 DEF Alive
    <3>3. \A l \in Labels \ {label} :
              faults = 0 /\ C!SignedIn(file'[l]) => Alive(l)'
      BY <1>1, <2>4, <3>1 DEF ConnInv, LiveInv, Alive
    <3> QED BY <1>1, <3>2, <3>3 DEF LiveInv, C!SignedIn
  <2>9. C!Idle \in CommandRows /\ C!Idle.pc = "idle"
    BY DEF C!Idle, CommandRows
  <2>10. /\ command' \in [Commands -> CommandRows] /\ command'[c].pc = "idle"
         /\ lock' = None
         /\ \A d \in Commands \ {c} : command'[d] = command[d]
    BY <1>1, <1>3, <2>9 DEF C!End
  <2>11. ConnectTypes'
    BY <1>1, <2>4, <2>10 DEF ConnInv, ConnectTypes
  <2>12. MemoryInv(c)' /\ PlaceInv(c)'
    BY <2>10 DEF MemoryInv, PlaceInv, Leaving, Using
  <2> QED BY <1>3, <2>5, <2>6, <2>7, <2>8, <2>10, <2>11, <2>12, Acts
<1> QED BY <1>2, <1>3, <1>4, <1>5, <1>6 DEF C!KeepLogin

-----------------------------------------------------------------------------
(* Signing out, and renewing a session. *)

\* Tokens that are taken from one client are not those of another label.
LEMMA OthersLive ==
    ASSUME ConnInv, NEW label \in Labels, file[label] # None, UNCHANGED file,
           live' \in [Clients -> SUBSET C!Tokens],
           \A k \in Clients \ {file[label].client} : live'[k] = live[k]
    PROVE  \A l \in Labels \ {label} : C!SignedIn(file[l]) => Alive(l)' = Alive(l)
<1>1. \A l \in Labels \ {label} : C!SignedIn(file[l]) =>
          file[l].client \in Clients \ {file[label].client}
  BY Registrations DEF ConnInv, ConnectTypes, FileInv, C!SignedIn
<1> QED BY <1>1 DEF Alive

\* The provider revokes the token, or it is not known whether it has.
LEMMA RevokeKeeps ==
    ASSUME ConnInv, NEW c \in Commands, C!Revoke(c)
    PROVE  ConnInv'
<1>1. /\ command[c].pc = "revoking" /\ C!Goto(c, "revoked")
      /\ UNCHANGED <<file, lock, issued, binding, faults>>
  BY DEF C!Revoke
<1>2. PICK label \in Labels : label = command[c].label
  BY <1>1 DEF ConnInv, MemoryInv
<1>3. /\ lock = c /\ file \in Book /\ file[label] # None
      /\ command[c].data[label].client = file[label].client
  <2>1. lock = c /\ file \in Book /\ MemoryInv(c)
    BY <1>1, Actor DEF ConnInv, ConnectTypes
  <2>2. /\ file[label] # None
        /\ command[c].data[label] = [client |-> file[label].client,
                                     subject |-> file[label].subject,
                                     credentials |-> None]
    BY <1>1, <1>2, <2>1 DEF MemoryInv, Leaving
  <2> QED BY <2>1, <2>2
<1>4. file[label].client \in Clients
  BY <1>3, Registrations
<1>5. PICK gone : live' \in {live, [live EXCEPT ![file[label].client] = @ \ {gone}]}
  BY <1>2, <1>3 DEF C!Revoke, C!Local
<1>6. /\ live' \in [Clients -> SUBSET C!Tokens]
      /\ \A k \in Clients \ {file[label].client} : live'[k] = live[k]
  BY <1>4, <1>5 DEF ConnInv, ConnectTypes
<1>7. /\ command' \in [Commands -> CommandRows]
      /\ command'[c].pc = "revoked"
      /\ command'[c].label = label /\ command'[c].data = command[c].data
      /\ \A d \in Commands \ {c} : command'[d] = command[d]
  BY <1>1, <1>2, Places
<1>8. ConnectTypes'
  BY <1>1, <1>6, <1>7 DEF ConnInv, ConnectTypes
<1>9. MemoryInv(c)' /\ PlaceInv(c)'
  BY <1>1, <1>2, <1>7 DEF ConnInv, MemoryInv, PlaceInv, Leaving, Using
<1>10. FileInv' /\ BindInv'
  BY <1>1, FileSame, BindKept
<1>11. LiveInv'
  <2>1. \A l \in Labels : ~Moving(l)
    BY <1>1, <1>3, NobodyMoves
  <2>2. Moving(label)'
    BY <1>7 DEF Moving
  <2>3. \A l \in Labels \ {label} : C!SignedIn(file[l]) => Alive(l)' = Alive(l)
    BY <1>1, <1>3, <1>6, OthersLive
  <2> QED BY <1>1, <2>1, <2>2, <2>3 DEF ConnInv, LiveInv, C!SignedIn
<1> QED BY <1>1, <1>3, <1>7, <1>8, <1>9, <1>10, <1>11, Acts

\* The file without the session: a registration stays with its account.
LEMMA SaveLogoutKeeps ==
    ASSUME ConnInv, NEW c \in Commands, C!SaveLogout(c)
    PROVE  ConnInv' /\ FilesKept
<1>1. /\ command[c].pc = "revoked" /\ file' = command[c].data /\ C!End(c)
      /\ UNCHANGED <<live, issued, binding, faults>>
  BY DEF C!SaveLogout, C!Saved
<1>2. PICK label \in Labels : label = command[c].label
  BY <1>1 DEF ConnInv, MemoryInv
<1>3. /\ lock = c /\ file \in Book /\ file[label] # None
      /\ file' \in Book
      /\ file'[label] = [client |-> file[label].client, subject |-> file[label].subject,
                         credentials |-> None]
      /\ \A l \in Labels \ {label} : file'[l] = file[l]
      /\ command \in [Commands -> CommandRows]
  BY <1>1, <1>2, Actor DEF ConnInv, MemoryInv, ConnectTypes, Leaving
<1>4. /\ file'[label].client = file[label].client
      /\ file'[label].subject = file[label].subject
      /\ file'[label].credentials = None
  BY <1>3
<1>5. file'[label] # None
  <2>1. /\ file[label].client \in Clients
        /\ file[label].subject \in Accounts \cup {None}
    BY <1>3, Registrations
  <2>2. file'[label] \in C!Registration
    BY <1>3, <2>1 DEF C!Registration
  <2> QED BY <2>2, RecordAssumption
<1>6. FilesKept
  BY <1>3, <1>4, <1>5 DEF FilesKept
<1>7. FileInv'
  <2>1. \A l \in Labels : file'[l] # None =>
            file[l] # None /\ file'[l].client = file[l].client
    BY <1>3, <1>4
  <2>2. \A l \in Labels : C!SignedIn(file'[l]) => file'[l].subject \in Accounts
    BY <1>3, <1>4 DEF ConnInv, FileInv, C!SignedIn
  <2> QED BY <2>1, <2>2 DEF ConnInv, FileInv, C!SignedIn
<1>8. BindInv'
  BY <1>1, <1>6, BindKept
<1>9. C!Idle \in CommandRows /\ C!Idle.pc = "idle"
  BY DEF C!Idle, CommandRows
<1>10. /\ command' \in [Commands -> CommandRows] /\ command'[c].pc = "idle"
       /\ lock' = None
       /\ \A d \in Commands \ {c} : command'[d] = command[d]
  BY <1>1, <1>3, <1>9 DEF C!End
<1>11. LiveInv'
  <2>1. \A l \in Labels \ {label} : ~Moving(l)
    BY <1>1, <1>2, Actor DEF Moving
  <2>2. ~C!SignedIn(file'[label])
    BY <1>4 DEF C!SignedIn
  <2> QED BY <1>1, <1>3, <2>1, <2>2 DEF ConnInv, LiveInv, Alive, C!SignedIn
<1>12. ConnectTypes'
  BY <1>1, <1>3, <1>10 DEF ConnInv, ConnectTypes
<1>13. MemoryInv(c)' /\ PlaceInv(c)'
  BY <1>10 DEF MemoryInv, PlaceInv, Leaving, Using
<1> QED BY <1>3, <1>6, <1>7, <1>8, <1>10, <1>11, <1>12, <1>13, Acts

\* Without a token, or if it is refused, the command ends; an answer has a
\* token the provider takes, while the one on disk may be dead.
LEMMA RefreshKeeps ==
    ASSUME ConnInv, NEW c \in Commands, C!Refresh(c)
    PROVE  ConnInv'
<1>1. /\ command[c].pc = "opened"
      /\ UNCHANGED <<file, binding, faults>>
  BY DEF C!Refresh
<1>2. PICK label \in Labels : label = command[c].label
  BY <1>1 DEF ConnInv, MemoryInv
<1>3. /\ lock = c /\ file \in Book /\ command \in [Commands -> CommandRows]
      /\ command[c].data = file /\ C!SignedIn(file[label]) /\ command[c].kind # "login"
  BY <1>1, <1>2, Actor DEF ConnInv, MemoryInv, PlaceInv, ConnectTypes, Leaving, Using
<1>4. PICK k \in Clients, old \in C!Tokens \cup {None} :
          k = file[label].client /\ old = file[label].credentials.refresh
          /\ file[label] # None
  <2>1. file[label] # None /\ file[label].credentials # None
    BY <1>3 DEF C!SignedIn
  <2>2. file[label].client \in Clients /\ file[label].credentials \in C!Credentials
    BY <1>3, <2>1, Registrations
  <2> QED BY <2>1, <2>2 DEF C!Credentials
<1>5. C!Local(c) = file[label]
  BY <1>2, <1>3 DEF C!Local
<1>6. CASE old \notin live[k]
  <2>1. C!End(c) /\ UNCHANGED <<live, issued>>
    BY <1>4, <1>5, <1>6 DEF C!Refresh
  <2>2. faults' \in 0 .. MaxFaults
    BY <1>1 DEF ConnInv, ConnectTypes
  <2> QED BY <1>1, <2>1, <2>2, Ends
<1>7. CASE old \in live[k]
  <2>1. /\ issued < MaxTokens /\ issued' = issued + 1 /\ UNCHANGED lock
        /\ \E rotated, on \in BOOLEAN :
               /\ live' = IF rotated
                          THEN [live EXCEPT ![k] = (@ \ {old}) \cup {issued'}]
                          ELSE live
               /\ command' = [command EXCEPT ![c].pc = "answered",
                      ![c].answer = [refresh |-> IF rotated THEN issued' ELSE old,
                                     plan |-> on, over |-> FALSE]]
    BY <1>4, <1>5, <1>7 DEF C!Refresh
  <2>2. issued' \in C!Tokens /\ issued' \in 0 .. MaxTokens
    BY <2>1, NoneAssumption DEF ConnInv, ConnectTypes, C!Tokens
  <2>3. PICK rotated \in BOOLEAN, on \in BOOLEAN :
            /\ live' = IF rotated
                       THEN [live EXCEPT ![k] = (@ \ {old}) \cup {issued'}]
                       ELSE live
            /\ command' = [command EXCEPT ![c].pc = "answered",
                   ![c].answer = [refresh |-> IF rotated THEN issued' ELSE old,
                                  plan |-> on, over |-> FALSE]]
    BY <2>1
  <2>4. PICK token \in C!Tokens \cup {None} : token = IF rotated THEN issued' ELSE old
    BY <2>2
  <2>5. PICK answer \in C!Credentials :
            /\ answer = [refresh |-> token, plan |-> on, over |-> FALSE]
            /\ answer.refresh = token
    <3>1. [refresh |-> token, plan |-> on, over |-> FALSE] \in C!Credentials
      BY DEF C!Credentials
    <3> QED BY <3>1
  <2>6. command' = [command EXCEPT ![c].pc = "answered", ![c].answer = answer]
    BY <2>3, <2>4, <2>5
  <2>7. /\ command' \in [Commands -> CommandRows]
        /\ command'[c].pc = "answered" /\ command'[c].kind = command[c].kind
        /\ command'[c].label = label /\ command'[c].data = file
        /\ command'[c].answer = answer
        /\ \A e \in Commands \ {c} : command'[e] = command[e]
    BY <1>2, <1>3, <2>6, ZenonT(60) DEF CommandRows
  <2>8. /\ live' \in [Clients -> SUBSET C!Tokens]
        /\ \A n \in Clients \ {k} : live'[n] = live[n]
        /\ token \in live'[k]
    <3>1. live \in [Clients -> SUBSET C!Tokens]
      BY DEF ConnInv, ConnectTypes
    <3> QED BY <1>7, <2>2, <2>3, <2>4, <3>1
  <2>9. ConnectTypes'
    BY <1>1, <2>1, <2>2, <2>7, <2>8 DEF ConnInv, ConnectTypes
  <2>10. MemoryInv(c)' /\ PlaceInv(c)'
    BY <1>1, <1>3, <1>4, <2>5, <2>7, <2>8 DEF MemoryInv, PlaceInv, Leaving, Using
  <2>11. FileInv' /\ BindInv'
    BY <1>1, FileSame, BindKept
  <2>12. LiveInv'
    <3>1. \A l \in Labels : ~Moving(l)
      BY <1>1, <1>3, NobodyMoves
    <3>2. Moving(label)'
      BY <1>3, <2>7 DEF Moving
    <3>3. \A l \in Labels \ {label} : C!SignedIn(file[l]) => Alive(l)' = Alive(l)
      BY <1>1, <1>4, <2>8, OthersLive
    <3> QED BY <1>1, <3>1, <3>2, <3>3 DEF ConnInv, LiveInv, C!SignedIn
  <2> QED BY <1>3, <2>1, <2>7, <2>9, <2>10, <2>11, <2>12, Acts
<1> QED BY <1>6, <1>7

\* The answer is on disk before anything is done with it.
LEMMA KeepRefreshKeeps ==
    ASSUME ConnInv, NEW c \in Commands, C!KeepRefresh(c)
    PROVE  ConnInv' /\ FilesKept
<1>1. /\ command[c].pc = "answered" /\ command[c].kind # "login"
      /\ UNCHANGED <<lock, live, issued, binding, faults>>
  BY DEF C!KeepRefresh
<1>2. PICK label \in Labels : label = command[c].label
  BY <1>1 DEF ConnInv, MemoryInv
<1>3. /\ lock = c /\ file \in Book /\ command \in [Commands -> CommandRows]
      /\ command[c].data = file /\ C!SignedIn(file[label])
  BY <1>1, <1>2, Actor DEF ConnInv, MemoryInv, PlaceInv, ConnectTypes, Leaving, Using
<1>4. PICK answer \in C!Credentials \cup {None} :
          /\ answer = command[c].answer /\ answer \in C!Credentials
          /\ answer.refresh \in {None} \cup live[file[label].client]
  BY <1>1, <1>2 DEF ConnInv, PlaceInv
<1>5. PICK b \in Book : b = file /\ b[label] # None
  BY <1>3 DEF C!SignedIn
<1>6. PICK data : IsRecredited(data, b, label, answer)
  BY DEF IsRecredited
<1>7. /\ data \in Book /\ data[label] # None
      /\ data[label] = [client |-> b[label].client, subject |-> b[label].subject,
                        credentials |-> answer]
      /\ \A m \in Labels \ {label} : data[m] = b[m]
  BY <1>5, <1>6, Recredited
<1>8. /\ file' = data
      /\ command' = [command EXCEPT ![c].pc = "ready", ![c].data = data]
  BY <1>2, <1>3, <1>4, <1>5, <1>6 DEF C!KeepRefresh, C!SavedFirst, C!Saved, IsRecredited
<1>9. /\ file' \in Book /\ file'[label] # None
      /\ file'[label].client = file[label].client
      /\ file'[label].subject = file[label].subject
      /\ file'[label].credentials = answer
      /\ \A m \in Labels \ {label} : file'[m] = file[m]
  BY <1>5, <1>7, <1>8
<1>10. /\ command' \in [Commands -> CommandRows]
       /\ command'[c].pc = "ready" /\ command'[c].kind = command[c].kind
       /\ command'[c].label = label /\ command'[c].data = data
       /\ \A e \in Commands \ {c} : command'[e] = command[e]
  <2> DEFINE row(r) == [r EXCEPT !.pc = "ready", !.data = data]
  <2>1. ASSUME NEW r \in CommandRows
        PROVE  /\ row(r).pc = "ready" /\ row(r).kind = r.kind
               /\ row(r).label = r.label /\ row(r).data = data
    BY DEF CommandRows
  <2>2. ASSUME NEW r \in CommandRows
        PROVE  row(r) \in CommandRows
    BY <1>7 DEF CommandRows
  <2>3. command[c] \in CommandRows
    BY <1>3
  <2>4. command' = [command EXCEPT ![c] = row(command[c])]
    BY <1>8
  <2> HIDE DEF row
  <2>5. /\ command' \in [Commands -> CommandRows]
        /\ command'[c] = row(command[c])
        /\ \A e \in Commands \ {c} : command'[e] = command[e]
    BY <1>3, <2>2, <2>3, <2>4
  <2> QED BY <1>2, <2>1, <2>3, <2>5
<1>11. FilesKept
  BY <1>9 DEF FilesKept
<1>12. FileInv'
  <2>1. \A l \in Labels : file'[l] # None =>
            file[l] # None /\ file'[l].client = file[l].client
    BY <1>3, <1>9 DEF C!SignedIn
  <2>2. \A l \in Labels : C!SignedIn(file'[l]) => file'[l].subject \in Accounts
    BY <1>3, <1>9 DEF ConnInv, FileInv, C!SignedIn
  <2> QED BY <2>1, <2>2 DEF ConnInv, FileInv, C!SignedIn
<1>13. BindInv'
  BY <1>1, <1>11, BindKept
<1>14. LiveInv'
  <2>1. \A l \in Labels \ {label} : ~Moving(l)
    BY <1>1, <1>2, Actor DEF Moving
  <2>2. Alive(label)'
    BY <1>1, <1>4, <1>9 DEF Alive
  <2>3. \A l \in Labels \ {label} :
            faults = 0 /\ C!SignedIn(file'[l]) => Alive(l)'
    BY <1>1, <1>9, <2>1 DEF ConnInv, LiveInv, Alive
  <2> QED BY <1>1, <2>2, <2>3 DEF LiveInv, C!SignedIn
<1>15. ConnectTypes'
  BY <1>1, <1>9, <1>10 DEF ConnInv, ConnectTypes
<1>16. MemoryInv(c)' /\ PlaceInv(c)'
  <2>1. C!SignedIn(file'[label])
    BY <1>4, <1>9, RecordAssumption DEF C!SignedIn
  <2> QED BY <1>1, <1>7, <1>8, <1>10, <2>1 DEF MemoryInv, PlaceInv, Leaving, Using
<1> QED BY <1>1, <1>3, <1>10, <1>11, <1>12, <1>13, <1>14, <1>15, <1>16, Acts

-----------------------------------------------------------------------------
(* Time passes over an access token. *)

\* What is signed in stays so, with its account and its refresh token.
Aged(r) == [r EXCEPT !.credentials.over = TRUE]

LEMMA AgedRow ==
    ASSUME NEW r \in C!Registration, r.credentials # None
    PROVE  /\ Aged(r) \in C!Registration
           /\ Aged(r).client = r.client /\ Aged(r).subject = r.subject
           /\ Aged(r).credentials # None
           /\ Aged(r).credentials.refresh = r.credentials.refresh
<1>1. r.credentials \in C!Credentials
  BY DEF C!Registration
<1> DEFINE fresh == [r.credentials EXCEPT !.over = TRUE]
<1>2. fresh \in C!Credentials /\ fresh.refresh = r.credentials.refresh
  BY <1>1 DEF C!Credentials
<1>3. Aged(r) = [r EXCEPT !.credentials = fresh]
  BY DEF Aged
<1> HIDE DEF fresh
<1>4. /\ Aged(r) \in C!Registration
      /\ Aged(r).client = r.client /\ Aged(r).subject = r.subject
      /\ Aged(r).credentials = fresh
  BY <1>2, <1>3 DEF C!Registration
<1> QED BY <1>2, <1>4, RecordAssumption

\* What becomes of the accounts in a file or a memory.
LEMMA OverBook ==
    ASSUME NEW b \in Book, NEW l \in Labels
    PROVE  /\ C!Over(b, l) \in Book
           /\ C!SignedIn(b[l]) => C!Over(b, l)[l] = Aged(b[l])
           /\ ~C!SignedIn(b[l]) => C!Over(b, l)[l] = b[l]
           /\ \A m \in Labels \ {l} : C!Over(b, l)[m] = b[m]
<1>1. l \in DOMAIN b
  BY DEF Book
<1>2. CASE C!SignedIn(b[l])
  <2>1. b[l] \in C!Registration /\ b[l].credentials # None
    BY <1>2, Registrations DEF C!SignedIn
  <2>2. Aged(b[l]) \in C!Registration
    BY <2>1, AgedRow
  <2>3. C!Over(b, l) = [b EXCEPT ![l] = Aged(b[l])]
    BY <1>1, <1>2 DEF C!Over, Aged
  <2> QED BY <1>2, <2>2, <2>3 DEF Book
<1>3. CASE ~C!SignedIn(b[l])
  BY <1>1, <1>3 DEF C!Over
<1> QED BY <1>2, <1>3

LEMMA TokenExpiresKeeps ==
    ASSUME ConnInv, C!TokenExpires
    PROVE  ConnInv' /\ FilesKept
<1>1. PICK l \in Labels :
          /\ C!SignedIn(file[l]) /\ file' = C!Over(file, l)
          /\ command' = [c \in Commands |->
                 [command[c] EXCEPT !.data = C!Over(command[c].data, l)]]
  BY DEF C!TokenExpires
<1>2. UNCHANGED <<lock, live, issued, binding, faults>>
  BY DEF C!TokenExpires
<1>3. /\ file \in Book /\ command \in [Commands -> CommandRows]
  BY DEF ConnInv, ConnectTypes
<1>4. /\ file' \in Book /\ file'[l] = Aged(file[l])
      /\ \A m \in Labels \ {l} : file'[m] = file[m]
  BY <1>1, <1>3, OverBook
<1>5. /\ file[l] # None /\ file'[l] # None /\ C!SignedIn(file'[l])
      /\ file'[l].client = file[l].client /\ file'[l].subject = file[l].subject
      /\ file'[l].credentials.refresh = file[l].credentials.refresh
  <2>1. file[l] \in C!Registration /\ file[l].credentials # None /\ file[l] # None
    BY <1>1, <1>3, Registrations DEF C!SignedIn
  <2> QED BY <1>4, <2>1, AgedRow, RecordAssumption DEF C!SignedIn
<1>6. \A b \in Book \cup {<<>>} : C!Over(b, l) \in Book \cup {<<>>}
  <2>1. C!Over(<<>>, l) = <<>>
    BY DEF C!Over
  <2> QED BY <2>1, OverBook
<1>7. \A c \in Commands :
          /\ command'[c] \in CommandRows
          /\ command'[c].pc = command[c].pc /\ command'[c].kind = command[c].kind
          /\ command'[c].label = command[c].label
          /\ command'[c].account = command[c].account
          /\ command'[c].answer = command[c].answer
          /\ command'[c].data = C!Over(command[c].data, l)
  <2> DEFINE row(r) == [r EXCEPT !.data = C!Over(r.data, l)]
  <2>1. ASSUME NEW r \in CommandRows
        PROVE  /\ row(r) \in CommandRows
               /\ row(r).pc = r.pc /\ row(r).kind = r.kind /\ row(r).label = r.label
               /\ row(r).account = r.account /\ row(r).answer = r.answer
               /\ row(r).data = C!Over(r.data, l)
    <3>1. PICK d \in Book \cup {<<>>} : d = C!Over(r.data, l)
      BY <1>6 DEF CommandRows
    <3>2. row(r) = [r EXCEPT !.data = d]
      BY <3>1
    <3> HIDE DEF row
    <3>3. row(r) \in CommandRows
      BY <3>2 DEF CommandRows
    <3>4. /\ row(r).pc = r.pc /\ row(r).kind = r.kind /\ row(r).label = r.label
          /\ row(r).account = r.account /\ row(r).answer = r.answer
          /\ row(r).data = d
      BY <3>2 DEF CommandRows
    <3> QED BY <3>1, <3>3, <3>4
  <2>2. \A c \in Commands : command'[c] = row(command[c])
    BY <1>1
  <2> HIDE DEF row
  <2> QED BY <1>3, <2>1, <2>2
<1>8. ConnectTypes'
  <2>1. command' \in [Commands -> CommandRows]
    BY <1>1, <1>7
  <2> QED BY <1>2, <1>4, <2>1 DEF ConnInv, ConnectTypes
<1>9. OneRuns'
  BY <1>2, <1>7 DEF ConnInv, OneRuns
<1>10. ASSUME NEW c \in Commands
       PROVE  MemoryInv(c)'
  <2>1. command'[c].pc # "idle" => command'[c].label \in Labels /\ command'[c].data \in Book
    BY <1>7, OverBook, ZenonT(60) DEF ConnInv, MemoryInv
  <2>2. command'[c].pc \notin {"idle"} \cup Leaving => command'[c].data = file'
    BY <1>1, <1>7 DEF ConnInv, MemoryInv
  <2>3. ASSUME command'[c].pc \in Leaving
        PROVE  /\ file'[command'[c].label] # None
               /\ \A n \in Labels \ {command'[c].label} : command'[c].data[n] = file'[n]
               /\ command'[c].data[command'[c].label] =
                      [client |-> file'[command'[c].label].client,
                       subject |-> file'[command'[c].label].subject,
                       credentials |-> None]
    <3>1. PICK label \in Labels, b \in Book :
              label = command[c].label /\ b = command[c].data
      BY <1>7, <2>3 DEF ConnInv, MemoryInv, Leaving
    <3>2. /\ file[label] # None
          /\ \A n \in Labels \ {label} : b[n] = file[n]
          /\ b[label] = [client |-> file[label].client, subject |-> file[label].subject,
                         credentials |-> None]
      BY <1>7, <2>3, <3>1 DEF ConnInv, MemoryInv
    <3>3. command'[c].label = label /\ command'[c].data = C!Over(b, l)
      BY <1>7, <3>1
    <3>4. ~C!SignedIn(b[label])
      BY <3>2 DEF C!SignedIn
    <3>5. C!Over(b, l)[label] = b[label]
      BY <3>4, OverBook
    <3>6. /\ file'[label] # None /\ file'[label].client = file[label].client
          /\ file'[label].subject = file[label].subject
      BY <1>4, <1>5, <3>2
    <3>7. \A n \in Labels \ {label} : C!Over(b, l)[n] = file'[n]
      BY <1>1, <1>4, <3>2, OverBook, SMTT(60)
    <3> QED BY <3>2, <3>3, <3>5, <3>6, <3>7
  <2> QED BY <2>1, <2>2, <2>3 DEF MemoryInv
<1>11. ASSUME NEW c \in Commands
       PROVE  PlaceInv(c)'
  <2>1. \A m \in Labels : /\ file[m] # None => file'[m] # None
                          /\ C!SignedIn(file[m]) => C!SignedIn(file'[m])
                          /\ file[m] # None => file'[m].client = file[m].client
    BY <1>4, <1>5
  <2>2. command[c].pc # "idle" => command[c].label \in Labels
    BY DEF ConnInv, MemoryInv
  <2>3. C!SignedIn(file[command[c].label]) => file[command[c].label] # None
    BY DEF C!SignedIn
  <2>4. Using(command'[c]) <=> Using(command[c])
    BY <1>7 DEF Using
  <2>5. PlaceInv(c)
    BY DEF ConnInv
  <2>6. Using(command[c]) => C!SignedIn(file[command[c].label])
    BY <2>5 DEF PlaceInv
  <2>7. /\ command[c].pc = "answered" => file[command[c].label] # None
        /\ Using(command[c]) => command[c].pc # "idle"
    BY <2>3, <2>5, <2>6 DEF PlaceInv, Using
  <2> QED BY <1>2, <1>7, <2>1, <2>2, <2>4, <2>5, <2>6, <2>7 DEF PlaceInv
<1>12. FilesKept
  BY <1>4, <1>5 DEF FilesKept
<1>13. FileInv'
  <2>1. \A m \in Labels : /\ file'[m] # None =>
                                 file[m] # None /\ file'[m].client = file[m].client
                          /\ C!SignedIn(file'[m]) =>
                                 C!SignedIn(file[m]) /\ file'[m].subject = file[m].subject
    BY <1>1, <1>4, <1>5
  <2> QED BY <2>1 DEF ConnInv, FileInv
<1>14. BindInv'
  BY <1>2, <1>12, BindKept
<1>15. LiveInv'
  <2>1. \A m \in Labels : /\ C!SignedIn(file'[m]) => C!SignedIn(file[m])
                          /\ Alive(m) => Alive(m)'
    BY <1>1, <1>2, <1>4, <1>5 DEF Alive
  <2>2. \A m \in Labels : Moving(m) => Moving(m)'
    BY <1>7 DEF Moving
  <2> QED BY <1>2, <2>1, <2>2 DEF ConnInv, LiveInv
<1> QED BY <1>8, <1>9, <1>10, <1>11, <1>12, <1>13, <1>14, <1>15 DEF ConnInv

LEMMA ConnectStutters ==
    ASSUME ConnInv, UNCHANGED C!vars
    PROVE  ConnInv'
<1>1. UNCHANGED <<file, lock, command, live, issued, binding, faults>>
  BY DEF C!vars
<1>2. ConnectTypes' /\ OneRuns'
  BY <1>1 DEF ConnInv, ConnectTypes, OneRuns
<1>3. \A c \in Commands : MemoryInv(c)' /\ PlaceInv(c)'
  BY <1>1 DEF ConnInv, MemoryInv, PlaceInv
<1>4. FileInv' /\ BindInv' /\ LiveInv'
  BY <1>1 DEF ConnInv, FileInv, BindInv, LiveInv, Alive, Moving
<1> QED BY <1>2, <1>3, <1>4 DEF ConnInv

LEMMA ConnectStepKeeps == ConnInv /\ [C!ConnectNext]_(C!vars) => ConnInv'
<1> SUFFICES ASSUME ConnInv, [C!ConnectNext]_(C!vars) PROVE ConnInv'
  OBVIOUS
<1>1. CASE UNCHANGED C!vars
  BY <1>1, ConnectStutters
<1>2. ASSUME NEW c \in Commands,
             \/ C!StartLogin(c) \/ C!StartLogout(c) \/ C!StartUse(c)
             \/ C!StartAsk(c) \/ C!ReadPrompt(c)
             \/ \E k \in Clients, a \in Accounts : C!Callback(c, k, a)
      PROVE  ConnInv'
  BY <1>2, StartLoginKeeps, StartLogoutKeeps, StartUseKeeps, StartAskKeeps,
     ClaimAndCatalogKeep, CallbackKeeps
<1>3. ASSUME NEW c \in Commands, C!Runs(c) \/ C!AnswerLost(c) \/ C!Dies(c)
      PROVE  ConnInv'
  <2>1. CASE C!Abandon(c) \/ C!Ask(c) \/ C!RequestFails(c)
             \/ C!AnswerLost(c) \/ C!Dies(c)
    BY <2>1, EndsKeep
  <2>2. CASE C!Exchange(c) \/ C!KeepLogin(c) \/ C!Revoke(c) \/ C!SaveLogout(c)
             \/ C!Refresh(c) \/ C!KeepRefresh(c) \/ C!Bind(c)
             \/ C!Claim(c) \/ C!Catalog(c)
    BY <2>2, ExchangeKeeps, KeepLoginKeeps, RevokeKeeps, SaveLogoutKeeps, RefreshKeeps,
       KeepRefreshKeeps, BindKeeps, ClaimAndCatalogKeep
  <2> QED BY <1>3, <2>1, <2>2 DEF C!Runs
<1>4. CASE C!TokenExpires
  BY <1>4, TokenExpiresKeeps
<1> QED BY <1>1, <1>2, <1>3, <1>4 DEF C!ConnectNext

\* A step that writes the file keeps every registration, and so does one
\* that does not.
LEMMA FilesStep ==
    ASSUME ConnInv, C!ConnectNext
    PROVE  FilesKept
<1>1. CASE \E c \in Commands : \E k \in Clients, a \in Accounts : C!Callback(c, k, a)
  BY <1>1, CallbackKeeps
<1>2. CASE \E c \in Commands :
               C!KeepLogin(c) \/ C!SaveLogout(c) \/ C!KeepRefresh(c)
  BY <1>2, KeepLoginKeeps, SaveLogoutKeeps, KeepRefreshKeeps
<1>3. CASE C!TokenExpires
  BY <1>3, TokenExpiresKeeps
<1>4. CASE UNCHANGED file
  BY <1>4, FileSame
<1>5. ASSUME NEW c \in Commands,
             \/ C!StartLogin(c) \/ C!StartLogout(c) \/ C!StartUse(c)
             \/ C!StartAsk(c) \/ C!ReadPrompt(c)
             \/ C!AnswerLost(c) \/ C!Dies(c) \/ C!Abandon(c) \/ C!Exchange(c)
             \/ C!Revoke(c) \/ C!Refresh(c) \/ C!Catalog(c) \/ C!Ask(c)
             \/ C!Bind(c) \/ C!Claim(c) \/ C!RequestFails(c)
      PROVE  UNCHANGED file
  BY <1>5 DEF C!StartLogin, C!StartLogout, C!StartUse, C!StartAsk, C!ReadPrompt,
              C!AnswerLost, C!Dies, C!Abandon, C!Exchange, C!Revoke, C!Refresh,
              C!Catalog, C!Ask, C!Bind, C!Claim, C!RequestFails
<1> QED BY <1>1, <1>2, <1>3, <1>4, <1>5 DEF C!ConnectNext, C!Runs

-----------------------------------------------------------------------------
(* Connections and sessions: theorems. *)

LEMMA ConnInvGives == ConnInv => C!ConnectTypeOK /\ C!SessionsAreKept
<1> SUFFICES ASSUME ConnInv PROVE C!ConnectTypeOK /\ C!SessionsAreKept
  OBVIOUS
<1>1. C!ConnectTypeOK
  BY DEF ConnInv, ConnectTypes, OneRuns, Book, CommandRows, C!ConnectTypeOK
<1>2. ASSUME faults = 0, lock = None
      PROVE  \A l \in Labels : C!Renewable(file[l]) =>
                 file[l].credentials.refresh \in live[file[l].client]
  <2>1. \A l \in Labels : ~Moving(l)
    BY <1>2, NoneAssumption DEF ConnInv, OneRuns, Moving
  <2> QED BY <1>2, <2>1 DEF ConnInv, LiveInv, Alive, C!Renewable
<1>3. \A c \in Commands : command[c].pc \in {"claimed", "calling"} =>
           file[command[c].label] = C!Local(c)
  BY DEF ConnInv, MemoryInv, Leaving, C!Local
<1> QED BY <1>1, <1>2, <1>3 DEF C!SessionsAreKept

\* A connection of the program alone: types, that no session is lost by the
\* program itself, and that labels keep their registration and their account
\* (PendingLogin::callback, login, Store::save, refresh).
LEMMA ConnectionsAreKept ==
    C!ConnectInit /\ [][C!ConnectNext]_(C!vars) =>
        [](C!ConnectTypeOK /\ C!SessionsAreKept) /\ C!IdentitiesAreFixed
<1> DEFINE Distinct == \A l, m \in Labels : file[l] # None /\ file[m] # None /\ l # m
                           => file[l].client # file[m].client
           Bound == binding # None => \E l \in Labels :
                        /\ file[l] # None
                        /\ file[l].client = binding.client
                        /\ file[l].subject = binding.subject
           Fixed == \A l \in Labels : file[l] # None =>
                        /\ file'[l] # None
                        /\ file'[l].client = file[l].client
                        /\ file[l].subject # None => file'[l].subject = file[l].subject
<1>1. ConnInv => Distinct /\ Bound
  BY DEF ConnInv, FileInv, BindInv
<1>2. ConnInv /\ [C!ConnectNext]_(C!vars) => [Fixed]_(C!vars)
  BY FilesStep DEF FilesKept
<1> QED
  BY <1>1, <1>2, ConnectInitHolds, ConnectStepKeeps, ConnInvGives, PTL
     DEF C!IdentitiesAreFixed

\* A behaviour of the run is one of each of its parts.
LEMMA Alone ==
    /\ MCInit => C!ConnectInit /\ S!SessionsInit
    /\ [PlanStep \/ ConnectStep \/ SessionStep]_allVars => [C!ConnectNext]_(C!vars)
    /\ [PlanStep \/ ConnectStep \/ SessionStep]_allVars =>
           [S!SessionsNext]_(S!sessionVars)
<1>1. MCInit => C!ConnectInit /\ S!SessionsInit
  BY DEF MCInit
<1>2. [PlanStep \/ ConnectStep \/ SessionStep]_allVars => [C!ConnectNext]_(C!vars)
  BY DEF PlanStep, ConnectStep, SessionStep, allVars, connectVars, C!vars
<1>3. [PlanStep \/ ConnectStep \/ SessionStep]_allVars =>
          [S!SessionsNext]_(S!sessionVars)
  BY DEF PlanStep, ConnectStep, SessionStep, allVars, loginVars, S!sessionVars
<1> QED BY <1>1, <1>2, <1>3

\* Logins, resets and issues of credentials that share a pool of any size and
\* the row of the user never wait for one another for ever: one of them can
\* always go on, and all of them go forward only (create_session,
\* set_password, create_mcp).
THEOREM RequestsGoOn == MCSpec => []S!NobodyIsStuck /\ S!RequestsGoForward
<1>1. SessionInv /\ PoolInv /\ [S!SessionsNext]_(S!sessionVars) => PoolInv'
  BY PoolStep
<1>2. SessionInv /\ PoolInv /\ [S!SessionsNext]_(S!sessionVars) =>
          [Forward /\ (S!GoesOn => Advances)]_(S!sessionVars)
  BY PoolStep
<1>3. MCSpec => S!SessionsInit /\ [][S!SessionsNext]_(S!sessionVars)
  BY Alone, PTL DEF MCSpec
<1>4. S!SessionsInit /\ [][S!SessionsNext]_(S!sessionVars) =>
          [](SessionInv /\ PoolInv)
  BY <1>1, SessionInitHolds, SessionStepKeeps, PoolInit, PTL
<1>5. S!SessionsInit /\ [][S!SessionsNext]_(S!sessionVars) =>
          [][Forward /\ (S!GoesOn => Advances)]_(S!sessionVars)
  BY <1>2, <1>4, PTL
<1>6. [][Forward /\ (S!GoesOn => Advances)]_(S!sessionVars) => S!RequestsGoForward
  <2>1. [Forward /\ (S!GoesOn => Advances)]_(S!sessionVars) =>
        [ /\ \A l \in Logins : S!Stage[login'[l].pc] >= S!Stage[login[l].pc]
          /\ \A x \in Resets : S!Stage[reset'[x]] >= S!Stage[reset[x]]
          /\ \A i \in Issues : S!Stage[issue'[i].pc] >= S!Stage[issue[i].pc]
          /\ S!GoesOn =>
                \/ \E l \in Logins : S!Stage[login'[l].pc] > S!Stage[login[l].pc]
                \/ \E x \in Resets : S!Stage[reset'[x]] > S!Stage[reset[x]]
                \/ \E i \in Issues : S!Stage[issue'[i].pc] > S!Stage[issue[i].pc]
        ]_(S!sessionVars)
    BY Zenon DEF Forward, Advances
  <2> QED BY <2>1, PTL DEF S!RequestsGoForward
<1> QED BY <1>3, <1>4, <1>5, <1>6, PoolInvGives, PTL

\* A label keeps its registration and its account, no session is lost by the
\* program itself, no session or credential of the web interface outlives a
\* reset of the password, and requests do not wait for one another for ever
\* (Store::save, refresh, create_session, create_mcp).
THEOREM SessionsAreSoundHolds == MCSpec => SessionsAreSound
<1>1. SessionInv => S!SessionsTypeOK /\ S!NothingOutlivesReset
  BY DEF SessionInv
<1>2. MCSpec => C!ConnectInit /\ [][C!ConnectNext]_(C!vars)
  BY Alone, PTL DEF MCSpec
<1>3. MCSpec => [](S!SessionsTypeOK /\ S!NothingOutlivesReset)
  BY <1>1, Alone, SessionInitHolds, SessionStepKeeps, PTL DEF MCSpec
<1> QED
  BY <1>2, <1>3, RequestsGoOn, ConnectionsAreKept, PTL DEF SessionsAreSound
=============================================================================

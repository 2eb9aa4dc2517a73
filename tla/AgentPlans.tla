----------------------------- MODULE AgentPlans -----------------------------
(***************************************************************************)
(* Retrieval plans that a user composes, reviews and approves once, their  *)
(* steps, and the audit of tool calls that steps share with the tools a    *)
(* client calls directly (storage-postgres/agent_plans.rs, tool_calls.rs,  *)
(* agent-core/knowledge_plan.rs, tool_execution.rs).                       *)
(*                                                                         *)
(* Nothing scans these tables.  Only the first approval starts a task, and *)
(* what time does to a plan or to a call is computed when it is read.      *)
(***************************************************************************)
EXTENDS Integers, FiniteSets

CONSTANTS
    Plans,          \* plans of one conversation
    Searches,       \* Searches[k]: the number of its steps
    DailyCalls,     \* DAILY_TOOL_CALL_LIMIT
    MaxDay, MaxRevision     \* bounds of a behaviour

Ordinals(k) == 1 .. Searches[k]
Steps == UNION {{<<k, i>> : i \in Ordinals(k)} : k \in Plans}
StepsOf(k) == {s \in Steps : s[1] = k}
Days == 0 .. MaxDay

ASSUME PlanAssumption ==
    /\ Searches \in [Plans -> 1 .. 3]
    /\ {DailyCalls, MaxDay} \subseteq Nat /\ MaxRevision \in Nat \ {0}

VARIABLES
    day, revision,  \* the UTC day, message_revision of the conversation
    deleted,        \* the conversation is
    plan,           \* agent_plans
    step,           \* agent_plan_steps.status; the output is there with succeeded
    call,           \* tool_calls, whose ids are those of the steps
    used,           \* tool_daily_budgets
    task,           \* KnowledgePlanExecutor::run of a plan
    direct,         \* calls of the tool interface with the id of a step
    runs            \* observation: how often the tool ran under an id

timeVars == <<day, revision, deleted>>
rowVars == <<plan, step, call, used>>
vars == <<timeVars, rowVars, task, direct, runs>>

Statuses == {"absent", "draft", "running", "succeeded", "failed", "cancelled",
             "stale", "unknown"}
StepStates == {"none", "pending", "dispatching", "succeeded", "failed", "cancelled"}

NoPlan == [status |-> "absent", revision |-> 0, approved |-> FALSE, late |-> FALSE]
NoCall == [status |-> "none", args |-> "none", late |-> FALSE, day |-> 0]
NoTask == [pc |-> "none", at |-> 0, ok |-> FALSE]

TypeOK ==
    /\ day \in Days /\ revision \in 1 .. MaxRevision /\ deleted \in BOOLEAN
    /\ plan \in [Plans -> [status: Statuses, revision: 0 .. MaxRevision,
                           approved: BOOLEAN, late: BOOLEAN]]
    /\ step \in [Steps -> StepStates]
    /\ call \in [Steps -> [status: {"none", "running", "succeeded", "failed"},
                           args: {"none", "step", "other"}, late: BOOLEAN, day: Days]]
    /\ used \in [Days -> 0 .. DailyCalls]
    /\ task \in [Plans -> [pc: {"none", "claim", "execute", "audit", "finish"},
                           at: 0 .. 3, ok: BOOLEAN]]
    /\ direct \in [Steps -> {"none", "execute", "succeeded", "failed"}]
    /\ runs \in [Steps -> Nat]

Init ==
    /\ day = 0 /\ revision = 1 /\ deleted = FALSE
    /\ plan = [k \in Plans |-> NoPlan]
    /\ step = [s \in Steps |-> "none"]
    /\ call = [s \in Steps |-> NoCall]
    /\ used = [d \in Days |-> 0]
    /\ task = [k \in Plans |-> NoTask]
    /\ direct = [s \in Steps |-> "none"]
    /\ runs = [s \in Steps |-> 0]

-----------------------------------------------------------------------------
(* What a reader is shown.                                                 *)

\* The status column of FIELDS: a draft past its quarter of an hour is
\* expired; a running plan past its deadline, or with a call past its own,
\* is unknown.
Reported(k) ==
    LET overdue == \E s \in StepsOf(k) : step[s] = "dispatching" /\ call[s].late
    IN  CASE plan[k].status = "draft" /\ plan[k].late -> "expired"
          [] plan[k].status = "running" /\ (plan[k].late \/ overdue) -> "unknown"
          [] OTHER -> plan[k].status

Exists(k) == ~deleted /\ plan[k].status # "absent"

\* stop: steps that were not claimed are cancelled with the plan.
StepsStopped(k, steps) ==
    [s \in Steps |-> IF s[1] = k /\ steps[s] = "pending" THEN "cancelled" ELSE steps[s]]

Stop(k, status) ==
    /\ plan' = [plan EXCEPT ![k].status = status]
    /\ step' = StepsStopped(k, step)

-----------------------------------------------------------------------------
(* Time and the conversation.                                              *)

NewDay ==
    /\ day < MaxDay
    /\ day' = day + 1
    /\ UNCHANGED <<revision, deleted, rowVars, task, direct, runs>>

\* expires_at of a draft, run_deadline of a running plan.
PlanLapses(k) ==
    /\ plan[k].status \in {"draft", "running"} /\ ~plan[k].late
    /\ plan' = [plan EXCEPT ![k].late = TRUE]
    /\ UNCHANGED <<timeVars, step, call, used, task, direct, runs>>

\* deadline of a call, which is compared whether or not its audit has ended.
CallLapses(s) ==
    /\ call[s].status # "none" /\ ~call[s].late
    /\ call' = [call EXCEPT ![s].late = TRUE]
    /\ UNCHANGED <<timeVars, plan, step, used, task, direct, runs>>

AppendMessage ==
    /\ ~deleted /\ revision < MaxRevision
    /\ revision' = revision + 1
    /\ UNCHANGED <<day, deleted, rowVars, task, direct, runs>>

\* Plans and steps go with the conversation, the audit of tools stays.
DeleteConversation ==
    /\ ~deleted
    /\ deleted' = TRUE
    /\ plan' = [k \in Plans |-> NoPlan]
    /\ step' = [s \in Steps |-> "none"]
    /\ UNCHANGED <<day, revision, call, used, task, direct, runs>>

-----------------------------------------------------------------------------
(* The user.                                                               *)

\* create_agent_plan for the current revision; a repeated call changes nothing.
Create(k) ==
    /\ ~deleted /\ plan[k].status = "absent"
    /\ plan' = [plan EXCEPT ![k] = [status |-> "draft", revision |-> revision,
                                    approved |-> FALSE, late |-> FALSE]]
    /\ step' = [s \in Steps |-> IF s[1] = k THEN "pending" ELSE step[s]]
    /\ UNCHANGED <<timeVars, call, used, task, direct, runs>>

\* approve_agent_plan, for the digest and the number of calls of the preview.
Approve(k) ==
    /\ Exists(k) /\ ~plan[k].approved /\ Reported(k) = "draft"
    /\ \/ /\ plan[k].revision # revision
          /\ Stop(k, "stale")
          /\ UNCHANGED task
       \/ /\ plan[k].revision = revision
          /\ plan' = [plan EXCEPT ![k].status = "running", ![k].approved = TRUE,
                                  ![k].late = FALSE]
          /\ task' = [task EXCEPT ![k].pc = "claim"]
          /\ UNCHANGED step
    /\ UNCHANGED <<timeVars, call, used, direct, runs>>

\* cancel_agent_plan wipes every step, also one that is out.
Cancel(k) ==
    /\ Exists(k)
    /\ Reported(k) \in {"draft", "running", "unknown", "expired"}
    /\ plan' = [plan EXCEPT ![k].status = "cancelled"]
    /\ step' = [s \in Steps |-> IF s[1] = k THEN "cancelled" ELSE step[s]]
    /\ UNCHANGED <<timeVars, call, used, task, direct, runs>>

-----------------------------------------------------------------------------
(* Tool calls.                                                             *)

\* Mutation: an id that was used is registered as if it were new.
StartLockedAgain(s, args) ==
    /\ used[day] < DailyCalls
    /\ call' = [call EXCEPT ![s] = [status |-> "running", args |-> args,
                                    late |-> FALSE, day |-> day]]
    /\ used' = [used EXCEPT ![day] = @ + 1]

\* start_locked of an id that is new, within the calls of the day.
StartLocked(s, args) ==
    /\ call[s].status = "none"
    /\ used[day] < DailyCalls
    /\ call' = [call EXCEPT ![s] = [status |-> "running", args |-> args,
                                    late |-> FALSE, day |-> day]]
    /\ used' = [used EXCEPT ![day] = @ + 1]

\* finish_tool_call: a late result still completes the audit, once.
FinishCall(s, ok) ==
    LET outcome == IF ok THEN "succeeded" ELSE "failed" IN
    /\ call[s].status \in {"running", outcome}
    /\ call' = [call EXCEPT ![s].status = outcome]

\* POST /api/tools: AuditedToolExecutor::execute with the id of a step, which
\* its owner has read in the preview; the arguments may be the same or not.
DirectCall(s) ==
    /\ step[s] # "none" /\ direct[s] = "none"
    /\ \E args \in {"step", "other"} : StartLocked(s, args)
    /\ direct' = [direct EXCEPT ![s] = "execute"]
    /\ UNCHANGED <<timeVars, plan, step, task, runs>>

DirectRun(s) ==
    /\ direct[s] = "execute"
    /\ runs' = [runs EXCEPT ![s] = @ + 1]
    /\ \E out \in {"succeeded", "failed"} : direct' = [direct EXCEPT ![s] = out]
    /\ UNCHANGED <<timeVars, rowVars, task>>

DirectFinish(s) ==
    /\ direct[s] \in {"succeeded", "failed"}
    /\ FinishCall(s, direct[s] = "succeeded")
    /\ direct' = [direct EXCEPT ![s] = "none"]
    /\ UNCHANGED <<timeVars, plan, step, used, task, runs>>

-----------------------------------------------------------------------------
(* KnowledgePlanExecutor::run.                                             *)

At(k, pc) == task[k].pc = pc
Now(k) == <<k, task[k].at>>
EndTask(k) == task' = [task EXCEPT ![k] = NoTask]

NextStep(k) ==
    CHOOSE s \in StepsOf(k) :
        /\ step[s] = "pending"
        /\ \A r \in StepsOf(k) : step[r] = "pending" => s[2] <= r[2]

\* claim_agent_step.
Claim(k) ==
    LET s == NextStep(k)
        runnable == /\ Reported(k) = "running"
                    /\ \A r \in StepsOf(k) : step[r] # "dispatching"
        pending == \E r \in StepsOf(k) : step[r] = "pending"
        current == runnable /\ plan[k].revision = revision
        ready == current /\ pending
    IN
    /\ At(k, "claim") /\ Exists(k)
    /\ \/ /\ ~runnable \/ (current /\ ~pending)
          /\ EndTask(k) /\ UNCHANGED rowVars
       \/ /\ runnable /\ plan[k].revision # revision
          /\ Stop(k, "stale") /\ EndTask(k) /\ UNCHANGED <<call, used>>
       \/ /\ ready /\ call[s].status # "none" /\ call[s].args = "step"
          /\ Stop(k, "unknown") /\ EndTask(k) /\ UNCHANGED <<call, used>>
       \/ /\ ready /\ call[s].status = "none" /\ used[day] >= DailyCalls
          /\ Stop(k, "failed") /\ EndTask(k) /\ UNCHANGED <<call, used>>
       \/ /\ ready /\ StartLocked(s, "step")
          /\ step' = [step EXCEPT ![s] = "dispatching"]
          /\ task' = [task EXCEPT ![k].pc = "execute", ![k].at = s[2]]
          /\ UNCHANGED plan
    /\ UNCHANGED <<timeVars, direct, runs>>

\* ToolExecutor::execute: two calls at a time in a process, half a minute.
Execute(k) ==
    /\ At(k, "execute")
    /\ \/ runs' = [runs EXCEPT ![Now(k)] = @ + 1] /\ task' \in
              {[task EXCEPT ![k].pc = "audit", ![k].ok = ok] : ok \in BOOLEAN}
       \/ UNCHANGED runs /\ task' = [task EXCEPT ![k].pc = "audit", ![k].ok = FALSE]
    /\ UNCHANGED <<timeVars, rowVars, direct>>

Audit(k) ==
    /\ At(k, "audit")
    /\ FinishCall(Now(k), task[k].ok)
    /\ task' = [task EXCEPT ![k].pc = "finish"]
    /\ UNCHANGED <<timeVars, plan, step, used, direct, runs>>

\* Mutation: the stored status is read, not what time made of it.
AcceptsResultLate(k) == plan[k].status = "running" /\ step[Now(k)] = "dispatching"

AcceptsResult(k) == Reported(k) = "running" /\ step[Now(k)] = "dispatching"

\* The step gets its result, and a failure or the last success ends the plan.
Result(k) ==
    LET s == Now(k)
        steps == [step EXCEPT ![s] = IF task[k].ok THEN "succeeded" ELSE "failed"]
        last == \A r \in StepsOf(k) : steps[r] \notin {"pending", "dispatching"}
    IN  /\ plan' = [plan EXCEPT ![k].status =
               CASE ~task[k].ok -> "failed"
                 [] task[k].ok /\ last -> "succeeded"
                 [] OTHER -> @]
        /\ step' = IF task[k].ok THEN steps ELSE StepsStopped(k, steps)

\* finish_agent_step reads the clock twice: a plan that is unknown by then
\* keeps its rows, and a deadline that passes between the status of the plan
\* and the audit of the call ends the plan as unknown, the step still out.
Finish(k) ==
    LET s == Now(k) IN
    /\ At(k, "finish") /\ Exists(k)
    /\ \/ ~AcceptsResult(k) /\ UNCHANGED <<plan, step, call>>
       \/ /\ AcceptsResult(k) /\ call[s].status # "running"
          /\ Result(k) /\ UNCHANGED call
       \/ /\ AcceptsResult(k)
          /\ call' = IF call[s].status = "running" THEN call
                     ELSE [call EXCEPT ![s].late = TRUE]
          /\ Stop(k, "unknown")
    /\ task' = [task EXCEPT ![k] =
               IF task[k].ok THEN [pc |-> "claim", at |-> 0, ok |-> FALSE] ELSE NoTask]
    /\ UNCHANGED <<timeVars, used, direct, runs>>

\* The process dies, a store call fails, or the output cannot be read: no
\* step is ever made again.
Lost(k) ==
    /\ task[k].pc # "none"
    /\ EndTask(k)
    /\ UNCHANGED <<timeVars, rowVars, direct, runs>>

Next ==
    \/ NewDay \/ AppendMessage \/ DeleteConversation
    \/ \E k \in Plans :
           \/ PlanLapses(k) \/ Create(k) \/ Approve(k) \/ Cancel(k)
           \/ Claim(k) \/ Execute(k) \/ Audit(k) \/ Finish(k) \/ Lost(k)
    \/ \E s \in Steps : CallLapses(s) \/ DirectCall(s) \/ DirectRun(s) \/ DirectFinish(s)

Spec == Init /\ [][Next]_vars

-----------------------------------------------------------------------------
(* Properties. *)

\* The tool runs at most once under the id of a step, through the plan or
\* through the tool interface, and every run was counted in the day it was
\* registered, also after the plan was cancelled or its conversation deleted
\* (start_locked, execute_registered).
RunsOnce ==
    /\ \A s \in Steps : runs[s] <= 1 /\ (runs[s] = 1 => call[s].status # "none")
    /\ \A d \in Days : used[d] = Cardinality(
           {s \in Steps : call[s].status # "none" /\ call[s].day = d})

\* Steps are made in order and one at a time: whatever was claimed stands
\* behind successes only, a plan that ended leaves nothing to claim, and one
\* of which a step failed has ended.
StepsInOrder ==
    \A k \in Plans : \A s \in StepsOf(k) :
        /\ step[s] \in {"dispatching", "succeeded", "failed"} =>
               \A r \in StepsOf(k) : r[2] < s[2] => step[r] = "succeeded"
        /\ step[s] = "pending" => plan[k].status \in {"draft", "running"}
        /\ step[s] = "failed" => plan[k].status = "failed"

\* What a reader was shown as the end of a plan stays its end, although it
\* may only have been computed from the clock: no result that arrives later,
\* no approval and no claim revives it.  The user may still cancel what
\* expired or is unknown, and the conversation may go.
Final == {"succeeded", "failed", "cancelled", "stale", "unknown", "expired"}

ReportedIsFinal ==
    [][\A k \in Plans :
          Reported(k) \in Final /\ ~deleted' =>
              \/ Reported(k)' = Reported(k)
              \/ Reported(k) \in {"unknown", "expired"} /\ Reported(k)' = "cancelled"]_vars

\* What a plan keeps was found by its own call: an output belongs to a step
\* whose tool ran with the arguments of the step and was audited as a
\* success, a plan that succeeded has all of them, and one that was
\* cancelled has none.
OutputIsAudited ==
    \A k \in Plans :
        /\ \A s \in StepsOf(k) : step[s] = "succeeded" =>
               /\ call[s].status = "succeeded" /\ call[s].args = "step"
               /\ runs[s] = 1 /\ plan[k].approved
        /\ plan[k].status = "succeeded" => \A s \in StepsOf(k) : step[s] = "succeeded"
        /\ plan[k].status = "cancelled" => \A s \in StepsOf(k) : step[s] = "cancelled"

\* A plan makes each of its steps at most once, one behind the success of
\* the other, whichever of the two interfaces uses their ids, and keeps what
\* its own call found.
StepsRunOnceInOrder == TypeOK /\ RunsOnce /\ StepsInOrder /\ OutputIsAudited
=============================================================================

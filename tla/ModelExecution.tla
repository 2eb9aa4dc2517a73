--------------------------- MODULE ModelExecution ---------------------------
(***************************************************************************)
(* The second phase of the model agent: the searches that a planning       *)
(* request proposed are run one at a time, each with one paid embedding    *)
(* call, and one paid chat call answers on the evidence they found         *)
(* (storage-postgres/model_execution.rs, agent-core/model_executor.rs).    *)
(*                                                                         *)
(* All steps are reserved with the approval, against three totals of the   *)
(* day: money, model calls and tool calls.  Whatever ends the request      *)
(* settles every step that is still open, in one transaction.  The module  *)
(* is about one conversation, whose planning requests have succeeded.      *)
(***************************************************************************)
EXTENDS Integers, FiniteSets, Sums

CONSTANTS
    Executions,     \* request ids: planning requests that succeeded
    Searches,       \* Searches[e]: how many searches were proposed
    Servers,        \* api-server processes, all with one configuration
    EmbedCost, AnswerCost,  \* quotes of one call, in money
    DailyAmount, DailyModelCalls, DailyToolCalls,
    MaxDay, MaxRevision, MaxFaults, \* bounds of a behaviour
    None

Ordinals(e) == 0 .. Searches[e]
Steps == UNION {{<<e, i>> : i \in Ordinals(e)} : e \in Executions}
Days == 0 .. MaxDay

ASSUME ExecutionAssumption ==
    /\ Searches \in [Executions -> 1 .. 3]
    /\ {EmbedCost, AnswerCost} \subseteq Nat \ {0}
    /\ {DailyAmount, DailyModelCalls, DailyToolCalls, MaxDay, MaxRevision,
        MaxFaults} \subseteq Nat
    /\ None \notin Nat \union Servers

VARIABLES
    day,            \* the current UTC day
    revision,       \* of the conversation
    deleted,        \* the conversation is
    lapsed,         \* the prices of the configuration are
    disabled,       \* the two configurations of the executor that were stopped
    exec,           \* model_execution_requests
    step,           \* model_execution_call_audit, and data.steps
    charge,         \* reply_money_reservations: what was kept, None while open
    toolCall,       \* tool_calls of the searches
    money, models, tools,   \* the totals of each day
    server,         \* process: down, up or halted
    call,           \* its approve-execution calls
    task,           \* run_execution of a request
    faults,
    sends, billed   \* observations of the provider, per step

confVars == <<revision, deleted, lapsed, disabled>>
bookVars == <<step, charge, toolCall, money, models, tools>>
rowVars == <<exec, bookVars>>
processVars == <<server, call, task>>
seenVars == <<sends, billed>>
vars == <<day, confVars, rowVars, processVars, faults, seenVars>>

Phases == {"planning", "execution"}
Active == {"queued", "running"}
Open == Active \union {"draft"}
Ended == {"succeeded", "insufficient_evidence", "failed", "unknown",
          "cancelled", "expired", "stale"}
OpenStep == {"reserved", "dispatching"}
StepStates == OpenStep \union {"none", "succeeded", "failed", "unknown", "cancelled"}

ExecRows == [status: {"absent"} \union Open \union Ended, revision: Nat,
             day: Days,             \* budget day, of the approval
             due: BOOLEAN,          \* the quote or a step's minute is over
             evidence: BOOLEAN]     \* some search found something

NoExec == [status |-> "absent", revision |-> 0, day |-> 0, due |-> FALSE,
           evidence |-> FALSE]

Places == {"none", "claim", "recheck", "revision", "verify", "send", "wait",
           "again", "retrieve", "disable", "finish"}
Outcomes == {"hits", "nothing", "answered", "insufficient", "failed", "unknown"}
NoTask == [pc |-> "none", server |-> None, at |-> 0, outcome |-> None, usage |-> None]

Price(s) == IF s[2] < Searches[s[1]] THEN EmbedCost ELSE AnswerCost
IsSearch(s) == s[2] < Searches[s[1]]
StepsOf(e) == {s \in Steps : s[1] = e}

TypeOK ==
    /\ day \in Days /\ revision \in Nat
    /\ {deleted, lapsed} \subseteq BOOLEAN /\ disabled \subseteq Phases
    /\ exec \in [Executions -> ExecRows]
    /\ step \in [Steps -> StepStates]
    /\ charge \in [Steps -> Nat \union {None}]
    /\ toolCall \in [Steps -> {"none", "running", "succeeded", "failed", "timed_out"}]
    /\ {money, models, tools} \subseteq [Days -> Nat]
    /\ server \in [Servers -> {"down", "up", "halted"}]
    /\ call \in [Servers -> [Executions -> {"none", "asked", "approve"}]]
    /\ task \in [Executions -> [pc: Places, server: Servers \union {None}, at: Nat,
                     outcome: Outcomes \union {None}, usage: Nat \union {None}]]
    /\ faults \in 0 .. MaxFaults
    /\ {sends, billed} \subseteq [Steps -> Nat]

Init ==
    /\ day = 0 /\ revision = 1 /\ deleted = FALSE /\ lapsed = FALSE /\ disabled = {}
    /\ exec = [e \in Executions |-> NoExec]
    /\ step = [s \in Steps |-> "none"]
    /\ charge = [s \in Steps |-> None]
    /\ toolCall = [s \in Steps |-> "none"]
    /\ money = [d \in Days |-> 0]
    /\ models = [d \in Days |-> 0]
    /\ tools = [d \in Days |-> 0]
    /\ server = [p \in Servers |-> "down"]
    /\ call = [p \in Servers |-> [e \in Executions |-> "none"]]
    /\ task = [e \in Executions |-> NoTask]
    /\ faults = 0
    /\ sends = [s \in Steps |-> 0]
    /\ billed = [s \in Steps |-> 0]

-----------------------------------------------------------------------------
(* Parts of a transaction.                                                 *)

Status(e) == exec[e].status
\* Mutation: a request that waits for its task does not expire.
DueUnlessQueued(e) == exec[e].due /\ Status(e) \in {"draft", "running"}

Due(e) == exec[e].due /\ Status(e) \in Open

ConfigActive == ~lapsed /\ "execution" \notin disabled

\* verify_receipt: the open reservation, and totals that cover it.
ReceiptValid(s) ==
    LET d == exec[s[1]].day IN
    /\ charge[s] = None
    /\ money[d] >= Price(s) /\ models[d] >= 1
    /\ IsSearch(s) => tools[d] >= 1

\* What is kept of a step that reaches state st: nothing if it was never
\* claimed, the usage of a success, the whole quote of anything else.
Kept(s, st, usage) ==
    IF step[s] = "reserved" THEN 0
    ELSE IF st = "succeeded" /\ usage # None THEN usage ELSE Price(s)

ToolState(st) ==
    IF st \in {"succeeded", "failed"} THEN st ELSE "timed_out"

\* settle, for every open step that the states in now close: the money that
\* is not kept goes back to the day of the approval, and the calls of what
\* was never claimed.
Book(e, now, usage) ==
    LET closed == {s \in StepsOf(e) : step[s] \in OpenStep /\ now[s] \notin OpenStep}
        unmade == {s \in closed : step[s] = "reserved"}
        d == exec[e].day
    IN  /\ \A s \in closed : ReceiptValid(s)
        /\ step' = [s \in Steps |-> IF s[1] = e THEN now[s] ELSE step[s]]
        /\ charge' = [s \in Steps |->
               IF s \in closed THEN Kept(s, now[s], usage) ELSE charge[s]]
        /\ money' = [money EXCEPT ![d] =
               @ - SumOf([s \in closed |-> Price(s) - Kept(s, now[s], usage)])]
        /\ models' = [models EXCEPT ![d] = @ - Cardinality(unmade)]
        /\ tools' = [tools EXCEPT ![d] = @ - Cardinality({s \in unmade : IsSearch(s)})]
        /\ toolCall' = [s \in Steps |->
               IF s \in closed /\ step[s] = "dispatching" /\ IsSearch(s)
               THEN ToolState(now[s]) ELSE toolCall[s]]

\* Mutation: a step that is not claimed yet stays reserved.
ClosedForgetsRest(e) ==
    [s \in StepsOf(e) |-> IF step[s] = "dispatching" THEN "unknown" ELSE step[s]]

\* terminate: the steps not made are cancelled, the one in flight is unknown.
Closed(e) ==
    [s \in StepsOf(e) |->
        CASE step[s] = "reserved" -> "cancelled"
          [] step[s] = "dispatching" -> "unknown"
          [] OTHER -> step[s]]

Row(e, status) ==
    exec' = [exec EXCEPT ![e].status = status, ![e].due = FALSE, ![e].evidence = FALSE]

Terminate(e, status) == Book(e, Closed(e), None) /\ Row(e, status)

\* expire, of a request that is overdue.
Expire(e) ==
    Terminate(e, IF \E s \in StepsOf(e) : step[s] = "dispatching"
                 THEN "unknown" ELSE "expired")

Nothing == UNCHANGED rowVars

-----------------------------------------------------------------------------
(* Time, the user, the operator.                                           *)

\* A behaviour has at most MaxFaults events of the kinds that disturb a task:
\* midnight, edits, stops by the operator, lapsed prices, crashes, lost writes.
Fault == faults < MaxFaults /\ faults' = faults + 1

NewDay ==
    /\ day < MaxDay /\ Fault
    /\ day' = day + 1
    /\ UNCHANGED <<confVars, rowVars, processVars, seenVars>>

\* The quote of the request, or the minute of a step in flight, is over.
Lapse(e) ==
    /\ Status(e) \in Open /\ ~exec[e].due
    /\ exec' = [exec EXCEPT ![e].due = TRUE]
    /\ UNCHANGED <<day, confVars, bookVars, processVars, faults, seenVars>>

\* No quote outlives the prices it was made with.
PricesLapse ==
    /\ ~lapsed /\ Fault
    /\ lapsed' = TRUE
    /\ exec' = [e \in Executions |->
           IF Status(e) \in Open THEN [exec[e] EXCEPT !.due = TRUE] ELSE exec[e]]
    /\ UNCHANGED <<day, revision, deleted, disabled, bookVars, processVars, seenVars>>

OperatorDisables ==
    \E p \in Phases :
        /\ p \notin disabled /\ Fault
        /\ disabled' = disabled \union {p}
        /\ UNCHANGED <<day, revision, deleted, lapsed, rowVars, processVars, seenVars>>

AppendMessage ==
    /\ ~deleted /\ revision < MaxRevision /\ Fault
    /\ revision' = revision + 1
    /\ UNCHANGED <<day, deleted, lapsed, disabled, rowVars, processVars, seenVars>>

\* delete_conversation: open requests are cancelled one after the other, all
\* rows go, the audit of their steps stays.
DeleteConversation ==
    LET ending == {e \in Executions : Status(e) \in Open}
        now == [s \in Steps |-> IF s[1] \in ending THEN Closed(s[1])[s] ELSE step[s]]
        closed == {s \in Steps : now[s] # step[s]}
        on(d) == {s \in closed : exec[s[1]].day = d}
        unmade(d) == {s \in on(d) : step[s] = "reserved"}
    IN  /\ ~deleted
        /\ \A s \in closed : ReceiptValid(s)
        /\ deleted' = TRUE
        /\ step' = now
        /\ charge' = [s \in Steps |->
               IF s \in closed THEN Kept(s, now[s], None) ELSE charge[s]]
        /\ money' = [d \in Days |->
               money[d] - SumOf([s \in on(d) |-> Price(s) - Kept(s, now[s], None)])]
        /\ models' = [d \in Days |-> models[d] - Cardinality(unmade(d))]
        /\ tools' = [d \in Days |->
               tools[d] - Cardinality({s \in unmade(d) : IsSearch(s)})]
        /\ toolCall' = [s \in Steps |->
               IF s \in closed /\ step[s] = "dispatching" /\ IsSearch(s)
               THEN "timed_out" ELSE toolCall[s]]
        /\ exec' = [e \in Executions |-> NoExec]
        /\ UNCHANGED <<day, revision, lapsed, disabled, processVars, faults, seenVars>>

-----------------------------------------------------------------------------
(* Store calls of the HTTP handlers.                                       *)

\* get, list and repeated calls: an overdue request ends.
Touch(e) ==
    /\ ~deleted /\ Due(e)
    /\ Expire(e)
    /\ UNCHANGED <<day, confVars, processVars, faults, seenVars>>

\* preview-execution, for the revision the plan was made for.
Create(p, e) ==
    /\ server[p] = "up" /\ ~deleted
    /\ Status(e) = "absent"
    /\ revision = 1
    /\ ConfigActive
    /\ exec' = [exec EXCEPT ![e].status = "draft", ![e].revision = revision]
    /\ UNCHANGED <<day, confVars, bookVars, processVars, faults, seenVars>>

Cancel(e) ==
    /\ ~deleted /\ Status(e) \in Open /\ ~Due(e)
    /\ Terminate(e, "cancelled")
    /\ UNCHANGED <<day, confVars, processVars, faults, seenVars>>

\* persist_disable writes the two stops one after the other, and each of the
\* writes may fail by itself.
WriteStop ==
    \/ disabled' = Phases /\ UNCHANGED faults
    \/ Fault /\ \E written \in {{}, {"planning"}, {"execution"}} :
           disabled' = disabled \union written

\* The handler looks at the stop flag first.
Call(p, e) ==
    /\ server[p] = "up" /\ call[p][e] = "none"
    /\ Status(e) # "absent"
    /\ call' = [call EXCEPT ![p][e] = "asked"]
    /\ UNCHANGED <<day, confVars, rowVars, server, task, faults, seenVars>>

\* ready and the two checks of start_execution.
Ready(p, e) ==
    /\ call[p][e] = "asked"
    /\ \/ /\ server[p] = "halted"
          /\ WriteStop
          /\ call' = [call EXCEPT ![p][e] = "none"]
       \/ /\ server[p] = "up"
          /\ ~deleted /\ Status(e) # "absent" /\ ConfigActive
          /\ call' = [call EXCEPT ![p][e] = "approve"]
          /\ UNCHANGED <<disabled, faults>>
    /\ UNCHANGED <<day, revision, deleted, lapsed, rowVars, server, task, seenVars>>

HangUp(p, e) ==
    /\ call[p][e] # "none"
    /\ call' = [call EXCEPT ![p][e] = "none"]
    /\ UNCHANGED <<day, confVars, rowVars, server, task, faults, seenVars>>

\* reserve: every step of the request at once, against the limits of today.
Reserve(e) ==
    LET n == Searches[e]
        amount == n * EmbedCost + AnswerCost
    IN  /\ Status(e) = "draft" /\ ~Due(e)
        /\ ConfigActive /\ exec[e].revision = revision
        /\ money[day] + amount <= DailyAmount
        /\ models[day] + n + 1 <= DailyModelCalls
        /\ tools[day] + n <= DailyToolCalls
        /\ money' = [money EXCEPT ![day] = @ + amount]
        /\ models' = [models EXCEPT ![day] = @ + n + 1]
        /\ tools' = [tools EXCEPT ![day] = @ + n]
        /\ step' = [s \in Steps |-> IF s[1] = e THEN "reserved" ELSE step[s]]
        /\ exec' = [exec EXCEPT ![e].status = "queued", ![e].day = day]
        /\ UNCHANGED <<charge, toolCall>>

\* approve_model_execution_request: only the call that reserves starts the
\* task, unless its process or its client goes first.
Approve(p, e) ==
    /\ call[p][e] = "approve"
    /\ ~deleted /\ Status(e) # "absent"
    /\ call' = [call EXCEPT ![p][e] = "none"]
    /\ \/ /\ Due(e) /\ Expire(e)
          /\ UNCHANGED task
       \/ /\ ~Due(e) /\ Status(e) # "draft" /\ Nothing
          /\ UNCHANGED task
       \/ /\ Reserve(e)
          /\ \/ task' = [task EXCEPT ![e].pc = "claim", ![e].server = p, ![e].at = 0]
             \/ UNCHANGED task
    /\ UNCHANGED <<day, confVars, server, faults, seenVars>>

-----------------------------------------------------------------------------
(* run_execution, one store call or wait at a time.                        *)

At(e, pc) == task[e].pc = pc
Now(e) == <<e, task[e].at>>
Goto(e, pc) == task' = [task EXCEPT ![e].pc = pc]
Stop(e) == task' = [task EXCEPT ![e] = NoTask]
Conclude(e, outcome, usage) ==
    task' = [task EXCEPT ![e].pc = "finish", ![e].outcome = outcome, ![e].usage = usage]

\* The next step of the frozen order, the answer only on evidence.
Claimable(e) ==
    /\ step[Now(e)] = "reserved"
    /\ \A s \in StepsOf(e) : s[2] < task[e].at => step[s] = "succeeded"
    /\ ~IsSearch(Now(e)) => exec[e].evidence

\* claim_model_execution_step: a search is also a tool call from here on.
Claim(e) ==
    /\ At(e, "claim") /\ ~deleted
    /\ \/ /\ Due(e) /\ Expire(e) /\ Stop(e)
       \/ /\ Status(e) \notin Active /\ Nothing /\ Stop(e)
       \/ /\ Status(e) \in Active /\ ~Due(e) /\ exec[e].revision # revision
          /\ Terminate(e, "stale") /\ Stop(e)
       \/ /\ Status(e) \in Active /\ ~Due(e) /\ exec[e].revision = revision
          /\ ConfigActive /\ Claimable(e) /\ ReceiptValid(Now(e))
          /\ toolCall[Now(e)] = "none"
          /\ step' = [step EXCEPT ![Now(e)] = "dispatching"]
          /\ toolCall' = [toolCall EXCEPT ![Now(e)] =
                 IF IsSearch(Now(e)) THEN "running" ELSE "none"]
          /\ exec' = [exec EXCEPT ![e].status = "running"]
          /\ Goto(e, "recheck")
          /\ UNCHANGED <<charge, money, models, tools>>
    /\ UNCHANGED <<day, confVars, server, call, faults, seenVars>>

\* The stop flag, then get_model_execution_request.
Recheck(e) ==
    /\ At(e, "recheck") /\ server[task[e].server] = "up" /\ ~deleted
    /\ IF Due(e) THEN Expire(e) ELSE Nothing
    /\ IF Status(e) = "running" /\ ~Due(e)
       THEN Goto(e, "revision") ELSE Conclude(e, "failed", None)
    /\ UNCHANGED <<day, confVars, server, call, faults, seenVars>>

CheckRevision(e) ==
    /\ At(e, "revision") /\ ~deleted
    /\ exec[e].revision = revision
    /\ Goto(e, "verify")
    /\ UNCHANGED <<day, confVars, rowVars, server, call, faults, seenVars>>

Verify(e) ==
    /\ At(e, "verify") /\ ConfigActive
    /\ Goto(e, "send")
    /\ UNCHANGED <<day, confVars, rowVars, server, call, faults, seenVars>>

\* One of the checks is negative or its store call fails: the step failed.
Refuse(e) ==
    /\ task[e].pc \in {"recheck", "revision", "verify", "again", "retrieve"}
    /\ Conclude(e, "failed", None)
    /\ UNCHANGED <<day, confVars, rowVars, server, call, faults, seenVars>>

Billable(s) == 1 .. Price(s) + 1

\* embed or chat: the adapter refuses after a contract violation and for
\* lapsed prices.
Send(e) ==
    /\ At(e, "send")
    /\ \/ /\ server[task[e].server] = "halted" \/ lapsed
          /\ Conclude(e, "failed", None)
          /\ UNCHANGED seenVars
       \/ /\ server[task[e].server] = "up" /\ ~lapsed
          /\ sends' = [sends EXCEPT ![Now(e)] = @ + 1]
          /\ \E n \in Billable(Now(e)) : billed' = [billed EXCEPT ![Now(e)] = n]
          /\ Goto(e, "wait")
    /\ UNCHANGED <<day, confVars, rowVars, server, call, faults>>

\* What the provider is trusted to have billed: reported whole, within the
\* bounds, or not at all.
Reported(s) == {None} \union ({billed[s]} \cap 0 .. Price(s))

\* Mutation: a request without an answer is sent once more.
AnsweredResends(e) ==
    /\ At(e, "wait")
    /\ \/ \E u \in Reported(Now(e)) : Conclude(e, "answered", u)
       \/ Goto(e, "send")
    /\ UNCHANGED <<day, confVars, rowVars, server, call, faults, seenVars>>

\* A vector goes on to the search; a text is the answer; anything else fails
\* the step, and no answer within the time leaves it unknown.
Answered(e) ==
    /\ At(e, "wait")
    /\ \/ \E u \in Reported(Now(e)) :
              IF IsSearch(Now(e))
              THEN task' = [task EXCEPT ![e].pc = "again", ![e].usage = u]
              ELSE \E o \in {"answered", "insufficient"} : Conclude(e, o, u)
       \/ Conclude(e, "failed", None)
       \/ Conclude(e, "unknown", None)
    /\ UNCHANGED <<day, confVars, rowVars, server, call, faults, seenVars>>

\* An answer outside of what was agreed stops the process at once.
ContractViolation(e) ==
    /\ At(e, "wait")
    /\ server' = [server EXCEPT ![task[e].server] = "halted"]
    /\ Goto(e, "disable")
    /\ UNCHANGED <<day, confVars, rowVars, call, faults, seenVars>>

PersistDisable(e) ==
    /\ At(e, "disable")
    /\ WriteStop
    /\ Conclude(e, "unknown", None)
    /\ UNCHANGED <<day, revision, deleted, lapsed, rowVars, server, call, seenVars>>

\* After the embedding the request is read again, before the vector store.
RecheckAfter(e) ==
    /\ At(e, "again") /\ ~deleted
    /\ IF Due(e) THEN Expire(e) ELSE Nothing
    /\ IF Status(e) = "running" /\ ~Due(e)
       THEN Goto(e, "retrieve") ELSE Conclude(e, "failed", None)
    /\ UNCHANGED <<day, confVars, server, call, faults, seenVars>>

Retrieve(e) ==
    /\ At(e, "retrieve")
    /\ \/ \E o \in {"hits", "nothing"} : Conclude(e, o, task[e].usage)
       \/ Conclude(e, "unknown", None)
    /\ UNCHANGED <<day, confVars, rowVars, server, call, faults, seenVars>>

\* Fulfil the step in flight with status st, and leave the rest to the task.
Succeed(e, hits) ==
    /\ Book(e, [s \in StepsOf(e) |-> IF s = Now(e) THEN "succeeded" ELSE step[s]],
            task[e].usage)
    /\ exec' = [exec EXCEPT ![e].evidence = @ \/ hits]
    /\ task' = [task EXCEPT ![e] = [NoTask EXCEPT !.pc = "claim",
                    !.server = task[e].server, !.at = task[e].at + 1]]

\* Fulfil it and end the request, cancelling what was not made.
Conclusion(e, st, status, usage) ==
    /\ Book(e, [Closed(e) EXCEPT ![Now(e)] = st], usage)
    /\ Row(e, status)
    /\ Stop(e)

\* finish_model_execution_step.  Evidence is accepted only if the documents
\* still say it, an answer only if it cites it, and both only for the
\* revision that was approved.
Finish(e) ==
    LET in  == step[Now(e)] = "dispatching" /\ ~Due(e)
        ok  == revision = exec[e].revision
        out == task[e].outcome
        last == task[e].at + 1 = Searches[e]
        found == exec[e].evidence \/ out = "hits"
    IN  /\ At(e, "finish") /\ ~deleted
        /\ \/ /\ Due(e) /\ Expire(e) /\ Stop(e)
           \/ /\ ~in /\ ~Due(e) /\ Nothing /\ Stop(e)
           \/ /\ in /\ ok /\ out \in {"hits", "nothing"} /\ (last => found)
              /\ Succeed(e, out = "hits")
           \/ /\ in /\ ok /\ out = "nothing" /\ last /\ ~found
              /\ Conclusion(e, "succeeded", "insufficient_evidence", task[e].usage)
           \/ /\ in /\ ok /\ out = "answered"
              /\ Conclusion(e, "succeeded", "succeeded", task[e].usage)
           \/ /\ in /\ ok /\ out = "insufficient"
              /\ Conclusion(e, "succeeded", "insufficient_evidence", task[e].usage)
           \/ /\ in /\ out # "unknown"      \* refused by the checks above
              /\ Conclusion(e, "failed", "failed", None)
           \/ /\ in /\ out = "unknown"
              /\ Conclusion(e, "unknown", "unknown", None)
        /\ UNCHANGED <<day, confVars, server, call, faults, seenVars>>

\* A claim or a finish that returns an error ends the task: nothing retries.
GiveUp(e) ==
    /\ task[e].pc \in {"claim", "finish"}
    /\ Stop(e)
    /\ UNCHANGED <<day, confVars, rowVars, server, call, faults, seenVars>>

Run(e) ==
    \/ Claim(e) \/ Recheck(e) \/ CheckRevision(e) \/ Verify(e) \/ Refuse(e)
    \/ Send(e) \/ Answered(e) \/ ContractViolation(e) \/ PersistDisable(e)
    \/ RecheckAfter(e) \/ Retrieve(e) \/ Finish(e) \/ GiveUp(e)

-----------------------------------------------------------------------------
(* Processes.                                                              *)

\* A planning request of the same process ends in a contract violation: the
\* executor is one, and stops both phases.
PlanningHalts(p) ==
    /\ server[p] = "up"
    /\ server' = [server EXCEPT ![p] = "halted"]
    /\ WriteStop
    /\ UNCHANGED <<day, revision, deleted, lapsed, rowVars, call, task, seenVars>>

\* from_env registers both configurations, and one that is stopped refuses.
Start(p) ==
    /\ server[p] = "down" /\ ~lapsed /\ disabled = {}
    /\ server' = [server EXCEPT ![p] = "up"]
    /\ UNCHANGED <<day, confVars, rowVars, call, task, faults, seenVars>>

Crash(p) ==
    /\ server[p] # "down" /\ Fault
    /\ server' = [server EXCEPT ![p] = "down"]
    /\ call' = [call EXCEPT ![p] = [e \in Executions |-> "none"]]
    /\ task' = [e \in Executions |-> IF task[e].server = p THEN NoTask ELSE task[e]]
    /\ UNCHANGED <<day, confVars, rowVars, seenVars>>

Next ==
    \/ NewDay \/ PricesLapse \/ OperatorDisables \/ AppendMessage \/ DeleteConversation
    \/ \E e \in Executions : Lapse(e) \/ Touch(e) \/ Cancel(e) \/ Run(e)
    \/ \E p \in Servers, e \in Executions :
           Create(p, e) \/ Call(p, e) \/ Ready(p, e) \/ HangUp(p, e) \/ Approve(p, e)
    \/ \E p \in Servers : PlanningHalts(p) \/ Start(p) \/ Crash(p)

Spec == Init /\ [][Next]_vars

\* Time passes, and an open page asks for its requests while one is active.
Fairness == \A e \in Executions : WF_vars(Lapse(e)) /\ WF_vars(Touch(e))
FairSpec == Spec /\ Fairness

-----------------------------------------------------------------------------
(* Properties. *)

Closing(s) == IF charge[s] = None THEN Price(s) ELSE charge[s]
Spent(d) == {s \in Steps : step[s] # "none" /\ exec[s[1]].day = d}

\* The three totals of a day are the sums over the steps approved that day:
\* money of what is open or kept, a model call for every step that was not
\* cancelled, a tool call for every such search (reserve, settle), whichever
\* steps of a request succeed, fail or are never made.
TotalsExact ==
    ~deleted =>
    \A d \in Days :
        LET counted == {s \in Spent(d) : step[s] # "cancelled"} IN
        /\ money[d] = SumOf([s \in Spent(d) |-> Closing(s)])
        /\ models[d] = Cardinality(counted)
        /\ tools[d] = Cardinality({s \in counted : IsSearch(s)})

\* The steps of a request are made in order: what succeeded is a prefix, at
\* most the next step is in flight, nothing is sent before everything ahead
\* of it succeeded, and the chat call only when a search found something.
\* No step of an ended request is open, and a search and its tool call agree.
StepsInOrder ==
    \A e \in Executions : \A s \in StepsOf(e) :
        /\ step[s] \in {"dispatching", "failed", "unknown"} \/ sends[s] > 0 =>
               \A r \in StepsOf(e) : r[2] < s[2] => step[r] = "succeeded"
        /\ step[s] \in OpenStep => Status(e) \in Active
        /\ Status(e) = "succeeded" => step[s] = "succeeded"
        /\ step[s] = "dispatching" /\ ~IsSearch(s) => exec[e].evidence
        /\ IsSearch(s) => (toolCall[s] = "running") = (step[s] = "dispatching")

\* No end of a request is refused: the totals of a day cover together all that
\* is still open on it.  terminate, finish and delete_conversation settle one
\* step after another and roll all of it back as an inconsistent record if a
\* receipt or a total does not cover a step, whatever was settled before it.
OpenOn(d) == {s \in Steps : step[s] \in OpenStep /\ exec[s[1]].day = d}

OpenIsCovered ==
    ~deleted =>
    \A d \in Days :
        /\ money[d] >= SumOf([s \in OpenOn(d) |-> Price(s)])
        /\ models[d] >= Cardinality(OpenOn(d))
        /\ tools[d] >= Cardinality({s \in OpenOn(d) : IsSearch(s)})
        /\ \A s \in OpenOn(d) : ReceiptValid(s)

\* An execution makes its steps in order, a day is charged for what was made
\* of them and for nothing else, and what is open can be settled.
StepsAndTotals == TypeOK /\ StepsInOrder /\ TotalsExact /\ OpenIsCovered

\* A process that saw a contract violation in either phase sends nothing
\* more, whichever of the two stops it could write.
HaltedSendsNothing ==
    [][\A s \in Steps : sends'[s] > sends[s] => server[task[s[1]].server] = "up"]_vars

\* Every approved request ends, although its task may have been lost between
\* two steps, and with it every one of its reservations.
ApprovedEnds == \A e \in Executions : Status(e) \in Active ~> Status(e) \notin Active

\* Every step is a one-shot call of module OneShotCall.
Phase(s) ==
    CASE step[s] = "none" -> "absent"
      [] step[s] = "reserved" -> "reserved"
      [] step[s] = "dispatching" -> "taken"
      [] step[s] = "cancelled" -> "withdrawn"
      [] OTHER -> "closed"

StepCall(s) == INSTANCE OneShotCall WITH
    Calls  <- {s},
    Bounds <- {EmbedCost, AnswerCost},
    Bills  <- UNION {Billable(r) : r \in Steps},
    phase  <- [r \in {s} |-> Phase(r)],
    bound  <- [r \in {s} |-> IF step[r] = "none" THEN 0 ELSE Price(r)],
    called <- [r \in {s} |-> sends[r] > 0],
    bill   <- [r \in {s} |-> billed[r]],
    charge <- [r \in {s} |-> IF charge[r] = None THEN 0 ELSE charge[r]]

\* Each step of an execution is one call of the contract: reserved with its
\* request, taken once, sent once, and closed for at least its bill, in
\* whatever order answers, cancellations, expiries and deletions arrive.
StepCallSpec ==
    /\ \A s \in Steps : StepCall(s)!Init
    /\ [][\A s \in Steps : [StepCall(s)!Next]_(StepCall(s)!vars)]_vars
=============================================================================

---------------------------- MODULE ModelPlanning ----------------------------
(***************************************************************************)
(* The first phase of the model agent: a planning request is quoted for    *)
(* one revision of a conversation, approved, claimed, sent once and        *)
(* settled (storage-postgres/model_planning.rs, agent-core/                *)
(* model_executor.rs, api-server/model_agents.rs).                         *)
(*                                                                         *)
(* Nothing scans these requests.  An approval starts one task in the       *)
(* process that committed it, and whatever is overdue in a conversation is *)
(* ended by the next store call on that conversation, in its transaction:  *)
(* the operators ending in After give the tables such a call leaves        *)
(* behind.  A store call that returns an error rolls back, its expiry      *)
(* included, and is no step.                                               *)
(***************************************************************************)
EXTENDS ReplyMoney

CONSTANTS
    Servers,        \* api-server processes
    Deployments,    \* planning configurations a process may be started with
    DailyCalls,     \* DailyCalls[b]: model calls of a user per day
    PreviewQuota,   \* requests of a conversation, or of a day: 100
    ReplyKeys,      \* bound on the replies that share the ledger
    MaxRevision,    \* messages of a conversation: 100
    MaxFaults       \* bound on crashes and failed stop writes

ASSUME PlanningAssumption ==
    /\ Deployments \subseteq [version: Revisions, budget: Budgets]
    /\ DailyCalls \in [Budgets -> Nat \ {0}]
    /\ {PreviewQuota, MaxRevision, MaxFaults} \subseteq Nat
    /\ ReplyKeys \subseteq Keys
    /\ None \notin Revisions \union Budgets \union Servers \union Settlements

VARIABLES
    day,            \* the current UTC day
    conversation,   \* conversations: [deleted, revision]
    config,         \* model_planning_configurations: [budget, lapsed, disabled]
    plan,           \* model_planning_requests
    modelCalls,     \* model_agent_daily
    server,         \* the process on each server: [version, halted]
    call,           \* its approve-planning calls, per request
    task,           \* the run_planning task of a request
    faults,
    sends,          \* observation: provider requests made
    billed          \* observation: what the provider bills for them

rowVars == <<conversation, config, plan, modelCalls, moneyVars>>
processVars == <<server, call, task>>
seenVars == <<sends, billed>>
vars == <<day, rowVars, processVars, faults, seenVars>>

Active == {"queued", "dispatching"}
Open == Active \union {"draft"}
Ended == {"succeeded", "failed", "unknown", "cancelled", "expired", "stale"}

NoPlan == [status |-> "absent", revision |-> 0, version |-> None,
           budget |-> None, created |-> 0, day |-> None, due |-> FALSE]

PlanRows ==
    [status: Open \union Ended, revision: Nat, version: Revisions,
     budget: Budgets,                   \* the frozen configuration
     created: Days,
     day: Days \union {None},           \* budget_day, of the approval
     due: BOOLEAN]                      \* its expiry or deadline is past

Configurations ==
    [budget: Budgets \union {None},     \* None: no such row
     lapsed: BOOLEAN, disabled: BOOLEAN]

Processes == [version: Revisions \union {None}, halted: BOOLEAN]
Down == [version |-> None, halted |-> FALSE]

\* none: no call; asked: passed the handler's check of the stop flag;
\* approve: about to approve in the store.
CallStages == {"none", "asked", "approve"}

Places == {"none", "claim", "recheck", "revision", "verify", "send", "wait",
           "disable", "finish"}
Outcomes == {"proposed", "failed", "unknown"}

Tasks == [pc: Places, server: Servers \union {None},
          outcome: Outcomes \union {None}, usage: Nat \union {None}]
NoTask == [pc |-> "none", server |-> None, outcome |-> None, usage |-> None]

TypeOK ==
    /\ MoneyTypeOK
    /\ day \in Days
    /\ conversation \in [Conversations -> [deleted: BOOLEAN, revision: Nat]]
    /\ config \in [Revisions -> Configurations]
    /\ plan \in [Keys -> PlanRows \union {NoPlan}]
    /\ modelCalls \in [Days -> Nat]
    /\ server \in [Servers -> Processes]
    /\ call \in [Servers -> [Keys -> CallStages]]
    /\ task \in [Keys -> Tasks]
    /\ faults \in 0 .. MaxFaults
    /\ sends \in [Keys -> Nat]
    /\ billed \in [Keys -> Nat]

Init ==
    /\ MoneyInit
    /\ day = 0
    /\ conversation = [c \in Conversations |-> [deleted |-> FALSE, revision |-> 0]]
    /\ config = [v \in Revisions |->
           [budget |-> None, lapsed |-> FALSE, disabled |-> FALSE]]
    /\ plan = [k \in Keys |-> NoPlan]
    /\ modelCalls = [d \in Days |-> 0]
    /\ server = [s \in Servers |-> Down]
    /\ call = [s \in Servers |-> [k \in Keys |-> "none"]]
    /\ task = [k \in Keys |-> NoTask]
    /\ faults = 0
    /\ sends = [k \in Keys |-> 0]
    /\ billed = [k \in Keys |-> 0]

-----------------------------------------------------------------------------
(* Parts of a transaction.  Ends is a function that gives the new status   *)
(* and the reported usage of every request the transaction ends.           *)

KeysOf(c) == {k \in Keys : k[1] = c}
Queued(k) == plan[k].status = "queued"
IsActive(k) == plan[k].status \in Active
IsOpen(k) == plan[k].status \in Open
Locked(k) == ~conversation[k[1]].deleted
Current(k) == conversation[k[1]].revision = plan[k].revision

ConfigActive(v) ==
    config[v].budget # None /\ ~config[v].lapsed /\ ~config[v].disabled

\* check_receipt: the open reservation and both totals agree with the row.
ReceiptValid(k) ==
    /\ Held(k, "model_planning")
    /\ receipt[k].day = plan[k].day
    /\ receipt[k].budget = plan[k].budget
    /\ receipt[k].revision = plan[k].version
    /\ modelCalls[plan[k].day] >= 1
    /\ occupied[plan[k].day][Currency[plan[k].budget]] >= Cost[plan[k].budget]

End(status, usage) == [status |-> status, usage |-> usage]

\* Mutation: an approved request that was not claimed never expires.
DueUnlessQueued(c) == {k \in KeysOf(c) : plan[k].due /\ IsOpen(k) /\ ~Queued(k)}

\* expire: what the next transaction on the conversation ends first.
Due(c) == {k \in KeysOf(c) : plan[k].due /\ IsOpen(k)}

Expiry(c) ==
    [k \in Due(c) |->
        End(IF plan[k].status = "dispatching" THEN "unknown" ELSE "expired", None)]

Also(ends, k, end) ==
    [j \in DOMAIN ends \union {k} |-> IF j = k THEN end ELSE ends[j]]

\* Mutation: a cancelled request costs nothing, sent or not.
SettledRefundsCancelled(k, end) ==
    LET before == Queued(k) \/ end.status = "cancelled" IN
    [receipt[k] EXCEPT
        !.charged = Charge(plan[k].budget, before, end.usage),
        !.settlement = Settlement(plan[k].budget, before, end.usage)]

\* settle_kind: only a request that was never claimed costs nothing.
Settled(k, end) ==
    [receipt[k] EXCEPT
        !.charged = Charge(plan[k].budget, Queued(k), end.usage),
        !.settlement = Settlement(plan[k].budget, Queued(k), end.usage)]

PlanAfter(ends) ==
    [k \in Keys |->
        IF k \in DOMAIN ends
        THEN [plan[k] EXCEPT !.status = ends[k].status, !.due = FALSE]
        ELSE plan[k]]

Paid(ends) == {k \in DOMAIN ends : IsActive(k)}

ReceiptAfter(ends) ==
    [k \in Keys |-> IF k \in Paid(ends) THEN Settled(k, ends[k]) ELSE receipt[k]]

\* What was reserved and is not charged goes back to the day of the approval.
Refunds(ends, d, m) ==
    [k \in Keys |->
        IF /\ k \in Paid(ends)
           /\ plan[k].day = d
           /\ Currency[plan[k].budget] = m
        THEN Cost[plan[k].budget]
             - Charge(plan[k].budget, Queued(k), ends[k].usage)
        ELSE 0]

OccupiedAfter(ends) ==
    [d \in Days |-> [m \in Currencies |->
        occupied[d][m] - SumOf(Refunds(ends, d, m))]]

\* A call is given back only by a request that was never claimed.
CallsAfter(ends) ==
    [d \in Days |->
        modelCalls[d] -
            Cardinality({k \in Paid(ends) : Queued(k) /\ plan[k].day = d})]

\* terminate, for each request that holds money.
Settle(ends) ==
    /\ \A k \in Paid(ends) : ReceiptValid(k)
    /\ receipt' = ReceiptAfter(ends)
    /\ occupied' = OccupiedAfter(ends)
    /\ modelCalls' = CallsAfter(ends)

Commit(ends) == Settle(ends) /\ plan' = PlanAfter(ends)

-----------------------------------------------------------------------------
(* The environment: time, users, operators, the other kinds of requests.   *)

NewDay ==
    /\ day < MaxDay
    /\ day' = day + 1
    /\ UNCHANGED <<rowVars, processVars, faults, seenVars>>

\* The five minutes of a quote or the sixty seconds of a claim are over.
Lapse(k) ==
    /\ IsOpen(k)
    /\ ~plan[k].due
    /\ plan' = [plan EXCEPT ![k].due = TRUE]
    /\ UNCHANGED <<day, conversation, config, modelCalls, moneyVars,
                   processVars, faults, seenVars>>

\* No quote outlives the prices it was made with.
PriceLapses(v) ==
    /\ config[v].budget # None
    /\ ~config[v].lapsed
    /\ config' = [config EXCEPT ![v].lapsed = TRUE]
    /\ plan' = [k \in Keys |->
           IF plan[k].version = v /\ plan[k].status \in {"draft", "queued"}
           THEN [plan[k] EXCEPT !.due = TRUE] ELSE plan[k]]
    /\ UNCHANGED <<day, conversation, modelCalls, moneyVars,
                   processVars, faults, seenVars>>

OperatorDisables(v) ==
    /\ config[v].budget # None
    /\ ~config[v].disabled
    /\ config' = [config EXCEPT ![v].disabled = TRUE]
    /\ UNCHANGED <<day, conversation, plan, modelCalls, moneyVars,
                   processVars, faults, seenVars>>

AppendMessage(c) ==
    /\ ~conversation[c].deleted
    /\ conversation[c].revision < MaxRevision
    /\ conversation' = [conversation EXCEPT ![c].revision = @ + 1]
    /\ UNCHANGED <<day, config, plan, modelCalls, moneyVars,
                   processVars, faults, seenVars>>

\* Mutation: the rows go, their reservations stay open.
DeleteForgetsMoney(c) ==
    /\ ~conversation[c].deleted
    /\ conversation' = [conversation EXCEPT ![c].deleted = TRUE]
    /\ plan' = [k \in Keys |-> IF k[1] = c THEN NoPlan ELSE plan[k]]
    /\ UNCHANGED <<day, config, modelCalls, moneyVars, processVars, faults, seenVars>>

\* Deleting a conversation ends its active requests and removes all rows.
DeleteConversation(c) ==
    LET ends == [k \in {j \in KeysOf(c) : IsActive(j)} |-> End("cancelled", None)]
    IN  /\ ~conversation[c].deleted
        /\ Settle(ends)
        /\ conversation' = [conversation EXCEPT ![c].deleted = TRUE]
        /\ plan' = [k \in Keys |-> IF k[1] = c THEN NoPlan ELSE plan[k]]
        /\ UNCHANGED <<day, config, processVars, faults, seenVars>>

\* A conversation reply may carry the request id of a planning request: it
\* takes the same place in the ledger, and ends in an order of its own.
ReplyReserves(k, v, b) ==
    /\ Locked(k)
    /\ ReserveMoney(k, "reply", day, v, b)
    /\ UNCHANGED <<day, conversation, config, plan, modelCalls,
                   processVars, faults, seenVars>>

ReplySettles(k) ==
    /\ \E before \in BOOLEAN : SettleKind(k, "reply", before, None)
    /\ UNCHANGED <<day, conversation, config, plan, modelCalls,
                   processVars, faults, seenVars>>

-----------------------------------------------------------------------------
(* Store calls of the HTTP handlers.                                       *)

\* get, list, and the replay of a creation, an approval or a cancellation:
\* what is overdue ends, nothing else.
Touch(c) ==
    /\ ~conversation[c].deleted
    /\ Due(c) # {}
    /\ Commit(Expiry(c))
    /\ UNCHANGED <<day, conversation, config, processVars, faults, seenVars>>

\* A preview of a conversation with a message, through a process that is not
\* halted; the request id is new to the user, in whatever conversation.
Create(s, k) ==
    LET v == server[s].version
        c == k[1]
        kept == {j \in Keys : /\ plan[j].status # "absent"
                              /\ j[1] = c \/ plan[j].created = day}
    IN  /\ v # None /\ ~server[s].halted
        /\ Locked(k) /\ conversation[c].revision > 0
        /\ \A j \in Keys : j[2] = k[2] => plan[j].status = "absent"
        /\ Cardinality(kept) < PreviewQuota
        /\ ConfigActive(v)
        /\ Settle(Expiry(c))
        /\ plan' = [PlanAfter(Expiry(c)) EXCEPT ![k] =
               [status |-> "draft", revision |-> conversation[c].revision,
                version |-> v, budget |-> config[v].budget, created |-> day,
                day |-> None, due |-> FALSE]]
        /\ UNCHANGED <<day, conversation, config, processVars, faults, seenVars>>

Cancel(k) ==
    /\ Locked(k)
    /\ IsOpen(k)
    /\ k \notin Due(k[1])
    /\ Commit(Also(Expiry(k[1]), k, End("cancelled", None)))
    /\ UNCHANGED <<day, conversation, config, processVars, faults, seenVars>>

\* The handler refuses when the process is halted, without a store call.
Call(s, k) ==
    /\ server[s].version # None /\ ~server[s].halted
    /\ call[s][k] = "none"
    /\ call' = [call EXCEPT ![s][k] = "asked"]
    /\ UNCHANGED <<day, rowVars, server, task, faults, seenVars>>

Fault == faults < MaxFaults /\ faults' = faults + 1

\* persist_disable: the stop is written, or the write fails.
WriteStop(v) ==
    \/ /\ config' = [config EXCEPT ![v].disabled = TRUE]
       /\ UNCHANGED faults
    \/ Fault /\ UNCHANGED config

\* ready and the two checks of start_planning.  A process that was halted
\* since the handler looked only tries to write the stop again.
Ready(s, k) ==
    /\ call[s][k] = "asked"
    /\ \/ /\ server[s].halted
          /\ WriteStop(server[s].version)
          /\ call' = [call EXCEPT ![s][k] = "none"]
       \/ /\ ~server[s].halted
          /\ Locked(k)
          /\ plan[k].status # "absent" /\ plan[k].version = server[s].version
          /\ ConfigActive(server[s].version)
          /\ call' = [call EXCEPT ![s][k] = "approve"]
          /\ UNCHANGED <<config, faults>>
    /\ UNCHANGED <<day, conversation, plan, modelCalls, moneyVars,
                   server, task, seenVars>>

\* A call ends with an error, or its client goes away.
HangUp(s, k) ==
    /\ call[s][k] # "none"
    /\ call' = [call EXCEPT ![s][k] = "none"]
    /\ UNCHANGED <<day, rowVars, server, task, faults, seenVars>>

\* The first approval of a draft, within the limits of the day of the user.
Reserve(k) ==
    LET ends == Expiry(k[1])  b == plan[k].budget  m == Currency[b] IN
    /\ plan[k].status = "draft" /\ k \notin Due(k[1])
    /\ ConfigActive(plan[k].version)
    /\ Current(k)
    /\ receipt[k] = None
    /\ \A j \in Paid(ends) : ReceiptValid(j)
    /\ OccupiedAfter(ends)[day][m] + Cost[b] <= DailyLimit[b]
    /\ CallsAfter(ends)[day] < DailyCalls[b]
    /\ plan' = [PlanAfter(ends) EXCEPT ![k].status = "queued", ![k].day = day]
    /\ receipt' = [ReceiptAfter(ends) EXCEPT ![k] =
           [kind |-> "model_planning", day |-> day, revision |-> plan[k].version,
            budget |-> b, charged |-> None, settlement |-> None]]
    /\ occupied' = [OccupiedAfter(ends) EXCEPT ![day][m] = @ + Cost[b]]
    /\ modelCalls' = [CallsAfter(ends) EXCEPT ![day] = @ + 1]

\* approve_model_planning_request.  Any later approval starts nothing, and
\* the client may be gone when the first one is committed: then nobody
\* starts its task.
Approve(s, k) ==
    /\ call[s][k] = "approve"
    /\ Locked(k)
    /\ plan[k].status # "absent"
    /\ call' = [call EXCEPT ![s][k] = "none"]
    /\ \/ /\ plan[k].status # "draft" \/ k \in Due(k[1])
          /\ Commit(Expiry(k[1]))
          /\ UNCHANGED task
       \/ /\ Reserve(k)
          /\ \/ task' = [task EXCEPT ![k].pc = "claim", ![k].server = s]
             \/ UNCHANGED task
    /\ UNCHANGED <<day, conversation, config, server, faults, seenVars>>

-----------------------------------------------------------------------------
(* run_planning, one store call or wait at a time.                         *)

At(k, pc) == task[k].pc = pc
Goto(k, pc) == task' = [task EXCEPT ![k].pc = pc]
Conclude(k, outcome, usage) ==
    task' = [task EXCEPT ![k].pc = "finish", ![k].outcome = outcome,
                         ![k].usage = usage]
Stop(k) == task' = [task EXCEPT ![k] = NoTask]

\* claim_model_planning_request: too late, for a revision that moved on, or
\* taken with a deadline of its own.
Claim(k) ==
    LET ends == Expiry(k[1]) IN
    /\ At(k, "claim")
    /\ Locked(k)
    /\ \/ /\ ~Queued(k) \/ k \in Due(k[1])
          /\ Commit(ends)
          /\ Stop(k)
       \/ /\ Queued(k) /\ k \notin Due(k[1]) /\ ~Current(k)
          /\ Commit(Also(ends, k, End("stale", None)))
          /\ Stop(k)
       \/ /\ Queued(k) /\ k \notin Due(k[1]) /\ Current(k)
          /\ ConfigActive(plan[k].version)
          /\ ReceiptValid(k)
          /\ Settle(ends)
          /\ plan' = [PlanAfter(ends) EXCEPT ![k].status = "dispatching"]
          /\ Goto(k, "recheck")
    /\ UNCHANGED <<day, conversation, config, server, call, faults, seenVars>>

\* The stop flag, then get_model_planning_request.
Recheck(k) ==
    /\ At(k, "recheck")
    /\ ~server[task[k].server].halted
    /\ Locked(k)
    /\ Commit(Expiry(k[1]))
    /\ IF plan[k].status = "dispatching" /\ k \notin Due(k[1])
       THEN Goto(k, "revision") ELSE Conclude(k, "unknown", None)
    /\ UNCHANGED <<day, conversation, config, server, call, faults, seenVars>>

CheckRevision(k) ==
    /\ At(k, "revision")
    /\ Locked(k)
    /\ Current(k)
    /\ Goto(k, "verify")
    /\ UNCHANGED <<day, rowVars, server, call, faults, seenVars>>

Verify(k) ==
    /\ At(k, "verify")
    /\ ConfigActive(server[task[k].server].version)
    /\ Goto(k, "send")
    /\ UNCHANGED <<day, rowVars, server, call, faults, seenVars>>

\* One of the checks is negative, or its store call fails.
Refuse(k) ==
    /\ task[k].pc \in {"recheck", "revision", "verify"}
    /\ Conclude(k, "unknown", None)
    /\ UNCHANGED <<day, rowVars, server, call, faults, seenVars>>

\* What a provider may bill for the request that reserved b.
Billable(b) == 0 .. Cost[b] + 1

\* The adapter refuses after a contract violation and for lapsed prices.
Send(k) ==
    LET s == task[k].server IN
    /\ At(k, "send")
    /\ \/ /\ server[s].halted \/ config[server[s].version].lapsed
          /\ Conclude(k, "failed", None)
          /\ UNCHANGED seenVars
       \/ /\ ~server[s].halted /\ ~config[server[s].version].lapsed
          /\ sends' = [sends EXCEPT ![k] = @ + 1]
          /\ \E n \in Billable(receipt[k].budget) : billed' = [billed EXCEPT ![k] = n]
          /\ Goto(k, "wait")
    /\ UNCHANGED <<day, rowVars, server, call, faults>>

\* A proposal, an unusable answer, or none within the time.  A usage is
\* reported whole or not at all.
Answered(k) ==
    /\ At(k, "wait")
    /\ \/ /\ billed[k] <= Cost[receipt[k].budget]
          /\ \E usage \in {None, billed[k]} : Conclude(k, "proposed", usage)
       \/ Conclude(k, "proposed", None)
       \/ Conclude(k, "failed", None)
       \/ Conclude(k, "unknown", None)
    /\ UNCHANGED <<day, rowVars, server, call, faults, seenVars>>

\* An answer outside of what was agreed: another model, more tokens than
\* the bounds.  The process stops at once.
ContractViolation(k) ==
    /\ At(k, "wait")
    /\ server' = [server EXCEPT ![task[k].server].halted = TRUE]
    /\ Goto(k, "disable")
    /\ UNCHANGED <<day, rowVars, call, faults, seenVars>>

PersistDisable(k) ==
    /\ At(k, "disable")
    /\ WriteStop(server[task[k].server].version)
    /\ Conclude(k, "unknown", None)
    /\ UNCHANGED <<day, conversation, plan, modelCalls, moneyVars,
                   server, call, seenVars>>

\* finish_model_planning_request: a proposal counts for the revision it was
\* made for, and only a success keeps its usage.
Finish(k) ==
    LET ends == Expiry(k[1])
        status == IF task[k].outcome # "proposed" THEN task[k].outcome
                  ELSE IF Current(k) THEN "succeeded" ELSE "failed"
        usage == IF status = "succeeded" THEN task[k].usage ELSE None
    IN  /\ At(k, "finish")
        /\ Locked(k)
        /\ IF plan[k].status = "dispatching" /\ k \notin Due(k[1])
           THEN Commit(Also(ends, k, End(status, usage)))
           ELSE Commit(ends)
        /\ Stop(k)
        /\ UNCHANGED <<day, conversation, config, server, call, faults, seenVars>>

\* A claim or a finish that returns an error ends the task: nothing retries.
GiveUp(k) ==
    /\ task[k].pc \in {"claim", "finish"}
    /\ Stop(k)
    /\ UNCHANGED <<day, rowVars, server, call, faults, seenVars>>

Run(k) ==
    \/ Claim(k) \/ Recheck(k) \/ CheckRevision(k) \/ Verify(k) \/ Refuse(k)
    \/ Send(k) \/ Answered(k) \/ ContractViolation(k) \/ PersistDisable(k)
    \/ Finish(k) \/ GiveUp(k)

-----------------------------------------------------------------------------
(* Processes.                                                              *)

\* Mutation: what the process is deployed with replaces the registration.
StartReplacesBudget(s, d) ==
    /\ server[s] = Down
    /\ ~config[d.version].lapsed /\ ~config[d.version].disabled
    /\ config' = [config EXCEPT ![d.version].budget = d.budget]
    /\ server' = [server EXCEPT ![s] = [version |-> d.version, halted |-> FALSE]]
    /\ UNCHANGED <<day, conversation, plan, modelCalls, moneyVars, call, task,
                   faults, seenVars>>

\* from_env: a configuration that is registered otherwise, disabled or
\* lapsed refuses the start.
Start(s, d) ==
    /\ server[s] = Down
    /\ config[d.version].budget \in {None, d.budget}
    /\ ~config[d.version].lapsed /\ ~config[d.version].disabled
    /\ config' = [config EXCEPT ![d.version].budget = d.budget]
    /\ server' = [server EXCEPT ![s] = [version |-> d.version, halted |-> FALSE]]
    /\ UNCHANGED <<day, conversation, plan, modelCalls, moneyVars, call, task,
                   faults, seenVars>>

\* The tasks and calls of the process are lost, its stop flag as well.
Crash(s) ==
    /\ server[s] # Down
    /\ Fault
    /\ server' = [server EXCEPT ![s] = Down]
    /\ call' = [call EXCEPT ![s] = [k \in Keys |-> "none"]]
    /\ task' = [k \in Keys |-> IF task[k].server = s THEN NoTask ELSE task[k]]
    /\ UNCHANGED <<day, rowVars, seenVars>>

-----------------------------------------------------------------------------

Next ==
    \/ NewDay
    \/ \E k \in Keys : Lapse(k) \/ Cancel(k) \/ Run(k)
    \/ \E k \in ReplyKeys, v \in Revisions, b \in Budgets :
           ReplyReserves(k, v, b) \/ ReplySettles(k)
    \/ \E v \in Revisions : PriceLapses(v) \/ OperatorDisables(v)
    \/ \E c \in Conversations :
           AppendMessage(c) \/ DeleteConversation(c) \/ Touch(c)
    \/ \E s \in Servers, k \in Keys :
           Create(s, k) \/ Call(s, k) \/ Ready(s, k) \/ HangUp(s, k) \/ Approve(s, k)
    \/ \E s \in Servers, d \in Deployments : Start(s, d)
    \/ \E s \in Servers : Crash(s)

Spec == Init /\ [][Next]_vars

\* Time passes, and an open page asks for its requests again and again
\* (web/src model-agent-panel polls while a request is active).
Fairness ==
    /\ \A k \in Keys : WF_vars(Lapse(k))
    /\ \A c \in Conversations : WF_vars(Touch(c))

FairSpec == Spec /\ Fairness

\* Tasks that go on, and clients that approve over and over.
CallingSpec ==
    /\ FairSpec
    /\ \A k \in Keys : WF_vars(Run(k))
    /\ \A s \in Servers, k \in Keys : WF_vars(Call(s, k)) /\ SF_vars(Ready(s, k))

-----------------------------------------------------------------------------
(* Properties. *)

\* Whatever is repeated, lost or interrupted, the provider gets at most one
\* request for a planning request: only the first approval starts a task,
\* in one process, and no task sends twice (start_planning, run_planning).
SentAtMostOnce == \A k \in Keys : sends[k] <= 1

\* The ledger keeps what the provider may bill within the quote, and keeps
\* the model call, for every request that went out, although its row was
\* cancelled, expired or deleted meanwhile (terminate with settle_kind).
BillCovered ==
    \A k \in Keys : sends[k] > 0 =>
        /\ receipt[k] # None
        /\ receipt[k].kind = "model_planning"
        /\ receipt[k].settlement # "cancelled_before_dispatch"
        /\ receipt[k].charged # None /\ billed[k] <= Cost[receipt[k].budget]
               => receipt[k].charged >= billed[k]

\* No store call on a conversation is ever refused as inconsistent: every
\* active request has its open reservation and both totals cover it
\* (check_receipt), and no other reservation of this kind is open.
ReceiptsAgree ==
    \A k \in Keys :
        /\ IsActive(k) => ReceiptValid(k)
        /\ Held(k, "model_planning") => IsActive(k)

\* The model calls of a day are the approvals of that day which were
\* claimed or still may be, however late they end and although deletion
\* removes their rows (model_agent_daily).
CallsExact ==
    \A d \in Days :
        modelCalls[d] = Cardinality({k \in Keys :
            /\ receipt[k] # None
            /\ receipt[k].kind = "model_planning"
            /\ receipt[k].day = d
            /\ receipt[k].settlement # "cancelled_before_dispatch"})

\* The money and the calls of a day are those of its requests, and the store
\* never meets a request that disagrees with its reservation.
BooksAreExact == LedgerExact /\ CallsExact /\ ReceiptsAgree

\* A task that still may send, or waits for its answer, holds a request of
\* its own that was claimed under the quote of its process, or that was
\* ended as sent in the meantime (run_planning against cancel and expire).
QuoteHonoured ==
    \A k \in Keys :
        task[k].pc \in {"recheck", "revision", "verify", "send", "wait",
                        "disable", "finish"} =>
            /\ receipt[k] # None
            /\ receipt[k].kind = "model_planning"
            /\ receipt[k].revision = server[task[k].server].version
            /\ receipt[k].budget = config[receipt[k].revision].budget
            /\ receipt[k].settlement # "cancelled_before_dispatch"

\* An ended request keeps its status until it is deleted, and a settled
\* reservation is never settled again: neither a late answer nor an expiry
\* nor a cancellation of either kind of request gets through.
EndedIsFinal ==
    [][\A k \in Keys :
         /\ plan[k].status \in Ended =>
                plan'[k].status \in {plan[k].status, "absent"}
         /\ receipt[k] # None /\ receipt[k].charged # None =>
                receipt'[k] = receipt[k]]_vars

\* Once the stop of a configuration is durable it stays, nothing is
\* approved or claimed under it any more, and no process starts with it.
StopIsFinal ==
    [][\A v \in Revisions : config[v].disabled =>
         /\ config'[v].disabled
         /\ \A k \in Keys : plan[k].version = v /\ plan'[k].status \in Active
                                => plan'[k].status = plan[k].status
         /\ \A s \in Servers : server'[s].version = v => server[s].version = v]_vars

\* A process that saw a contract violation sends nothing more, whether or
\* not it could write the stop (executor and adapter flags).
HaltedSendsNothing ==
    [][\A k \in Keys : sends'[k] > sends[k] => ~server[task[k].server].halted]_vars

\* Every approved request reaches an end, although nothing scans for it,
\* its process may have died and its task may never have been started.
ApprovedEnds == \A k \in Keys : IsActive(k) ~> ~IsActive(k)

\* A process that halted and could not write its stop writes it with the
\* next call it gets, unless it goes down or its prices lapse first: docs/design/
\* sprint-3-model-agent-executor.md says that the next call only retries
\* the stop write (ready).
HaltBecomesDurable ==
    \A s \in Servers, v \in Revisions :
        (server[s] = [version |-> v, halted |-> TRUE])
            ~> (config[v].disabled \/ config[v].lapsed \/ server[s] = Down)

\* Every planning request is a one-shot call of module OneShotCall.
Mine(k) == receipt[k] # None /\ receipt[k].kind = "model_planning"

Phase(k) ==
    IF ~Mine(k) THEN "absent"
    ELSE IF receipt[k].charged = None
         THEN IF Queued(k) THEN "reserved" ELSE "taken"
    ELSE IF receipt[k].settlement = "cancelled_before_dispatch"
         THEN "withdrawn" ELSE "closed"

PlanCall(k) == INSTANCE OneShotCall WITH
    Calls  <- {k},
    Bounds <- {Cost[b] : b \in Budgets},
    Bills  <- UNION {Billable(b) : b \in Budgets},
    phase  <- [j \in {k} |-> Phase(k)],
    bound  <- [j \in {k} |-> IF Mine(k) THEN Cost[receipt[k].budget] ELSE 0],
    called <- [j \in {k} |-> sends[k] > 0],
    bill   <- [j \in {k} |-> billed[k]],
    charge <- [j \in {k} |-> IF Mine(k) /\ receipt[k].charged # None
                             THEN receipt[k].charged ELSE 0]

\* Each planning request is one call of the contract, and a step of the
\* system is a step of it or changes nothing of it.  The expiry of a
\* conversation may end several requests in one step.
PlanCallSpec ==
    /\ \A k \in Keys : PlanCall(k)!Init
    /\ [][\A k \in Keys : [PlanCall(k)!Next]_(PlanCall(k)!vars)]_vars
=============================================================================

------------------------------- MODULE Replies -------------------------------
(***************************************************************************)
(* Conversation replies of one user: the rows of the relational store, the *)
(* HTTP operations on them, and the background executor of every           *)
(* api-server process, with crashes, restarts and store calls that fail.   *)
(*                                                                         *)
(* Every store operation locks the user row and then the conversation row, *)
(* so it is one atomic action here; an operation that returns an error     *)
(* rolls back and is no step.  Between two store calls of an executor      *)
(* anything may happen.                                                    *)
(*                                                                         *)
(* Time: the UTC day advances, and the 120 second lease of a dispatched    *)
(* reply lapses at a moment of its own.  An answer may arrive    *)
(* before or after that moment: the 35 second timeout of the executor runs *)
(* on its own clock and a paused process notices it late.                  *)
(***************************************************************************)
EXTENDS ReplyMoney

CONSTANTS
    Servers,        \* api-server processes sharing the database
    Deployments,    \* deployment settings a process may be started with
    DailyReplies,   \* replies of a user per day: 20 in the code
    ReplyQuota,     \* replies of a conversation: 100
    MessageQuota,   \* messages of a conversation: 100
    ScanLimit,      \* rows per scan: 20
    MaxFaults       \* bound on crashes and failed store calls

Fixture == "fixture-v1"                 \* revision of the builtin fixture
Modes == {"disabled", "fixture", "openai"}

\* Replies cost money only in the openai mode, which names a revision and
\* the budget it was deployed with.
ASSUME DeploymentAssumption ==
    /\ Deployments \subseteq
           [mode: Modes, revision: Revisions \union {None},
            budget: Budgets \union {None}]
    /\ \A d \in Deployments :
           d.mode = "openai" => d.revision \in Revisions /\ d.budget \in Budgets
    /\ None \notin Deployments \union Revisions \union Budgets
    /\ Fixture \notin Revisions \union {None}

ASSUME QuotaAssumption ==
    /\ {DailyReplies, ReplyQuota, MessageQuota, ScanLimit} \subseteq Nat \ {0}
    /\ MaxFaults \in Nat

VARIABLES
    day,            \* the current UTC day
    conversation,   \* conversations: [deleted, revision]
    reply,          \* conversation_replies
    reserved,       \* reply_daily_budgets: replies counted per day
    config,         \* reply_configurations: [budget, lapsed, disabled]
    server,         \* the process running on each server
    faults,         \* crashes and failed store calls so far
    sends,          \* observation: provider requests made for a reply
    billed          \* observation: what the provider bills for them

rowVars == <<conversation, reply, reserved, config>>
dbVars == <<conversation, reply, reserved, config, receipt, occupied>>
seenVars == <<sends, billed>>
vars == <<day, dbVars, server, faults, seenVars>>

Statuses == {"absent", "queued", "dispatching", "succeeded", "failed",
             "unknown", "cancelled"}
Active == {"queued", "dispatching"}
Outcomes == {"succeeded", "failed", "unknown"}
Configurations == Revisions \union {Fixture}

NoReply == [status |-> "absent", revision |-> 0, day |-> 0,
            configuration |-> None, output |-> FALSE, lease |-> "none"]

ReplyRows ==
    [status: Statuses, revision: Nat, day: Days,
     configuration: Configurations \union {None},  \* the frozen context
     output: BOOLEAN,                              \* a text is stored
     lease: {"none", "running", "lapsed"}]         \* none: dispatched_at NULL

Registrations ==
    [budget: Budgets \union {None},               \* None: no such row
     lapsed: BOOLEAN,                             \* valid_until is past
     disabled: BOOLEAN]                           \* disabled_at is set

\* pc names the store call or wait the executor task is at:
\*   scan      a halted executor, before its scan
\*   paid      in the batch of the paid scan
\*   recheck, verify, send, wait, disable, finish: in dispatch
\*   generic   in the batch of the generic scan; between ticks when it is empty
\*   sleep     the fixture holds a claimed reply
Places == {"down", "scan", "paid", "recheck", "verify", "send", "wait",
           "disable", "finish", "generic", "sleep"}

Processes ==
    [pc: Places, deployment: Deployments \union {None},
     batch: SUBSET (Keys \X Active), item: Keys \union {None},
     halted: BOOLEAN, outcome: Outcomes \union {None},
     usage: Nat \union {None}]

Down == [pc |-> "down", deployment |-> None, batch |-> {}, item |-> None,
         halted |-> FALSE, outcome |-> None, usage |-> None]

TypeOK ==
    /\ MoneyTypeOK
    /\ day \in Days
    /\ conversation \in [Conversations -> [deleted: BOOLEAN, revision: Nat]]
    /\ reply \in [Keys -> ReplyRows]
    /\ reserved \in [Days -> Nat]
    /\ config \in [Revisions -> Registrations]
    /\ server \in [Servers -> Processes]
    /\ faults \in 0 .. MaxFaults
    /\ sends \in [Keys -> Nat]
    /\ billed \in [Keys -> Nat]

Init ==
    /\ MoneyInit
    /\ day = 0
    /\ conversation = [c \in Conversations |-> [deleted |-> FALSE, revision |-> 0]]
    /\ reply = [k \in Keys |-> NoReply]
    /\ reserved = [d \in Days |-> 0]
    /\ config = [r \in Revisions |->
           [budget |-> None, lapsed |-> FALSE, disabled |-> FALSE]]
    /\ server = [s \in Servers |-> Down]
    /\ faults = 0
    /\ sends = [k \in Keys |-> 0]
    /\ billed = [k \in Keys |-> 0]

-----------------------------------------------------------------------------
(* Predicates of the store. *)

\* Dispatched 120 seconds ago or more.
Overdue(k) == reply[k].status = "dispatching" /\ reply[k].lease = "lapsed"

Live(k) == ~conversation[k[1]].deleted

IsActive(k) == reply[k].status \in Active

\* Mutation: the claim forgets that another executor may have been first.
QueuedOrTaken(k) == reply[k].status \in Active

\* The guard of both claims, and of every refund.
Queued(k) == reply[k].status = "queued"

\* Mutation: the check forgets the persisted stop.
ConfigKnown(r, b) == config[r].budget = b /\ ~config[r].lapsed

\* reply_dispatch::check, under the lock of the configuration row.
ConfigActive(r, b) ==
    /\ config[r].budget = b
    /\ ~config[r].lapsed
    /\ ~config[r].disabled

\* The rows a scan may return, at most ScanLimit, overdue ones first; the
\* order of creation among equals is left open.
Scanned(pending) ==
    {batch \in SUBSET pending :
        /\ Cardinality(batch) <= ScanLimit
        /\ batch # pending => Cardinality(batch) = ScanLimit
        /\ \A i \in batch, j \in pending \ batch :
               j[2] = "dispatching" => i[2] = "dispatching"}

\* Mutation: the scans only look for queued replies.
PendingQueued(k) == Live(k) /\ Queued(k)

Pending(k) ==
    /\ Live(k)
    /\ Queued(k) \/ Overdue(k)

-----------------------------------------------------------------------------
(* Transactions on one reply: parts of the actions below. *)

\* Claim: queued becomes dispatching, the lease starts.
TakeReply(k) ==
    /\ Queued(k)
    /\ reply' = [reply EXCEPT ![k].status = "dispatching",
                              ![k].lease = "running"]

\* A reply ends: its frozen context is dropped and its money is settled.
EndReply(k, status, usage) ==
    /\ reply' = [reply EXCEPT ![k].status = status,
                              ![k].configuration = None,
                              ![k].output = (status = "succeeded")]
    /\ SettleKind(k, "reply", Queued(k), usage)

\* Mutation: the scan is trusted, the lease is not looked at again.
ExpireUnchecked(k) ==
    IF reply[k].status = "dispatching"
    THEN EndReply(k, "unknown", None)
    ELSE UNCHANGED <<reply, moneyVars>>

\* Action::Expire.
Expire(k) ==
    IF Overdue(k)
    THEN EndReply(k, "unknown", None)
    ELSE UNCHANGED <<reply, moneyVars>>

\* Action::Finish: a result that comes after the lease or after the reply
\* ended is not written; only a success keeps its usage.
FinishReply(k, outcome, usage) ==
    /\ ~Queued(k)
    /\ IF reply[k].status # "dispatching" THEN UNCHANGED <<reply, moneyVars>>
       ELSE IF Overdue(k) THEN EndReply(k, "unknown", None)
       ELSE EndReply(k, outcome, IF outcome = "succeeded" THEN usage ELSE None)

-----------------------------------------------------------------------------
(* Time and faults. *)

NextDay ==
    /\ day < MaxDay
    /\ day' = day + 1
    /\ UNCHANGED <<dbVars, server, faults, seenVars>>

LeaseLapses(k) ==
    /\ reply[k].status = "dispatching"
    /\ reply[k].lease = "running"
    /\ reply' = [reply EXCEPT ![k].lease = "lapsed"]
    /\ UNCHANGED <<day, conversation, reserved, config, moneyVars, server,
                   faults, seenVars>>

\* valid_until passes.
PriceLapses(r) ==
    /\ config[r].budget # None
    /\ ~config[r].lapsed
    /\ config' = [config EXCEPT ![r].lapsed = TRUE]
    /\ UNCHANGED <<day, conversation, reply, reserved, moneyVars, server,
                   faults, seenVars>>

Fault == faults < MaxFaults /\ faults' = faults + 1

-----------------------------------------------------------------------------
(* Operations of users and operators. *)

AppendMessage(c) ==
    /\ ~conversation[c].deleted
    /\ conversation[c].revision < MessageQuota
    /\ conversation' = [conversation EXCEPT ![c].revision = @ + 1]
    /\ UNCHANGED <<day, reply, reserved, config, moneyVars, server, faults,
                   seenVars>>

\* reserve_reply_with_policy up to the money: the request is new, names the
\* current revision of a conversation that has messages, and no other reply
\* of the conversation is active.
Admissible(k) ==
    LET c == k[1] IN
    /\ Live(k)
    /\ reply[k].status = "absent"
    /\ conversation[c].revision > 0
    /\ Cardinality({j \in Keys : j[1] = c /\ reply[j].status # "absent"})
           < ReplyQuota
    /\ \A j \in Keys : j[1] = c => ~IsActive(j)

InsertReply(k, configuration) ==
    /\ reserved[day] < DailyReplies
    /\ reserved' = [reserved EXCEPT ![day] = @ + 1]
    /\ reply' = [reply EXCEPT ![k] =
           [NoReply EXCEPT !.status = "queued", !.day = day,
                !.revision = conversation[k[1]].revision,
                !.configuration = configuration]]

\* POST replies at a server of the openai mode: the caller accepts the quote
\* of the server's configuration, which the transaction checks again.
CreatePaid(s, k) ==
    LET d == server[s].deployment IN
    /\ server[s].pc # "down"
    /\ d.mode = "openai"
    /\ ~server[s].halted
    /\ Admissible(k)
    /\ ConfigActive(d.revision, d.budget)
    /\ ReserveMoney(k, "reply", day, d.revision, d.budget)
    /\ InsertReply(k, d.revision)
    /\ UNCHANGED <<day, conversation, config, server, faults, seenVars>>

\* The same at a server of the fixture mode: no money is reserved.
CreateFixture(s, k) ==
    /\ server[s].pc # "down"
    /\ server[s].deployment.mode = "fixture"
    /\ Admissible(k)
    /\ InsertReply(k, Fixture)
    /\ UNCHANGED <<day, conversation, config, moneyVars, server, faults,
                   seenVars>>

\* The daily count of a reply that was never dispatched is given back, on
\* the day it was taken.
ReturnCount(k) ==
    IF Queued(k)
    THEN /\ reserved[reply[k].day] > 0
         /\ reserved' = [reserved EXCEPT ![reply[k].day] = @ - 1]
    ELSE UNCHANGED reserved

\* Action::Cancel of a reply that is still active.
Cancel(k) ==
    /\ Live(k)
    /\ IsActive(k)
    /\ ReturnCount(k)
    /\ EndReply(k, "cancelled", None)
    /\ UNCHANGED <<day, conversation, config, server, faults, seenVars>>

\* DELETE of a conversation.  The unique index conversation_replies_active
\* leaves at most one active reply to settle; repeating it changes nothing.
DeleteConversation(c) ==
    LET mine == {k \in Keys : k[1] = c}
        active == {k \in mine : IsActive(k)}
    IN
    /\ ~conversation[c].deleted
    /\ conversation' = [conversation EXCEPT
           ![c] = [deleted |-> TRUE, revision |-> @.revision + 1]]
    /\ \/ active = {} /\ UNCHANGED <<reserved, moneyVars>>
       \/ \E k \in active :
              /\ ReturnCount(k)
              /\ SettleKind(k, "reply", Queued(k), None)
    /\ reply' = [k \in Keys |->
           IF k \in mine
           THEN [reply[k] EXCEPT !.configuration = None, !.output = FALSE,
                     !.status = IF k \in active THEN "cancelled" ELSE @]
           ELSE reply[k]]
    /\ UNCHANGED <<day, config, server, faults, seenVars>>

\* reply-operations disable --apply.
OperatorDisables(r) ==
    /\ config[r].budget # None
    /\ ~config[r].disabled
    /\ config' = [config EXCEPT ![r].disabled = TRUE]
    /\ UNCHANGED <<day, conversation, reply, reserved, moneyVars, server,
                   faults, seenVars>>

-----------------------------------------------------------------------------
(* The process of a server. *)

Paid(s) == server[s].deployment.mode = "openai"
At(s, pc) == server[s].pc = pc
BetweenTicks(s) == At(s, "generic") /\ server[s].batch = {}

\* Registration: the first deployment of a revision fixes its budget; a
\* later one must find it unchanged, in date and not disabled.
Register(r, b) ==
    \/ /\ config[r].budget = None
       /\ config' = [config EXCEPT ![r].budget = b]
    \/ /\ ConfigActive(r, b)
       /\ UNCHANGED config

Start(s, d) ==
    /\ At(s, "down")
    /\ IF d.mode = "openai" THEN Register(d.revision, d.budget)
                            ELSE UNCHANGED config
    /\ server' = [server EXCEPT ![s] =
           [Down EXCEPT !.pc = "generic", !.deployment = d]]
    /\ UNCHANGED <<day, conversation, reply, reserved, moneyVars, faults,
                   seenVars>>

Crash(s) ==
    /\ ~At(s, "down")
    /\ Fault
    /\ server' = [server EXCEPT ![s] = Down]
    /\ UNCHANGED <<day, dbVars, seenVars>>

Goto(s, pc) == server' = [server EXCEPT ![s].pc = pc]
TakeBatch(s, pc, batch) ==
    server' = [server EXCEPT ![s].pc = pc, ![s].batch = batch]
Drop(s, i) == server' = [server EXCEPT ![s].batch = @ \ {i}]
\* Leave dispatch or the fixture and go on with the batch.
Return(s, pc) ==
    server' = [server EXCEPT ![s].pc = pc, ![s].item = None,
                             ![s].outcome = None, ![s].usage = None]
FinishWith(s, outcome) ==
    server' = [server EXCEPT ![s].pc = "finish", ![s].outcome = outcome]

\* Mutation: the stop is attempted only once, when it happens.
RetryNothing(s) ==
    /\ BetweenTicks(s) /\ Paid(s) /\ server[s].halted
    /\ Goto(s, "scan")
    /\ UNCHANGED <<day, dbVars, faults, seenVars>>

\* A halted executor first tries again to make its stop durable.
RetryDisable(s) ==
    /\ BetweenTicks(s) /\ Paid(s) /\ server[s].halted
    /\ \/ /\ config' =
                [config EXCEPT ![server[s].deployment.revision].disabled = TRUE]
          /\ UNCHANGED faults
       \/ Fault /\ UNCHANGED config
    /\ Goto(s, "scan")
    /\ UNCHANGED <<day, conversation, reply, reserved, moneyVars, seenVars>>

\* pending_budgeted_replies: pending replies whose open reservation names
\* the configuration of this executor.
PendingPaid(s) ==
    {<<k, reply[k].status>> : k \in {j \in Keys :
        /\ Pending(j)
        /\ Held(j, "reply")
        /\ receipt[j].revision = server[s].deployment.revision}}

ScanPaid(s) ==
    /\ At(s, "scan") \/ (BetweenTicks(s) /\ Paid(s) /\ ~server[s].halted)
    /\ \/ /\ \E batch \in Scanned(PendingPaid(s)) : TakeBatch(s, "paid", batch)
          /\ UNCHANGED faults
       \/ Fault /\ TakeBatch(s, "paid", {})
    /\ UNCHANGED <<day, dbVars, seenVars>>

\* pending_replies: every pending reply, whatever its configuration.
PendingAll == {<<k, reply[k].status>> : k \in {j \in Keys : Pending(j)}}

ScanAll(s) ==
    /\ \/ At(s, "paid") /\ server[s].batch = {}
       \/ BetweenTicks(s) /\ ~Paid(s)
    /\ \/ /\ \E batch \in Scanned(PendingAll) : TakeBatch(s, "generic", batch)
          /\ UNCHANGED faults
       \/ Fault /\ TakeBatch(s, "generic", {})
    /\ UNCHANGED <<day, dbVars, seenVars>>

\* An item scanned as overdue, in either batch.
ExpireItem(s) ==
    /\ server[s].pc \in {"paid", "generic"}
    /\ \E i \in server[s].batch :
           /\ i[2] = "dispatching"
           /\ \/ /\ Live(i[1]) /\ Expire(i[1])
                 /\ UNCHANGED faults
              \/ /\ ~Live(i[1])
                 /\ UNCHANGED <<reply, moneyVars, faults>>
              \/ Fault /\ UNCHANGED <<reply, moneyVars>>
           /\ Drop(s, i)
    /\ UNCHANGED <<day, conversation, reserved, config, seenVars>>

\* dispatch up to the claim: get_reply shows this executor's configuration
\* and the claim finds the reply queued, its reservation open and its
\* configuration active.
Claimable(s, k) ==
    LET r == server[s].deployment.revision IN
    /\ ~server[s].halted
    /\ Live(k)
    /\ reply[k].configuration = r
    /\ Held(k, "reply")
    /\ receipt[k].revision = r
    /\ ConfigActive(r, receipt[k].budget)

\* The claim commits; with a fault its answer is lost and the executor goes
\* on without the reply.
Claim(s) ==
    /\ At(s, "paid")
    /\ \E i \in server[s].batch :
           /\ i[2] = "queued"
           /\ Claimable(s, i[1])
           /\ TakeReply(i[1])
           /\ \/ /\ server' = [server EXCEPT ![s].pc = "recheck",
                        ![s].item = i[1], ![s].batch = @ \ {i}]
                 /\ UNCHANGED faults
              \/ Fault /\ Drop(s, i)
    /\ UNCHANGED <<day, conversation, reserved, config, moneyVars, seenVars>>

\* A queued item of the paid batch that is not claimed.
SkipPaid(s) ==
    /\ At(s, "paid")
    /\ \E i \in server[s].batch :
           /\ i[2] = "queued"
           /\ \/ ~(Claimable(s, i[1]) /\ Queued(i[1])) /\ UNCHANGED faults
              \/ Fault
           /\ Drop(s, i)
    /\ UNCHANGED <<day, dbVars, seenVars>>

\* expire_reply after the claim: only a reply that is still dispatching goes
\* on.
Recheck(s) ==
    LET k == server[s].item IN
    /\ At(s, "recheck")
    /\ \/ /\ IF Live(k) THEN Expire(k) ELSE UNCHANGED <<reply, moneyVars>>
          /\ IF Live(k) /\ reply'[k].status = "dispatching"
             THEN Goto(s, "verify") ELSE Return(s, "paid")
          /\ UNCHANGED faults
       \/ Fault /\ Return(s, "paid") /\ UNCHANGED <<reply, moneyVars>>
    /\ UNCHANGED <<day, conversation, reserved, config, seenVars>>

\* The configuration is checked once more before the request goes out.
Verify(s) ==
    /\ At(s, "verify")
    /\ \/ /\ IF ConfigActive(server[s].deployment.revision,
                             receipt[server[s].item].budget)
             THEN Goto(s, "send") ELSE FinishWith(s, "unknown")
          /\ UNCHANGED faults
       \/ Fault /\ FinishWith(s, "unknown")
    /\ UNCHANGED <<day, dbVars, seenVars>>

\* The provider gets the request and bills something: more than the quote
\* only if it breaks the agreed bounds.
Send(s) ==
    LET k == server[s].item IN
    /\ At(s, "send")
    /\ sends' = [sends EXCEPT ![k] = @ + 1]
    /\ \E n \in 0 .. Cost[receipt[k].budget] + 1 :
           billed' = [billed EXCEPT ![k] = n]
    /\ Goto(s, "wait")
    /\ UNCHANGED <<day, dbVars, faults>>

\* What a trusted answer may say of its cost: nothing, or the bill.
Usages(k) ==
    {None} \union (IF billed[k] <= Cost[receipt[k].budget]
                   THEN {billed[k]} ELSE {})

\* A usable text, an unusable answer, or none that can be trusted (an HTTP
\* error, a lost connection, the timeout).
Answered(s) ==
    /\ At(s, "wait")
    /\ \/ \E u \in Usages(server[s].item) :
              server' = [server EXCEPT ![s].pc = "finish",
                            ![s].outcome = "succeeded", ![s].usage = u]
       \/ FinishWith(s, "failed")
       \/ FinishWith(s, "unknown")
    /\ UNCHANGED <<day, dbVars, faults, seenVars>>

\* The answer is of another model or service tier, or reports a usage above
\* the bounds: the executor halts before anything else.
ContractViolation(s) ==
    /\ At(s, "wait")
    /\ server' = [server EXCEPT ![s].pc = "disable", ![s].halted = TRUE]
    /\ UNCHANGED <<day, dbVars, faults, seenVars>>

PersistDisable(s) ==
    /\ At(s, "disable")
    /\ \/ /\ config' =
                [config EXCEPT ![server[s].deployment.revision].disabled = TRUE]
          /\ UNCHANGED faults
       \/ Fault /\ UNCHANGED config
    /\ FinishWith(s, "unknown")
    /\ UNCHANGED <<day, conversation, reply, reserved, moneyVars, seenVars>>

\* finish_budgeted_reply; a failure is logged and nothing is sent again.
Finish(s) ==
    LET k == server[s].item IN
    /\ At(s, "finish")
    /\ \/ /\ IF Live(k)
             THEN FinishReply(k, server[s].outcome, server[s].usage)
             ELSE UNCHANGED <<reply, moneyVars>>
          /\ UNCHANGED faults
       \/ Fault /\ UNCHANGED <<reply, moneyVars>>
    /\ Return(s, "paid")
    /\ UNCHANGED <<day, conversation, reserved, config, seenVars>>

FixtureClaimable(s, k) ==
    /\ server[s].deployment.mode = "fixture"
    /\ Live(k)
    /\ reply[k].configuration = Fixture

ClaimFixture(s) ==
    /\ At(s, "generic")
    /\ \E i \in server[s].batch :
           /\ i[2] = "queued"
           /\ FixtureClaimable(s, i[1])
           /\ TakeReply(i[1])
           /\ \/ /\ server' = [server EXCEPT ![s].pc = "sleep",
                        ![s].item = i[1], ![s].batch = @ \ {i}]
                 /\ UNCHANGED faults
              \/ Fault /\ Drop(s, i)
    /\ UNCHANGED <<day, conversation, reserved, config, moneyVars, seenVars>>

\* A queued item of the generic batch that is not the fixture's.
SkipGeneric(s) ==
    /\ At(s, "generic")
    /\ \E i \in server[s].batch :
           /\ i[2] = "queued"
           /\ \/ ~(FixtureClaimable(s, i[1]) /\ Queued(i[1])) /\ UNCHANGED faults
              \/ Fault
           /\ Drop(s, i)
    /\ UNCHANGED <<day, dbVars, seenVars>>

FinishFixture(s) ==
    LET k == server[s].item IN
    /\ At(s, "sleep")
    /\ \/ /\ IF Live(k) THEN FinishReply(k, "succeeded", None)
                        ELSE UNCHANGED <<reply, moneyVars>>
          /\ UNCHANGED faults
       \/ Fault /\ UNCHANGED <<reply, moneyVars>>
    /\ Return(s, "generic")
    /\ UNCHANGED <<day, conversation, reserved, config, seenVars>>

-----------------------------------------------------------------------------

Running(s) ==
    \/ RetryDisable(s) \/ ScanPaid(s) \/ ScanAll(s) \/ ExpireItem(s)
    \/ Claim(s) \/ SkipPaid(s) \/ Recheck(s) \/ Verify(s) \/ Send(s)
    \/ Answered(s) \/ ContractViolation(s) \/ PersistDisable(s) \/ Finish(s)
    \/ ClaimFixture(s) \/ SkipGeneric(s) \/ FinishFixture(s)

Next ==
    \/ NextDay
    \/ \E k \in Keys : LeaseLapses(k) \/ Cancel(k)
    \/ \E r \in Revisions : PriceLapses(r) \/ OperatorDisables(r)
    \/ \E c \in Conversations : AppendMessage(c) \/ DeleteConversation(c)
    \/ \E s \in Servers, k \in Keys : CreatePaid(s, k) \/ CreateFixture(s, k)
    \/ \E s \in Servers, d \in Deployments : Start(s, d)
    \/ \E s \in Servers : Crash(s) \/ Running(s)

Spec == Init /\ [][Next]_vars

\* Time passes, the loop of a running process goes on (its waits are all
\* bounded by timeouts), and an operator brings a process up again.
Fairness ==
    /\ \A k \in Keys : WF_vars(LeaseLapses(k))
    /\ \A s \in Servers :
           WF_vars(Running(s)) /\ WF_vars(\E d \in Deployments : Start(s, d))

FairSpec == Spec /\ Fairness

-----------------------------------------------------------------------------
(* Properties. *)

\* However executors, restarts, cancellations and lost answers interleave,
\* the provider gets at most one request for a reply (reply_executor.rs:
\* claim, re-read, check, send; an answer that is lost is never retried).
SentAtMostOnce == \A k \in Keys : sends[k] <= 1

\* The ledger never keeps less than the provider may have billed within the
\* quote, whether the reply was cancelled, deleted, expired or answered
\* while its request was out (change_reply with reply_money::settle).
BillCovered ==
    \A k \in Keys :
        /\ sends[k] > 0 => receipt[k] # None
        /\ receipt[k] # None => LET row == receipt[k] IN
               row.charged # None /\ billed[k] <= Cost[row.budget]
                   => row.charged >= billed[k]

\* The replies a day counts: those dispatched or that still may be.
CountedOn(d) ==
    {k \in Keys :
        /\ reply[k].status # "absent"
        /\ reply[k].day = d
        /\ ~(reply[k].status = "cancelled" /\ reply[k].lease = "none")}

\* The count of a day is the number of its replies that were dispatched or
\* still may be (change_reply, conversations.rs: only a reply cancelled
\* before its dispatch gives its place back).
CountExact == \A d \in Days : reserved[d] = Cardinality(CountedOn(d))

\* A deleted conversation keeps no text, no running reply and no open
\* reservation, although executors that hold its replies go on and finish
\* later (conversations.rs delete_conversation against finish_reply).
DeletedIsClean ==
    \A k \in Keys :
        conversation[k[1]].deleted =>
            /\ ~IsActive(k)
            /\ reply[k].configuration = None
            /\ ~reply[k].output
            /\ ~Held(k, "reply")

\* No end is ever refused for its books: the day of every queued reply still
\* counts it, and the total of every open reservation's day still covers the
\* whole quote, so a cancellation, a deletion, an expiry or a late answer
\* never meets "missing reply money ledger" (reply_money.rs settle_kind) nor
\* a count below zero.  And no expired reply is out of sight of the scans.
EndsAreCovered ==
    \A k \in Keys :
        /\ Queued(k) => reserved[reply[k].day] > 0
        /\ Held(k, "reply") => LET row == receipt[k] IN
               /\ IsActive(k)
               /\ occupied[row.day][Currency[row.budget]] >= Cost[row.budget]
        /\ Overdue(k) => Pending(k)

\* The money and the count of a day are those of its replies, whatever was
\* cancelled on a later day or deleted while it was being made, and so every
\* reply can end.
BooksAreExact ==
    LedgerExact /\ CountExact /\ DeletedIsClean /\ EndsAreCovered

\* Once a reply ended, no late answer, expiry or repeated cancellation
\* changes its status or gives it a text, and a settled reservation is
\* never settled again.
EndedIsFinal ==
    [][\A k \in Keys :
         /\ reply[k].status \notin Active \union {"absent"} =>
               /\ reply'[k].status = reply[k].status
               /\ reply'[k].output => reply[k].output
         /\ receipt[k] # None /\ ~Held(k, "reply") =>
               receipt'[k] = receipt[k]]_vars

\* A dispatched reply whose lease runs is given up as unknown only by the
\* executor that holds it: the recovery scans, which act on what they read
\* before, never take it away.
LeaseProtects ==
    [][\A k \in Keys :
         /\ reply[k].status = "dispatching"
         /\ reply[k].lease = "running"
         /\ reply'[k].status = "unknown"
         => \E s \in Servers : server[s].item = k /\ At(s, "finish")]_vars

\* An executor that saw the provider break the contract holds no claim and
\* has no request out from then on, even when the durable stop could not
\* be written (reply_executor.rs halt).
HaltedSendsNothing ==
    \A s \in Servers :
        server[s].halted =>
            server[s].pc \notin {"recheck", "verify", "send", "wait"}

\* The replies that may still be sent under a revision.
InFlight(r) ==
    {s \in Servers : At(s, "send") /\ server[s].deployment.revision = r}

\* After the stop of a revision is durable, the executors about to send
\* under it only become fewer, and the stop is not undone: the overrun is
\* at most the one request each process had verified before
\* (reply_dispatch.rs check in claim and before send).
StopIsFinal ==
    [][\A r \in Revisions :
         config[r].disabled =>
             config'[r].disabled /\ InFlight(r)' \subseteq InFlight(r)]_vars

\* A request goes out only under the budget that the sending process was
\* deployed with, that its revision was registered with and that the
\* reservation froze, although processes may be deployed with different
\* budgets for one revision (register_reply_configuration).
QuoteHonoured ==
    \A s \in Servers :
        server[s].pc \in {"send", "wait"} =>
            LET d == server[s].deployment IN
            /\ receipt[server[s].item].budget = d.budget
            /\ config[d.revision].budget = d.budget

\* Every dispatched reply reaches an end, whichever processes crash and
\* whatever answers are lost: the lease lapses and a scan expires it.
DispatchEnds ==
    \A k \in Keys :
        (reply[k].status = "dispatching") ~> (reply[k].status # "dispatching")

\* A stop that could not be written is written by a later tick, unless the
\* process goes down with it.
HaltBecomesDurable ==
    \A s \in Servers, r \in Revisions :
        (server[s].halted /\ server[s].deployment.revision = r)
            ~> (config[r].disabled \/ At(s, "down"))

\* Every paid reply is a one-shot call of module OneShotCall.
Phase(k) ==
    IF receipt[k] = None THEN "absent"
    ELSE IF receipt[k].charged = None
         THEN IF Queued(k) THEN "reserved" ELSE "taken"
    ELSE IF receipt[k].settlement = "cancelled_before_dispatch"
         THEN "withdrawn" ELSE "closed"

PaidCall == INSTANCE OneShotCall WITH
    Calls  <- Keys,
    Bounds <- {Cost[b] : b \in Budgets},
    Bills  <- UNION {0 .. Cost[b] + 1 : b \in Budgets},
    phase  <- [k \in Keys |-> Phase(k)],
    bound  <- [k \in Keys |-> IF receipt[k] = None THEN 0
                              ELSE Cost[receipt[k].budget]],
    called <- [k \in Keys |-> sends[k] > 0],
    bill   <- billed,
    charge <- [k \in Keys |->
                 IF receipt[k] # None /\ receipt[k].charged # None
                 THEN receipt[k].charged ELSE 0]

\* A step of the system is a step of one paid call or changes none: a call
\* is sent once and only after it was taken, and closed once for an amount
\* that covers its bill.
PaidCallSpec == PaidCall!Spec
=============================================================================

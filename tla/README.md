# Verification of the AI augmentation system

This directory holds TLA+ models of the api-server, the scheduler, the local
programs and their stores, TLC configurations that check small instances of
them, and proofs for the TLA+ proof system about instances of any size.
`PROJECT.json` lists the components, the runs, a mutation that each property
rejects, the source lines behind every definition, the hazards of the code and
the theorems.

Run a model with `tlc -workers 2 -config MCReplies_race.cfg MCReplies`, and
check proofs with `tlapm Replies_proofs.tla`.

## 1. The system

Several api-server processes and several scheduler processes share one
PostgreSQL database. Redis holds caches and channels, Qdrant vectors, an object
store originals; caches and vectors can be rebuilt. Models are reached through
clients that send one request and never retry. Nearly every write takes the lock
of the user's row (or of the user's conversation) first, so that one store call
is one atomic step. What is difficult lies between two calls: a background loop
or a handler reads, decides, calls a provider that costs money, and writes what
it learned, while other processes, the user, an operator, crashes and the clock
act on the same rows.

| Component | State | Operations | What is hard | Correct when |
| --- | --- | --- | --- | --- |
| Conversation replies (`replies.rs`, `reply_dispatch.rs`, `reply_executor.rs`) | a row per reply, the configurations of the paid provider | create, cancel, scan, claim, re-read, check, send, finish, expire; register and disable | two executors, lost answers, a cancellation while a request is out, a stop that cannot be written | a reply is sent at most once, its bill is covered, it ends; a stop is final |
| Money ledger (`reply_money.rs`) | a reservation per request, a total per user, day and currency | reserve, settle | refunds on a later day, bills after the settlement, three kinds of requests in one table | the total of a day is the sum of its reservations |
| Model planning and execution (`model_planning.rs`, `model_execution.rs`, `model_executor.rs`) | requests, steps, evidence, two configurations | quote, approve, claim, send, finish, cancel, lazy expiry | the stop flag is read before four store calls; one step of several fails | approved once, each step sent once and in order, what is left is settled once |
| Agent plans and tool calls (`agent_plans.rs`, `tool_calls.rs`) | a plan, its steps, an audit | approve for a revision, claim, run, audit, finish | the same id is called directly; deadlines pass between run, audit and result | no id runs twice, what was reported as the end stays it |
| Answers (`answer_authorizations.rs`, `answer_executions.rs`, `answer_execution_runtime.rs`) | an authorization, an execution with a send marker, one slot per process | prepare, approve, claim, begin, check, finish | documents change after the approval, and back | sent once as approved, never shown for other passages, the slot is freed |
| Feeds and schedules (`feeds.rs`, `feed_schedules/`) | subscriptions, collections, schedules, occurrences | preview, confirm, claim, fence, fetch, write, recover | late results against recovery, edits in between | one collection per occurrence, nothing written for a changed source |
| Daily briefs (`briefs.rs`, `brief_schedules.rs`, `feeds/brief.rs`) | preferences, a schedule, briefs | make, schedule, delete | a search that reads before it locks | one attempt a day, at a minute still wanted |
| Value reviews and connections (`feed_value*.rs`, `subscription_connections.rs`) | a review bound to a revision, a marker | preview, approve, claim, begin, finish; renew, revoke | a renewal between claim and send, numbers that run out | scores of current entries, asked once, revocable |
| Sign-in program (`bin/chatgpt-connect`, `llm-openai/chatgpt`) | a file of accounts, a lock | sign in, refresh, sign out, use | a refresh token dies with its use, or there is none; a prompt may never end | no session is lost by the program, the lock is freed |
| Learning (`storage-postgres/learning/`, `crates/learning`) | skills, assessments, plans, evidence, reviews | add, score, plan, record, review, delete | three cascades from evidence to score | a score rests on what is still there |
| Documents, vectors, indexing (`documents.rs`, `originals.rs`, `index_jobs.rs`, `storage-qdrant`, `vector_maintenance.rs`) | rows, objects, points, job leases | import, migrate, collect, index, search, sweep | leases lapse; row and object are written apart; pages move | confirmed is stored, referenced is kept, removed is dead |
| Message cache (`message_cache.lua`, `messages.rs`) | a revision, tombstones | append, list, delete | commands that were given up still arrive | never older than what the reader knew, never past a deletion |
| Text of a review (`text_bridge.rs`, `review_text.rs`) | queues of four parties | publish, subscribe, show | any packet may be lost | shown without a gap, holds nobody up |
| Local models (`crates/llm-local`, `knowledge/answer.rs`) | none | parse, decode, validate | cut streams, byte offsets, lists paired by position | an answer quotes its passages |
| Reminders (`schedules.rs`, `schedule_delivery.rs`, `apps/scheduler`) | schedules, an inbox | create, approve, cancel, claim, deliver, mark | clock changes, lapsing leases, two devices | delivered once, with consent, in the end |
| Sessions and credentials (`auth.rs`, `mcp_credentials.rs`) | users, sessions, tokens, a pool | log in, log out, reset, issue, revoke | a login in flight across a reset; two connections per login | nothing outlives a reset, requests end |
| Recovery (`recovery-*.mjs`, `recovery-quarantine.sql`) | a dump, a target | back up, verify, restore | old intents, strangers, lost answers | a restored service repeats nothing |
| Planners and quotes (`budget.rs`, `model_plan.rs`, `learning/planning.rs`, `feeds/brief.rs`) | none | compute | rounding, unsigned differences, order | amounts add up, plans are sound |

## 2. The modules

| Module | Models | Run |
| --- | --- | --- |
| `OneShotCall` | the contract of a paid request: reserve, take, call once, close for at least its bill | refined by three modules |
| `ReplyMoney` | reservations, totals, settlement; extended by the modules that spend | with them |
| `Replies` | replies, configurations, conversations and the executors of all processes | `replies_race`, `replies_live` |
| `ModelPlanning` | planning requests with the handlers, tasks and processes that serve them | `planning`, `planning_stop` |
| `ModelExecution` | the searches and the answer an approved plan leads to | `execution` |
| `Answers` | authorization and execution of local answers | `execution` |
| `AgentPlans` | plans of tools, their steps and the audit of calls | `agents` |
| `Connect` | the sign-in program and its file | `agents` |
| `Sessions` | logins, resets, MCP credentials and the pool of connections | `agents` |
| `Feeds`, `Briefs` | subscriptions, collections, schedules; briefs and their schedule | `feeds` |
| `ValueReviews`, `Learning`, `Advice` | reviews of entries and their connection; skills to scores; reviews by a model | `reviews` |
| `IndexJobs`, `MessageCache`, `Originals`, `TextRelay` | the stores and channels around documents, messages and texts | `library` |
| `Budget`, `Quotes` | costs of requests; quotes and days of model requests | `parts` |
| `StudyPlan`, `BriefPlan` | the two planners | `parts` |
| `TextStreams`, `Excerpts` | wire formats; requests, decoding and validation of local answers | `parts` |
| `Recovery` | backup and quarantined restore | `parts`, `recovery_answers` |
| `Vectors` | points, search and the sweep | `parts` |
| `Reminders` | schedules, scheduler loops, the inbox | `reminders` |
| `Sums` | sums over finite sets, for the ledgers: a sum counts units | with the ledgers |
| `MC*` | instances for TLC: values of constants, symmetry; compositions of modules | |
| `Replies_proofs`, `ModelPlanning_proofs`, `Sums_proofs` | theorems and proofs about the module of that name | |
| `Execution_proofs`, `Agents_proofs`, `Library_proofs`, `Parts_proofs` | about the parts of `MCModelExecution`, `MCAgents`, `MCLibrary` and `MCParts` (all six of the last); the last also about `OneShotCall` | |
| `User_proofs` | about `Reminders` and the parts of `MCFeeds` and `MCReviews` | |

Modules that do not wait for one another share a run: `MCModelExecution`,
`MCAgents`, `MCFeeds`, `MCReviews`, `MCLibrary` and `MCParts` instantiate several,
and a variable `part` (in `MCFeeds` `turn`) says whose behaviour it is, so that the states of one are
not multiplied by those of another. A property of such a run is the conjunction
of the properties of its parts.

A definition whose comment starts with the word Mutation is not part of a
specification. It is a plausible mistake in the code, and TLC finds a property
violated when it replaces the definition after it.

How the state and the actions of a module correspond to the code, and what was
chosen where the model is coarser:

**Replies, ReplyMoney.** `reply`, `conversation`, `config`, `reserved`,
`receipt` and `occupied` are the tables; `server[s]` is a process: its
deployment, its stop flag, and where its loop stands. Each store call of
`reply_executor.rs` and of the loop in `api-server/replies.rs` is one action
(`ScanPaid`, `Claim`, `Recheck`, `Verify`, `Send`, `Answered`,
`ContractViolation`, `PersistDisable`, `Finish`; `ScanAll`, `ExpireItem`,
`ClaimFixture`, `FinishFixture`), with the variants that the call fails before or
after it took effect. `sends` and `billed` observe the provider. Items of a scan
are taken in any order. Usage is an amount of money; that a usage within both
token bounds costs at most the reservation is theorem `RefundsAreCovered` of
`Parts_proofs`. The 120 second lease lapses by a step of its own, before or
after the answer, since a paused process notices it late.

**ModelPlanning.** `plan` is `model_planning_requests`, `modelCalls` is
`model_agent_daily`, `call[s][k]` an approve call that process `s` serves and
`task[k]` the task of the process that committed the approval. Nothing scans this
table: every store call first ends what is overdue in its conversation, in its
own transaction (`Commit`, `Settle`). `ReplyReserves` and `ReplySettles` are the
conversation replies as this module sees them: another kind of reservation under
the same key. `Call` is the check of the HTTP handler (`enabled`), `Ready` that
of the executor (`ready`); a process may halt between them.

**ModelExecution.** An execution has the steps of its searches and one answer;
`Claim`, the checks before and after the embedding, `Send`, `Answered`,
`ContractViolation` and `Finish` are the calls of `model_executor.rs` for one
step after the other. All steps are reserved at the approval against money, model
calls and tool calls; whatever ends the request settles every open step in one
transaction. Evidence is reduced to whether a search found something and whether
the store takes the answer.

**Answers.** `auth` and `execution` are the two tables, `handler` a request that
executes, `attempt` the task that holds the slot. The slot and its guard, the
claim, the marker before the call, the polls of the store while the model runs,
the timeouts and the outcome are actions. Time is the facts the code asks of it.
A read writes down what time and the documents have made of a row, in the same
action. `claim_answer` has no caller in the program and is not an action.

**AgentPlans.** A plan, its steps and the audited calls share ids. A client may
call the tool with the id of a step it saw in the preview. What time does is
computed when a row is read (`Reported`), as in the SQL: the deadline of a call
passes whatever its audit says (`CallLapses`), so also between the audit and the
result of the step, which is then unknown (`Finish`). A tool succeeds or fails.

**Connect.** One command at a time holds the lock of the directory from its first
read to its end. Refresh tokens are numbered; of an access token only its being
over is kept, and over begins 60 seconds early, when the program renews it. A
login may be answered without a refresh token: the session is saved and ends with
its access token, a refresh then fails before it asks, and signing out has nothing
to revoke. `ask` takes the lock and then reads its prompt to the end
(`main.rs:85`, `:126`): `StartAsk` and `ReadPrompt` are apart. Whether a review is
still authorized when it is claimed is open here; `ValueReviews` and `Advice` say
what becomes of it.

**Sessions.** One user. `login`, `reset` and `issue` are calls with their place
in the handler; who waits for a connection or for the user's row holds what it
already has. A transaction that needs nothing more after the row is one action. A
client that hangs up rolls its transaction back (`HangsUp`).

**Feeds, Briefs.** Every operation locks the owner and is one action; the
executors are processes between claim, fence, fetch and write. Entries are the
source they came from. The clock is kept as what the code compares it with. The
trigger that cancels schedules with their subscription is part of the action that
fires it. The search for a due brief reads before it locks (`Pick`).

**ValueReviews, Learning, Advice.** Triggers and cascades belong to the action
that fires them. Entries and preferences are a version that changes, a digest the
version it was made of. Which tasks a planner picks among those it may is a
choice in `Learning`, and computed in `StudyPlan`.

**IndexJobs.** `job` is the table, `stored` the vectors, `loop` the worker of each
process with the token, progress and attempts of its claim. Embedding and upsert
are apart from the confirmation in the row. Not to get the shared slot is no step.

**MessageCache.** A call to Redis that was given up may still arrive, after
anything. The scripts are atomic. A tombstone outlives every put that is under
way: that is assumed of its expiry.

**Originals.** The advisory lock is held shared by imports and the migration and
alone by the collector; a commit may fail or its answer be lost. Contents are
told apart by their digest.

**TextRelay.** Executor, relay, subscription and request each have their queue;
each may lose a packet, close or die. The count of connections of an owner is
left out.

**Reminders.** Each schedule has a position in time, which may be set back;
independent positions allow more than one clock does. A device knows what it was
last shown.

**Budget, Quotes.** The arithmetic is made of operators, evaluated over all inputs
of a small set; `MaxAmount` stands for the end of the checked integers.

**StudyPlan, BriefPlan.** Sequential programs over one input, chosen in `Init`. A
turn of a loop is a step: of the sort, the ancestors, the evaluation and the
schedule; an entry of a brief is considered in one step. The orders that a sort
and a heap give are the choice of a least element. What a plan should be is said
apart from the loops, with the least set closed under prerequisites (`Basics`) and
the existence of a cycle (`Cyclic`).

**TextStreams, Excerpts.** The four readers of streams, and the pipeline of one
answer; a token, a line and a stage are a step each. A stream is a sequence of tokens with line ends, cut
anywhere. A record of a subscription may be written over several lines of data,
which are joined (`Whole`): a "head" is such a line that is not the last. A line of
another record among them, or a record without its last line, is refused. A passage is a sequence of
words and ends; a model returns any value of the shape asked for, or one that
does not parse. The question-first and evidence-bound profiles send other wording
and share the decoder of the guarded one.

**Recovery.** One row of any kind of work, and the restore with each of its
failures. Rows of different kinds do not touch one another. Sessions, credentials
and configurations, which the script ends without a condition, are left out.

**Vectors.** One user, one model. Points come in pages in an order of their own;
writes may land late; the sweep may fail and be repeated from an old cursor. The
operator keeps the two promises without which the program refuses to apply, so
that documents are written while a sweep previews, never while it is applied. No
operation of the service deletes a document: its row goes with its user.

Quotas that only refuse more are left out where no property depends on them, and
`PROJECT.json` says where.

## 3. What is checked

| Run | Properties and what they say |
| --- | --- |
| `replies_race` | `LeaseProtects`: no scan takes a reply from a process within its lease. `StopIsFinal`: a stopped configuration is not started again and sends nothing more than what was past its last check. `PaidCallSpec`: every reply is a `OneShotCall` |
| `replies_live` | `BooksAreExact`: totals and counts are the sums of their rows, a deleted conversation leaves none, and no end of a reply is refused for its books. `DispatchEnds`: a dispatched reply ends. `HaltBecomesDurable`: a halt that could not be written is written or the process gone |
| `planning` | `QuoteHonoured`: the budget of the process that sends is the one that was quoted. `BooksAreExact`: money, calls and receipts agree. `PlanCallSpec`: a request is a `OneShotCall`. `ApprovedEnds` |
| `planning_stop` | refutes `HaltBecomesDurable` |
| `execution` | `StepsAndTotals`: steps run in order, totals and settlement agree with them, and what is open can be settled. `SentAsApproved`: one call, at the approved target, behind its marker, and no slot is held for nobody. `StepCallSpec`: each step is a `OneShotCall`. `ShownIsCurrent`: no result of other passages is shown and ends stay. `ApprovedEnds`, `SlotFreed` |
| `agents` | `StepsRunOnceInOrder`, `ReportedIsFinal` (plans). `SessionsAreSound`: labels keep their identity, the program loses no session, nothing an old password opened is in use, and one of the requests that wait for the pool or the row can go on. `LocksAreFreed`: the lock of the accounts is given back by every command that does not wait for its prompt, and so are the row of the user and the connections |
| `feeds` | `CollectionsAreSound`: a source is asked once for a collection or an occurrence, and a deleted subscription keeps nothing. `EntriesAreCurrent`: what is written of a subscription came from the source it has at that moment, while it is enabled and the schedule in force. `ScheduledEnds`: a scheduled collection ends, and a due schedule of briefs moves on. `AttemptsAreDue`: a scheduled brief is attempted once a day, when the schedule as it is says so |
| `reviews` | `ScoresAreCurrent`: scores belong to the entries and the connection that were approved. `RevisionsSuffice`: expiry and revocation always have a revision left. `ScoresAreBacked`: a score of evidence goes with its evidence. `AdviceIsBacked`: a model is asked once, behind a marker, for what was approved |
| `library` | `ConfirmedIsStored`, `ReadsAreCurrent`, `OriginalsAreKept`, `ShownWithoutGaps`; `WorkConcludes`: jobs end, tombstones are written, no executor of a text is held up |
| `parts` | `AmountsAddUp`, `PlansAreSound`, `AnswersAreBacked`, `RestoredRunsNothing`, `VectorsAreSound` |
| `recovery_answers` | refutes `OldIntentsEnd` |
| `reminders` | `DeliveredWithConsent`, `ApprovedEnds` |

The types of a module are checked with one of the properties of its part.

**The two refuted claims.**

* `docs/design/sprint-3-model-agent-executor.md:35` says that after a failed stop
  write the next call only retries that write. The executor has this retry
  (`ready`), but every route to it first asks `enabled`
  (`api-server/src/model_agents.rs:60`), which refuses as soon as the process has
  halted. In the behaviour TLC finds, a process halts, its write fails, and every
  later call is refused before the retry, although clients keep calling; a restart
  with the same configuration is then accepted. The halted process itself sends
  nothing (`HaltedSendsNothingHolds`).
* `docs/design/postgres-recovery.md:31` says that authorizations which are still
  active in a backup cannot be continued after the restore.
  `recovery-quarantine.sql` ends no row of
  `answer_authorizations` or `answer_executions`, so that an answer which was
  approved when the backup was taken can be executed on the restored database
  within its life, and one that was a draft be approved and executed there, which
  is the behaviour TLC finds. Every other kind of work is ended: that is
  `RestoredRunsNothing`.

**Bounds.** Two processes are enough for every race between a holder and one
other actor, and all conflicts here are of that kind: an operation locks one row
and looks at one claim. One fault is a crash, a lost answer or a failed write at
any step; two faults let a recovery fail as well. Three lease tokens let two
loops hold stale ones while a third is given. Quotas and daily limits are set so
that they are reached (`PreviewQuota = 1`, `DailyReplies = 2`, `DailyAmount = 3`
for an execution of three calls, `Capacity = 2` packets, `PageSize = 1` for a sweep
of three points). `MaxDay = 1` lets every operation happen on the day after the
creation. Two versions of a document and two edits let it change back. Two
sources of a subscription let it be edited away and back. `LastRevision = 6` is
the 1000 of connections, close enough to the start to be reached. A pool of two
connections and two logins let each hold one and want another. The prices
include zero, one that rounds, and one above a unit per token; products cross the
amount limit. Streams of ten tokens hold a record, its end, an end of stream and
one comment, other record or line of a longer record (`MaxNoise = 1`), with every
line end. Passages of two units with a gap between them are the
smallest in which a merged quote can take in what was not selected. Two kinds of
things are not seen at these bounds: three actors of which each pair is harmless,
and drift that needs many requests; the theorems of section 4 cover them for
the invariants they state. (`replies_live` has one request: that the books agree over
many of them rests on `BooksAreExactHolds` of `Replies_proofs`.) `MaxRevision`, `MaxUpdates`, `MaxFaults`, `MaxMishaps`,
`MaxEdits`, `MaxTokens`, `MaxClock` and the like keep the state space finite and stand for nothing in the
code.

**Symmetry** is declared in `replies_race` (processes, requests) and `parts` (calls
and quotes), which no constant distinguishes; neither run has a liveness property.

**Fairness.** A loop or task of a running process goes on, since its waits have
time limits: 120 s for a reply, 90 s for a request and five minutes for the
browser in `Connect` (nothing is assumed of who types the prompt of an `ask`: that
wait has no limit, and keeps the lock for as long as it lasts), the guard, store and attempt limits of 55 s in all in
`Answers`, 2 s for a call to the message cache, 5 s for a connection in `Sessions`.
Leases lapse and clocks advance. A server that went down is started again
(`WF(Start)` in `Replies`), with the deployment it had or a disabled one. An
indexing loop in the end stores a batch before its lease lapses, and a delivery
of a reminder does not find its minute over every time (`SF(DeliverInTime)`).
Where nothing scans a table, somebody has to look at the conversation
(`WF(Touch)` in `ModelPlanning` and `ModelExecution`): the panel of the web
application asks every two seconds while a request is active
(`model-agent-panel.tsx:67-78`); without any call the money of an abandoned
request stays reserved. The scheduler keeps looking for due and late work in
`Feeds` and `Briefs`. `planning_stop` adds that tasks go on and that clients keep
calling, so that the refutation does not rest on nobody calling. Nothing is
assumed about the user, the operator, faults or the order of scanned rows.

**Deadlock** checking is off: every instance has bounded quotas, and a system
whose requests are all made and ended may stop. That something is stuck before
is a matter of the liveness properties.

## 4. What is proved

All theorems hold for every value of the constants that satisfies the named
assumptions of the modules (quotas and bounds are natural numbers, null values
are not among the ordinary ones, an openai deployment names its revision, what is
counted is finite). A theorem about a part of a composed module is about `MCSpec`
(in `MCFeeds` `FeedsSpec`), so that it also covers that the other parts leave it
alone. Every invariant, action property and refinement that a run checks is a
theorem; liveness is not.

**Sums** (`Sums_proofs`). The totals of the ledgers are sums over sets. `Sums`
defines a sum as the number of pairs of a row and a unit of its amount, so that
its laws follow from those of cardinality and need no induction: a sum changes by
what one row changes (`SumOfChange`), splits over disjoint sets, and is at least
each of its parts.

**Replies** (`Replies_proofs`). The inductive invariant of the safety properties is
`TypeInv`, `HandInv` (a reply past its claim is held by at most one process, and
only while it was taken), `SendInv` (whoever is about to send holds a reply not
sent before) and `BillInv` (what was billed is covered once settled). Types alone
are not inductive: that nobody sends twice depends on who holds the claim, not on
the row, which may be cancelled while the request is out. `StopIsFinalHolds` and
`LeaseProtectsHolds` follow from the types and from what a step can do to a row.
`BooksAreExactHolds` adds that rows, conversations and reservations agree
(`RowInv`), that every count is that of its rows and every total the sum of its
reservations. From the same two follows `EndsAreCoveredHolds`: a total that is the
sum of its rows is at least each of them, so a settlement never meets "missing
reply money ledger", on whatever day it comes. `RefinesOneShotCall` shows that each step is a step of the abstract
contract or none; it needs that a claim that was taken away was never sent by
anyone else, and that a budget is the one of the reservation. `EndedIsFinalHolds`,
`QuoteHonouredHolds` and `HaltedSendsNothingHolds` use the same invariant.

**ModelPlanning** (`ModelPlanning_proofs`). The invariant is `TypeInv` and, for
every key, `SendInv`, `MoneyInv` and `QuoteInv`. All of it concerns one key at a
time, although one transaction may end several requests: `KeyKept` says which
changes keep the invariant of a key, and each action is such a change for every
key but its own. That nobody sends twice needs the whole history of a request,
since a deletion takes the row away while its task still runs. The refinement adds
`SentInv` and `CallMoves`, the five things a step can do to one reservation; with
`Simulates` each is a step of `OneShotCall` or none. `BooksAreExactHolds` treats a
transaction as what it is, several settlements and then at most one reservation:
the sum over the keys is split into those that are settled and the others.

**ModelExecution** (`Execution_proofs`). One part of the invariant concerns the
rows of an execution, one its steps, one the task of its process. A transaction
leaves the rows of an execution alone, ends it with all its steps, or is the one
of its own task; `StepsInOrderHolds` and `RefinesOneShotCall` follow one execution
at a time. `StepsAndTotalsHolds` adds the sums over the steps of all executions.
The set of executions may be infinite, so the sums go over those which have been
approved, and that these are finitely many is part of the invariant.
`OpenIsCoveredHolds`: one transaction settles several steps, one after another, and
rolls all of them back if a total does not cover one; so the totals must cover all
that is open on a day together. What is open is a part of what the sum counts.

**Answers** (`Execution_proofs`). `SentAsApprovedHolds` and `ShownIsCurrentHolds`.
The invariant says of a grant how its two rows go together (`GrantInv`), of the
attempt what it still knows of them (`AttemptInv`), and of a process which request
its slot belongs to (`SlotInv`). That a model is asked once needs all three: the
marker is in the row, the right to write it with the attempt, and the slot is what
keeps a second attempt of the process out. `SlotsAreUsedHolds` is its converse: a
slot that is taken is held by an attempt which is under way in this process, so that
no refusal, failure or crash behind the claim leaves the process busy for ever.

**Agent plans, sign-in, sessions** (`Agents_proofs`).
`StepsRunOnceInOrderHolds` and `ReportedIsFinalHolds`: an id belongs to one of the
two interfaces for ever (`IdInv`), the task of a plan and the audit agree on where
it is (`TaskInv`, `OrderInv`), and calls of a day are counted (`CountInv`). That an
end stays one needs that a plan which was told unknown, since the deadline of its
call had passed behind its audit, is never finished otherwise.
`SessionsAreSoundHolds` is about the sign-in program and the sessions. In `Connect` the lock alone protects the file: `OneRuns` says
that whoever is past the lock is alone, `MemoryInv` that what it remembers is what
the file says, `LiveInv` that the last refresh token the provider gave, if it gave
one, is in the file or in the hands of the command that asked for it. In `Sessions` `LockInv` is
what makes the invariant inductive: who holds the row of the user has the hash of
today, because a reset needs the same row. `RequestsGoOn` is about the same
requests as they wait for one another: `PoolInv` counts the connections that are
lent, whoever has the row waits for nothing but a connection, a pool with none left
refuses instead of waiting for ever, and every step brings a request nearer to its
end and none back.

**Indexing, originals, cache, text** (`Library_proofs`). `FenceInv` says that a job
has a lease exactly while it runs, and that the loop with its token knows its
progress and attempts. `OriginalsAreKeptHolds`: an object may be removed only by a
collector that holds the lock alone, so that no import is between its upload and
its row; the invariant says what every writer, the collector and a request that
fetches know of the bucket. `ReadsAreCurrentHolds`: it covers the commands that
still travel (`MessagesInv`: a put carries messages of the revision it names), what
the readers have seen, and that a tombstone refuses every put that is older.
`ShownWithoutGapsHolds`: each party of the chain has a run of the text that begins
where what the next one has ends, or the chain is broken and the next one closes.

**Arithmetic, recovery, vectors, the contract** (`Parts_proofs`).
`RefundsAreCovered`, `RoundingCoversUse` and `AmountsAddUpHolds` follow from lemmas
on rounding up, for all prices and counts. `RestoredRunsNothingHolds` has the
hypothesis that the rows of the backup are of a kind that the quarantine names,
since the run `recovery_answers` refutes it for the others.
`VectorsAreSoundHolds`: the sweep keeps every point of a living document, and those
dead when it began are behind its cursor, gone, or still ahead; a page is taken
from a finite order of points. `BillsAreCovered` is what `OneShotCall` promises,
hence what each of its three implementations does.

**Planners** (`Parts_proofs`). `PlansAreSoundHolds` is about every finite graph of
skills, every rating and every request, and every set of entries. Each loop has an
invariant. `OrderInv` and `CounterInv`: what is sorted is closed under
prerequisites, and a counter is the number of parents that are not sorted.
`NoCycleIsSorted`: when nothing is ready and something is left, what is left is the
cycle; when all are sorted there is none. `TraceInv`: the ancestors found so far
are `Basics`, the least closed set. `EvaluateInv`: a skill is judged by its latest
rating and by ancestors already judged. `ScheduleInv`: the minutes add up, and who
was left out did not fit, nor would now. `BriefInv` says of a brief: whoever was looked at is shown, or had no room, and
room is not gained. That the inputs are finite is
`StudyAssumption` and `BriefAssumption`.

**Readers and excerpts** (`Parts_proofs`). `AnswersAreBackedHolds`. For the
excerpts the properties are inductive with the types of the stages; the work is in
lemmas about the cut of a passage, the numbers a model may choose and the pairing of
verdicts with requirements. For the streams there are three layers: `LineInv` says
what the line and the event under way hold, `BookInv` that every token was applied,
waits there or said nothing, and `HeldInv` that what is held is the data behind the
last blank line. So a text that is kept is the one the stream told, and it is
finished only by the end which the protocol has. What it is to keep to a protocol
is said of the places of a stream and not of how it is read (`KeepsToProtocol`):
`KeptIsTaken` is that no step gives such a stream up, `KeptIsFinished` that its
text is complete where it ends. The assumptions say
that streams and texts have bounds (`StreamsAssumption`) and that passages are
sequences (`ExcerptsAssumption`).

**Feeds and briefs** (`User_proofs`). `CollectionsAreSoundHolds` and
`EntriesAreCurrentHolds`: `HolderInv` says that a collection was begun once and is with
at most one executor, which alone asks its source, `OccurrenceInv` that no two
collections are of one occurrence, so that a recovered collection is not fetched
again. What is written is decided on the rows of that moment, whatever was read
before.
`AttemptsAreDueHolds`: the last attempt alone remembers those of a day, and is not
ahead of the clock (`BriefInv`), while the owner may move the schedule between the
search and the lock.

**Reminders, learning, advice, value reviews** (`User_proofs`). That a reminder is
delivered once rests on its two rows being written together and not on leases;
`ViewInv` says that a device is never ahead of the row, and shows the row when it
is not behind. `ScoresAreBackedHolds`: whoever takes a review away withdraws what
it confirmed, and a confirmed score stands on its review; the proof goes through
each cascade. `AdviceIsBackedHolds` and `ScoresAreCurrentHolds`: a claimed request
belongs to one worker for ever, even after the row has moved on, and the marker
tells whether it has asked; what the model was given is what was approved, as long
as the row is still open. `RevisionsSufficeHolds`: the numbers that are left
for an expiry and a revocation are never used for a renewal.

The proofs led to changes of the models. Some `CASE` expressions of `Connect` had
guards that overlap, which TLC resolves by order and the logic does not; they now
say what the first match in the code says. Assumptions that TLC's values satisfied
unnoticed are named in the modules (`...Assumption`).

**Only model-checked**: the liveness properties (`DispatchEnds`,
`HaltBecomesDurable`, `ApprovedEnds`, `SlotFreed`, `LocksAreFreed`,
`ScheduledEnds`, `WorkConcludes`), since fairness and `ENABLED` are outside the
reach of the prover. Of some of them the half that is safety is proved, which is
where a program usually gets stuck: no end is refused for its books
(`EndsAreCoveredHolds`, `OpenIsCoveredHolds`, and `ReceiptsAgree` in the theorem of
`ModelPlanning`), no slot is held for nobody (`SlotsAreUsedHolds`, against
`SlotFreed`), and of those who wait for the row and the pool one can go on
(`RequestsGoOn`, against `LocksAreFreed`). The two refuted claims are runs and no theorems. The proofs
say nothing of code that the modules abstract: that a sort or a decimal formatter
does what its definition says is read from the source.

## 5. What is not modelled, and what is next

* Long memory: facts with a revision, each operation one statement, with the
  revision protocol that `Reminders` models for its inbox. Short memory: one
  script per operation on a bounded list that expires.
* The MCP bridge, the imports and the paid clients: adapters over one connection
  or child process, without state between calls. Their outcomes are inputs of the
  modules that call them.
* Ranking, prompts, wording, byte limits and the offline quality reports
  (`answer_quality.rs`, the benchmark and acceptance programs): data without
  actors, or programs over files.
* The web application and the operators' reports: views.
* Deleting a user, which cascades over all tables, and the purge of tombstones.
* Known and not covered: the generic scan takes the oldest 20 active replies
  (`replies.rs:190`), so that replies of a configuration no process runs can hide
  later ones until they are cancelled.

Next: the safety half of the other liveness properties (the lock of the accounts,
the slots of the collections and of the reviews); that the rows which one transaction of the
ledger writes for two kinds of requests never meet under one key; and an abstract
specification of a leased job, which replies, indexing, collections and reminders
would implement as three of them implement `OneShotCall`.


------------------------------ MODULE Answers ------------------------------
(***************************************************************************)
(* Answers of a local model from passages of stored documents: the user    *)
(* prepares a question, approves exactly what will be sent, and executes   *)
(* it once (storage-postgres/answer_authorizations.rs,                     *)
(* answer_executions.rs, api-server/answer_authorizations/execution.rs,    *)
(* answer_execution_runtime.rs).                                           *)
(*                                                                         *)
(* What a preview is bound to is the version of the passages it quotes:    *)
(* equal digests mean equal versions.  Nothing scans these tables: whoever *)
(* reads a row writes down what time and the documents have made of it.    *)
(***************************************************************************)
EXTENDS Naturals, FiniteSets

CONSTANTS
    Requests,       \* answer authorizations, and their executions
    Servers,        \* processes, each with one slot for an execution
    Targets,        \* endpoints and models a question can be prepared for
    Target,         \* in [Servers -> Targets]: what a process is configured with
    Versions,       \* of the quoted passages
    None,           \* none of the above
    MaxEdits, MaxFaults     \* bounds of a behaviour

VARIABLES
    doc, edits,     \* the passages, None once the document is gone
    session,        \* the session the user executes from is valid
    auth,           \* answer_authorizations
    exec,           \* answer_executions
    handler,        \* the slot of a server and the request that holds it
    task,           \* execute_once of a request
    faults,         \* crashes and lost writes so far
    calls,          \* observation: calls of the provider, with their target
    shown           \* observation: the execution as its owner last read it

envVars == <<doc, edits, session, faults>>
rowVars == <<auth, exec>>
vars == <<envVars, rowVars, handler, task, calls, shown>>

AuthStatuses == {"none", "draft", "authorized", "consumed", "expired", "invalidated",
                 "cancelled"}
Ended == {"failed", "unknown", "cancelled", "invalidated"}
ExecStatuses == {"none", "running", "succeeded"} \cup Ended
Outcomes == {"succeeded", "failed", "unknown"}
Holding == {"guard", "check", "begin", "recheck", "send", "sent"}

NoAuth == [status |-> "none", bound |-> None, target |-> None, late |-> FALSE]
NoExec == [status |-> "none", bound |-> None, sent |-> FALSE, late |-> FALSE,
           result |-> None]
Free == [pc |-> "free", req |-> None]
NoTask == [pc |-> "none", server |-> None, out |-> "unknown"]

TypeOK ==
    /\ doc \in Versions \cup {None} /\ edits \in 0 .. MaxEdits
    /\ session \in BOOLEAN /\ faults \in 0 .. MaxFaults
    /\ auth \in [Requests -> [status: AuthStatuses, bound: Versions \cup {None},
                              target: Targets \cup {None}, late: BOOLEAN]]
    /\ exec \in [Requests -> [status: ExecStatuses, bound: Versions \cup {None},
                              sent: BOOLEAN, late: BOOLEAN,
                              result: Versions \cup {None}]]
    /\ handler \in [Servers -> [pc: {"free", "guard", "admitted", "running"},
                                req: Requests \cup {None}]]
    /\ task \in [Requests -> [pc: {"none", "answered", "finish", "done"} \cup Holding,
                              server: Servers \cup {None}, out: Outcomes]]
    /\ calls \in [Requests -> [n: 0 .. 2, to: Targets \cup {None}]]
    /\ shown \in [Requests -> [status: ExecStatuses, result: Versions \cup {None}]]

Init ==
    /\ doc \in Versions /\ edits = 0 /\ session = TRUE /\ faults = 0
    /\ auth = [r \in Requests |-> NoAuth]
    /\ exec = [r \in Requests |-> NoExec]
    /\ handler = [s \in Servers |-> Free]
    /\ task = [r \in Requests |-> NoTask]
    /\ calls = [r \in Requests |-> [n |-> 0, to |-> None]]
    /\ shown = [r \in Requests |-> [status |-> "none", result |-> None]]

-----------------------------------------------------------------------------
(* What a read makes of a row.                                             *)

Open(a) == a.status \in {"draft", "authorized"}

\* What an intent is bound to: the passages of the moment, and its target.
Prepared(t) == [NoAuth EXCEPT !.status = "draft", !.bound = doc, !.target = t]

\* The passages of the moment still give what was bound.
Rebuilds(row) == row.bound = doc

\* answer_authorizations::read: a draft or a grant ends at its deadline, and
\* when the passages no longer give the digest it was approved with.
AuthRead(r) ==
    LET a == auth[r] IN
    IF ~Open(a) THEN a
    ELSE IF a.late THEN [a EXCEPT !.status = "expired"]
    ELSE IF ~Rebuilds(a) THEN [a EXCEPT !.status = "invalidated"]
    ELSE a

End(e, status) == [e EXCEPT !.status = status, !.result = None]

\* Mutation: only a running execution is compared with the passages.
ExecReadTrustsResult(r) ==
    LET e == exec[r] IN
    IF e.status = "running" /\ e.late THEN End(e, "unknown")
    ELSE IF e.status = "running" /\ ~Rebuilds(e) THEN End(e, "invalidated")
    ELSE e

\* answer_executions::read: past its deadline a running execution is unknown;
\* a running or succeeded one is rebuilt from the passages of the moment.
ExecRead(r) ==
    LET e == exec[r] IN
    IF e.status = "running" /\ e.late THEN End(e, "unknown")
    ELSE IF e.status \in {"running", "succeeded"}
            /\ (auth[r].status # "consumed" \/ ~Rebuilds(e))
         THEN End(e, "invalidated")
    ELSE e

-----------------------------------------------------------------------------
(* Documents, time and sessions.                                           *)

\* A document changes or is removed under the service; it may change back.
EditDocument ==
    /\ edits < MaxEdits
    /\ \E v \in (Versions \cup {None}) \ {doc} : doc' = v
    /\ edits' = edits + 1
    /\ UNCHANGED <<session, faults, rowVars, handler, task, calls, shown>>

SessionEnds ==
    /\ session /\ session' = FALSE
    /\ UNCHANGED <<doc, edits, faults, rowVars, handler, task, calls, shown>>

\* A deadline passes.  That of an execution is never behind that of its grant.
GrantLapses(r) ==
    /\ auth[r].status # "none" /\ ~auth[r].late
    /\ auth' = [auth EXCEPT ![r].late = TRUE]
    /\ exec' = [exec EXCEPT ![r].late = exec[r].status # "none"]
    /\ UNCHANGED <<envVars, handler, task, calls, shown>>

ExecutionLapses(r) ==
    /\ exec[r].status = "running" /\ ~exec[r].late
    /\ exec' = [exec EXCEPT ![r].late = TRUE]
    /\ UNCHANGED <<envVars, auth, handler, task, calls, shown>>

-----------------------------------------------------------------------------
(* The owner's requests.                                                   *)

\* prepare_answer; again with the same intent it is a read.
Prepare(r) ==
    /\ \/ /\ auth[r].status = "none" /\ doc # None
          /\ \E t \in Targets : auth' = [auth EXCEPT ![r] = Prepared(t)]
       \/ auth[r].status # "none" /\ auth' = [auth EXCEPT ![r] = AuthRead(r)]
    /\ UNCHANGED <<envVars, exec, handler, task, calls, shown>>

\* detail: the grant, then View.
Detail(r) ==
    /\ auth[r].status # "none" /\ auth' = [auth EXCEPT ![r] = AuthRead(r)]
    /\ UNCHANGED <<envVars, exec, handler, task, calls, shown>>

\* approve_answer.
Approve(r) ==
    LET a == AuthRead(r) IN
    /\ auth[r].status # "none"
    /\ auth' = [auth EXCEPT ![r] =
           IF Open(a) THEN [a EXCEPT !.status = "authorized"] ELSE a]
    /\ UNCHANGED <<envVars, exec, handler, task, calls, shown>>

\* cancel: of the grant, or of its execution once the grant is consumed.
Cancel(r) ==
    /\ \/ /\ Open(auth[r])
          /\ auth' = [auth EXCEPT ![r].status = "cancelled"] /\ UNCHANGED exec
       \/ /\ auth[r].status = "consumed"
          /\ LET e == ExecRead(r) IN exec' = [exec EXCEPT ![r] =
                 IF e.status \in {"running", "succeeded"} THEN End(e, "cancelled") ELSE e]
          /\ UNCHANGED auth
    /\ UNCHANGED <<envVars, handler, task, calls, shown>>

\* The second transaction of view: get_answer_execution.
View(r) ==
    LET e == ExecRead(r) IN
    /\ exec[r].status # "none"
    /\ exec' = [exec EXCEPT ![r] = e]
    /\ shown' = [shown EXCEPT ![r] = [status |-> e.status, result |-> e.result]]
    /\ UNCHANGED <<envVars, auth, handler, task, calls>>

\* list_answer_authorizations and list_answer_executions: what has expired is
\* written down, the passages are not read and no result is returned.
List ==
    /\ auth' = [r \in Requests |-> IF Open(auth[r]) /\ auth[r].late
                    THEN [auth[r] EXCEPT !.status = "expired"] ELSE auth[r]]
    /\ exec' = [r \in Requests |-> IF exec[r].status = "running" /\ exec[r].late
                    THEN End(exec[r], "unknown") ELSE exec[r]]
    /\ shown' = [r \in Requests |-> [status |-> exec'[r].status, result |-> None]]
    /\ UNCHANGED <<envVars, handler, task, calls>>

-----------------------------------------------------------------------------
(* execute: the slot, the guard, the session and the claim.                *)

\* Mutation: the target of the process is not compared with the grant's.
MayAdmitAnyTarget(s, a) == a.status = "authorized" /\ handler[s] = Free

MayAdmit(s, a) ==
    a.status = "authorized" /\ a.target = Target[s] /\ handler[s] = Free

\* The grant is read, the target compared, and the slot taken or refused.
Admit(s, r) ==
    LET a == AuthRead(r) IN
    /\ auth[r].status \notin {"none", "consumed"}
    /\ auth' = [auth EXCEPT ![r] = a]
    /\ handler' = IF MayAdmit(s, a)
                  THEN [handler EXCEPT ![s] = [pc |-> "guard", req |-> r]]
                  ELSE handler
    /\ UNCHANGED <<envVars, exec, task, calls, shown>>

GuardAdmits(s) ==
    /\ handler[s].pc = "guard"
    /\ handler' = [handler EXCEPT ![s].pc = "admitted"]
    /\ UNCHANGED <<envVars, rowVars, task, calls, shown>>

\* The guard refuses, or the client goes away: the permit is dropped.
Refused(s) ==
    /\ handler[s].pc \in {"guard", "admitted"}
    /\ handler' = [handler EXCEPT ![s] = Free]
    /\ UNCHANGED <<envVars, rowVars, task, calls, shown>>

\* claim_answer_execution: the grant is consumed and the execution is there,
\* in one transaction.
Consume(r) ==
    /\ auth' = [auth EXCEPT ![r].status = "consumed"]
    /\ exec' = [exec EXCEPT ![r] = [NoExec EXCEPT !.status = "running", !.bound = doc]]

\* Mutation: the permit of a request that claimed nothing is not dropped.
ReleaseNever(s) == UNCHANGED handler

\* The permit is dropped.
Release(s) == handler' = [handler EXCEPT ![s] = Free]

Claim(s) ==
    LET r == handler[s].req
        a == AuthRead(r)
        granted == session /\ exec[r].status = "none" /\ a.status = "authorized"
    IN
    /\ handler[s].pc = "admitted"
    /\ \/ /\ ~granted /\ Release(s)
          /\ auth' = IF session /\ exec[r].status = "none"
                     THEN [auth EXCEPT ![r] = a] ELSE auth
          /\ UNCHANGED <<exec, task, faults>>
       \/ /\ granted /\ Consume(r)
          /\ handler' = [handler EXCEPT ![s].pc = "running"]
          /\ task' = [task EXCEPT ![r].pc = "guard", ![r].server = s]
          /\ UNCHANGED faults
       \/ /\ granted /\ faults < MaxFaults
          /\ Consume(r) /\ Release(s) /\ faults' = faults + 1 /\ UNCHANGED task
    /\ UNCHANGED <<doc, edits, session, calls, shown>>

-----------------------------------------------------------------------------
(* execute_once: one attempt of at most 55 seconds, then its outcome.      *)

At(r, pc) == task[r].pc = pc
Goto(r, pc) == task' = [task EXCEPT ![r].pc = pc] /\ UNCHANGED handler

\* The attempt returns; the permit goes with it.
Leave(r, out) ==
    /\ task' = [task EXCEPT ![r].pc = "finish", ![r].out = out]
    /\ IF task[r].pc \in Holding THEN Release(task[r].server) ELSE UNCHANGED handler

\* still_valid: the session, then check_answer_execution with its writes.
StillValid(r, valid) ==
    /\ exec' = IF session THEN [exec EXCEPT ![r] = ExecRead(r)] ELSE exec
    /\ valid => session /\ exec'[r].status = "running"

GuardAgain(r) ==
    /\ At(r, "guard")
    /\ Goto(r, "check") \/ Leave(r, "unknown")
    /\ UNCHANGED <<envVars, rowVars, calls, shown>>

\* before_send, around the send marker.
Check(r) ==
    /\ \/ At(r, "check") /\ StillValid(r, TRUE) /\ Goto(r, "begin")
       \/ At(r, "recheck") /\ StillValid(r, TRUE) /\ Goto(r, "send")
       \/ task[r].pc \in {"check", "recheck"}
          /\ StillValid(r, FALSE) /\ Leave(r, "failed")
    /\ UNCHANGED <<envVars, auth, calls, shown>>

\* begin_answer_execution, whose answer may be lost.
Begin(r) ==
    LET e == ExecRead(r)
        may == e.status = "running" /\ ~e.sent
    IN
    /\ At(r, "begin")
    /\ exec' = [exec EXCEPT ![r] = IF may THEN [e EXCEPT !.sent = TRUE] ELSE e]
    /\ (may /\ Goto(r, "recheck")) \/ Leave(r, "failed")
    /\ UNCHANGED <<envVars, auth, calls, shown>>

\* provider.answer.
Send(r) ==
    /\ At(r, "send") /\ Goto(r, "sent")
    /\ calls' = [calls EXCEPT ![r] = [n |-> @.n + 1, to |-> Target[task[r].server]]]
    /\ UNCHANGED <<envVars, rowVars, shown>>

\* The provider answers and the last look of the guard passes or fails; the
\* output is good, invalid or an error.
Answer(r) ==
    /\ At(r, "sent")
    /\ \E out \in Outcomes : task' = [task EXCEPT ![r].pc = "answered", ![r].out = out]
    /\ Release(task[r].server)
    /\ UNCHANGED <<envVars, rowVars, calls, shown>>

FinalCheck(r) ==
    /\ At(r, "answered")
    /\ \/ StillValid(r, TRUE) /\ Leave(r, task[r].out)
       \/ StillValid(r, FALSE) /\ Leave(r, "unknown")
    /\ UNCHANGED <<envVars, auth, calls, shown>>

\* Every half second the attempt looks whether it may go on.
Poll(r) ==
    /\ task[r].pc \in Holding
    /\ StillValid(r, FALSE) /\ Leave(r, "unknown")
    /\ UNCHANGED <<envVars, auth, calls, shown>>

\* The 55 seconds, or the monitor of the guard, end the attempt.
Stopped(r) ==
    /\ task[r].pc \in Holding \cup {"answered"} /\ Leave(r, "unknown")
    /\ UNCHANGED <<envVars, rowVars, calls, shown>>

\* finish_answer_execution: an outcome counts only for a running execution,
\* and an answer only behind its send marker.
Outcome(r) ==
    LET e == ExecRead(r)
        out == task[r].out
    IN  IF e.status # "running" THEN e
        ELSE IF out # "succeeded" THEN End(e, out)
        ELSE IF e.sent THEN [e EXCEPT !.status = "succeeded", !.result = e.bound]
        ELSE e

Finish(r) ==
    /\ At(r, "finish") /\ Goto(r, "done")
    /\ \/ exec' = [exec EXCEPT ![r] = Outcome(r)] /\ UNCHANGED faults
       \/ faults < MaxFaults /\ faults' = faults + 1 /\ UNCHANGED exec
    /\ UNCHANGED <<doc, edits, session, auth, calls, shown>>

\* The process ends and with it the slot, the request and the tasks.
Crash(s) ==
    /\ faults < MaxFaults /\ faults' = faults + 1
    /\ handler' = [handler EXCEPT ![s] = Free]
    /\ task' = [r \in Requests |-> IF task[r].server = s
                    THEN [task[r] EXCEPT !.pc = "done"] ELSE task[r]]
    /\ UNCHANGED <<doc, edits, session, rowVars, calls, shown>>

Step(r) ==
    \/ GuardAgain(r) \/ Check(r) \/ Begin(r) \/ Send(r) \/ Answer(r) \/ FinalCheck(r)
    \/ Stopped(r) \/ Finish(r)

Next ==
    \/ EditDocument \/ SessionEnds \/ List
    \/ \E r \in Requests :
           \/ GrantLapses(r) \/ ExecutionLapses(r) \/ Prepare(r) \/ Detail(r)
           \/ Approve(r) \/ Cancel(r) \/ View(r) \/ Step(r) \/ Poll(r)
    \/ \E s \in Servers :
           \/ \E r \in Requests : Admit(s, r)
           \/ GuardAdmits(s) \/ Refused(s) \/ Claim(s) \/ Crash(s)

Spec == Init /\ [][Next]_vars

\* A request runs to its end, and so does a task: the guard, the store and
\* the attempt all have timeouts.
Fairness ==
    /\ \A s \in Servers : WF_vars(Refused(s)) /\ WF_vars(Claim(s))
    /\ \A r \in Requests : WF_vars(Step(r))

FairSpec == Spec /\ Fairness

-----------------------------------------------------------------------------
(* Properties. *)

\* The provider is called at most once for a grant, behind the send marker
\* that only the claim of the grant can write, at the target the user
\* approved, and never by two tasks of a process at a time (execute,
\* answer_checked).
SentAsApproved ==
    /\ TypeOK
    /\ \A r \in Requests :
           /\ calls[r].n <= 1
           /\ calls[r].n = 1 => /\ auth[r].status = "consumed" /\ exec[r].sent
                                /\ calls[r].to = auth[r].target
           /\ task[r].pc \in Holding =>
                  handler[task[r].server] = [pc |-> "running", req |-> r]

\* No slot is lost: one that is taken for good is held by the attempt of its
\* request, in the same process, which its 55 seconds end if nothing else
\* does; whatever was refused, failed or crashed behind the claim, no slot is
\* held for nobody (AnswerExecutionPermit).
SlotsAreUsed ==
    \A s \in Servers : handler[s].pc = "running" =>
        LET attempt == task[handler[s].req] IN
        attempt.pc \in Holding /\ attempt.server = s

\* A result is shown only while the passages are the ones the user approved
\* and the model read, however often they changed between (read, View).
ShownIsCurrent ==
    [][\A r \in Requests : shown'[r] # shown[r] /\ shown'[r].result # None =>
           /\ shown'[r].result = doc /\ doc = auth[r].bound
           /\ calls[r].n = 1]_vars

\* A grant that is spent or ended and an execution that ended stay so: a late
\* answer, a late marker, a retry or a document that changes back revives
\* nothing, and the result is gone with its execution (terminal, finish).
EndedIsFinal ==
    [][\A r \in Requests :
           /\ auth[r].status \notin {"none", "draft", "authorized"} =>
                  auth'[r].status = auth[r].status
           /\ exec[r].status \in Ended =>
                  exec'[r].status = exec[r].status /\ exec'[r].result = None
           /\ exec[r].status # "none" => exec'[r].status # "none"]_vars

\* The only slot of a process is always free again, whatever the guard, the
\* session, the claim and the provider do (AnswerExecutionPermit).
SlotFreed == \A s \in Servers : []<>(handler[s] = Free)
=============================================================================

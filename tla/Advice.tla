------------------------------- MODULE Advice -------------------------------
(***************************************************************************)
(* Reviews of training evidence by a model: what the user allows to be     *)
(* shared with it, and the one call that may follow                        *)
(* (storage-postgres/learning/model_authorization.rs, model_execution.rs,  *)
(* model_review.rs, agent-core/learning_model_execution.rs).               *)
(*                                                                         *)
(* An authorization keeps a digest, not the material: whoever reads it     *)
(* makes the preview again from the tables of Learning, and writes down    *)
(* what time or a change made of it.  Triggers do the same at the change.  *)
(***************************************************************************)
EXTENDS Learning

CONSTANTS
    Authorizations, Workers,    \* requests, futures of execute_model_review
    MaxLink, MaxFaults          \* bounds of a behaviour

ASSUME AdviceAssumption ==
    /\ {MaxLink, MaxFaults} \subseteq Nat
    /\ None \notin Workers

VARIABLES
    link,           \* the subscription connection, as this component sees it
    auth,           \* learning_model_authorizations
    worker,         \* executions, with their copy of the claimed row
    died,           \* workers that died
    asked           \* observation: calls of the model

adviceVars == <<link, auth, worker, died, asked>>
allLearningVars == <<learningVars, adviceVars>>

AllowedOnly == {"draft", "authorized"}
LiveAdvice == AllowedOnly \cup {"running", "succeeded"}
EndedAdvice == {"unknown", "cancelled", "expired", "invalidated"}

NoAuth == [status |-> "none", plan |-> None, task |-> None, local |-> FALSE,
           quoted |-> 0, late |-> FALSE, token |-> None, overdue |-> FALSE,
           sent |-> FALSE, advice |-> FALSE]
Resting == [pc |-> "idle", req |-> None, copy |-> NoAuth, output |-> FALSE]

AuthType ==
    [status: {"none"} \cup LiveAdvice \cup EndedAdvice, plan: Plans \cup {None},
     task: Skills \cup {None}, local: BOOLEAN, quoted: 0 .. MaxLink, late: BOOLEAN,
     token: Workers \cup {None}, overdue: BOOLEAN, sent: BOOLEAN, advice: BOOLEAN]

AdviceTypeOK ==
    /\ LearningTypeOK
    /\ link \in [rev: 0 .. MaxLink, active: BOOLEAN, late: BOOLEAN]
    /\ auth \in [Authorizations -> AuthType]
    /\ worker \in [Workers -> [pc: {"idle", "claimed", "verified", "marked", "finish"},
                               req: Authorizations \cup {None}, copy: AuthType,
                               output: BOOLEAN]]
    /\ died \in 0 .. MaxFaults /\ asked \in [Authorizations -> 0 .. 2]

AdviceInit ==
    /\ LearningInit
    /\ link = [rev |-> 0, active |-> FALSE, late |-> FALSE]
    /\ auth = [m \in Authorizations |-> NoAuth]
    /\ worker = [w \in Workers |-> Resting]
    /\ died = 0
    /\ asked = [m \in Authorizations |-> 0]

-----------------------------------------------------------------------------
(* What a read makes of a row.                                             *)

EndAdvice(row, status) == [row EXCEPT !.status = status, !.advice = FALSE]

\* connection
Linked(row) == row.local \/ (link.active /\ ~link.late /\ link.rev = row.quoted)

\* model_review::read, of a completed task with its evidence.
Reviewable(p, s) ==
    /\ Kept(p, s) /\ Available(p)
    /\ Current(s, plan[p].task[s])

\* model_authorization::read
AdviceRead(row) ==
    IF row.status = "running" /\ row.overdue THEN EndAdvice(row, "unknown")
    ELSE IF row.status \in AllowedOnly /\ row.late THEN EndAdvice(row, "expired")
    ELSE IF row.status \in LiveAdvice /\ ~(Linked(row) /\ Reviewable(row.plan, row.task))
         THEN EndAdvice(row, "invalidated")
    ELSE row

-----------------------------------------------------------------------------
(* The triggers on what an authorization rests on.                         *)

\* Mutation: as before authorizations were executed.
WithdrawnAllowance(row) ==
    IF row.status \in AllowedOnly THEN EndAdvice(row, "invalidated") ELSE row

WithdrawnAdvice(row) ==
    IF row.status \in LiveAdvice THEN EndAdvice(row, "invalidated") ELSE row

\* invalidate_learning_model_authorizations: a row that is updated or deleted.
Disturbed(row) ==
    \/ \E s \in Known : skill'[s] # skill[s]
    \/ \E a \in Assessments : /\ assessment[a] # NoAssessment
                              /\ assessment'[a] # assessment[a]
    \/ row.plan # None /\
        \/ plan'[row.plan] # plan[row.plan]
        \/ LET old == training[row.plan][row.task].evidence IN
           old # "none" /\ training'[row.plan][row.task].evidence # old

\* An operation of Learning, with these triggers.
LearningChanges ==
    /\ LearningNext
    /\ auth' = [m \in Authorizations |-> IF Disturbed(auth[m])
                                         THEN WithdrawnAdvice(auth[m]) ELSE auth[m]]
    /\ UNCHANGED <<link, worker, died, asked>>

\* The connection is renewed, revoked or expired: one revision more.
LinkChanges ==
    /\ link.rev < MaxLink
    /\ \E on \in BOOLEAN : link' = [rev |-> link.rev + 1, active |-> on, late |-> FALSE]
    /\ auth' = [m \in Authorizations |-> IF auth[m].local THEN auth[m]
                                         ELSE WithdrawnAdvice(auth[m])]
    /\ UNCHANGED <<learningVars, worker, died, asked>>

-----------------------------------------------------------------------------
(* The owner's requests.                                                   *)

\* create_bound, which quotes the revision of the connection.
Propose(m, p, s, local) ==
    LET row == [NoAuth EXCEPT !.status = "draft", !.plan = p, !.task = s,
                    !.local = local, !.quoted = IF local THEN 0 ELSE link.rev]
    IN  /\ auth[m].status = "none"
        /\ Linked(row) /\ Reviewable(p, s)
        /\ auth' = [auth EXCEPT ![m] = row]
        /\ UNCHANGED <<learningVars, link, worker, died, asked>>

Rewrite(m, row) ==
    /\ auth[m].status # "none"
    /\ auth' = [auth EXCEPT ![m] = row]
    /\ UNCHANGED <<learningVars, link, worker, died, asked>>

\* approve_bound; of what is not a draft any more it is a read.
ApproveAdvice(m) ==
    LET row == AdviceRead(auth[m]) IN
    Rewrite(m, IF row.status = "draft" THEN [row EXCEPT !.status = "authorized"] ELSE row)

CancelAdvice(m) ==
    LET row == AdviceRead(auth[m]) IN
    Rewrite(m, IF row.status \in LiveAdvice THEN EndAdvice(row, "cancelled") ELSE row)

\* get, list, and a request that is repeated.
ReadAdvice(m) == Rewrite(m, AdviceRead(auth[m]))

AdviceRequests ==
    \E m \in Authorizations :
        \/ \E p \in Plans, s \in Skills, local \in BOOLEAN : Propose(m, p, s, local)
        \/ ApproveAdvice(m) \/ CancelAdvice(m) \/ ReadAdvice(m)

-----------------------------------------------------------------------------
(* An execution.                                                           *)

Store(m, row) ==
    /\ auth' = [auth EXCEPT ![m] = row]
    /\ UNCHANGED <<learningVars, link, died>>

To(w, pc, output) ==
    worker' = [worker EXCEPT ![w].pc = pc, ![w].output = output]
Rest(w) == worker' = [worker EXCEPT ![w] = Resting]

\* claim_bound_review
ClaimAdvice(w, m) ==
    LET row == [AdviceRead(auth[m]) EXCEPT !.status = "running", !.token = w] IN
    /\ worker[w].pc = "idle"
    /\ AdviceRead(auth[m]).status = "authorized" /\ auth[m].token = None
    /\ Store(m, row)
    /\ worker' = [worker EXCEPT ![w] =
                    [pc |-> "claimed", req |-> m, copy |-> row, output |-> FALSE]]
    /\ UNCHANGED asked

VerifyAdvice(w) ==
    /\ worker[w].pc = "claimed"
    /\ \E pc \in {"verified", "finish"} : To(w, pc, FALSE)
    /\ UNCHANGED <<learningVars, link, auth, died, asked>>

MarkedAdvice(row) == [row EXCEPT !.sent = TRUE]

\* begin_model_review, begin_local_review
BeginAdvice(w) ==
    LET m == worker[w].req row == AdviceRead(auth[m]) IN
    /\ worker[w].pc = "verified" /\ row.token = w
    /\ IF row.status = "running" /\ ~row.sent
       THEN /\ row = worker[w].copy
            /\ Store(m, MarkedAdvice(row)) /\ To(w, "marked", FALSE)
       ELSE Store(m, row) /\ To(w, "finish", FALSE)
    /\ UNCHANGED asked

\* The proof ran out, or the store failed: the claim stays until its deadline.
RefusedAdvice(w) ==
    /\ worker[w].pc \in {"verified", "finish"}
    /\ Rest(w)
    /\ UNCHANGED <<learningVars, link, auth, died, asked>>

\* The one call, with an output that may answer the preview.
Ask(w) ==
    /\ worker[w].pc = "marked"
    /\ asked' = [asked EXCEPT ![worker[w].req] = @ + 1]
    /\ \E output \in BOOLEAN : To(w, "finish", output)
    /\ UNCHANGED <<learningVars, link, auth, died>>

AdviceOutcome(row, output) ==
    IF row.status # "running" THEN row
    ELSE IF output /\ row.sent
         THEN [row EXCEPT !.status = "succeeded", !.advice = TRUE]
         ELSE EndAdvice(row, "unknown")

\* finish_model_review
FinishAdvice(w) ==
    LET m == worker[w].req row == AdviceRead(auth[m]) IN
    /\ worker[w].pc = "finish" /\ row.token = w
    /\ Store(m, AdviceOutcome(row, worker[w].output))
    /\ Rest(w) /\ UNCHANGED asked

WorkerDies(w) ==
    /\ died < MaxFaults /\ worker[w].pc # "idle"
    /\ died' = died + 1
    /\ Rest(w)
    /\ UNCHANGED <<learningVars, link, auth, asked>>

AdviceExecution ==
    \E w \in Workers :
        \/ \E m \in Authorizations : ClaimAdvice(w, m)
        \/ VerifyAdvice(w) \/ BeginAdvice(w) \/ RefusedAdvice(w) \/ Ask(w)
        \/ FinishAdvice(w) \/ WorkerDies(w)

-----------------------------------------------------------------------------
(* The clock.  An authorization ends with its connection at the latest.    *)

AuthLapses ==
    /\ \E m \in Authorizations :
        /\ auth[m].status \in LiveAdvice /\ ~auth[m].late
        /\ auth' = [auth EXCEPT ![m].late = TRUE, ![m].overdue = TRUE]
    /\ UNCHANGED <<learningVars, link, worker, died, asked>>

AdviceClaimLapses ==
    /\ \E m \in Authorizations :
        /\ auth[m].status = "running" /\ ~auth[m].overdue
        /\ auth' = [auth EXCEPT ![m].overdue = TRUE]
    /\ UNCHANGED <<learningVars, link, worker, died, asked>>

LinkLapses ==
    /\ link.active /\ ~link.late
    /\ link' = [link EXCEPT !.late = TRUE]
    /\ auth' = [m \in Authorizations |->
                 IF ~auth[m].local /\ auth[m].status \in LiveAdvice
                 THEN [auth[m] EXCEPT !.late = TRUE, !.overdue = TRUE] ELSE auth[m]]
    /\ UNCHANGED <<learningVars, worker, died, asked>>

AdviceNext ==
    \/ LearningChanges \/ LinkChanges \/ AdviceRequests \/ AdviceExecution
    \/ AuthLapses \/ AdviceClaimLapses \/ LinkLapses

-----------------------------------------------------------------------------
(* Advice is stored only while what it is about stands as it was approved: *)
(* the plan, the evidence, the revision of the skill, the scores the plan  *)
(* was made from and the revision of the connection                        *)
(* (0039_learning_model_execution.sql:11); and a model sees evidence at    *)
(* most once for an authorization, behind its durable marker               *)
(* (learning/model_execution.rs:55).                                       *)
AdviceIsBacked ==
    /\ AdviceTypeOK
    /\ \A m \in Authorizations :
           /\ auth[m].advice =>
                 /\ auth[m].status = "succeeded"
                 /\ Reviewable(auth[m].plan, auth[m].task)
                 /\ ~auth[m].local => link.rev = auth[m].quoted
           /\ asked[m] <= 1
           /\ asked[m] = 1 => auth[m].sent /\ auth[m].token # None

=============================================================================

----------------------------- MODULE IndexJobs -----------------------------
(***************************************************************************)
(* Indexing jobs: one row per document in document_index_jobs (for one     *)
(* index target), claimed by the background loop of every api-server under *)
(* a lease, one batch of chunks at a time.  A batch is embedded by a paid  *)
(* model and written to the vector store; between those calls and the row  *)
(* there is no transaction.                                                *)
(*                                                                         *)
(* A lease token is a fresh UUID: it differs from every token that is      *)
(* still in a row or in a process.                                         *)
(***************************************************************************)
EXTENDS Integers, FiniteSets

CONSTANTS
    Documents,
    Chunks,         \* Chunks[d]: number of chunks of document d
    BatchSize,      \* chunks per batch: 16
    MaxAttempts,    \* claims per batch: 3
    Workers,        \* api-server processes
    Leases,         \* lease tokens
    MaxFaults,      \* bound on crashes and failed store calls
    None

ASSUME JobAssumption ==
    /\ Chunks \in [Documents -> Nat \ {0}]
    /\ BatchSize \in Nat \ {0}
    /\ MaxAttempts \in Nat \ {0}
    /\ MaxFaults \in Nat
    /\ None \notin Leases \union Documents

VARIABLES
    job,            \* document_index_jobs
    vectors,        \* ordinals of the chunks stored in the vector index
    worker,         \* the background loop of each process
    faults,
    tries           \* observation: claims since the last progress or resubmission

vars == <<job, vectors, worker, faults, tries>>

Statuses == {"absent", "queued", "running", "retrying", "completed", "failed"}
Pending == {"queued", "running", "retrying"}

Rows ==
    [status: Statuses, indexed: Nat, attempts: 0 .. MaxAttempts,
     lease: Leases \union {None},
     live: BOOLEAN,                 \* lease_until > NOW()
     due: BOOLEAN]                  \* available_at <= NOW()

NoJob == [status |-> "absent", indexed |-> 0, attempts |-> 0, lease |-> None,
          live |-> FALSE, due |-> TRUE]

\* pc names the next call of run_one_job.
Places == {"sweep", "claim", "load", "embed", "store", "finish"}
Outcomes == {"none", "success", "retry", "failed"}

Loops ==
    [pc: Places, document: Documents \union {None}, lease: Leases \union {None},
     from: Nat, attempts: 0 .. MaxAttempts, outcome: Outcomes]

Idle == [pc |-> "sweep", document |-> None, lease |-> None, from |-> 0,
         attempts |-> 0, outcome |-> "none"]

TypeOK ==
    /\ job \in [Documents -> Rows]
    /\ vectors \in [Documents -> SUBSET Nat]
    /\ worker \in [Workers -> Loops]
    /\ faults \in 0 .. MaxFaults
    /\ tries \in [Documents -> Nat]

Init ==
    /\ job = [d \in Documents |-> NoJob]
    /\ vectors = [d \in Documents |-> {}]
    /\ worker = [w \in Workers |-> Idle]
    /\ faults = 0
    /\ tries = [d \in Documents |-> 0]

Fault == faults < MaxFaults /\ faults' = faults + 1

\* The end of the batch that starts at chunk n of document d.
BatchEnd(d, n) ==
    IF n + BatchSize <= Chunks[d] THEN n + BatchSize ELSE Chunks[d]
BatchAt(d, n) == n .. BatchEnd(d, n) - 1

-----------------------------------------------------------------------------
(* Users and time. *)

\* POST index-job: a new job, or a failed one taken up again from its
\* confirmed progress; any other job is left as it is.
Enqueue(d) ==
    /\ \/ /\ job[d].status = "absent"
          /\ job' = [job EXCEPT ![d].status = "queued"]
       \/ /\ job[d].status = "failed"
          /\ job' = [job EXCEPT ![d].status = "queued", ![d].attempts = 0,
                                ![d].due = TRUE]
    /\ tries' = [tries EXCEPT ![d] = 0]
    /\ UNCHANGED <<vectors, worker, faults>>

\* POST index: the older synchronous call writes one batch from any offset
\* and leaves the jobs alone.
IndexNow(d, n) ==
    /\ n < Chunks[d]
    /\ vectors' = [vectors EXCEPT ![d] = @ \union BatchAt(d, n)]
    /\ UNCHANGED <<job, worker, faults, tries>>

LeaseLapses(d) ==
    /\ job[d].status = "running"
    /\ job[d].live
    /\ job' = [job EXCEPT ![d].live = FALSE]
    /\ UNCHANGED <<vectors, worker, faults, tries>>

DelayPasses(d) ==
    /\ ~job[d].due
    /\ job' = [job EXCEPT ![d].due = TRUE]
    /\ UNCHANGED <<vectors, worker, faults, tries>>

-----------------------------------------------------------------------------
(* The loop of a process. *)

At(w, pc) == worker[w].pc = pc
Goto(w, pc) == worker' = [worker EXCEPT ![w].pc = pc]
FinishWith(w, outcome) ==
    worker' = [worker EXCEPT ![w].pc = "finish", ![w].outcome = outcome]
Rest(w) == worker' = [worker EXCEPT ![w] = Idle]

\* Mutation: jobs whose last claim was lost are not given up.
ExhaustedNever == {}

\* Jobs whose last claim lapsed.
Exhausted ==
    {d \in Documents : /\ job[d].status = "running"
                       /\ ~job[d].live
                       /\ job[d].attempts >= MaxAttempts}

\* The first statement of claim gives up the exhausted jobs, in a
\* transaction of its own.
Sweep(w) ==
    /\ At(w, "sweep")
    /\ \/ /\ job' = [d \in Documents |->
                 IF d \in Exhausted
                 THEN [job[d] EXCEPT !.status = "failed", !.lease = None,
                                     !.live = FALSE]
                 ELSE job[d]]
          /\ Goto(w, "claim")
          /\ UNCHANGED faults
       \/ Fault /\ UNCHANGED <<job, worker>>
    /\ UNCHANGED <<vectors, tries>>

\* The WHERE clause of the claim.
Claimable(d) ==
    /\ job[d].attempts < MaxAttempts
    /\ \/ job[d].status \in {"queued", "retrying"} /\ job[d].due
       \/ job[d].status = "running" /\ ~job[d].live

FreshLeases ==
    Leases \ ({job[d].lease : d \in Documents} \union
              {worker[w].lease : w \in Workers})

\* The second statement: one candidate row is taken under a new lease.  With
\* a fault the claim is committed and its answer lost.
Claim(w) ==
    /\ At(w, "claim")
    /\ \E d \in Documents, token \in FreshLeases :
           /\ Claimable(d)
           /\ job' = [job EXCEPT ![d].status = "running", ![d].attempts = @ + 1,
                                 ![d].lease = token, ![d].live = TRUE]
           /\ tries' = [tries EXCEPT ![d] = @ + 1]
           /\ \/ /\ worker' = [worker EXCEPT ![w] =
                        [pc |-> "load", document |-> d, lease |-> token,
                         from |-> job[d].indexed,
                         attempts |-> job[d].attempts + 1, outcome |-> "none"]]
                 /\ UNCHANGED faults
              \/ Fault /\ Rest(w)
    /\ UNCHANGED vectors

NoCandidate(w) ==
    /\ At(w, "claim")
    /\ \/ (\A d \in Documents : ~Claimable(d)) /\ UNCHANGED faults
       \/ Fault
    /\ Rest(w)
    /\ UNCHANGED <<job, vectors, tries>>

\* The document is read; a missing or damaged one fails the job for good.
\* The 35 second timeout may end this and the next two calls.
Load(w) ==
    /\ At(w, "load")
    /\ Goto(w, "embed") \/ FinishWith(w, "retry") \/ FinishWith(w, "failed")
    /\ UNCHANGED <<job, vectors, faults, tries>>

\* The model embeds the batch; an invalid answer fails the job for good.
Embed(w) ==
    /\ At(w, "embed")
    /\ Goto(w, "store") \/ FinishWith(w, "retry") \/ FinishWith(w, "failed")
    /\ UNCHANGED <<job, vectors, faults, tries>>

\* The batch is written to the vector store; a write whose answer is an
\* error or late may have happened.
Store(w) ==
    LET d == worker[w].document IN
    /\ At(w, "store")
    /\ \/ /\ vectors' = [vectors EXCEPT ![d] = @ \union BatchAt(d, worker[w].from)]
          /\ FinishWith(w, "success") \/ FinishWith(w, "retry")
       \/ FinishWith(w, "retry") /\ UNCHANGED vectors
    /\ UNCHANGED <<job, faults, tries>>

\* The WHERE clause of finish_batch: the token is that of the row and its
\* lease has not lapsed.
Holds(w) ==
    LET row == job[worker[w].document] IN
    /\ row.lease = worker[w].lease
    /\ row.status = "running"
    /\ row.live

\* Mutation: a retry is counted as if the batch had been confirmed.
ConfirmedRetry(w) ==
    LET d == worker[w].document
        end == BatchEnd(d, worker[w].from)
    IN  [job[d] EXCEPT !.status = IF end = Chunks[d] THEN "completed" ELSE "queued",
             !.indexed = end, !.attempts = 0, !.lease = None, !.live = FALSE]

\* The row after finish_batch: a success confirms the batch and clears the
\* attempts, a retry waits (5 or 20 seconds) unless it was the last attempt.
Confirmed(w) ==
    LET d     == worker[w].document
        end   == BatchEnd(d, worker[w].from)
        again == worker[w].outcome = "retry" /\ worker[w].attempts < MaxAttempts
        row   == [job[d] EXCEPT !.lease = None, !.live = FALSE]
    IN
    IF worker[w].outcome = "success"
    THEN [row EXCEPT !.status = IF end = Chunks[d] THEN "completed" ELSE "queued",
                     !.indexed = end, !.attempts = 0, !.due = TRUE]
    ELSE [row EXCEPT !.status = IF again THEN "retrying" ELSE "failed",
                     !.indexed = worker[w].from,
                     !.attempts = worker[w].attempts, !.due = ~again]

\* finish_batch.  With a fault it may be committed or not; either way the
\* loop goes on with its next turn.
Finish(w) ==
    LET d == worker[w].document IN
    /\ At(w, "finish")
    /\ \/ /\ Holds(w)
          /\ job' = [job EXCEPT ![d] = Confirmed(w)]
          /\ tries' = IF worker[w].outcome = "success"
                      THEN [tries EXCEPT ![d] = 0] ELSE tries
          /\ UNCHANGED faults \/ Fault
       \/ ~Holds(w) /\ UNCHANGED <<job, tries, faults>>
       \/ Fault /\ UNCHANGED <<job, tries>>
    /\ Rest(w)
    /\ UNCHANGED vectors

\* A process goes down and comes up again with an idle loop.
Crash(w) ==
    /\ ~At(w, "sweep")
    /\ Fault
    /\ Rest(w)
    /\ UNCHANGED <<job, vectors, tries>>

Running(w) ==
    \/ Sweep(w) \/ Claim(w) \/ NoCandidate(w) \/ Load(w) \/ Embed(w)
    \/ Store(w) \/ Finish(w)

Next ==
    \/ \E d \in Documents : Enqueue(d) \/ LeaseLapses(d) \/ DelayPasses(d)
    \/ \E d \in Documents : \E n \in 0 .. Chunks[d] - 1 : IndexNow(d, n)
    \/ \E w \in Workers : Running(w) \/ Crash(w)

Spec == Init /\ [][Next]_vars

\* Time passes, and the loop of a process goes on with bounded waits.
Fairness ==
    /\ \A d \in Documents : WF_vars(LeaseLapses(d)) /\ WF_vars(DelayPasses(d))
    /\ \A w \in Workers : WF_vars(Running(w))

FairSpec == Spec /\ Fairness

-----------------------------------------------------------------------------
(* Properties. *)

\* Confirmed progress is real: every chunk below the progress of a job is in
\* the vector store, whatever batches were repeated, timed out or finished
\* by an executor that had lost its lease (index_jobs.rs finish_batch).
ConfirmedIsStored ==
    \A d \in Documents : 0 .. job[d].indexed - 1 \subseteq vectors[d]

\* A batch is claimed at most MaxAttempts times until it succeeds or the
\* user submits the job again, so crashes cannot run up model costs: no
\* stale finish winds the attempts back (claim and finish_batch).
TriesAreBounded == \A d \in Documents : tries[d] <= MaxAttempts

\* Progress goes from batch to batch, although an older executor may finish
\* after a newer one: it is never wound back, never skips a chunk, and a
\* completed job is never taken up again, so that neither a late executor
\* nor a repeated submission makes a document be paid for twice.
ProgressIsContiguous ==
    [][\A d \in Documents :
         /\ job'[d].indexed # job[d].indexed =>
                job'[d].indexed = BatchEnd(d, job[d].indexed)
         /\ job[d].status = "completed" => job'[d].status = "completed"]_vars

\* Every submitted job ends, completed or failed, whichever processes crash.
JobsEnd ==
    \A d \in Documents :
        (job[d].status \in Pending) ~> (job[d].status \notin Pending)
=============================================================================

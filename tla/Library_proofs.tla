--------------------------- MODULE Library_proofs ---------------------------
(***************************************************************************)
(* Proofs about the parts of MCLibrary: IndexJobs, for every set of        *)
(* documents, processes and lease tokens and every batch size; and, as     *)
(* parts of MCSpec, Originals, MessageCache and TextRelay.                 *)
(***************************************************************************)
EXTENDS MCLibrary, SequenceTheorems, TLAPS

(* IndexJobs.  StoredInv needs no fencing: what a loop writes back was     *)
(* stored before, whoever holds the lease.  The bound on the attempts and  *)
(* the contiguous progress do: they rest on FenceInv, that the loop whose  *)
(* token is in the row still knows the row's attempts and progress.        *)

\* A loop between its claim and its finish.
Busy(w) == worker[w].pc \in {"load", "embed", "store", "finish"}

LoopInv ==
    \A w \in Workers :
        /\ Busy(w) => worker[w].document # None /\ worker[w].lease # None
        /\ worker[w].pc = "finish" => worker[w].outcome # "none"

\* What a row or a loop claims to be stored is.
StoredInv ==
    /\ ConfirmedIsStored
    /\ \A w \in Workers : Busy(w) =>
           /\ 0 .. worker[w].from - 1 \subseteq vectors[worker[w].document]
           /\ worker[w].pc = "finish" /\ worker[w].outcome = "success" =>
                  BatchAt(worker[w].document, worker[w].from)
                      \subseteq vectors[worker[w].document]

\* Only the row of a running job has a lease, and the loop with that lease
\* knows the row.
FenceInv ==
    /\ \A d \in Documents : job[d].status = "running" <=> job[d].lease # None
    /\ \A w \in Workers : Busy(w) =>
           LET line == job[worker[w].document] IN
           line.lease = worker[w].lease =>
               /\ worker[w].from = line.indexed
               /\ worker[w].attempts = line.attempts

\* The observed claims are those the row counts, until the job ends.
TriesInv ==
    \A d \in Documents :
        /\ tries[d] <= MaxAttempts
        /\ job[d].status \in Pending => tries[d] <= job[d].attempts
        /\ job[d].status = "absent" => job[d].attempts = 0

IInv == TypeOK /\ LoopInv /\ StoredInv /\ FenceInv /\ TriesInv

-----------------------------------------------------------------------------

\* A batch ends at a chunk number.
LEMMA BatchEndType ==
    ASSUME NEW d \in Documents, NEW n \in Nat
    PROVE  BatchEnd(d, n) \in Nat
BY JobAssumption DEF BatchEnd

\* The chunks before the end of a batch are those before the batch and the
\* batch itself.
LEMMA BatchCovers ==
    ASSUME NEW d \in Documents, NEW n \in Nat
    PROVE  0 .. BatchEnd(d, n) - 1 \subseteq (0 .. n - 1) \union BatchAt(d, n)
<1>1. BatchEnd(d, n) \in Nat BY BatchEndType
<1> QED BY <1>1 DEF BatchAt

LEMMA BatchAtType ==
    ASSUME NEW d \in Documents, NEW n \in Nat
    PROVE  BatchAt(d, n) \in SUBSET Nat
<1>1. BatchEnd(d, n) \in Nat BY BatchEndType
<1> QED BY <1>1 DEF BatchAt

\* The row a finish writes is a row.
LEMMA ConfirmedType ==
    ASSUME TypeOK, NEW w \in Workers, worker[w].document # None
    PROVE  /\ Confirmed(w) \in Rows
           /\ Confirmed(w).lease = None
           /\ Confirmed(w).status \in {"completed", "queued", "retrying", "failed"}
           /\ Confirmed(w).indexed =
                  IF worker[w].outcome = "success"
                  THEN BatchEnd(worker[w].document, worker[w].from)
                  ELSE worker[w].from
           /\ Confirmed(w).attempts =
                  IF worker[w].outcome = "success" THEN 0 ELSE worker[w].attempts
<1> DEFINE d == worker[w].document
           end == BatchEnd(d, worker[w].from)
<1>1. /\ worker[w] \in Loops
      /\ d \in Documents
      /\ job[d] \in Rows
  BY DEF TypeOK, Loops
<1>2. end \in Nat BY <1>1, BatchEndType DEF Loops
<1>3. 0 \in 0 .. MaxAttempts BY JobAssumption
<1>4. CASE worker[w].outcome = "success"
  <2>1. Confirmed(w) =
           [job[d] EXCEPT !.lease = None, !.live = FALSE,
                !.status = IF end = Chunks[d] THEN "completed" ELSE "queued",
                !.indexed = end, !.attempts = 0, !.due = TRUE]
    BY <1>4, <1>1 DEF Confirmed, Rows
  <2> QED BY <2>1, <1>1, <1>2, <1>3, <1>4, ZenonT(60) DEF Rows, Statuses
<1>5. CASE worker[w].outcome # "success"
  <2> DEFINE again == worker[w].outcome = "retry"
                      /\ worker[w].attempts < MaxAttempts
  <2>1. Confirmed(w) =
           [job[d] EXCEPT !.lease = None, !.live = FALSE,
                !.status = IF again THEN "retrying" ELSE "failed",
                !.indexed = worker[w].from,
                !.attempts = worker[w].attempts, !.due = ~again]
    BY <1>5, <1>1 DEF Confirmed, Rows
  <2>2. (~again) \in BOOLEAN OBVIOUS
  <2> HIDE DEF again
  <2> QED BY <2>1, <2>2, <1>1, <1>5 DEF Rows, Statuses, Loops
<1> QED BY <1>4, <1>5

-----------------------------------------------------------------------------

LEMMA InitHolds == Init => IInv
<1> SUFFICES ASSUME Init PROVE IInv
  OBVIOUS
<1> USE DEF Init
<1>1. TypeOK
  BY JobAssumption DEF TypeOK, NoJob, Rows, Idle, Loops, Statuses, Places, Outcomes
<1>2. LoopInv /\ FenceInv
  BY DEF LoopInv, FenceInv, Busy, NoJob, Idle
<1>3. StoredInv
  BY DEF StoredInv, ConfirmedIsStored, Busy, NoJob, Idle
<1>4. TriesInv
  BY JobAssumption DEF TriesInv, NoJob, Pending
<1> QED BY <1>1, <1>2, <1>3, <1>4 DEF IInv

\* A fault leaves the count of faults within its bound.
LEMMA FaultType ==
    ASSUME TypeOK, Fault \/ UNCHANGED faults
    PROVE  faults' \in 0 .. MaxFaults
BY JobAssumption DEF TypeOK, Fault

-----------------------------------------------------------------------------
(* Steps of users and of time: they change one row and no loop. *)

\* What a step that leaves the loops alone has to show.  It may change a row
\* that no loop holds.
LEMMA RowStep ==
    ASSUME IInv, UNCHANGED <<worker, faults>>,
           job' \in [Documents -> Rows],
           vectors' \in [Documents -> SUBSET Nat],
           tries' \in [Documents -> Nat],
           \A x \in Documents :
               /\ vectors[x] \subseteq vectors'[x]
               /\ job'[x].indexed = job[x].indexed
               /\ job'[x].lease = job[x].lease
               /\ job'[x].lease # None => job'[x].attempts = job[x].attempts
               /\ job'[x].status = "running" <=> job[x].status = "running"
               /\ tries'[x] <= MaxAttempts
               /\ job'[x].status \in Pending => tries'[x] <= job'[x].attempts
               /\ job'[x].status = "absent" => job'[x].attempts = 0
    PROVE  IInv'
<1> USE DEF IInv
<1>1. TypeOK' BY DEF TypeOK
<1>2. LoopInv' BY DEF LoopInv, Busy
<1>3. \A w \in Workers : Busy(w) => worker[w].document \in Documents
                                   /\ worker[w].lease # None
  BY DEF TypeOK, LoopInv, Loops
<1>4. StoredInv' BY <1>3 DEF StoredInv, ConfirmedIsStored, Busy, BatchAt, BatchEnd
<1>5. FenceInv' BY <1>3 DEF FenceInv, Busy
<1>6. TriesInv' BY DEF TriesInv
<1> QED BY <1>1, <1>2, <1>4, <1>5, <1>6

LEMMA EnqueueStep ==
    ASSUME IInv, NEW d \in Documents, Enqueue(d) PROVE IInv'
<1> USE DEF IInv
<1>1. job \in [Documents -> Rows] /\ tries \in [Documents -> Nat]
      /\ vectors \in [Documents -> SUBSET Nat]
  BY DEF TypeOK
<1>2. 0 \in 0 .. MaxAttempts BY JobAssumption
<1> DEFINE line == job'[d]
<1>3. line \in Rows /\ line.indexed = job[d].indexed /\ line.lease = job[d].lease
      /\ line.status = "queued" /\ line.attempts = 0
  <2>1. CASE job[d].status = "absent"
    <3>1. job[d].attempts = 0 BY <2>1 DEF TriesInv
    <3>2. job' = [job EXCEPT ![d].status = "queued"] BY <2>1 DEF Enqueue
    <3> QED BY <3>1, <3>2, <1>1 DEF Rows, Statuses
  <2>2. CASE job[d].status = "failed"
    <3>1. job' = [job EXCEPT ![d].status = "queued", ![d].attempts = 0,
                             ![d].due = TRUE]
      BY <2>2 DEF Enqueue
    <3> QED BY <3>1, <1>1, <1>2, ZenonT(60) DEF Rows, Statuses
  <2> QED BY <2>1, <2>2 DEF Enqueue
<1>4. \A x \in Documents : x # d => job'[x] = job[x]
  BY <1>1 DEF Enqueue
<1>5. job' \in [Documents -> Rows]
  <2>1. job' = [job EXCEPT ![d] = job'[d]] BY <1>1 DEF Enqueue
  <2> HIDE DEF line
  <2> QED BY <2>1, <1>1, <1>3 DEF line
<1>6. tries' = [tries EXCEPT ![d] = 0] BY DEF Enqueue
<1>7. tries' \in [Documents -> Nat] BY <1>6, <1>1
<1>8. UNCHANGED <<vectors, worker, faults>> BY DEF Enqueue
<1>9. job[d].status # "running" /\ job[d].lease = None
  BY DEF Enqueue, FenceInv
<1> QED
  BY <1>1, <1>3, <1>4, <1>5, <1>6, <1>7, <1>8, <1>9, RowStep, JobAssumption
  DEF TriesInv

LEMMA TimeStep ==
    ASSUME IInv, NEW d \in Documents, LeaseLapses(d) \/ DelayPasses(d)
    PROVE  IInv'
<1>1. job \in [Documents -> Rows] /\ tries \in [Documents -> Nat]
      /\ vectors \in [Documents -> SUBSET Nat]
  BY DEF IInv, TypeOK
<1>2. job' \in [Documents -> Rows]
  <2>1. [job[d] EXCEPT !.live = FALSE] \in Rows
        /\ [job[d] EXCEPT !.due = TRUE] \in Rows
    BY <1>1 DEF Rows
  <2>2. \/ job' = [job EXCEPT ![d] = [job[d] EXCEPT !.live = FALSE]]
        \/ job' = [job EXCEPT ![d] = [job[d] EXCEPT !.due = TRUE]]
    BY <1>1 DEF LeaseLapses, DelayPasses
  <2> QED BY <2>1, <2>2, <1>1
<1>3. \A x \in Documents :
         /\ job'[x].indexed = job[x].indexed
         /\ job'[x].lease = job[x].lease
         /\ job'[x].attempts = job[x].attempts
         /\ job'[x].status = job[x].status
  BY <1>1 DEF LeaseLapses, DelayPasses, Rows
<1>4. UNCHANGED <<vectors, worker, faults, tries>>
  BY DEF LeaseLapses, DelayPasses
<1> QED BY <1>1, <1>2, <1>3, <1>4, RowStep DEF IInv, TriesInv

LEMMA IndexNowStep ==
    ASSUME IInv, NEW d \in Documents, NEW n \in Nat, IndexNow(d, n)
    PROVE  IInv'
<1>1. job \in [Documents -> Rows] /\ tries \in [Documents -> Nat]
      /\ vectors \in [Documents -> SUBSET Nat]
  BY DEF IInv, TypeOK
<1>2. BatchAt(d, n) \in SUBSET Nat BY BatchAtType
<1>3. vectors' = [vectors EXCEPT ![d] = @ \union BatchAt(d, n)]
      /\ UNCHANGED <<job, worker, faults, tries>>
  BY DEF IndexNow
<1>4. vectors' \in [Documents -> SUBSET Nat] BY <1>1, <1>2, <1>3
<1>5. \A x \in Documents : vectors[x] \subseteq vectors'[x] BY <1>1, <1>3
<1> QED BY <1>1, <1>3, <1>4, <1>5, RowStep DEF IInv, TriesInv

-----------------------------------------------------------------------------
(* Steps of one loop. *)

\* What a step that leaves the rows alone has to show of the loop it moves:
\* the loop keeps its document, lease and progress or rests, and claims a
\* success only of a batch that is stored.
LEMMA LoopStep ==
    ASSUME IInv, UNCHANGED <<job, tries>>,
           faults' \in 0 .. MaxFaults,
           vectors' \in [Documents -> SUBSET Nat],
           \A x \in Documents : vectors[x] \subseteq vectors'[x],
           NEW w \in Workers, NEW l \in Loops,
           worker' = [worker EXCEPT ![w] = l],
           \/ l = Idle
           \/ l.pc = "claim"
           \/ /\ Busy(w)
              /\ l.document = worker[w].document
              /\ l.lease = worker[w].lease
              /\ l.from = worker[w].from
              /\ l.attempts = worker[w].attempts
              /\ l.pc = "finish" => l.outcome # "none"
              /\ l.pc = "finish" /\ l.outcome = "success" =>
                     BatchAt(l.document, l.from) \subseteq vectors'[l.document]
    PROVE  IInv'
<1> USE DEF IInv
<1>1. worker' \in [Workers -> Loops] /\ worker'[w] = l
      /\ (\A v \in Workers : v # w => worker'[v] = worker[v])
  BY DEF TypeOK
<1>2. TypeOK' BY <1>1 DEF TypeOK
<1>3. \A v \in Workers : Busy(v) => worker[v].document \in Documents
                                   /\ worker[v].lease # None
  BY DEF TypeOK, LoopInv, Loops
<1>4. \A v \in Workers : v # w => (Busy(v)' <=> Busy(v))
  BY <1>1 DEF Busy
<1>5. Busy(w)' =>
         /\ Busy(w)
         /\ worker'[w].document = worker[w].document
         /\ worker'[w].lease = worker[w].lease
         /\ worker'[w].from = worker[w].from
         /\ worker'[w].attempts = worker[w].attempts
         /\ worker'[w].pc = "finish" => worker'[w].outcome # "none"
         /\ worker'[w].pc = "finish" /\ worker'[w].outcome = "success" =>
                BatchAt(worker'[w].document, worker'[w].from)
                    \subseteq vectors'[worker'[w].document]
  BY <1>1 DEF Busy, Idle
<1>6. LoopInv'
  <2> SUFFICES ASSUME NEW v \in Workers
               PROVE  /\ Busy(v)' => worker'[v].document # None /\ worker'[v].lease # None
                      /\ worker'[v].pc = "finish" => worker'[v].outcome # "none"
    BY DEF LoopInv
  <2>1. CASE v = w
    BY <2>1, <1>5 DEF LoopInv, Busy
  <2>2. CASE v # w
    BY <2>2, <1>1, <1>4 DEF LoopInv
  <2> QED BY <2>1, <2>2
<1>7. StoredInv'
  <2>1. ConfirmedIsStored'
    BY DEF StoredInv, ConfirmedIsStored
  <2>2. ASSUME NEW v \in Workers, Busy(v)'
        PROVE  /\ 0 .. worker'[v].from - 1 \subseteq vectors'[worker'[v].document]
               /\ worker'[v].pc = "finish" /\ worker'[v].outcome = "success" =>
                      BatchAt(worker'[v].document, worker'[v].from)
                          \subseteq vectors'[worker'[v].document]
    <3>1. CASE v = w
      BY <3>1, <2>2, <1>5, <1>3 DEF StoredInv
    <3>2. CASE v # w
      <4>1. worker'[v] = worker[v] /\ Busy(v) BY <3>2, <2>2, <1>1, <1>4
      <4>2. vectors[worker[v].document] \subseteq vectors'[worker[v].document]
        BY <4>1, <1>3
      <4> QED BY <4>1, <4>2 DEF StoredInv
    <3> QED BY <3>1, <3>2
  <2> QED BY <2>1, <2>2 DEF StoredInv, BatchAt, BatchEnd
<1>8. FenceInv'
  <2> SUFFICES ASSUME NEW v \in Workers, Busy(v)',
                      job[worker'[v].document].lease = worker'[v].lease
               PROVE  /\ worker'[v].from = job[worker'[v].document].indexed
                      /\ worker'[v].attempts = job[worker'[v].document].attempts
    BY DEF FenceInv
  <2>1. CASE v = w
    BY <2>1, <1>5 DEF FenceInv
  <2>2. CASE v # w
    BY <2>2, <1>1, <1>4 DEF FenceInv
  <2> QED BY <2>1, <2>2
<1>9. TriesInv' BY DEF TriesInv
<1> QED BY <1>2, <1>6, <1>7, <1>8, <1>9

\* What a step that releases rows has to show: loop w is not busy after it,
\* and every row it touches has lost its lease and confirms what is stored.
LEMMA ReleaseStep ==
    ASSUME IInv, UNCHANGED vectors,
           faults' \in 0 .. MaxFaults,
           job' \in [Documents -> Rows],
           tries' \in [Documents -> Nat],
           NEW w \in Workers, NEW l \in Loops,
           worker' = [worker EXCEPT ![w] = l],
           l.pc \in {"sweep", "claim"},
           \A x \in Documents :
               \/ job'[x] = job[x] /\ tries'[x] = tries[x]
               \/ /\ job'[x].lease = None
                  /\ job'[x].status \notin {"running", "absent"}
                  /\ 0 .. job'[x].indexed - 1 \subseteq vectors[x]
                  /\ tries'[x] <= MaxAttempts
                  /\ job'[x].status \in Pending => tries'[x] <= job'[x].attempts
    PROVE  IInv'
<1> USE DEF IInv
<1>1. worker' \in [Workers -> Loops] /\ worker'[w] = l
      /\ (\A v \in Workers : v # w => worker'[v] = worker[v])
  BY DEF TypeOK
<1>2. TypeOK' BY <1>1 DEF TypeOK
<1>3. ASSUME NEW v \in Workers, Busy(v)'
      PROVE  /\ Busy(v) /\ worker'[v] = worker[v]
             /\ worker[v].document \in Documents
             /\ worker[v].lease # None
  <2>1. Busy(v) /\ worker'[v] = worker[v] BY <1>1, <1>3 DEF Busy
  <2> QED BY <2>1 DEF TypeOK, LoopInv, Loops
<1>4. LoopInv' BY <1>1, <1>3 DEF LoopInv, Busy
<1>5. StoredInv'
  <2>1. ConfirmedIsStored'
    BY DEF StoredInv, ConfirmedIsStored
  <2> QED BY <2>1, <1>3 DEF StoredInv, BatchAt, BatchEnd
<1>6. FenceInv'
  <2>1. \A x \in Documents : job'[x].status = "running" <=> job'[x].lease # None
    BY DEF FenceInv
  <2>2. ASSUME NEW v \in Workers, Busy(v)',
               job'[worker'[v].document].lease = worker'[v].lease
        PROVE  /\ worker'[v].from = job'[worker'[v].document].indexed
               /\ worker'[v].attempts = job'[worker'[v].document].attempts
    BY <2>2, <1>3 DEF FenceInv
  <2> QED BY <2>1, <2>2 DEF FenceInv
<1>7. TriesInv' BY DEF TriesInv
<1> QED BY <1>2, <1>4, <1>5, <1>6, <1>7

\* Idle is a loop, and so is a loop at another place.
LEMMA LoopTypes ==
    ASSUME TypeOK, NEW w \in Workers
    PROVE  /\ Idle \in Loops
           /\ \A pc \in Places : [worker[w] EXCEPT !.pc = pc] \in Loops
           /\ \A o \in Outcomes :
                  [worker[w] EXCEPT !.pc = "finish", !.outcome = o] \in Loops
<1>1. Idle \in Loops
  BY JobAssumption DEF Idle, Loops, Places, Outcomes
<1>2. worker[w] \in Loops BY DEF TypeOK
<1>3. \A pc \in Places : [worker[w] EXCEPT !.pc = pc] \in Loops
  BY <1>2 DEF Loops
<1>4. \A o \in Outcomes :
         [worker[w] EXCEPT !.pc = "finish", !.outcome = o] \in Loops
  <2>1. "finish" \in Places BY DEF Places
  <2> QED BY <1>2, <2>1 DEF Loops
<1> QED BY <1>1, <1>3, <1>4

LEMMA SweepStep ==
    ASSUME IInv, NEW w \in Workers, Sweep(w) PROVE IInv'
<1>1. /\ job \in [Documents -> Rows] /\ tries \in [Documents -> Nat]
      /\ vectors \in [Documents -> SUBSET Nat]
      /\ worker \in [Workers -> Loops]
      /\ faults \in 0 .. MaxFaults
  BY DEF IInv, TypeOK
<1>2. faults' \in 0 .. MaxFaults BY FaultType DEF IInv, Sweep
<1>3. CASE Fault /\ UNCHANGED <<job, worker>>
  <2>1. UNCHANGED <<job, worker, vectors, tries>> BY <1>3 DEF Sweep
  <2>2. worker' = [worker EXCEPT ![w] = worker[w]] BY <2>1, <1>1
  <2>3. worker[w] \in Loops /\ worker[w].pc = "sweep" BY <1>1 DEF Sweep, At
  <2> QED BY <2>1, <2>2, <2>3, <1>1, <1>2, ReleaseStep
<1>4. CASE /\ job' = [d \in Documents |->
                 IF d \in Exhausted
                 THEN [job[d] EXCEPT !.status = "failed", !.lease = None,
                                     !.live = FALSE]
                 ELSE job[d]]
           /\ Goto(w, "claim")
  <2> DEFINE l == [worker[w] EXCEPT !.pc = "claim"]
  <2>1. l \in Loops /\ l.pc = "claim"
    <3>1. "claim" \in Places BY DEF Places
    <3>2. l \in Loops BY <3>1, LoopTypes DEF IInv
    <3>3. l.pc = "claim" BY <1>1 DEF Loops
    <3> QED BY <3>2, <3>3
  <2>2. worker' = [worker EXCEPT ![w] = l] BY <1>4, <1>1 DEF Goto
  <2>3. ASSUME NEW x \in Documents
        PROVE  /\ job'[x] \in Rows
               /\ \/ job'[x] = job[x]
                  \/ /\ job'[x].lease = None
                     /\ job'[x].status = "failed"
                     /\ job'[x].indexed = job[x].indexed
    BY <1>4, <1>1 DEF Rows, Statuses
  <2>4. job' \in [Documents -> Rows] BY <2>3, <1>4
  <2>5. UNCHANGED <<vectors, tries>> BY DEF Sweep
  <2>6. \A x \in Documents : /\ tries[x] <= MaxAttempts
                             /\ 0 .. job[x].indexed - 1 \subseteq vectors[x]
    BY DEF IInv, TriesInv, StoredInv, ConfirmedIsStored
  <2> HIDE DEF l
  <2> QED BY <2>1, <2>2, <2>3, <2>4, <2>5, <2>6, <1>1, <1>2, ReleaseStep
          DEF Pending
<1> QED BY <1>3, <1>4 DEF Sweep

\* A token a claim takes is in no row and in no loop.
LEMMA ClaimStep ==
    ASSUME IInv, NEW w \in Workers, Claim(w) PROVE IInv'
<1> USE DEF IInv
<1>1. /\ job \in [Documents -> Rows] /\ tries \in [Documents -> Nat]
      /\ vectors \in [Documents -> SUBSET Nat]
      /\ worker \in [Workers -> Loops]
  BY DEF TypeOK
<1>2. faults' \in 0 .. MaxFaults BY FaultType DEF Claim
<1>3. PICK d \in Documents, token \in FreshLeases :
         /\ Claimable(d)
         /\ job' = [job EXCEPT ![d].status = "running", ![d].attempts = @ + 1,
                               ![d].lease = token, ![d].live = TRUE]
         /\ tries' = [tries EXCEPT ![d] = @ + 1]
         /\ \/ worker' = [worker EXCEPT ![w] =
                     [pc |-> "load", document |-> d, lease |-> token,
                      from |-> job[d].indexed,
                      attempts |-> job[d].attempts + 1, outcome |-> "none"]]
            \/ Rest(w)
  BY DEF Claim
<1>4. token \in Leases /\ token # None
      /\ (\A x \in Documents : job[x].lease # token)
      /\ (\A v \in Workers : worker[v].lease # token)
  BY <1>3, JobAssumption DEF FreshLeases
<1>5. job[d].attempts \in 0 .. MaxAttempts /\ job[d].attempts < MaxAttempts
      /\ job[d].status \in Pending
  BY <1>1, <1>3 DEF Claimable, Rows, Pending
<1>6. job[d].attempts + 1 \in 0 .. MaxAttempts BY <1>5, JobAssumption
<1> DEFINE l == [pc |-> "load", document |-> d, lease |-> token,
                 from |-> job[d].indexed,
                 attempts |-> job[d].attempts + 1, outcome |-> "none"]
<1>7. /\ job'[d] \in Rows
      /\ job'[d].status = "running" /\ job'[d].lease = token
      /\ job'[d].attempts = job[d].attempts + 1
      /\ job'[d].indexed = job[d].indexed
  BY <1>1, <1>3, <1>4, <1>6 DEF Rows, Statuses
<1>8. \A x \in Documents : x # d => job'[x] = job[x] /\ tries'[x] = tries[x]
  BY <1>1, <1>3
<1>9. job' \in [Documents -> Rows]
  <2>1. job' = [job EXCEPT ![d] = job'[d]] BY <1>1, <1>3
  <2> QED BY <2>1, <1>1, <1>7
<1>10. tries' \in [Documents -> Nat] /\ tries'[d] = tries[d] + 1 BY <1>1, <1>3
<1>11. UNCHANGED vectors BY DEF Claim
<1>12. l \in Loops BY <1>1, <1>4, <1>6 DEF Loops, Places, Outcomes, Rows
<1>13. Idle \in Loops BY LoopTypes
<1>14. /\ worker'[w] \in {l, Idle}
       /\ worker' \in [Workers -> Loops]
       /\ \A v \in Workers : v # w => worker'[v] = worker[v]
  BY <1>1, <1>3, <1>12, <1>13 DEF Rest
<1>15. ASSUME NEW v \in Workers, Busy(v)'
       PROVE  \/ v = w /\ worker'[v] = l
              \/ /\ v # w /\ Busy(v) /\ worker'[v] = worker[v]
                 /\ worker[v].document \in Documents
                 /\ worker[v].lease # None
                 /\ worker[v].lease # token
  <2>1. CASE v = w BY <2>1, <1>14, <1>15 DEF Busy, Idle
  <2>2. CASE v # w
    <3>1. Busy(v) /\ worker'[v] = worker[v] BY <2>2, <1>14, <1>15 DEF Busy
    <3> QED BY <2>2, <3>1, <1>4 DEF TypeOK, LoopInv, Loops
  <2> QED BY <2>1, <2>2
<1> HIDE DEF l
<1>16. TypeOK' BY <1>2, <1>9, <1>10, <1>11, <1>14, <1>1 DEF TypeOK
<1>17. /\ l.document = d /\ l.lease = token /\ l.from = job[d].indexed
       /\ l.attempts = job[d].attempts + 1 /\ l.pc = "load"
  BY DEF l
<1>18. LoopInv'
  <2>1. \A v \in Workers : worker'[v].pc = "finish" =>
           v # w /\ worker'[v] = worker[v]
    BY <1>14, <1>17 DEF Idle
  <2>2. \A v \in Workers : Busy(v)' => worker'[v].document # None
                                      /\ worker'[v].lease # None
    BY <1>15, <1>17, <1>4, JobAssumption
  <2> QED BY <2>1, <2>2 DEF LoopInv
<1>19. StoredInv'
  <2>1. \A x \in Documents : job'[x].indexed = job[x].indexed BY <1>7, <1>8
  <2>2. ConfirmedIsStored' BY <2>1, <1>11 DEF StoredInv, ConfirmedIsStored
  <2>3. ASSUME NEW v \in Workers, Busy(v)'
        PROVE  /\ 0 .. worker'[v].from - 1 \subseteq vectors[worker'[v].document]
               /\ worker'[v].pc = "finish" /\ worker'[v].outcome = "success" =>
                      BatchAt(worker'[v].document, worker'[v].from)
                          \subseteq vectors[worker'[v].document]
    <3>1. CASE v = w /\ worker'[v] = l
      BY <3>1, <1>17 DEF StoredInv, ConfirmedIsStored
    <3>2. CASE v # w /\ Busy(v) /\ worker'[v] = worker[v]
      BY <3>2 DEF StoredInv
    <3> QED BY <3>1, <3>2, <2>3, <1>15
  <2> QED BY <2>2, <2>3, <1>11 DEF StoredInv, BatchAt, BatchEnd
<1>20. FenceInv'
  <2>1. \A x \in Documents : job'[x].status = "running" <=> job'[x].lease # None
    BY <1>4, <1>7, <1>8 DEF FenceInv
  <2>2. ASSUME NEW v \in Workers, Busy(v)',
               job'[worker'[v].document].lease = worker'[v].lease
        PROVE  /\ worker'[v].from = job'[worker'[v].document].indexed
               /\ worker'[v].attempts = job'[worker'[v].document].attempts
    <3>1. CASE v = w /\ worker'[v] = l BY <3>1, <1>17, <1>7
    <3>2. CASE /\ v # w /\ Busy(v) /\ worker'[v] = worker[v]
               /\ worker[v].document \in Documents
               /\ worker[v].lease # token
      <4>1. worker[v].document # d BY <3>2, <2>2, <1>7
      <4> QED BY <4>1, <3>2, <2>2, <1>8 DEF FenceInv
    <3> QED BY <3>1, <3>2, <2>2, <1>15
  <2> QED BY <2>1, <2>2 DEF FenceInv
<1>21. TriesInv'
  <2>1. tries[d] <= job[d].attempts BY <1>5 DEF TriesInv
  <2>2. tries[d] \in Nat BY <1>1
  <2>3. tries'[d] <= job'[d].attempts /\ tries'[d] <= MaxAttempts
    BY <2>1, <2>2, <1>5, <1>7, <1>10, JobAssumption
  <2> QED BY <2>3, <1>7, <1>8 DEF TriesInv
<1> QED BY <1>16, <1>18, <1>19, <1>20, <1>21

LEMMA RestStep ==
    ASSUME IInv, NEW w \in Workers, NoCandidate(w) \/ Crash(w) PROVE IInv'
<1>1. faults' \in 0 .. MaxFaults BY FaultType DEF IInv, NoCandidate, Crash
<1>2. Idle \in Loops /\ Idle.pc = "sweep" BY LoopTypes DEF IInv, Idle
<1>3. worker' = [worker EXCEPT ![w] = Idle]
      /\ UNCHANGED <<job, vectors, tries>>
  BY DEF NoCandidate, Crash, Rest
<1> QED BY <1>1, <1>2, <1>3, LoopStep DEF IInv, TypeOK

\* Load and Embed move the loop on or end its batch without a success.
LEMMA CallStep ==
    ASSUME IInv, NEW w \in Workers, Load(w) \/ Embed(w) PROVE IInv'
<1>1. /\ worker \in [Workers -> Loops] /\ worker[w] \in Loops
      /\ faults \in 0 .. MaxFaults
      /\ vectors \in [Documents -> SUBSET Nat]
  BY DEF IInv, TypeOK
<1>2. Busy(w) BY DEF Load, Embed, At, Busy
<1>3. UNCHANGED <<job, vectors, faults, tries>> BY DEF Load, Embed
<1>4. ASSUME NEW pc \in {"embed", "store"}, Goto(w, pc) PROVE IInv'
  <2> DEFINE l == [worker[w] EXCEPT !.pc = pc]
  <2>1. pc \in Places BY <1>4 DEF Places
  <2>2. l \in Loops BY <2>1, LoopTypes DEF IInv
  <2>3. /\ l.pc = pc /\ l.document = worker[w].document
        /\ l.lease = worker[w].lease /\ l.from = worker[w].from
        /\ l.attempts = worker[w].attempts
    BY <1>1 DEF Loops
  <2>4. worker' = [worker EXCEPT ![w] = l] BY <1>1, <1>4 DEF Goto
  <2> HIDE DEF l
  <2> QED BY <2>2, <2>3, <2>4, <1>1, <1>2, <1>3, <1>4, LoopStep
<1>5. ASSUME NEW o \in {"retry", "failed"}, FinishWith(w, o) PROVE IInv'
  <2> DEFINE l == [worker[w] EXCEPT !.pc = "finish", !.outcome = o]
  <2>1. o \in Outcomes /\ o # "none" /\ o # "success" BY <1>5 DEF Outcomes
  <2>2. l \in Loops BY <2>1, LoopTypes DEF IInv
  <2>3. /\ l.pc = "finish" /\ l.document = worker[w].document
        /\ l.lease = worker[w].lease /\ l.from = worker[w].from
        /\ l.attempts = worker[w].attempts /\ l.outcome = o
    BY <1>1 DEF Loops
  <2>4. worker' = [worker EXCEPT ![w] = l] BY <1>1, <1>5 DEF FinishWith
  <2> HIDE DEF l
  <2> QED BY <2>1, <2>2, <2>3, <2>4, <1>1, <1>2, <1>3, LoopStep
<1> QED BY <1>4, <1>5 DEF Load, Embed

LEMMA StoreStep ==
    ASSUME IInv, NEW w \in Workers, Store(w) PROVE IInv'
<1> DEFINE d == worker[w].document
           l(o) == [worker[w] EXCEPT !.pc = "finish", !.outcome = o]
<1>1. /\ worker \in [Workers -> Loops] /\ worker[w] \in Loops
      /\ faults \in 0 .. MaxFaults
      /\ vectors \in [Documents -> SUBSET Nat]
  BY DEF IInv, TypeOK
<1>2. Busy(w) BY DEF Store, At, Busy
<1>3. d \in Documents /\ worker[w].from \in Nat
  BY <1>1, <1>2 DEF IInv, LoopInv, Loops
<1>4. UNCHANGED <<job, faults, tries>> BY DEF Store
<1>5. BatchAt(d, worker[w].from) \in SUBSET Nat BY <1>3, BatchAtType
<1>6. ASSUME NEW o \in {"success", "retry"}
      PROVE  /\ l(o) \in Loops
             /\ l(o).pc = "finish" /\ l(o).document = d
             /\ l(o).lease = worker[w].lease /\ l(o).from = worker[w].from
             /\ l(o).attempts = worker[w].attempts /\ l(o).outcome = o
             /\ FinishWith(w, o) => worker' = [worker EXCEPT ![w] = l(o)]
  <2>1. o \in Outcomes BY DEF Outcomes
  <2>2. l(o) \in Loops BY <2>1, LoopTypes DEF IInv
  <2> QED BY <2>2, <1>1 DEF Loops, FinishWith
<1>7. CASE /\ vectors' = [vectors EXCEPT ![d] = @ \union BatchAt(d, worker[w].from)]
           /\ FinishWith(w, "success") \/ FinishWith(w, "retry")
  <2>1. PICK o \in {"success", "retry"} : FinishWith(w, o) BY <1>7
  <2>2. /\ vectors' \in [Documents -> SUBSET Nat]
        /\ \A x \in Documents : vectors[x] \subseteq vectors'[x]
        /\ BatchAt(d, worker[w].from) \subseteq vectors'[d]
    BY <1>7, <1>1, <1>3, <1>5
  <2> HIDE DEF d, l
  <2> QED BY <2>1, <2>2, <1>1, <1>2, <1>4, <1>6, LoopStep DEF d
<1>8. CASE FinishWith(w, "retry") /\ UNCHANGED vectors
  <2> HIDE DEF d, l
  <2> QED BY <1>8, <1>1, <1>2, <1>4, <1>6, LoopStep DEF d
<1> QED BY <1>7, <1>8 DEF Store

\* What a finish writes, when the loop holds the lease.
LEMMA FinishRow ==
    ASSUME IInv, NEW w \in Workers, At(w, "finish"), Holds(w)
    PROVE  LET d == worker[w].document IN
           /\ d \in Documents
           /\ Confirmed(w) \in Rows
           /\ Confirmed(w).lease = None
           /\ Confirmed(w).status \in {"completed", "queued", "retrying", "failed"}
           /\ job[d].status = "running"
           /\ worker[w].from = job[d].indexed
           /\ worker[w].attempts = job[d].attempts
           /\ Confirmed(w).indexed \in {job[d].indexed, BatchEnd(d, job[d].indexed)}
           /\ 0 .. Confirmed(w).indexed - 1 \subseteq vectors[d]
           /\ worker[w].outcome # "success" =>
                  Confirmed(w).attempts = job[d].attempts
<1> DEFINE d == worker[w].document
<1>1. Busy(w) BY DEF At, Busy
<1>2. d \in Documents /\ d # None /\ worker[w].from \in Nat
  BY <1>1 DEF IInv, TypeOK, LoopInv, Loops
<1>3. /\ job[d].status = "running"
      /\ worker[w].from = job[d].indexed
      /\ worker[w].attempts = job[d].attempts
  BY <1>1 DEF Holds, IInv, FenceInv
<1>4. /\ 0 .. worker[w].from - 1 \subseteq vectors[d]
      /\ worker[w].outcome = "success" => BatchAt(d, worker[w].from) \subseteq vectors[d]
  BY <1>1 DEF At, IInv, StoredInv
<1>5. 0 .. BatchEnd(d, worker[w].from) - 1
          \subseteq (0 .. worker[w].from - 1) \union BatchAt(d, worker[w].from)
  BY <1>2, BatchCovers
<1>6. /\ Confirmed(w) \in Rows
      /\ Confirmed(w).lease = None
      /\ Confirmed(w).status \in {"completed", "queued", "retrying", "failed"}
      /\ Confirmed(w).indexed = IF worker[w].outcome = "success"
                                THEN BatchEnd(d, worker[w].from)
                                ELSE worker[w].from
      /\ Confirmed(w).attempts =
             IF worker[w].outcome = "success" THEN 0 ELSE worker[w].attempts
  BY <1>2, ConfirmedType DEF IInv
<1> HIDE DEF d
<1>7. CASE worker[w].outcome = "success"
  <2>1. Confirmed(w).indexed = BatchEnd(d, worker[w].from) BY <1>6, <1>7
  <2>2. 0 .. Confirmed(w).indexed - 1 \subseteq vectors[d]
    BY <2>1, <1>4, <1>5, <1>7
  <2> QED BY <2>1, <2>2, <1>2, <1>3, <1>6, <1>7 DEF d
<1>8. CASE worker[w].outcome # "success"
  <2>1. Confirmed(w).indexed = worker[w].from BY <1>6, <1>8
  <2> QED BY <2>1, <1>2, <1>3, <1>4, <1>6, <1>8 DEF d
<1> QED BY <1>7, <1>8

LEMMA FinishStep ==
    ASSUME IInv, NEW w \in Workers, Finish(w) PROVE IInv'
<1> DEFINE d == worker[w].document
<1>1. /\ job \in [Documents -> Rows] /\ tries \in [Documents -> Nat]
      /\ faults' \in 0 .. MaxFaults
  BY FaultType DEF IInv, TypeOK, Finish
<1>2. /\ UNCHANGED vectors
      /\ worker' = [worker EXCEPT ![w] = Idle]
      /\ Idle \in Loops /\ Idle.pc = "sweep"
      /\ At(w, "finish")
  BY LoopTypes DEF IInv, Finish, Rest, Idle
<1>3. CASE UNCHANGED <<job, tries>>
  BY <1>1, <1>2, <1>3, ReleaseStep
<1>4. CASE /\ Holds(w)
           /\ job' = [job EXCEPT ![d] = Confirmed(w)]
           /\ tries' = IF worker[w].outcome = "success"
                       THEN [tries EXCEPT ![d] = 0] ELSE tries
  <2>1. /\ d \in Documents /\ Confirmed(w) \in Rows
        /\ Confirmed(w).lease = None
        /\ Confirmed(w).status \in {"completed", "queued", "retrying", "failed"}
        /\ job[d].status = "running"
        /\ 0 .. Confirmed(w).indexed - 1 \subseteq vectors[d]
        /\ worker[w].outcome # "success" =>
               Confirmed(w).attempts = job[d].attempts
    BY <1>2, <1>4, FinishRow
  <2>2. tries[d] <= job[d].attempts /\ tries[d] <= MaxAttempts
    BY <2>1 DEF IInv, TriesInv, Pending
  <2>3. job' \in [Documents -> Rows] /\ tries' \in [Documents -> Nat]
    BY <1>1, <1>4, <2>1
  <2>4. \A x \in Documents : x # d => job'[x] = job[x] /\ tries'[x] = tries[x]
    BY <1>1, <1>4
  <2>5. job'[d] = Confirmed(w) BY <1>1, <1>4, <2>1
  <2>6. tries'[d] <= MaxAttempts /\ tries'[d] <= Confirmed(w).attempts
    <3>1. CASE worker[w].outcome = "success"
      <4>1. tries'[d] = 0 BY <3>1, <1>1, <1>4, <2>1
      <4> QED BY <4>1, <2>1, JobAssumption DEF Rows
    <3>2. CASE worker[w].outcome # "success"
      BY <3>2, <1>4, <2>1, <2>2
    <3> QED BY <3>1, <3>2
  <2> HIDE DEF d
  <2> QED BY <2>1, <2>3, <2>4, <2>5, <2>6, <1>1, <1>2, ReleaseStep
<1> QED BY <1>3, <1>4 DEF Finish

-----------------------------------------------------------------------------

LEMMA NextKeeps == IInv /\ [Next]_vars => IInv'
<1> SUFFICES ASSUME IInv, [Next]_vars PROVE IInv'
  OBVIOUS
<1>1. ASSUME NEW d \in Documents, Enqueue(d) PROVE IInv'
  BY <1>1, EnqueueStep
<1>2. ASSUME NEW d \in Documents, LeaseLapses(d) \/ DelayPasses(d) PROVE IInv'
  BY <1>2, TimeStep
<1>3. ASSUME NEW d \in Documents, NEW n \in 0 .. Chunks[d] - 1, IndexNow(d, n)
      PROVE  IInv'
  BY <1>3, IndexNowStep, JobAssumption
<1>4. ASSUME NEW w \in Workers, Running(w) \/ Crash(w) PROVE IInv'
  BY <1>4, SweepStep, ClaimStep, RestStep, CallStep, StoreStep, FinishStep
     DEF Running
<1>5. CASE UNCHANGED vars
  <2>1. UNCHANGED <<job, vectors, worker, faults, tries>> BY <1>5 DEF vars
  <2> QED BY <2>1, RowStep DEF IInv, TypeOK, TriesInv
<1> QED BY <1>1, <1>2, <1>3, <1>4, <1>5 DEF Next

\* The strengthening is an invariant of the indexing loops.
THEOREM Invariance == Spec => []IInv
<1>1. Init => IInv BY InitHolds
<1>2. IInv /\ [Next]_vars => IInv' BY NextKeeps
<1> QED BY <1>1, <1>2, PTL DEF Spec

\* Rows, vectors and loops keep their shape (index_jobs.rs).
THEOREM TypeCorrect == Spec => []TypeOK
<1>1. IInv => TypeOK BY DEF IInv
<1> QED BY <1>1, Invariance, PTL

\* Whatever batches are repeated, timed out or finished late, every chunk
\* below the progress of a job is in the vector store.
THEOREM ProgressIsStored == Spec => []ConfirmedIsStored
<1>1. IInv => ConfirmedIsStored BY DEF IInv, StoredInv
<1> QED BY <1>1, Invariance, PTL

\* No batch is claimed more than MaxAttempts times before it succeeds or the
\* user submits the job again, whichever loops crash or come late.
THEOREM AttemptsAreBounded == Spec => []TriesAreBounded
<1>1. IInv => TriesAreBounded BY DEF IInv, TriesInv, TriesAreBounded
<1> QED BY <1>1, Invariance, PTL

\* A step that changes the progress of a job moves it to the end of the
\* batch the progress was at.
LEMMA ProgressStep ==
    ASSUME IInv, [Next]_vars, NEW d \in Documents,
           job'[d].indexed # job[d].indexed
    PROVE  job'[d].indexed = BatchEnd(d, job[d].indexed)
<1>1. job \in [Documents -> Rows] BY DEF IInv, TypeOK
<1>2. ASSUME NEW x \in Documents, Enqueue(x) PROVE job'[d].indexed = job[d].indexed
  BY <1>1, <1>2 DEF Enqueue, Rows
<1>3. ASSUME NEW x \in Documents, LeaseLapses(x) \/ DelayPasses(x)
      PROVE  job'[d].indexed = job[d].indexed
  BY <1>1, <1>3 DEF LeaseLapses, DelayPasses, Rows
<1>4. ASSUME NEW w \in Workers, Sweep(w) PROVE job'[d].indexed = job[d].indexed
  <2>1. [job[d] EXCEPT !.status = "failed", !.lease = None,
                       !.live = FALSE].indexed = job[d].indexed
    BY <1>1 DEF Rows
  <2> QED BY <2>1, <1>1, <1>4 DEF Sweep
<1>5. ASSUME NEW w \in Workers, Claim(w) PROVE job'[d].indexed = job[d].indexed
  BY <1>1, <1>5 DEF Claim, Rows
<1>6. ASSUME NEW w \in Workers, Finish(w)
      PROVE  job'[d].indexed = BatchEnd(d, job[d].indexed)
  <2> DEFINE x == worker[w].document
  <2>1. At(w, "finish") /\ Holds(w) /\ job' = [job EXCEPT ![x] = Confirmed(w)]
    BY <1>6 DEF Finish
  <2>2. d = x /\ job'[d] = Confirmed(w) BY <2>1, <1>1
  <2>3. Confirmed(w).indexed \in {job[x].indexed, BatchEnd(x, job[x].indexed)}
    BY <2>1, FinishRow
  <2> QED BY <2>2, <2>3
<1>7. ASSUME UNCHANGED job PROVE FALSE BY <1>7
<1> QED
  BY <1>2, <1>3, <1>4, <1>5, <1>6, <1>7
  DEF Next, Running, IndexNow, NoCandidate, Load, Embed, Store, Crash, vars

\* A completed row has no lease, so no loop can write it, and it is neither
\* swept, claimed nor submitted again.
LEMMA CompletedStep ==
    ASSUME IInv, [Next]_vars, NEW d \in Documents,
           job[d].status = "completed"
    PROVE  job'[d].status = "completed"
<1>1. job \in [Documents -> Rows] BY DEF IInv, TypeOK
<1>2. ASSUME NEW x \in Documents, Enqueue(x) PROVE job'[d] = job[d]
  BY <1>1, <1>2 DEF Enqueue
<1>3. ASSUME NEW x \in Documents, LeaseLapses(x) PROVE job'[d] = job[d]
  BY <1>1, <1>3 DEF LeaseLapses
<1>4. ASSUME NEW x \in Documents, DelayPasses(x)
      PROVE  job'[d].status = job[d].status
  BY <1>1, <1>4 DEF DelayPasses, Rows
<1>5. ASSUME NEW w \in Workers, Sweep(w) PROVE job'[d] = job[d]
  BY <1>1, <1>5 DEF Sweep, Exhausted
<1>6. ASSUME NEW w \in Workers, Claim(w) PROVE job'[d] = job[d]
  BY <1>1, <1>6 DEF Claim, Claimable
<1>7. ASSUME NEW w \in Workers, Finish(w) PROVE job'[d] = job[d]
  BY <1>1, <1>7 DEF Finish, Holds
<1>8. ASSUME UNCHANGED job PROVE job'[d] = job[d] BY <1>8
<1> QED
  BY <1>2, <1>3, <1>4, <1>5, <1>6, <1>7, <1>8
  DEF Next, Running, IndexNow, NoCandidate, Load, Embed, Store, Crash, vars

\* Progress only moves from batch to batch, and a completed job stays so.
THEOREM ProgressByBatches == Spec => ProgressIsContiguous
<1>1. IInv /\ [Next]_vars =>
         [\A d \in Documents :
            /\ job'[d].indexed # job[d].indexed =>
                   job'[d].indexed = BatchEnd(d, job[d].indexed)
            /\ job[d].status = "completed" => job'[d].status = "completed"]_vars
  BY ProgressStep, CompletedStep
<1> QED BY <1>1, Invariance, PTL DEF Spec, ProgressIsContiguous

-----------------------------------------------------------------------------
(* Originals.  Whoever writes holds the shared lock and draws a key of its *)
(* own for a document without one; whoever removes is alone.               *)

\* A writer between its insertion and the end of its transaction: its object
\* is there from the upload on, and no other writer and no row have its key.
WriterInv ==
    \A w \in Writers : O!Writing(w) =>
        /\ writer[w].doc \in Contents /\ writer[w].key \in Keys
        /\ doc[writer[w].doc] \notin Keys
        /\ \A c \in Contents : doc[c] # writer[w].key
        /\ writer[w].pc \in {"verify", "commit"} => object[writer[w].key] # "absent"
        /\ \A x \in Writers : x # w =>
               writer[x].doc # writer[w].doc /\ writer[x].key # writer[w].key

CollectorInv ==
    /\ \A c \in Collectors : collector[c].pc # "idle" => collector[c].key \in Keys
    /\ \A c \in Collectors : O!Alone(c) =>
        /\ \A w \in Writers : ~O!Writing(w)
        /\ \A x \in Collectors : x # c => ~O!Alone(x)
    /\ \A c \in Collectors : collector[c].pc = "remove" =>
        \A d \in Contents : doc[d] # collector[c].key

\* What a request is about to fetch is the original of some row.
FetchInv ==
    /\ \A c \in Contents : doc[c] \in Keys => object[doc[c]] # "absent"
    /\ fetching # None => \E c \in Contents : doc[c] = fetching

KeptInv == O!OriginalsTypeOK /\ WriterInv /\ CollectorInv /\ FetchInv

LEMMA KeptInit == O!OriginalsInit => KeptInv
BY OriginalsAssumption
   DEF O!OriginalsInit, KeptInv, O!OriginalsTypeOK, WriterInv, CollectorInv, FetchInv,
       O!NotWriting, O!NotCollecting, O!Writing, O!Alone

\* A writer begins under the shared lock, with a key that is not in use.
LEMMA WriterBegins ==
    ASSUME KeptInv, NEW w \in Writers, NEW c \in Contents, O!Insert(w, c) \/ O!Migrate(w, c)
    PROVE  KeptInv'
<1>1. PICK k \in Keys : \E m \in BOOLEAN :
         /\ O!Unused(k)
         /\ writer' = [writer EXCEPT ![w] =
                [pc |-> "put", doc |-> c, key |-> k, migrates |-> m]]
  BY DEF O!Insert, O!Migrate
<1>2. /\ ~O!Writing(w) /\ O!SharedLock /\ doc[c] \notin Keys
      /\ \A x \in Writers : writer[x].doc # c
      /\ UNCHANGED <<doc, object, collector, fetching, storeFaults>>
  BY OriginalsAssumption DEF O!Insert, O!Migrate
<1>3. writer' \in [Writers -> [pc: {"idle", "put", "verify", "commit"},
                               doc: Contents \cup {None}, key: Keys \cup {None},
                               migrates: BOOLEAN]]
  BY <1>1 DEF KeptInv, O!OriginalsTypeOK
<1>4. /\ writer'[w].pc = "put" /\ writer'[w].doc = c /\ writer'[w].key = k
      /\ \A x \in Writers : x # w => writer'[x] = writer[x]
  BY <1>1 DEF KeptInv, O!OriginalsTypeOK
<1>5. O!OriginalsTypeOK'
  BY <1>2, <1>3 DEF KeptInv, O!OriginalsTypeOK
<1>6. WriterInv'
  BY <1>1, <1>2, <1>4 DEF KeptInv, WriterInv, O!Writing, O!Unused
<1>7. CollectorInv'
  BY <1>2, <1>4 DEF KeptInv, CollectorInv, O!Alone, O!Writing, O!SharedLock
<1>8. FetchInv'
  BY <1>2 DEF KeptInv, FetchInv
<1> QED BY <1>5, <1>6, <1>7, <1>8 DEF KeptInv

\* The steps of a writer that leave the rows alone.
LEMMA WriterUploads ==
    ASSUME KeptInv, NEW w \in Writers,
           O!Upload(w) \/ O!UploadFails(w) \/ O!Verify(w)
    PROVE  KeptInv'
<1>1. /\ UNCHANGED <<doc, collector, fetching>> /\ storeFaults' \in 0 .. MaxStoreFaults
      /\ O!Writing(w)
  BY OriginalsAssumption
     DEF O!Upload, O!UploadFails, O!Verify, O!Faulty, KeptInv, O!OriginalsTypeOK, O!Writing
<1>2. /\ writer' \in [Writers -> [pc: {"idle", "put", "verify", "commit"},
                                  doc: Contents \cup {None}, key: Keys \cup {None},
                                  migrates: BOOLEAN]]
      /\ \A x \in Writers : x # w => writer'[x] = writer[x]
      /\ \/ writer'[w] = O!NotWriting
         \/ /\ writer'[w].pc \in {"verify", "commit"}
            /\ writer'[w].doc = writer[w].doc /\ writer'[w].key = writer[w].key
            /\ object'[writer[w].key] # "absent"
  <2>1. /\ writer[w].key \in Keys
        /\ writer[w].pc = "verify" => object[writer[w].key] # "absent"
    BY <1>1 DEF KeptInv, WriterInv
  <2>2. CASE O!Upload(w)
    <3> DEFINE place == IF writer[w].migrates THEN "verify" ELSE "commit"
    <3>1. writer' = [writer EXCEPT ![w].pc = place]
      BY <2>2 DEF O!Upload
    <3>2. place \in {"verify", "commit"}
      OBVIOUS
    <3> HIDE DEF place
    <3>3. object'[writer[w].key] = "recent"
      BY <2>1, <2>2 DEF O!Upload, KeptInv, O!OriginalsTypeOK
    <3> QED BY <3>1, <3>2, <3>3 DEF KeptInv, O!OriginalsTypeOK
  <2>3. CASE O!UploadFails(w)
    <3>1. writer' = [writer EXCEPT ![w] = O!NotWriting]
      BY <2>3 DEF O!UploadFails, O!Release
    <3>2. O!NotWriting \in [pc: {"idle", "put", "verify", "commit"},
                            doc: Contents \cup {None}, key: Keys \cup {None},
                            migrates: BOOLEAN]
      BY DEF O!NotWriting
    <3> QED BY <3>1, <3>2 DEF KeptInv, O!OriginalsTypeOK
  <2>4. CASE O!Verify(w)
    BY <2>1, <2>4 DEF O!Verify, KeptInv, O!OriginalsTypeOK
  <2> QED BY <2>2, <2>3, <2>4
<1>3. /\ object' \in [Keys -> {"absent", "recent", "old"}]
      /\ \A k \in Keys : k # writer[w].key => object'[k] = object[k]
  <2>1. writer[w].key \in Keys
    BY <1>1 DEF KeptInv, WriterInv
  <2>2. \/ UNCHANGED object
        \/ \E state \in {"absent", "recent"} :
               object' = [object EXCEPT ![writer[w].key] = state]
    BY DEF O!Upload, O!UploadFails, O!Verify
  <2> QED BY <2>1, <2>2 DEF KeptInv, O!OriginalsTypeOK
<1>4. O!OriginalsTypeOK'
  BY <1>1, <1>2, <1>3 DEF KeptInv, O!OriginalsTypeOK
<1>5. WriterInv'
  BY <1>1, <1>2, <1>3, OriginalsAssumption
     DEF KeptInv, WriterInv, O!Writing, O!NotWriting
<1>6. CollectorInv'
  BY <1>1, <1>2 DEF KeptInv, CollectorInv, O!Alone, O!Writing, O!NotWriting
<1>7. FetchInv'
  BY <1>1, <1>3 DEF KeptInv, FetchInv, WriterInv
<1> QED BY <1>4, <1>5, <1>6, <1>7 DEF KeptInv

\* The end of a transaction, with the row or without.
LEMMA WriterEnds ==
    ASSUME KeptInv, NEW w \in Writers, O!Commit(w) \/ O!CommitUnsure(w)
    PROVE  KeptInv'
<1>1. /\ UNCHANGED <<object, collector, fetching>> /\ storeFaults' \in 0 .. MaxStoreFaults
      /\ O!Writing(w)
  BY OriginalsAssumption
     DEF O!Commit, O!CommitUnsure, O!Faulty, KeptInv, O!OriginalsTypeOK, O!Writing
<1>2. /\ writer' \in [Writers -> [pc: {"idle", "put", "verify", "commit"},
                                  doc: Contents \cup {None}, key: Keys \cup {None},
                                  migrates: BOOLEAN]]
      /\ \A x \in Writers : x # w => writer'[x] = writer[x]
      /\ writer'[w] = O!NotWriting
  <2>1. writer' = [writer EXCEPT ![w] = O!NotWriting]
    BY DEF O!Commit, O!CommitUnsure, O!Release
  <2>2. O!NotWriting \in [pc: {"idle", "put", "verify", "commit"},
                          doc: Contents \cup {None}, key: Keys \cup {None},
                          migrates: BOOLEAN]
    BY DEF O!NotWriting
  <2> QED BY <2>1, <2>2 DEF KeptInv, O!OriginalsTypeOK
<1>3. /\ writer[w].doc \in Contents /\ writer[w].key \in Keys
      /\ doc[writer[w].doc] \notin Keys
  BY <1>1 DEF KeptInv, WriterInv
<1>4. /\ doc' \in [Contents -> {None, "inline"} \cup Keys]
      /\ \/ doc' = doc
         \/ /\ writer[w].pc = "commit" /\ doc'[writer[w].doc] = writer[w].key
            /\ \A c \in Contents : c # writer[w].doc => doc'[c] = doc[c]
  BY <1>3 DEF O!Commit, O!CommitUnsure, KeptInv, O!OriginalsTypeOK
<1>5. O!OriginalsTypeOK'
  BY <1>1, <1>2, <1>4 DEF KeptInv, O!OriginalsTypeOK
<1>6. WriterInv'
  <2>1. CASE doc' = doc
    BY <1>1, <1>2, <2>1, OriginalsAssumption DEF KeptInv, WriterInv, O!Writing, O!NotWriting
  <2>2. CASE /\ doc'[writer[w].doc] = writer[w].key
             /\ \A c \in Contents : c # writer[w].doc => doc'[c] = doc[c]
    <3> SUFFICES ASSUME NEW x \in Writers, O!Writing(x)'
                 PROVE  /\ writer'[x].doc \in Contents /\ writer'[x].key \in Keys
                        /\ doc'[writer'[x].doc] \notin Keys
                        /\ \A c \in Contents : doc'[c] # writer'[x].key
                        /\ writer'[x].pc \in {"verify", "commit"} =>
                               object'[writer'[x].key] # "absent"
                        /\ \A y \in Writers : y # x =>
                               /\ writer'[y].doc # writer'[x].doc
                               /\ writer'[y].key # writer'[x].key
      BY DEF WriterInv, O!Writing
    <3>1. x # w /\ writer'[x] = writer[x] /\ O!Writing(x)
      BY <1>2 DEF O!Writing, O!NotWriting
    <3>2. /\ writer[x].doc \in Contents /\ writer[x].key \in Keys
          /\ doc[writer[x].doc] \notin Keys
          /\ \A c \in Contents : doc[c] # writer[x].key
          /\ writer[x].pc \in {"verify", "commit"} => object[writer[x].key] # "absent"
          /\ \A y \in Writers : y # x =>
                 writer[y].doc # writer[x].doc /\ writer[y].key # writer[x].key
      BY <3>1 DEF KeptInv, WriterInv
    <3> QED BY <1>1, <1>2, <1>3, <2>2, <3>1, <3>2, OriginalsAssumption DEF O!NotWriting
  <2> QED BY <1>4, <2>1, <2>2
<1>7. CollectorInv'
  BY <1>1, <1>2 DEF KeptInv, CollectorInv, O!Alone, O!Writing, O!NotWriting
<1>8. FetchInv'
  <2>1. writer[w].pc = "commit" => object[writer[w].key] # "absent"
    BY <1>1 DEF KeptInv, WriterInv
  <2>2. \A c \in Contents : doc[c] \in Keys => doc'[c] = doc[c]
    BY <1>3, <1>4
  <2>3. fetching \in Keys \cup {None}
    BY DEF KeptInv, O!OriginalsTypeOK
  <2>4. \A c \in Contents : doc'[c] \in Keys => object'[doc'[c]] # "absent"
    BY <1>1, <1>4, <2>1 DEF KeptInv, FetchInv
  <2> QED BY <1>1, <2>2, <2>3, <2>4 DEF KeptInv, FetchInv
<1> QED BY <1>5, <1>6, <1>7, <1>8 DEF KeptInv

\* The steps of a collection, of a request that reads, and of time.
LEMMA CollectorSteps ==
    ASSUME KeptInv, NEW c \in Collectors,
           O!ListPage(c) \/ O!Lock(c) \/ O!Judge(c) \/ O!Remove(c) \/ O!CollectFails(c)
    PROVE  KeptInv'
<1>1. /\ UNCHANGED <<doc, writer, fetching>> /\ storeFaults' \in 0 .. MaxStoreFaults
      /\ \A x \in Collectors : x # c => collector'[x] = collector[x]
      /\ collector' \in [Collectors -> [pc: {"idle", "listed", "locked", "remove"},
                                        key: Keys \cup {None}]]
  BY OriginalsAssumption
     DEF O!ListPage, O!Lock, O!Judge, O!Remove, O!CollectFails, O!Faulty, KeptInv,
         O!OriginalsTypeOK, O!NotCollecting, CollectorInv
<1>2. /\ collector'[c].pc # "idle" => collector'[c].key \in Keys
      /\ O!Alone(c)' => O!Alone(c) \/ O!ExclusiveLock
      /\ collector'[c].pc = "remove" => \A d \in Contents : doc[d] # collector'[c].key
  BY DEF O!ListPage, O!Lock, O!Judge, O!Remove, O!CollectFails, KeptInv,
         O!OriginalsTypeOK, O!NotCollecting, CollectorInv, O!Alone
<1>3. /\ object' \in [Keys -> {"absent", "recent", "old"}]
      /\ \A k \in Keys : object'[k] = object[k] \/
             (collector[c].pc = "remove" /\ collector[c].key = k)
  BY DEF O!ListPage, O!Lock, O!Judge, O!Remove, O!CollectFails, KeptInv,
         O!OriginalsTypeOK, CollectorInv
<1>4. O!OriginalsTypeOK'
  BY <1>1, <1>3 DEF KeptInv, O!OriginalsTypeOK
<1>5. WriterInv'
  BY <1>1, <1>3 DEF KeptInv, WriterInv, CollectorInv, O!Alone, O!Writing
<1>6. CollectorInv'
  BY <1>1, <1>2 DEF KeptInv, CollectorInv, O!Alone, O!Writing, O!ExclusiveLock
<1>7. FetchInv'
  BY <1>1, <1>3 DEF KeptInv, FetchInv, CollectorInv
<1> QED BY <1>4, <1>5, <1>6, <1>7 DEF KeptInv

LEMMA ReaderSteps ==
    ASSUME KeptInv, O!Detail \/ O!GrowOld
    PROVE  KeptInv'
<1>1. UNCHANGED <<doc, writer, collector, storeFaults>>
  BY DEF O!Detail, O!ReadRow, O!ReadObject, O!GrowOld
<1>2. /\ object' \in [Keys -> {"absent", "recent", "old"}]
      /\ \A k \in Keys : object[k] # "absent" => object'[k] # "absent"
  BY DEF O!Detail, O!ReadRow, O!ReadObject, O!GrowOld, KeptInv, O!OriginalsTypeOK
<1>3. /\ fetching' \in Keys \cup {None}
      /\ fetching' # None => \E c \in Contents : doc[c] = fetching'
  BY DEF O!Detail, O!ReadRow, O!ReadObject, O!GrowOld, KeptInv, O!OriginalsTypeOK, FetchInv
<1>4. O!OriginalsTypeOK'
  BY <1>1, <1>2, <1>3 DEF KeptInv, O!OriginalsTypeOK
<1>5. WriterInv'
  BY <1>1, <1>2 DEF KeptInv, WriterInv, O!Writing
<1>6. CollectorInv'
  BY <1>1 DEF KeptInv, CollectorInv, O!Alone, O!Writing
<1>7. FetchInv'
  BY <1>1, <1>2, <1>3 DEF KeptInv, FetchInv
<1> QED BY <1>4, <1>5, <1>6, <1>7 DEF KeptInv

LEMMA KeptStep == KeptInv /\ [MCNext]_allVars => KeptInv'
<1> SUFFICES ASSUME KeptInv, [MCNext]_allVars PROVE KeptInv'
  OBVIOUS
<1>1. CASE O!OriginalsNext
  BY <1>1, WriterBegins, WriterUploads, WriterEnds, CollectorSteps, ReaderSteps
     DEF O!OriginalsNext, O!Import, O!Write, O!Maintain
<1>2. CASE UNCHANGED originalVars
  BY <1>2 DEF originalVars, KeptInv, O!OriginalsTypeOK, WriterInv, CollectorInv, FetchInv,
              O!Writing, O!Alone
<1> QED
  BY <1>1, <1>2 DEF MCNext, IndexStep, CacheStep, OriginalsStep, TextStep, Index, Cached,
                    Text, allVars

\* For any number of importers, migrations, collections and failures, in any
\* order: the original that a row names, or that a request is about to
\* fetch, is in the bucket.
THEOREM OriginalsAreKeptHolds == MCSpec => []OriginalsAreKept
<1>1. MCInit => KeptInv
  BY KeptInit DEF MCInit
<1>2. KeptInv => OriginalsAreKept
  <2> SUFFICES ASSUME KeptInv PROVE OriginalsAreKept
    OBVIOUS
  <2> QED BY DEF KeptInv, FetchInv, OriginalsAreKept, O!OriginalsAreKept, O!OriginalsTypeOK
<1> QED BY <1>1, <1>2, KeptStep, PTL DEF MCSpec

-----------------------------------------------------------------------------
(* MessageCache.  The log grows only at its end, so what a snapshot holds  *)
(* is the part of the log up to its revision, however old it is; and the   *)
(* tombstone is the one snapshot with a revision behind the log's.         *)

\* What a row, a put, a late put or an entry may be.
Held(snap) ==
    /\ snap \in C!Snapshots
    /\ IF snap.deleted THEN row.deleted /\ snap.revision = Len(log) + 1
       ELSE snap.revision <= Len(log) /\ snap.messages = SubSeq(log, 1, snap.revision)

ReaderRows ==
    [pc: {"idle", "revision", "snapshot", "put", "served"}, from: 0 .. Quota,
     snap: {None} \cup C!Snapshots]

JanitorRows == [pc: {"idle", "put", "ack"}, revision: Nat]

Conversations ==
    [revision: 0 .. Quota + MaxDeletes, deleted: BOOLEAN, pending: BOOLEAN,
     kept: BOOLEAN, messages: Seq(Messages)]

MessagesInv ==
    /\ row.deleted \in BOOLEAN
    /\ IF row.deleted THEN row.revision = Len(log) + 1 /\ deletes > 0
       ELSE row.revision = Len(log) /\ row.messages = log
    /\ Len(log) <= Quota
    /\ row.pending => row.deleted

SnapshotsInv ==
    /\ cache # None => Held(cache)
    /\ \A s \in late : Held(s)
    /\ \A r \in Readers :
        /\ reader[r].from <= Len(log)
        /\ reader[r].pc \in {"put", "served"} =>
              /\ Held(reader[r].snap) /\ ~reader[r].snap.deleted
              /\ reader[r].snap.revision >= reader[r].from

\* The cache holds no message, and nothing under way can bring one back.
Purged ==
    IF cache = None
    THEN (\A s \in late : s.deleted) /\ \A r \in Readers : reader[r].pc # "put"
    ELSE cache.deleted

PurgeInv ==
    /\ \A j \in Janitors : janitor[j].pc # "idle" =>
        row.deleted /\ janitor[j].revision = row.revision
    /\ \A j \in Janitors : janitor[j].pc = "ack" => Purged
    /\ row.deleted /\ ~row.pending => Purged

CacheInv ==
    /\ C!CacheTypeOK /\ reader \in [Readers -> ReaderRows]
    /\ MessagesInv /\ SnapshotsInv /\ PurgeInv

LEMMA CacheInitInv == C!CacheInit => CacheInv
<1> SUFFICES ASSUME C!CacheInit PROVE CacheInv
  OBVIOUS
<1>1. <<>> \in Seq(Messages) /\ Len(<<>>) = 0
  BY EmptySeq
<1>2. C!CacheTypeOK /\ reader \in [Readers -> ReaderRows]
  BY <1>1, CacheAssumption
     DEF C!CacheInit, C!CacheTypeOK, ReaderRows, C!NotReading, C!Waiting
<1>3. MessagesInv /\ SnapshotsInv /\ PurgeInv
  BY <1>1, CacheAssumption
     DEF C!CacheInit, MessagesInv, SnapshotsInv, PurgeInv, C!NotReading, C!Waiting
<1> QED BY <1>2, <1>3 DEF CacheInv

\* The start of the log stays what it is.
LEMMA StartStays ==
    ASSUME NEW s \in Seq(Messages), NEW m \in Messages, NEW n \in 0 .. Len(s)
    PROVE  SubSeq(Append(s, m), 1, n) = SubSeq(s, 1, n)
<1>1. CASE n = 0
  BY <1>1, SubSeqEmpty
<1>2. CASE n # 0
  <2>1. n \in 1 .. Len(s) /\ 1 \in 1 .. Len(s) /\ <<m>> \in Seq(Messages)
    BY <1>2, LenProperties
  <2>2. Append(s, m) = s \o <<m>>
    BY AppendIsConcat
  <2> QED BY <2>1, <2>2, SubSeqOfConcat1
<1> QED BY <1>1, <1>2

\* A request and a deletion of the conversation leave every snapshot true.
LEMMA HeldOn ==
    ASSUME CacheInv, NEW snap, Held(snap), C!Post \/ C!Delete \/ C!Forget
    PROVE  Held(snap)'
<1>1. CASE C!Post
  <2>1. PICK m \in Messages : ~row.deleted /\ row'.deleted = FALSE /\ log' = Append(log, m)
    BY <1>1 DEF C!Post, C!AppendMessage, CacheInv, C!CacheTypeOK
  <2>2. log \in Seq(Messages) /\ Len(log) \in Nat /\ Len(log') = Len(log) + 1
    BY <2>1, AppendProperties, LenProperties DEF CacheInv, C!CacheTypeOK
  <2>3. ~snap.deleted /\ snap.revision \in 0 .. Len(log) /\ snap \in C!Snapshots
        /\ snap.messages = SubSeq(log, 1, snap.revision)
    BY <2>1, <2>2, CacheAssumption DEF Held, C!Snapshots
  <2>4. snap.messages = SubSeq(log', 1, snap.revision)
    BY <2>1, <2>2, <2>3, StartStays
  <2> QED BY <2>2, <2>3, <2>4 DEF Held
<1>2. CASE C!Delete \/ C!Forget
  <2>1. log' = log /\ (row.deleted => row'.deleted)
    BY <1>2 DEF C!Delete, C!Forget, CacheInv, C!CacheTypeOK
  <2> QED BY <2>1 DEF Held
<1> QED BY <1>1, <1>2

LEMMA RowSteps ==
    ASSUME CacheInv, C!Post \/ C!Delete \/ C!Forget
    PROVE  CacheInv'
<1>1. /\ row \in Conversations /\ log \in Seq(Messages) /\ deletes \in 0 .. MaxDeletes
      /\ Len(log) \in Nat
  BY LenProperties DEF CacheInv, C!CacheTypeOK, Conversations
<1>2. UNCHANGED <<cache, late, reader, janitor, reads, cacheFaults>>
  BY DEF C!Post, C!AppendMessage, C!Delete, C!Forget
<1>3. /\ row' \in Conversations /\ log' \in Seq(Messages) /\ deletes' \in 0 .. MaxDeletes
      /\ Len(log') \in Nat /\ Len(log') >= Len(log) /\ MessagesInv'
      /\ row.deleted => row'.deleted /\ row'.revision = row.revision
  <2>1. CASE C!Post
    <3>1. PICK m \in Messages :
             /\ ~row.deleted /\ row.revision < Quota /\ log' = Append(log, m)
             /\ row' = [row EXCEPT !.revision = @ + 1, !.messages = Append(@, m)]
             /\ deletes' = deletes
      BY <2>1 DEF C!Post, C!AppendMessage, C!MayAppend
    <3>2. /\ row.messages = log /\ row.revision = Len(log)
          /\ row.pending = FALSE
      BY <1>1, <3>1 DEF CacheInv, MessagesInv, Conversations
    <3>3. log' \in Seq(Messages) /\ Len(log') = Len(log) + 1
      BY <1>1, <3>1, AppendProperties
    <3>4. row' = [revision |-> Len(log) + 1, deleted |-> FALSE, pending |-> FALSE,
                  kept |-> row.kept, messages |-> log']
      BY <1>1, <3>1, <3>2 DEF Conversations
    <3>4a. Len(log) + 1 \in 0 .. Quota /\ Quota + MaxDeletes \in Nat /\ Quota <= Quota + MaxDeletes
      BY <1>1, <3>1, <3>2, CacheAssumption
    <3>5. row' \in Conversations /\ log' \in Seq(Messages)
      <4>1. Len(log) + 1 \in 0 .. Quota + MaxDeletes /\ row.kept \in BOOLEAN
        BY <1>1, <3>4a, CacheAssumption DEF Conversations
      <4> QED BY <3>3, <3>4, <4>1 DEF Conversations
    <3>6. MessagesInv'
      BY <3>3, <3>4, <3>4a DEF MessagesInv
    <3>7. /\ ~row.deleted /\ deletes' = deletes
          /\ Len(log') \in Nat /\ Len(log') >= Len(log)
      BY <1>1, <3>1, <3>3
    <3> QED BY <1>1, <3>5, <3>6, <3>7
  <2>2. CASE C!Delete
    <3>1. /\ deletes < MaxDeletes /\ deletes' = deletes + 1 /\ log' = log
          /\ row' = [row EXCEPT !.revision = IF row.deleted THEN @ ELSE @ + 1,
                                !.deleted = TRUE, !.pending = TRUE, !.messages = <<>>]
      BY <2>2 DEF C!Delete
    <3>2. /\ <<>> \in Seq(Messages)
          /\ row.revision = IF row.deleted THEN Len(log) + 1 ELSE Len(log)
          /\ Len(log) <= Quota
      BY EmptySeq DEF CacheInv, MessagesInv
    <3>3. row' = [revision |-> Len(log) + 1, deleted |-> TRUE, pending |-> TRUE,
                  kept |-> row.kept, messages |-> <<>>]
      BY <1>1, <3>1, <3>2 DEF Conversations
    <3>4. row' \in Conversations /\ deletes' \in 0 .. MaxDeletes
      <4>1. deletes' \in 0 .. MaxDeletes /\ Len(log) + 1 \in 0 .. Quota + MaxDeletes
        BY <1>1, <3>1, <3>2, CacheAssumption
      <4>2. row.kept \in BOOLEAN
        BY <1>1 DEF Conversations
      <4> QED BY <3>2, <3>3, <4>1, <4>2 DEF Conversations
    <3>5. MessagesInv'
      BY <1>1, <3>1, <3>2, <3>3, CacheAssumption DEF MessagesInv
    <3>6. row'.deleted /\ (row.deleted => row'.revision = row.revision)
      BY <3>2, <3>3
    <3> QED BY <1>1, <3>1, <3>4, <3>5, <3>6
  <2>3. CASE C!Forget
    <3>1. /\ row.deleted /\ UNCHANGED <<deletes, log>>
          /\ row' = [row EXCEPT !.kept = FALSE, !.pending = FALSE]
      BY <2>3 DEF C!Forget
    <3>2. row' = [revision |-> row.revision, deleted |-> TRUE, pending |-> FALSE,
                  kept |-> FALSE, messages |-> row.messages]
      BY <1>1, <3>1 DEF Conversations
    <3>3. row' \in Conversations
      BY <1>1, <3>2 DEF Conversations
    <3>4. MessagesInv'
      BY <1>1, <3>1, <3>2 DEF CacheInv, MessagesInv, Conversations
    <3>5. row'.deleted /\ row'.revision = row.revision
      BY <3>2
    <3>6. deletes' = deletes /\ log' = log
      BY <3>1
    <3> QED BY <1>1, <3>3, <3>4, <3>5, <3>6
  <2> QED BY <2>1, <2>2, <2>3
<1>4. SnapshotsInv'
  <2>1. ASSUME NEW snap, Held(snap) PROVE Held(snap)'
    BY <2>1, HeldOn
  <2>2. \A snap : Held(snap) => Held(snap)'
    BY <2>1
  <2>3. \A r \in Readers : reader[r].from \in Nat
    BY CacheAssumption DEF CacheInv, ReaderRows
  <2> QED BY <1>1, <1>2, <1>3, <2>2, <2>3 DEF CacheInv, SnapshotsInv
<1>5. PurgeInv'
  <2>1. Purged => Purged'
    BY <1>2 DEF Purged
  <2>2. row'.deleted /\ ~row'.pending => Purged'
    <3>1. CASE C!Post
      <4>1. ~row'.deleted
        BY <1>1, <3>1 DEF C!Post, C!AppendMessage, Conversations
      <4> QED BY <4>1
    <3>2. CASE C!Delete
      BY <1>1, <3>2 DEF C!Delete
    <3>3. CASE C!Forget
      BY <1>2, <3>3 DEF C!Forget, Purged
    <3> QED BY <3>1, <3>2, <3>3
  <2> QED BY <1>2, <1>3, <2>1, <2>2 DEF CacheInv, PurgeInv
<1> QED BY <1>2, <1>3, <1>4, <1>5 DEF CacheInv, C!CacheTypeOK, Conversations

\* A put of a snapshot that is true leaves the cache true, and purged.
LEMMA PutHeld ==
    ASSUME CacheInv, NEW snap, Held(snap), C!Put(snap)
    PROVE  /\ cache' # None /\ Held(cache')
           /\ snap.deleted => cache'.deleted
           /\ cache # None => (cache.deleted => cache'.deleted)
<1>1. /\ cache' = IF C!Newer(snap) THEN snap ELSE cache
      /\ snap # None /\ snap.revision \in Nat /\ Len(log) \in Nat
      /\ cache # None => Held(cache) /\ cache.revision \in Nat
  BY LenProperties, CacheAssumption
     DEF C!Put, Held, C!Snapshots, CacheInv, SnapshotsInv, C!CacheTypeOK
<1> QED BY <1>1 DEF C!Newer, Held

\* What a call of put leaves, of a snapshot that is true.
LEMMA CallHeld ==
    ASSUME CacheInv, NEW snap, Held(snap), C!Called(snap)
    PROVE  /\ cache' # None => Held(cache')
           /\ \A s \in late' : Held(s)
           /\ cacheFaults' \in 0 .. MaxCacheFaults
           /\ snap.deleted /\ cacheFaults' = cacheFaults => cache' # None /\ cache'.deleted
           /\ cache # None => cache' # None
           /\ cache # None /\ cache.deleted => cache'.deleted
           /\ snap.deleted /\ (\A s \in late : s.deleted) => \A s \in late' : s.deleted
           /\ snap.deleted /\ cache' # None /\ cache = None => cache'.deleted
<1>1. /\ cache # None => Held(cache)
      /\ \A s \in late : Held(s)
      /\ cacheFaults \in 0 .. MaxCacheFaults
  BY DEF CacheInv, SnapshotsInv, C!CacheTypeOK
<1>2. CASE C!Put(snap) /\ UNCHANGED <<late, cacheFaults>>
  BY <1>1, <1>2, PutHeld
<1>3. CASE /\ cacheFaults < MaxCacheFaults /\ cacheFaults' = cacheFaults + 1
           /\ late' \in {late, late \cup {snap}} /\ UNCHANGED cache
  BY <1>1, <1>3, CacheAssumption
<1> QED BY <1>2, <1>3 DEF C!Called

\* The steps of the cache itself.
LEMMA EntrySteps ==
    ASSUME CacheInv, C!LatePut \/ C!Expire
    PROVE  CacheInv'
<1>1. UNCHANGED <<row, reader, janitor, reads, deletes, cacheFaults, log>>
  BY DEF C!LatePut, C!Expire
<1>2. /\ cache' # None => Held(cache')
      /\ \A s \in late' : Held(s)
      /\ Purged => Purged'
  <2>1. /\ cache # None => Held(cache)
        /\ \A s \in late : Held(s)
    BY DEF CacheInv, SnapshotsInv
  <2>2. CASE C!LatePut
    <3>1. PICK snap \in late : C!Put(snap) /\ late' = late \ {snap}
      BY <2>2 DEF C!LatePut
    <3>2. /\ cache' # None /\ Held(cache')
          /\ snap.deleted => cache'.deleted
          /\ cache # None => (cache.deleted => cache'.deleted)
      BY <2>1, <3>1, PutHeld
    <3> QED BY <1>1, <2>1, <3>1, <3>2 DEF Purged
  <2>3. CASE C!Expire
    BY <1>1, <2>1, <2>3 DEF C!Expire, Purged
  <2> QED BY <2>2, <2>3
<1>3. \A snap : Held(snap) => Held(snap)'
  BY <1>1 DEF Held
<1>4. SnapshotsInv'
  BY <1>1, <1>2, <1>3 DEF CacheInv, SnapshotsInv, Held
<1>5. PurgeInv'
  BY <1>1, <1>2 DEF CacheInv, PurgeInv
<1>6. C!CacheTypeOK'
  BY <1>1, <1>2 DEF CacheInv, C!CacheTypeOK, Held
<1> QED BY <1>1, <1>4, <1>5, <1>6 DEF CacheInv, MessagesInv

\* A request that lists: its snapshot is true of the log, and is not older
\* than what it read first.
LEMMA ListSteps ==
    ASSUME CacheInv, NEW r \in Readers, C!List(r)
    PROVE  CacheInv'
<1>1. UNCHANGED <<row, janitor, deletes, log>>
  BY DEF C!List, C!ReadRevision, C!ReadCache, C!ReadSnapshot, C!PutSnapshot
<1>2. /\ reader \in [Readers -> ReaderRows]
      /\ cache # None => Held(cache)
      /\ \A s \in late : Held(s)
      /\ reader[r].from \in 0 .. Quota /\ reader[r].from <= Len(log)
      /\ Len(log) \in Nat /\ log \in Seq(Messages)
      /\ cacheFaults \in 0 .. MaxCacheFaults /\ reads \in 0 .. MaxReads
  BY LenProperties
     DEF CacheInv, SnapshotsInv, C!CacheTypeOK, ReaderRows
<1>3. /\ reader' \in [Readers -> ReaderRows]
      /\ \A x \in Readers : x # r => reader'[x] = reader[x]
      /\ reader'[r].from <= Len(log)
      /\ reader'[r].pc \in {"put", "served"} =>
            /\ Held(reader'[r].snap) /\ ~reader'[r].snap.deleted
            /\ reader'[r].snap.revision >= reader'[r].from
      /\ cache' # None => Held(cache')
      /\ \A s \in late' : Held(s)
      /\ cacheFaults' \in 0 .. MaxCacheFaults /\ reads' \in 0 .. MaxReads
      /\ row.deleted /\ Purged => Purged'
  <2>1. CASE C!ReadRevision(r)
    <3>1. /\ ~row.deleted /\ reads < MaxReads /\ reads' = reads + 1
          /\ reader' = [reader EXCEPT ![r] =
                    [pc |-> "revision", from |-> row.revision, snap |-> None]]
          /\ UNCHANGED <<cache, late, cacheFaults>>
      BY <2>1 DEF C!ReadRevision
    <3>2. row.revision = Len(log) /\ Len(log) \in 0 .. Quota
      BY <1>2, <3>1, CacheAssumption DEF CacheInv, MessagesInv
    <3>3. [pc |-> "revision", from |-> row.revision, snap |-> None] \in ReaderRows
      BY <3>2 DEF ReaderRows
    <3>4. /\ reader' \in [Readers -> ReaderRows]
          /\ \A x \in Readers : x # r => reader'[x] = reader[x]
          /\ reader'[r] = [pc |-> "revision", from |-> row.revision, snap |-> None]
      BY <1>2, <3>1, <3>3
    <3>5. reads' \in 0 .. MaxReads
      BY <1>2, <3>1, CacheAssumption
    <3> QED BY <1>2, <3>1, <3>2, <3>4, <3>5 DEF Purged
  <2>2. CASE C!ReadCache(r)
    <3>1. PICK snap : /\ \/ C!Hit(r) /\ snap = cache /\ C!At(r, "served", snap)
                         \/ snap = None /\ C!At(r, "snapshot", snap)
                      /\ UNCHANGED <<cache, late, reads, cacheFaults>>
      BY <2>2 DEF C!ReadCache
    <3>2. PICK pc \in {"served", "snapshot"} :
             /\ reader' = [reader EXCEPT ![r].pc = pc, ![r].snap = snap]
             /\ pc = "served" => C!Hit(r) /\ snap = cache
             /\ snap = None \/ snap \in C!Snapshots
      BY <1>2, <3>1 DEF C!At, C!Hit, Held
    <3>3. /\ [reader[r] EXCEPT !.pc = pc, !.snap = snap] \in ReaderRows
          /\ reader' = [reader EXCEPT ![r] = [reader[r] EXCEPT !.pc = pc, !.snap = snap]]
      BY <1>2, <3>2 DEF ReaderRows
    <3>4. /\ reader' \in [Readers -> ReaderRows]
          /\ \A x \in Readers : x # r => reader'[x] = reader[x]
          /\ reader'[r].pc = pc /\ reader'[r].snap = snap
          /\ reader'[r].from = reader[r].from
      BY <1>2, <3>2, <3>3 DEF ReaderRows
    <3> QED BY <1>2, <3>1, <3>2, <3>4 DEF Purged, C!Hit
  <2>3. CASE C!ReadSnapshot(r)
    <3> DEFINE read == [revision |-> row.revision, deleted |-> FALSE,
                        messages |-> row.messages]
    <3>1. UNCHANGED <<cache, late, reads, cacheFaults>>
      BY <2>3 DEF C!ReadSnapshot
    <3>2. ASSUME NEW pc, NEW snap, C!At(r, pc, snap), pc \in {"idle", "put"},
                 snap \in {None} \cup C!Snapshots
          PROVE  /\ reader' \in [Readers -> ReaderRows]
                 /\ \A x \in Readers : x # r => reader'[x] = reader[x]
                 /\ reader'[r].pc = pc /\ reader'[r].snap = snap
                 /\ reader'[r].from = reader[r].from
      <4>1. /\ [reader[r] EXCEPT !.pc = pc, !.snap = snap] \in ReaderRows
            /\ reader' = [reader EXCEPT ![r] = [reader[r] EXCEPT !.pc = pc, !.snap = snap]]
        BY <1>2, <3>2 DEF ReaderRows, C!At
      <4> QED BY <1>2, <4>1 DEF ReaderRows
    <3>3. CASE row.deleted
      <4>1. C!At(r, "idle", None)
        BY <2>3, <3>3 DEF C!ReadSnapshot
      <4> QED BY <1>2, <3>1, <3>2, <4>1 DEF Purged
    <3>4. CASE ~row.deleted
      <4>1. C!At(r, "put", read)
        BY <2>3, <3>4 DEF C!ReadSnapshot
      <4>2. row.revision = Len(log) /\ row.messages = log /\ Len(log) \in 0 .. Quota + 1
        BY <1>2, <3>4, CacheAssumption DEF CacheInv, MessagesInv
      <4>3. read \in C!Snapshots /\ read.revision = Len(log) /\ ~read.deleted
            /\ read.messages = log
        BY <1>2, <4>2 DEF C!Snapshots
      <4>4. Held(read)
        BY <1>2, <4>3, SubSeqFull DEF Held
      <4> HIDE DEF read
      <4>6. /\ reader' \in [Readers -> ReaderRows]
            /\ \A x \in Readers : x # r => reader'[x] = reader[x]
            /\ reader'[r].pc = "put" /\ reader'[r].snap = read
            /\ reader'[r].from = reader[r].from
        BY <3>2, <4>1, <4>3
      <4> QED BY <1>2, <3>1, <3>4, <4>3, <4>4, <4>6 DEF Purged
    <3> QED BY <3>3, <3>4
  <2>4. CASE C!PutSnapshot(r)
    <3> DEFINE snap == reader[r].snap
    <3>1. /\ reader[r].pc = "put" /\ C!At(r, "served", snap) /\ reads' = reads
          /\ IF C!Valid(snap) THEN C!Called(snap) ELSE UNCHANGED <<cache, late, cacheFaults>>
      BY <2>4 DEF C!PutSnapshot
    <3>2. Held(snap) /\ ~snap.deleted /\ snap.revision >= reader[r].from
      BY <3>1 DEF CacheInv, SnapshotsInv
    <3>3. /\ reader' \in [Readers -> ReaderRows]
          /\ \A x \in Readers : x # r => reader'[x] = reader[x]
          /\ reader'[r].pc = "served" /\ reader'[r].snap = snap
          /\ reader'[r].from = reader[r].from
      <4>1. /\ [reader[r] EXCEPT !.pc = "served", !.snap = snap] \in ReaderRows
            /\ reader' = [reader EXCEPT ![r] =
                              [reader[r] EXCEPT !.pc = "served", !.snap = snap]]
        BY <1>2, <3>1 DEF ReaderRows, C!At
      <4> QED BY <1>2, <4>1 DEF ReaderRows
    <3> HIDE DEF snap
    <3>4. /\ cache' # None => Held(cache')
          /\ \A s \in late' : Held(s)
          /\ cacheFaults' \in 0 .. MaxCacheFaults
          /\ cache # None => cache' # None
          /\ cache # None /\ cache.deleted => cache'.deleted
      BY <1>2, <3>1, <3>2, CallHeld
    <3>5. Purged => Purged'
      BY <3>1, <3>4 DEF Purged
    <3> QED BY <1>2, <3>1, <3>2, <3>3, <3>4, <3>5
  <2> QED BY <2>1, <2>2, <2>3, <2>4 DEF C!List
<1>4. \A snap : Held(snap) => Held(snap)'
  BY <1>1 DEF Held
<1>5. SnapshotsInv'
  BY <1>1, <1>2, <1>3, <1>4 DEF CacheInv, SnapshotsInv, Held
<1>6. PurgeInv'
  BY <1>1, <1>3 DEF CacheInv, PurgeInv
<1>7. C!CacheTypeOK'
  BY <1>1, <1>3, CacheAssumption DEF CacheInv, C!CacheTypeOK, Held, ReaderRows
<1> QED BY <1>1, <1>3, <1>5, <1>6, <1>7 DEF CacheInv, MessagesInv

\* A loop that carries a deletion to the cache.
LEMMA JanitorSteps ==
    ASSUME CacheInv, NEW j \in Janitors, C!Reconcile(j) \/ C!JanitorStops(j)
    PROVE  CacheInv'
<1>1. /\ janitor \in [Janitors -> JanitorRows] /\ cacheFaults \in 0 .. MaxCacheFaults
      /\ row \in Conversations /\ Len(log) \in Nat
      /\ cache # None => Held(cache)
      /\ \A s \in late : Held(s)
  BY LenProperties DEF CacheInv, SnapshotsInv, C!CacheTypeOK, Conversations, JanitorRows
<1>2. /\ UNCHANGED <<reader, reads, deletes, log>> /\ row'.deleted = row.deleted
      /\ row'.revision = row.revision /\ row'.messages = row.messages
      /\ row' \in Conversations
      /\ row'.pending # row.pending =>
            row.deleted /\ janitor[j].pc = "ack" /\ row'.pending = FALSE
  <2>1. UNCHANGED <<reader, reads, deletes, log>>
    BY DEF C!Reconcile, C!LoadDeletion, C!PutTombstone, C!Acknowledge, C!JanitorStops
  <2>2. \/ row' = row
        \/ /\ row.deleted /\ janitor[j].pc = "ack"
           /\ row' = [row EXCEPT !.pending = FALSE]
    BY DEF C!Reconcile, C!LoadDeletion, C!PutTombstone, C!Acknowledge, C!JanitorStops
  <2> QED BY <1>1, <2>1, <2>2 DEF Conversations
<1>3. /\ janitor' \in [Janitors -> JanitorRows]
      /\ \A x \in Janitors : x # j => janitor'[x] = janitor[x]
      /\ janitor'[j].pc # "idle" => row.deleted /\ janitor'[j].revision = row.revision
      /\ cache' # None => Held(cache')
      /\ \A s \in late' : Held(s)
      /\ cacheFaults' \in 0 .. MaxCacheFaults
      /\ janitor'[j].pc = "ack" => cache' # None /\ cache'.deleted
      /\ Purged => Purged'
  <2>1. CASE C!LoadDeletion(j)
    <3>1. /\ row.pending /\ UNCHANGED <<cache, late, cacheFaults>>
          /\ janitor' = [janitor EXCEPT ![j] = [pc |-> "put", revision |-> row.revision]]
      BY <2>1 DEF C!LoadDeletion
    <3>2. row.deleted /\ row.revision \in Nat
      BY <1>1, <3>1, CacheAssumption DEF CacheInv, MessagesInv, Conversations
    <3> QED BY <1>1, <1>2, <3>1, <3>2 DEF Purged, JanitorRows
  <2>2. CASE C!PutTombstone(j)
    <3> DEFINE snap == C!Tombstone(janitor[j].revision)
    <3>1. /\ janitor[j].pc = "put" /\ row.deleted /\ janitor[j].revision = row.revision
          /\ row.revision = Len(log) + 1 /\ Len(log) + 1 \in 0 .. Quota + 1
      BY <1>1, <2>2, CacheAssumption DEF C!PutTombstone, CacheInv, PurgeInv, MessagesInv
    <3>2. Held(snap) /\ snap.deleted
      BY <3>1, EmptySeq DEF Held, C!Snapshots, C!Tombstone
    <3>3. /\ IF C!Valid(snap) THEN C!Called(snap) ELSE UNCHANGED <<cache, late, cacheFaults>>
          /\ janitor' = [janitor EXCEPT ![j].pc =
                IF C!Valid(snap) /\ cacheFaults' = cacheFaults THEN "ack" ELSE "idle"]
      BY <2>2 DEF C!PutTombstone
    <3> HIDE DEF snap
    <3>4. /\ cache' # None => Held(cache')
          /\ \A s \in late' : Held(s)
          /\ cacheFaults' \in 0 .. MaxCacheFaults
          /\ C!Valid(snap) /\ cacheFaults' = cacheFaults => cache' # None /\ cache'.deleted
      BY <1>1, <3>2, <3>3, CallHeld
    <3>5. Purged => Purged'
      <4>1. CASE C!Valid(snap)
        <5>1. /\ cache # None => cache' # None
              /\ cache # None /\ cache.deleted => cache'.deleted
              /\ (\A s \in late : s.deleted) => \A s \in late' : s.deleted
              /\ cache' # None /\ cache = None => cache'.deleted
          BY <3>2, <3>3, <4>1, CallHeld
        <5> QED BY <1>2, <5>1 DEF Purged
      <4>2. CASE ~C!Valid(snap)
        BY <1>2, <3>3, <4>2 DEF Purged
      <4> QED BY <4>1, <4>2
    <3>6. /\ janitor' \in [Janitors -> JanitorRows]
          /\ \A x \in Janitors : x # j => janitor'[x] = janitor[x]
          /\ janitor'[j].revision = janitor[j].revision
          /\ janitor'[j].pc = "ack" => C!Valid(snap) /\ cacheFaults' = cacheFaults
      BY <1>1, <3>3 DEF JanitorRows
    <3> QED BY <3>1, <3>4, <3>5, <3>6
  <2>3. CASE C!Acknowledge(j) \/ C!JanitorStops(j)
    <3>1. /\ janitor' = [janitor EXCEPT ![j] = C!Waiting]
          /\ UNCHANGED <<cache, late>> /\ cacheFaults' \in 0 .. MaxCacheFaults
      BY <1>1, <2>3, CacheAssumption DEF C!Acknowledge, C!JanitorStops
    <3> QED BY <1>1, <1>2, <3>1 DEF Purged, C!Waiting, JanitorRows
  <2> QED BY <2>1, <2>2, <2>3 DEF C!Reconcile
<1>4. \A snap : Held(snap) => Held(snap)'
  BY <1>2 DEF Held
<1>5. SnapshotsInv'
  BY <1>2, <1>3, <1>4 DEF CacheInv, SnapshotsInv, Held
<1>6. PurgeInv'
  <2>1. janitor'[j].pc = "ack" => Purged'
    BY <1>3 DEF Purged
  <2>2. row'.deleted /\ ~row'.pending => Purged'
    <3>1. CASE row'.pending = row.pending
      BY <1>2, <1>3, <3>1 DEF CacheInv, PurgeInv
    <3>2. CASE row'.pending # row.pending
      BY <1>2, <1>3, <3>2 DEF CacheInv, PurgeInv
    <3> QED BY <3>1, <3>2
  <2> QED BY <1>2, <1>3, <2>1, <2>2 DEF CacheInv, PurgeInv
<1>7. MessagesInv'
  BY <1>1, <1>2 DEF CacheInv, MessagesInv, Conversations
<1>8. C!CacheTypeOK'
  BY <1>2, <1>3 DEF CacheInv, C!CacheTypeOK, Held, Conversations, JanitorRows
<1> QED BY <1>2, <1>5, <1>6, <1>7, <1>8 DEF CacheInv

LEMMA CacheStepInv == CacheInv /\ [MCNext]_allVars => CacheInv'
<1> SUFFICES ASSUME CacheInv, [MCNext]_allVars PROVE CacheInv'
  OBVIOUS
<1>1. CASE C!CacheNext
  BY <1>1, RowSteps, EntrySteps, ListSteps, JanitorSteps DEF C!CacheNext
<1>2. CASE UNCHANGED cacheVars
  <2>1. UNCHANGED <<row, cache, late, reader, janitor, reads, deletes, cacheFaults, log>>
    BY <1>2 DEF cacheVars
  <2>2. Purged' <=> Purged
    BY <2>1 DEF Purged
  <2>3. \A snap : Held(snap)' <=> Held(snap)
    BY <2>1 DEF Held
  <2> QED BY <2>1, <2>2, <2>3 DEF CacheInv, C!CacheTypeOK, MessagesInv, SnapshotsInv, PurgeInv
<1> QED
  BY <1>1, <1>2 DEF MCNext, IndexStep, CacheStep, OriginalsStep, TextStep, Index, Cached,
                    Text, allVars

\* For any number of requests, servers and failures, and with calls that are
\* given up and still arrive: a list answers with the messages of one
\* revision that was current while it ran, and a deletion that is
\* acknowledged has left nothing in the cache.
THEOREM ReadsAreCurrentHolds == MCSpec => []ReadsAreCurrent
<1>1. MCInit => CacheInv
  BY CacheInitInv DEF MCInit
<1>2. CacheInv => ReadsAreCurrent
  <2> SUFFICES ASSUME CacheInv PROVE ReadsAreCurrent
    OBVIOUS
  <2>1. C!ReadsAreCurrent
    BY DEF CacheInv, SnapshotsInv, Held, C!ReadsAreCurrent
  <2>2. C!DeletedIsPurged
    BY DEF CacheInv, PurgeInv, Purged, C!DeletedIsPurged
  <2>3. C!CacheTypeOK
    BY DEF CacheInv
  <2> QED BY <2>1, <2>2, <2>3 DEF ReadsAreCurrent
<1> QED BY <1>1, <1>2, CacheStepInv, PTL DEF MCSpec

-----------------------------------------------------------------------------
(* TextRelay.  Whatever is under way was cut by the relay, which gave it a *)
(* sequence: of two packets with adjacent numbers the second is what       *)
(* follows the first.  The windows see to it that only those are joined.   *)

Details == T!Deltas \cup T!Notices
ProgressEvents == [sequence: Nat, kind: {"delta", "clear", "end"}, text: Texts \cup {None}]
Windows == [next: Nat \cup {None}, cleared: BOOLEAN, ended: BOOLEAN]

RelayTypeInv ==
    /\ executor \in [pc: {"sending", "persisting", "storing", "done"}, wrote: Nat]
    /\ events \in [open: BOOLEAN, queue: Seq(ProgressEvents), sequence: Nat]
    /\ relay \in [on: BOOLEAN, due: Nat, sequence: Nat, rest: Seq(Details)]
    /\ wire \in Seq(T!Packets)
    /\ sub \in [pc: {"absent", "on", "ended", "failed"}, queue: Seq(T!Packets),
                window: Windows]
    /\ view \in [pc: {"idle", "waiting", "checking", "silent", "closed"},
                 packet: T!Packets \cup {None}, window: Windows, shown: Seq(T!Pieces)]
    /\ status \in {"running", "final"}

BoundsInv ==
    /\ Len(events.queue) <= Capacity /\ Len(sub.queue) <= Capacity
    /\ Len(relay.rest) <= 2

\* The events of the channel are numbered, and a fragment has its own number.
EmissionInv ==
    /\ executor.pc = "sending" /\ events.open => events.sequence = executor.wrote
    /\ relay.on =>
        /\ events.sequence = relay.due + Len(events.queue)
        /\ \A i \in 1 .. Len(events.queue) :
            /\ events.queue[i].sequence = relay.due + i - 1
            /\ events.queue[i].kind = "delta" => events.queue[i].text = events.queue[i].sequence

Elems(s) == {s[i] : i \in 1 .. Len(s)}

\* What the relay has cut but not published, and what was shown last.
Cut ==
    {[sequence |-> relay.sequence + i - 1, detail |-> relay.rest[i]] :
        i \in 1 .. Len(relay.rest)}
Last ==
    {[sequence |-> view.window.next - 1,
      detail |-> [kind |-> "delta", text |-> view.shown[i]]] :
        i \in {j \in 1 .. Len(view.shown) : j = Len(view.shown)}}
Underway ==
    Elems(wire) \cup Elems(sub.queue) \cup ({view.packet} \ {None}) \cup Cut \cup Last

\* The number of the next packet that the relay will cut.
Produced == relay.sequence + Len(relay.rest)

Linked(packets) ==
    \A p, q \in packets :
        p.detail.kind = "delta" /\ q.detail.kind = "delta" /\ q.sequence = p.sequence + 1 =>
            T!Follows(p.detail.text, q.detail.text)

\* Nothing has a number that is still to come; the packet before it ends the
\* fragment before the one that is due.
Ends(packets, n, due) ==
    \A p \in packets :
        /\ p \in [sequence: Int, detail: Details] /\ p.sequence < n
        /\ p.detail.kind = "delta" /\ p.sequence = n - 1 =>
               p.detail.text[2] = p.detail.text[3] /\ p.detail.text[1] = due - 1

ChainInv ==
    /\ Linked(Underway)
    /\ relay.on => Ends(Underway, Produced, relay.due)

ViewInv ==
    /\ view.shown # <<>> => view.window.next # None
    /\ view.pc = "checking" <=> view.packet # None
    /\ T!ShownWithoutGaps

RelayInv == RelayTypeInv /\ BoundsInv /\ EmissionInv /\ ChainInv /\ ViewInv

-----------------------------------------------------------------------------

LEMMA ElemsAre ==
    ASSUME NEW S, NEW s \in Seq(S)
    PROVE  /\ Elems(s) \subseteq S
           /\ \A e \in S : Elems(Append(s, e)) = Elems(s) \cup {e}
           /\ s # <<>> => /\ Head(s) \in Elems(s) /\ Elems(Tail(s)) \subseteq Elems(s)
                          /\ Len(s) > 0
<1>1. Len(s) \in Nat /\ \A i \in 1 .. Len(s) : s[i] \in S
  BY LenProperties, ElementOfSeq
<1>2. Elems(s) \subseteq S
  BY <1>1 DEF Elems
<1>3. ASSUME NEW e \in S PROVE Elems(Append(s, e)) = Elems(s) \cup {e}
  <2>1. /\ Len(Append(s, e)) = Len(s) + 1
        /\ \A i \in 1 .. Len(s) : Append(s, e)[i] = s[i]
        /\ Append(s, e)[Len(s) + 1] = e
    BY AppendProperties
  <2>2. 1 .. Len(s) + 1 = (1 .. Len(s)) \cup {Len(s) + 1}
    BY <1>1
  <2> QED BY <1>1, <2>1, <2>2 DEF Elems
<1>4. ASSUME s # <<>>
      PROVE  Head(s) \in Elems(s) /\ Elems(Tail(s)) \subseteq Elems(s) /\ Len(s) > 0
  <2>1. Len(s) > 0
    BY <1>4, EmptySeq
  <2>2. Head(s) = s[1] /\ 1 \in 1 .. Len(s)
    BY <1>1, <2>1
  <2>3. /\ Len(Tail(s)) = Len(s) - 1
        /\ \A i \in 1 .. Len(Tail(s)) : Tail(s)[i] = s[i + 1]
    BY <1>4, HeadTailProperties
  <2>4. \A i \in 1 .. Len(Tail(s)) : i + 1 \in 1 .. Len(s)
    BY <1>1, <2>3
  <2> QED BY <2>1, <2>2, <2>3, <2>4 DEF Elems
<1> QED BY <1>2, <1>3, <1>4

\* A part of what is linked is linked.
LEMMA LinkedPart ==
    \A a, b : a \subseteq b =>
        /\ Linked(b) => Linked(a)
        /\ \A n, due : Ends(b, n, due) => Ends(a, n, due)
BY DEF Linked, Ends

LEMMA PacketShape ==
    ASSUME NEW p \in T!Packets
    PROVE  /\ p \in [sequence: Int, detail: Details] /\ p.sequence \in Nat
           /\ p.detail.kind \in {"delta", "clear", "end"}
           /\ p.detail.kind = "delta" =>
                 /\ p.detail.text \in T!Pieces
                 /\ p = [sequence |-> p.sequence,
                         detail |-> [kind |-> "delta", text |-> p.detail.text]]
BY DEF T!Packets, Details, T!Deltas, T!Notices

LEMMA RelayInit == T!TextInit => RelayInv
<1> SUFFICES ASSUME T!TextInit PROVE RelayInv
  OBVIOUS
<1>1. \A S : <<>> \in Seq(S) /\ Len(<<>>) = 0
  BY EmptySeq
<1>2. RelayTypeInv
  BY <1>1, TextAssumption DEF T!TextInit, T!Fresh, RelayTypeInv, Windows
<1>3. BoundsInv /\ EmissionInv
  BY <1>1, TextAssumption DEF T!TextInit, BoundsInv, EmissionInv
<1>4. Underway = {}
  BY <1>1 DEF T!TextInit, Underway, Elems, Cut, Last
<1>5. ChainInv
  BY <1>4 DEF ChainInv, Linked, Ends
<1>6. ViewInv
  BY <1>1 DEF T!TextInit, ViewInv, T!ShownWithoutGaps
<1> QED BY <1>2, <1>3, <1>5, <1>6 DEF RelayInv

-----------------------------------------------------------------------------
(* What the executor does.                                                 *)

\* A notice that is sent, or a channel that is closed.
LEMMA Sent ==
    ASSUME RelayInv, NEW kind \in {"delta", "clear", "end"}, NEW text \in Texts \cup {None},
           NEW last \in BOOLEAN, T!Sends(kind, text, last),
           kind = "delta" => text = events.sequence \/ ~events.open
    PROVE  /\ events' \in [open: BOOLEAN, queue: Seq(ProgressEvents), sequence: Nat]
           /\ Len(events'.queue) <= Capacity
           /\ events'.open => /\ events.open /\ ~last
                              /\ events'.sequence = events.sequence + 1
           /\ relay.on =>
                /\ events'.sequence = relay.due + Len(events'.queue)
                /\ \A i \in 1 .. Len(events'.queue) :
                    /\ events'.queue[i].sequence = relay.due + i - 1
                    /\ events'.queue[i].kind = "delta" =>
                          events'.queue[i].text = events'.queue[i].sequence
<1>1. /\ events \in [open: BOOLEAN, queue: Seq(ProgressEvents), sequence: Nat]
      /\ Len(events.queue) \in Nat /\ Len(events.queue) <= Capacity /\ Capacity \in Nat
      /\ relay.due \in Nat
  BY LenProperties, TextAssumption DEF RelayInv, RelayTypeInv, BoundsInv
<1>2. CASE events.open /\ T!Room
  <2> DEFINE e == T!Event(kind, text)
  <2>1. events' = [open |-> ~last, queue |-> Append(events.queue, e),
                   sequence |-> events.sequence + 1]
    BY <1>2 DEF T!Sends
  <2>2. /\ e \in ProgressEvents /\ e.sequence = events.sequence
        /\ e.kind = kind /\ e.text = text
    BY <1>1 DEF T!Event, ProgressEvents
  <2> HIDE DEF e
  <2>3. /\ Append(events.queue, e) \in Seq(ProgressEvents)
        /\ Len(Append(events.queue, e)) = Len(events.queue) + 1
        /\ \A i \in 1 .. Len(events.queue) : Append(events.queue, e)[i] = events.queue[i]
        /\ Append(events.queue, e)[Len(events.queue) + 1] = e
    BY <1>1, <2>2, AppendProperties
  <2>4. Len(events.queue) + 1 <= Capacity
    BY <1>1, <1>2 DEF T!Room
  <2>5. kind = "delta" => text = events.sequence
    BY <1>2
  <2>6. ASSUME relay.on
        PROVE  /\ events'.sequence = relay.due + Len(events'.queue)
               /\ \A i \in 1 .. Len(events'.queue) :
                    /\ events'.queue[i].sequence = relay.due + i - 1
                    /\ events'.queue[i].kind = "delta" =>
                          events'.queue[i].text = events'.queue[i].sequence
    <3>1. events.sequence = relay.due + Len(events.queue)
      BY <2>6 DEF RelayInv, EmissionInv
    <3>2. ASSUME NEW i \in 1 .. Len(events.queue) + 1
          PROVE  /\ events'.queue[i].sequence = relay.due + i - 1
                 /\ events'.queue[i].kind = "delta" =>
                          events'.queue[i].text = events'.queue[i].sequence
      <4>1. CASE i = Len(events.queue) + 1
        BY <1>1, <2>1, <2>2, <2>3, <2>5, <3>1, <4>1
      <4>2. CASE i \in 1 .. Len(events.queue)
        BY <2>1, <2>3, <2>6, <4>2 DEF RelayInv, EmissionInv
      <4> QED BY <1>1, <4>1, <4>2
    <3>3. events'.queue = Append(events.queue, e) /\ events'.sequence = events.sequence + 1
      BY <2>1
    <3>4. Len(events'.queue) = Len(events.queue) + 1
      BY <2>3, <3>3
    <3>5. \A a, b \in Nat : a + b + 1 = a + (b + 1)
      OBVIOUS
    <3>6. events'.sequence = relay.due + Len(events'.queue)
      BY <1>1, <3>1, <3>3, <3>4, <3>5
    <3> QED BY <3>2, <3>4, <3>6
  <2>7. /\ events' \in [open: BOOLEAN, queue: Seq(ProgressEvents), sequence: Nat]
        /\ Len(events'.queue) <= Capacity
        /\ events'.open = ~last /\ events'.sequence = events.sequence + 1
    BY <1>1, <2>1, <2>3, <2>4
  <2> QED BY <1>1, <1>2, <2>6, <2>7
<1>3. CASE ~(events.open /\ T!Room)
  <2>1. events' = [open |-> FALSE, queue |-> events.queue, sequence |-> events.sequence]
    BY <1>1, <1>3 DEF T!Sends
  <2>2. /\ events'.open = FALSE /\ events'.queue = events.queue
        /\ events'.sequence = events.sequence
    BY <2>1
  <2>3. events' \in [open: BOOLEAN, queue: Seq(ProgressEvents), sequence: Nat]
    BY <1>1, <2>1
  <2> QED BY <1>1, <2>2, <2>3 DEF RelayInv, EmissionInv
<1> QED BY <1>2, <1>3

\* What a step leaves of the invariant that changes nothing but the store,
\* the executor and its channel.
LEMMA TransportStays ==
    ASSUME RelayInv, UNCHANGED <<relay, wire, sub, view>>
    PROVE  ChainInv' /\ ViewInv'
<1>1. Underway' = Underway /\ Produced' = Produced
  BY DEF Underway, Cut, Last, Produced, Elems
<1>2. T!ShownWithoutGaps'
  BY DEF RelayInv, ViewInv, T!ShownWithoutGaps
<1> QED BY <1>1, <1>2 DEF RelayInv, ChainInv, ViewInv

LEMMA ExecutorSteps ==
    ASSUME RelayInv, T!Execute \/ T!Withdrawn
    PROVE  RelayInv'
<1>1. UNCHANGED <<relay, wire, sub, view>> /\ status' \in {"running", "final"}
  BY DEF T!Execute, T!Emit, T!Answered, T!Persist, T!Conclude, T!Withdrawn, RelayInv,
         RelayTypeInv
<1>2. ChainInv' /\ ViewInv'
  BY <1>1, TransportStays
<1>3. executor \in [pc: {"sending", "persisting", "storing", "done"}, wrote: Nat]
  BY DEF RelayInv, RelayTypeInv
<1>4. CASE T!Emit
  <2>1. /\ executor.pc = "sending" /\ executor.wrote \in Texts
        /\ executor' = [executor EXCEPT !.wrote = @ + 1]
        /\ T!Sends("delta", executor.wrote, FALSE)
    BY <1>4 DEF T!Emit
  <2>3. executor.wrote = events.sequence \/ ~events.open
    BY <2>1 DEF RelayInv, EmissionInv
  <2>4. /\ events' \in [open: BOOLEAN, queue: Seq(ProgressEvents), sequence: Nat]
        /\ Len(events'.queue) <= Capacity
        /\ events'.open => events.open /\ events'.sequence = events.sequence + 1
        /\ relay.on =>
             /\ events'.sequence = relay.due + Len(events'.queue)
             /\ \A i \in 1 .. Len(events'.queue) :
                 /\ events'.queue[i].sequence = relay.due + i - 1
                 /\ events'.queue[i].kind = "delta" =>
                       events'.queue[i].text = events'.queue[i].sequence
    <3>1. "delta" = "delta" => executor.wrote = events.sequence \/ ~events.open
      BY <2>3
    <3> QED BY <2>1, <3>1, Sent
  <2>5. EmissionInv'
    BY <1>1, <1>3, <2>1, <2>3, <2>4 DEF EmissionInv
  <2>6. executor' \in [pc: {"sending", "persisting", "storing", "done"}, wrote: Nat]
    BY <1>3, <2>1
  <2>7. RelayTypeInv'
    BY <1>1, <2>4, <2>6 DEF RelayInv, RelayTypeInv
  <2>8. BoundsInv'
    BY <1>1, <2>4 DEF RelayInv, BoundsInv
  <2> QED BY <1>2, <2>5, <2>7, <2>8 DEF RelayInv
<1>5. CASE T!Answered \/ T!Conclude
  <2>1. /\ executor' \in [pc: {"persisting", "done"}, wrote: Nat]
        /\ \E kind \in {"clear", "end"}, last \in BOOLEAN : T!Sends(kind, None, last)
    BY <1>3, <1>5 DEF T!Answered, T!Conclude
  <2>2. /\ events' \in [open: BOOLEAN, queue: Seq(ProgressEvents), sequence: Nat]
        /\ Len(events'.queue) <= Capacity
        /\ relay.on =>
             /\ events'.sequence = relay.due + Len(events'.queue)
             /\ \A i \in 1 .. Len(events'.queue) :
                 /\ events'.queue[i].sequence = relay.due + i - 1
                 /\ events'.queue[i].kind = "delta" =>
                       events'.queue[i].text = events'.queue[i].sequence
    <3>1. PICK kind \in {"clear", "end"}, last \in BOOLEAN : T!Sends(kind, None, last)
      BY <2>1
    <3>2. kind = "delta" => None = events.sequence \/ ~events.open
      OBVIOUS
    <3> QED BY <3>1, <3>2, Sent
  <2>3. EmissionInv'
    BY <1>1, <2>1, <2>2 DEF EmissionInv
  <2> QED BY <1>1, <1>2, <2>1, <2>2, <2>3 DEF RelayInv, RelayTypeInv, BoundsInv
<1>6. CASE T!Persist \/ T!Withdrawn
  <2>1. /\ UNCHANGED events
        /\ executor' \in [pc: {"sending", "persisting", "storing", "done"}, wrote: Nat]
        /\ executor'.pc = "sending" => executor' = executor
    BY <1>3, <1>6 DEF T!Persist, T!Withdrawn
  <2>2. EmissionInv'
    BY <1>1, <2>1 DEF RelayInv, EmissionInv
  <2> QED BY <1>1, <1>2, <2>1, <2>2 DEF RelayInv, RelayTypeInv, BoundsInv
<1> QED BY <1>4, <1>5, <1>6 DEF T!Execute

-----------------------------------------------------------------------------
(* The relay.                                                              *)

\* What a step has to show that puts nothing new under way.
LEMMA NothingNew ==
    ASSUME RelayInv, Underway' \subseteq Underway, Produced' = Produced,
           relay'.on => relay.on /\ relay'.due = relay.due
    PROVE  ChainInv'
<1>1. Linked(Underway) => Linked(Underway')
  BY LinkedPart
<1>2. Ends(Underway, Produced, relay.due) => Ends(Underway', Produced, relay.due)
  BY LinkedPart
<1>3. relay'.on => Ends(Underway', Produced', relay'.due)
  BY <1>2 DEF RelayInv, ChainInv
<1>4. Linked(Underway)' <=> Linked(Underway')
  BY DEF Linked
<1>5. Ends(Underway, Produced, relay.due)' <=> Ends(Underway', Produced', relay'.due)
  BY DEF Ends
<1> QED BY <1>1, <1>3, <1>4, <1>5 DEF RelayInv, ChainInv

\* A relay that stops leaves what it had cut where it is.
LEMMA RelayEnds ==
    ASSUME RelayInv, T!RelayStops
    PROVE  /\ relay' \in [on: BOOLEAN, due: Nat, sequence: Nat, rest: Seq(Details)]
           /\ events' \in [open: BOOLEAN, queue: Seq(ProgressEvents), sequence: Nat]
           /\ ~relay'.on /\ Cut' = Cut /\ Produced' = Produced
           /\ Len(events'.queue) <= Capacity /\ Len(relay'.rest) <= 2
           /\ ~events'.open
<1>1. /\ relay \in [on: BOOLEAN, due: Nat, sequence: Nat, rest: Seq(Details)]
      /\ events \in [open: BOOLEAN, queue: Seq(ProgressEvents), sequence: Nat]
  BY DEF RelayInv, RelayTypeInv
<1>2. /\ relay' = [on |-> FALSE, due |-> relay.due, sequence |-> relay.sequence,
                   rest |-> relay.rest]
      /\ events' = [open |-> FALSE, queue |-> <<>>, sequence |-> events.sequence]
  BY <1>1 DEF T!RelayStops
<1>3. <<>> \in Seq(ProgressEvents) /\ Len(<<>>) = 0
  BY EmptySeq
<1>4. Cut' = Cut /\ Produced' = Produced
  BY <1>2 DEF Cut, Produced
<1> QED BY <1>1, <1>2, <1>3, <1>4, TextAssumption DEF RelayInv, BoundsInv

\* The pieces of a fragment follow one another, and the last one ends it.
LEMMA CutIsLinked ==
    ASSUME RelayInv, relay.on, relay.rest = <<>>, NEW n \in {1, 2},
           NEW rest \in Seq(Details), relay'.sequence = relay.sequence,
           relay'.rest = rest, relay'.due = relay.due + 1, UNCHANGED <<wire, sub, view>>,
           \/ /\ relay.due \in Texts
              /\ rest = [i \in 1 .. n |->
                            [kind |-> "delta", text |-> <<relay.due, i, n>>]]
           \/ \E d \in Details : d.kind # "delta" /\ rest = <<d>>
    PROVE  ChainInv'
<1>1. /\ relay.sequence \in Nat /\ relay.due \in Nat /\ Len(rest) \in Nat
      /\ Len(relay.rest) = 0 /\ Produced = relay.sequence
      /\ Produced' = relay.sequence + Len(rest)
  BY EmptySeq, LenProperties DEF RelayInv, RelayTypeInv, Produced
<1>2. Cut' = {[sequence |-> relay.sequence + i - 1, detail |-> rest[i]] : i \in 1 .. Len(rest)}
  BY DEF Cut
<1>3. Underway' \subseteq Underway \cup Cut'
  BY DEF Underway, Last, Elems
<1>4. \A p \in Underway :
        /\ p \in [sequence: Int, detail: Details] /\ p.sequence < relay.sequence
        /\ p.detail.kind = "delta" /\ p.sequence = relay.sequence - 1 =>
               p.detail.text[2] = p.detail.text[3] /\ p.detail.text[1] = relay.due - 1
  BY <1>1 DEF RelayInv, ChainInv, Ends
<1>5. /\ \A q \in Cut' :
            /\ q \in [sequence: Int, detail: Details]
            /\ q.sequence >= relay.sequence /\ q.sequence < relay.sequence + Len(rest)
            /\ q.detail.kind = "delta" /\ q.sequence = relay.sequence + Len(rest) - 1 =>
                  q.detail.text[2] = q.detail.text[3] /\ q.detail.text[1] = relay.due
            /\ q.detail.kind = "delta" /\ q.sequence = relay.sequence =>
                  q.detail.text[1] = relay.due /\ q.detail.text[2] = 1
      /\ \A p, q \in Cut' : p.detail.kind = "delta" /\ q.detail.kind = "delta"
                            /\ q.sequence = p.sequence + 1 =>
            T!Follows(p.detail.text, q.detail.text)
      /\ Len(rest) > 0
  <2>1. CASE /\ relay.due \in Texts
             /\ rest = [i \in 1 .. n |->
                            [kind |-> "delta", text |-> <<relay.due, i, n>>]]
    <3>1. Len(rest) = n /\ \A i \in 1 .. n :
             rest[i] = [kind |-> "delta", text |-> <<relay.due, i, n>>]
      BY <2>1
    <3>2. \A q \in Cut' : \E i \in 1 .. n :
             /\ q.sequence = relay.sequence + i - 1 /\ q.detail.kind = "delta"
             /\ q.detail.text = <<relay.due, i, n>> /\ q.detail = rest[i]
             /\ q = [sequence |-> relay.sequence + i - 1, detail |-> rest[i]]
      BY <1>2, <3>1
    <3>3. \A i \in 1 .. n : rest[i] \in Details /\ relay.sequence + i - 1 \in Int
      BY <1>1, <3>1, ElementOfSeq
    <3>4. ASSUME NEW q \in Cut'
          PROVE  /\ q \in [sequence: Int, detail: Details]
                 /\ q.sequence >= relay.sequence /\ q.sequence < relay.sequence + Len(rest)
                 /\ q.sequence = relay.sequence + Len(rest) - 1 =>
                       q.detail.text[2] = q.detail.text[3] /\ q.detail.text[1] = relay.due
                 /\ q.sequence = relay.sequence =>
                       q.detail.text[1] = relay.due /\ q.detail.text[2] = 1
      <4>1. PICK i \in 1 .. n :
               /\ q.sequence = relay.sequence + i - 1
               /\ q.detail.text = <<relay.due, i, n>> /\ q.detail = rest[i]
               /\ q = [sequence |-> relay.sequence + i - 1, detail |-> rest[i]]
        BY <3>2
      <4> QED BY <1>1, <3>1, <3>3, <4>1
    <3>5. ASSUME NEW p \in Cut', NEW q \in Cut', q.sequence = p.sequence + 1
          PROVE  T!Follows(p.detail.text, q.detail.text)
      <4>1. PICK i \in 1 .. n : /\ p.sequence = relay.sequence + i - 1
                                /\ p.detail.text = <<relay.due, i, n>>
        BY <3>2
      <4>2. PICK j \in 1 .. n : /\ q.sequence = relay.sequence + j - 1
                                /\ q.detail.text = <<relay.due, j, n>>
        BY <3>2
      <4>3. j = i + 1 /\ i < n
        BY <1>1, <3>5, <4>1, <4>2
      <4> QED BY <4>1, <4>2, <4>3 DEF T!Follows
    <3> QED BY <3>1, <3>4, <3>5
  <2>2. CASE \E d \in Details : d.kind # "delta" /\ rest = <<d>>
    <3>1. PICK d \in Details : d.kind # "delta" /\ rest = <<d>>
      BY <2>2
    <3>2. Len(rest) = 1 /\ rest[1] = d
      BY <3>1
    <3>3. Cut' = {[sequence |-> relay.sequence, detail |-> d]}
      BY <1>1, <1>2, <3>2
    <3> QED BY <1>1, <3>1, <3>2, <3>3
  <2> QED BY <2>1, <2>2
<1>6. Linked(Underway')
  <2> SUFFICES ASSUME NEW p \in Underway', NEW q \in Underway',
                      p.detail.kind = "delta", q.detail.kind = "delta",
                      q.sequence = p.sequence + 1
               PROVE  T!Follows(p.detail.text, q.detail.text)
    BY DEF Linked
  <2>1. CASE p \in Underway /\ q \in Underway
    BY <2>1 DEF RelayInv, ChainInv, Linked
  <2>2. CASE p \in Underway /\ q \in Cut'
    <3>1. q.sequence = relay.sequence /\ p.sequence = relay.sequence - 1
      BY <1>1, <1>4, <1>5, <2>2
    <3>2. /\ p.detail.text[2] = p.detail.text[3] /\ p.detail.text[1] = relay.due - 1
          /\ q.detail.text[1] = relay.due /\ q.detail.text[2] = 1
      BY <1>4, <1>5, <2>2, <3>1
    <3>3. p.detail \in Details
      BY <1>4, <2>2
    <3>4. p.detail.text[2] \in {1, 2}
      BY <3>3 DEF Details, T!Deltas, T!Notices, T!Pieces
    <3> QED BY <1>1, <3>2, <3>4 DEF T!Follows
  <2>3. CASE p \in Cut' /\ q \in Underway
    BY <1>1, <1>4, <1>5, <2>3
  <2>4. CASE p \in Cut' /\ q \in Cut'
    BY <1>5, <2>4
  <2> QED BY <1>3, <2>1, <2>2, <2>3, <2>4
<1>7. Ends(Underway', Produced', relay'.due)
  <2> SUFFICES ASSUME NEW p \in Underway'
               PROVE  /\ p \in [sequence: Int, detail: Details] /\ p.sequence < Produced'
                      /\ p.detail.kind = "delta" /\ p.sequence = Produced' - 1 =>
                            /\ p.detail.text[2] = p.detail.text[3]
                            /\ p.detail.text[1] = relay'.due - 1
    BY DEF Ends
  <2>1. CASE p \in Underway
    BY <1>1, <1>4, <1>5, <2>1
  <2>2. CASE p \in Cut'
    BY <1>1, <1>5, <2>2
  <2> QED BY <1>3, <2>1, <2>2
<1>8. Linked(Underway)' <=> Linked(Underway')
  BY DEF Linked
<1>9. Ends(Underway, Produced, relay.due)' <=> Ends(Underway', Produced', relay'.due)
  BY DEF Ends
<1> QED BY <1>6, <1>7, <1>8, <1>9 DEF ChainInv

LEMMA TakeEventStep ==
    ASSUME RelayInv, T!TakeEvent
    PROVE  RelayInv'
<1>1. /\ relay.on /\ relay.rest = <<>> /\ events.queue # <<>>
      /\ UNCHANGED <<executor, wire, sub, view, status>>
  BY DEF T!TakeEvent
<1> DEFINE e == Head(events.queue)
<1>2. /\ events \in [open: BOOLEAN, queue: Seq(ProgressEvents), sequence: Nat]
      /\ relay \in [on: BOOLEAN, due: Nat, sequence: Nat, rest: Seq(Details)]
  BY DEF RelayInv, RelayTypeInv
<1>3. /\ Len(events.queue) \in Nat /\ Len(events.queue) > 0 /\ Len(events.queue) <= Capacity
      /\ e = events.queue[1] /\ e \in ProgressEvents
      /\ Tail(events.queue) \in Seq(ProgressEvents)
      /\ Len(Tail(events.queue)) = Len(events.queue) - 1
      /\ \A i \in 1 .. Len(events.queue) - 1 : Tail(events.queue)[i] = events.queue[i + 1]
  BY <1>1, <1>2, HeadTailProperties, LenProperties, EmptySeq DEF RelayInv, BoundsInv
<1>4. ViewInv'
  BY <1>1 DEF RelayInv, ViewInv, T!ShownWithoutGaps
<1>5. CASE T!RelayStops
  <2>1. /\ relay' \in [on: BOOLEAN, due: Nat, sequence: Nat, rest: Seq(Details)]
        /\ events' \in [open: BOOLEAN, queue: Seq(ProgressEvents), sequence: Nat]
        /\ ~relay'.on /\ Cut' = Cut /\ Produced' = Produced
        /\ Len(events'.queue) <= Capacity /\ Len(relay'.rest) <= 2
        /\ ~events'.open
    BY <1>5, RelayEnds
  <2>2. Underway' \subseteq Underway
    BY <1>1, <2>1 DEF Underway, Elems, Last
  <2>3. ChainInv'
    BY <2>1, <2>2, NothingNew
  <2> QED BY <1>1, <1>4, <2>1, <2>3 DEF RelayInv, RelayTypeInv, BoundsInv, EmissionInv
<1>6. CASE ~T!RelayStops
  <2>1. PICK n \in {1, 2} :
          /\ e.sequence = relay.due
          /\ events' = [events EXCEPT !.queue = Tail(@)]
          /\ relay' = [relay EXCEPT !.due = @ + 1,
                    !.rest = IF e.kind = "delta"
                             THEN [i \in 1 .. n |-> [kind |-> "delta", text |-> <<e.text, i, n>>]]
                             ELSE <<[kind |-> e.kind, text |-> None]>>]
    BY <1>6 DEF T!TakeEvent
  <2> DEFINE rest == IF e.kind = "delta"
                     THEN [i \in 1 .. n |-> [kind |-> "delta", text |-> <<e.text, i, n>>]]
                     ELSE <<[kind |-> e.kind, text |-> None]>>
  <2>2. e.kind = "delta" => e.text = relay.due /\ relay.due \in Texts
    <3>1. e.kind = "delta" => e.text = e.sequence
      BY <1>1, <1>3 DEF RelayInv, EmissionInv
    <3>2. relay.due \in Nat /\ e.text \in Texts \cup {None}
      BY <1>2, <1>3 DEF ProgressEvents
    <3> QED BY <2>1, <3>1, <3>2, TextAssumption
  <2>3. /\ rest \in Seq(Details) /\ Len(rest) <= 2
        /\ \/ /\ relay.due \in Texts
              /\ rest = [i \in 1 .. n |->
                            [kind |-> "delta", text |-> <<relay.due, i, n>>]]
           \/ \E d \in Details : d.kind # "delta" /\ rest = <<d>>
    <3>1. CASE e.kind = "delta"
      <4>1. rest = [i \in 1 .. n |-> [kind |-> "delta", text |-> <<relay.due, i, n>>]]
        BY <2>2, <3>1
      <4>2. \A i \in 1 .. n : [kind |-> "delta", text |-> <<relay.due, i, n>>] \in Details
        <5> TAKE i \in 1 .. n
        <5>1. <<relay.due, i, n>> \in T!Pieces
          BY <2>2, <3>1 DEF T!Pieces
        <5> QED BY <5>1 DEF Details, T!Deltas
      <4> HIDE DEF rest
      <4>3. rest \in [1 .. n -> Details] /\ n \in Nat
        BY <4>1, <4>2
      <4>4. rest \in Seq(Details) /\ Len(rest) = n
        BY <4>3
      <4> QED BY <2>2, <3>1, <4>1, <4>4
    <3>2. CASE e.kind # "delta"
      <4>1. [kind |-> e.kind, text |-> None] \in Details
        BY <1>3, <3>2 DEF Details, T!Notices, ProgressEvents
      <4>2. rest = <<[kind |-> e.kind, text |-> None]>>
        BY <3>2
      <4> HIDE DEF rest
      <4> QED BY <3>2, <4>1, <4>2
    <3> QED BY <3>1, <3>2
  <2>4. /\ relay' = [on |-> TRUE, due |-> relay.due + 1, sequence |-> relay.sequence,
                     rest |-> rest]
        /\ events' = [open |-> events.open, queue |-> Tail(events.queue),
                      sequence |-> events.sequence]
    BY <1>1, <1>2, <2>1
  <2> HIDE DEF rest, e
  <2>5. ChainInv'
    BY <1>1, <2>3, <2>4, CutIsLinked
  <2>6. EmissionInv'
    <3>1. /\ events.sequence = relay.due + Len(events.queue)
          /\ \A i \in 1 .. Len(events.queue) :
                /\ events.queue[i].sequence = relay.due + i - 1
                /\ events.queue[i].kind = "delta" =>
                      events.queue[i].text = events.queue[i].sequence
      BY <1>1 DEF RelayInv, EmissionInv
    <3>2. relay.due \in Nat
      BY <1>2
    <3>3. \A i \in 1 .. Len(events'.queue) :
            /\ events'.queue[i].sequence = relay'.due + i - 1
            /\ events'.queue[i].kind = "delta" =>
                  events'.queue[i].text = events'.queue[i].sequence
      <4> SUFFICES ASSUME NEW i \in 1 .. Len(events.queue) - 1
                   PROVE  /\ events.queue[i + 1].sequence = relay.due + 1 + i - 1
                          /\ events.queue[i + 1].kind = "delta" =>
                                events.queue[i + 1].text = events.queue[i + 1].sequence
        BY <1>3, <2>4 DEF e
      <4>1. i + 1 \in 1 .. Len(events.queue) /\ i \in Int
        BY <1>3
      <4>2. relay.due + (i + 1) - 1 = relay.due + 1 + i - 1
        BY <3>2, <4>1
      <4>3. /\ events.queue[i + 1].sequence = relay.due + (i + 1) - 1
            /\ events.queue[i + 1].kind = "delta" =>
                  events.queue[i + 1].text = events.queue[i + 1].sequence
        BY <3>1, <4>1
      <4> QED BY <4>2, <4>3
    <3>4. events'.sequence = relay'.due + Len(events'.queue)
      <4>1. /\ events'.sequence = events.sequence /\ relay'.due = relay.due + 1
            /\ Len(events'.queue) = Len(events.queue) - 1
        BY <1>3, <2>4
      <4>2. \A a, b \in Nat : a + b = (a + 1) + (b - 1)
        OBVIOUS
      <4> QED BY <1>3, <3>1, <3>2, <4>1, <4>2
    <3>5. events'.open = events.open /\ events'.sequence = events.sequence
      BY <2>4
    <3>6. executor'.pc = "sending" /\ events'.open => events'.sequence = executor'.wrote
      BY <1>1, <3>5 DEF RelayInv, EmissionInv
    <3> QED BY <3>3, <3>4, <3>6 DEF EmissionInv
  <2>7. BoundsInv'
    BY <1>1, <1>3, <2>3, <2>4, TextAssumption DEF RelayInv, BoundsInv
  <2>8. RelayTypeInv'
    BY <1>1, <1>2, <1>3, <2>3, <2>4 DEF RelayInv, RelayTypeInv
  <2> QED BY <1>4, <2>5, <2>6, <2>7, <2>8 DEF RelayInv
<1> QED BY <1>5, <1>6

LEMMA PublishStep ==
    ASSUME RelayInv, T!Publish
    PROVE  RelayInv'
<1>1. /\ relay.on /\ relay.rest # <<>>
      /\ UNCHANGED <<executor, sub, view, status>>
      /\ wire' \in {wire, Append(wire, T!Packet)}
  BY DEF T!Publish
<1>2. /\ events \in [open: BOOLEAN, queue: Seq(ProgressEvents), sequence: Nat]
      /\ relay \in [on: BOOLEAN, due: Nat, sequence: Nat, rest: Seq(Details)]
      /\ wire \in Seq(T!Packets)
  BY DEF RelayInv, RelayTypeInv
<1>3. /\ Head(relay.rest) = relay.rest[1] /\ Head(relay.rest) \in Details
      /\ Tail(relay.rest) \in Seq(Details) /\ Len(relay.rest) \in Nat /\ Len(relay.rest) > 0
      /\ Len(Tail(relay.rest)) = Len(relay.rest) - 1
      /\ \A i \in 1 .. Len(relay.rest) - 1 : Tail(relay.rest)[i] = relay.rest[i + 1]
  BY <1>1, <1>2, HeadTailProperties, LenProperties, EmptySeq
<1>4. T!Packet \in T!Packets /\ T!Packet \in Cut
  <2>1. T!Packet = [sequence |-> relay.sequence, detail |-> relay.rest[1]]
    BY <1>3 DEF T!Packet
  <2>2. relay.sequence + 1 - 1 = relay.sequence /\ 1 \in 1 .. Len(relay.rest)
    BY <1>2, <1>3
  <2> QED BY <1>2, <1>3, <2>1, <2>2 DEF T!Packets, Details, Cut
<1>5. wire' \in Seq(T!Packets) /\ Elems(wire') \subseteq Elems(wire) \cup Cut
  <2>1. CASE wire' = wire
    BY <1>2, <2>1
  <2>2. CASE wire' = Append(wire, T!Packet)
    <3>1. Append(wire, T!Packet) \in Seq(T!Packets)
      BY <1>2, <1>4, AppendProperties
    <3>2. Elems(Append(wire, T!Packet)) = Elems(wire) \cup {T!Packet}
      BY <1>2, <1>4, ElemsAre
    <3> QED BY <1>4, <2>2, <3>1, <3>2
  <2> QED BY <1>1, <2>1, <2>2
<1>6. /\ relay' \in [on: BOOLEAN, due: Nat, sequence: Nat, rest: Seq(Details)]
      /\ events' \in [open: BOOLEAN, queue: Seq(ProgressEvents), sequence: Nat]
      /\ relay'.on => relay'.due = relay.due
      /\ Cut' \subseteq Cut /\ Produced' = Produced
      /\ Len(events'.queue) <= Capacity /\ Len(relay'.rest) <= 2
      /\ events' = events \/ (~events'.open /\ ~relay'.on)
  <2>1. CASE T!RelayStops
    BY <2>1, RelayEnds
  <2>2. CASE /\ relay' = [relay EXCEPT !.sequence = @ + 1, !.rest = Tail(@),
                                       !.on = Head(relay.rest).kind # "end"]
             /\ UNCHANGED events
    <3>1. PICK on \in BOOLEAN :
             relay' = [on |-> on, due |-> relay.due, sequence |-> relay.sequence + 1,
                       rest |-> Tail(relay.rest)]
      BY <1>2, <2>2
    <3>2. Cut' \subseteq Cut
      <4> SUFFICES ASSUME NEW p \in Cut' PROVE p \in Cut
        OBVIOUS
      <4>1. PICK i \in 1 .. Len(relay.rest) - 1 :
              p = [sequence |-> relay.sequence + 1 + i - 1, detail |-> relay.rest[i + 1]]
        BY <1>3, <3>1 DEF Cut
      <4>2. /\ i + 1 \in 1 .. Len(relay.rest)
            /\ relay.sequence + 1 + i - 1 = relay.sequence + (i + 1) - 1
        BY <1>2, <1>3
      <4> QED BY <4>1, <4>2 DEF Cut
    <3>3. Produced' = Produced
      BY <1>2, <1>3, <3>1 DEF Produced
    <3>4. Len(relay'.rest) <= 2
      BY <1>3, <3>1 DEF RelayInv, BoundsInv
    <3> QED BY <1>2, <1>3, <2>2, <3>1, <3>2, <3>3, <3>4 DEF RelayInv, BoundsInv
  <2> QED BY <2>1, <2>2 DEF T!Publish
<1>7. ChainInv'
  <2>1. Underway' \subseteq Underway
    <3>1. Elems(sub.queue)' = Elems(sub.queue) /\ Last' = Last
      BY <1>1 DEF Elems, Last
    <3>2. Elems(wire)' = Elems(wire')
      BY DEF Elems
    <3> QED BY <1>1, <1>5, <1>6, <3>1, <3>2 DEF Underway
  <2> QED BY <1>1, <1>6, <2>1, NothingNew
<1>8. ViewInv'
  BY <1>1 DEF RelayInv, ViewInv, T!ShownWithoutGaps
<1>9. EmissionInv'
  BY <1>1, <1>6 DEF RelayInv, EmissionInv
<1>10. RelayTypeInv' /\ BoundsInv'
  BY <1>1, <1>5, <1>6 DEF RelayInv, RelayTypeInv, BoundsInv
<1> QED BY <1>7, <1>8, <1>9, <1>10 DEF RelayInv

-----------------------------------------------------------------------------
(* The subscription and the request.                                       *)

Subscriptions ==
    [pc: {"absent", "on", "ended", "failed"}, queue: Seq(T!Packets), window: Windows]
Observations ==
    [pc: {"idle", "waiting", "checking", "silent", "closed"},
     packet: T!Packets \cup {None}, window: Windows, shown: Seq(T!Pieces)]

\* What a step has to show that leaves the relay alone.
LEMMA WatchersMove ==
    ASSUME RelayInv, UNCHANGED <<executor, events, relay, status>>,
           wire' \in Seq(T!Packets), sub' \in Subscriptions, view' \in Observations,
           Len(sub'.queue) <= Capacity, ViewInv',
           Elems(wire') \subseteq Elems(wire),
           Elems(sub'.queue) \subseteq Elems(sub.queue) \cup Elems(wire),
           view'.packet # None => view'.packet \in {view.packet} \cup Elems(sub.queue),
           Last' \subseteq Last \cup ({view.packet} \ {None})
    PROVE  RelayInv'
<1>1. Underway' = Elems(wire') \cup Elems(sub'.queue) \cup ({view'.packet} \ {None})
                  \cup Cut' \cup Last'
  BY DEF Underway, Elems
<1>2. Cut' = Cut /\ Produced' = Produced
  BY DEF Cut, Produced
<1>3. Underway' \subseteq Underway
  BY <1>1, <1>2 DEF Underway
<1>4. ChainInv'
  BY <1>2, <1>3, NothingNew
<1>5. EmissionInv'
  BY DEF RelayInv, EmissionInv
<1>6. RelayTypeInv' /\ BoundsInv'
  BY DEF RelayInv, RelayTypeInv, BoundsInv, Subscriptions, Observations
<1> QED BY <1>4, <1>5, <1>6 DEF RelayInv

LEMMA AcceptedIs ==
    ASSUME NEW w \in Windows, NEW p \in T!Packets
    PROVE  T!Accepted(w, p) \in Windows /\ T!Accepted(w, p).next = p.sequence + 1
BY PacketShape DEF T!Accepted, Windows

LEMMA WatchersTypes ==
    ASSUME RelayInv
    PROVE  /\ wire \in Seq(T!Packets) /\ sub \in Subscriptions /\ view \in Observations
           /\ sub.queue \in Seq(T!Packets) /\ Len(sub.queue) \in Nat
           /\ Len(sub.queue) <= Capacity /\ sub.window \in Windows
           /\ view.window \in Windows /\ view.shown \in Seq(T!Pieces)
           /\ view.packet \in T!Packets \cup {None}
           /\ view.packet # None => view.packet \in T!Packets
           /\ \A S : <<>> \in Seq(S)
           /\ Len(<<>>) = 0 /\ Elems(<<>>) = {} /\ Capacity \in Nat
<1>1. \A S : <<>> \in Seq(S) /\ Len(<<>>) = 0
  BY EmptySeq
<1>2. Elems(<<>>) = {}
  BY <1>1 DEF Elems
<1>3. /\ wire \in Seq(T!Packets) /\ sub \in Subscriptions /\ view \in Observations
      /\ Len(sub.queue) <= Capacity
  BY DEF RelayInv, RelayTypeInv, BoundsInv, Subscriptions, Observations
<1>4. /\ sub.queue \in Seq(T!Packets) /\ sub.window \in Windows
      /\ view.window \in Windows /\ view.shown \in Seq(T!Pieces)
      /\ view.packet \in T!Packets \cup {None}
  BY <1>3 DEF Subscriptions, Observations
<1>5. Len(sub.queue) \in Nat
  BY <1>4, LenProperties
<1> QED BY <1>1, <1>2, <1>3, <1>4, <1>5, TextAssumption

\* What is shown stays what it is.
LEMMA SameShown ==
    ASSUME RelayInv, view'.shown = view.shown, view'.window = view.window
    PROVE  Last' = Last /\ T!ShownWithoutGaps'
BY DEF Last, RelayInv, ViewInv, T!ShownWithoutGaps

\* A preview that is thrown away.
LEMMA CloseStep ==
    ASSUME RelayInv, T!Close, UNCHANGED <<executor, events, relay, status>>
    PROVE  RelayInv'
<1>1. /\ view' = [pc |-> "closed", packet |-> None, window |-> view.window, shown |-> <<>>]
      /\ sub' = [pc |-> "failed", queue |-> <<>>, window |-> sub.window]
      /\ wire' = <<>>
  BY WatchersTypes DEF T!Close, Subscriptions, Observations
<1>2. ViewInv'
  BY <1>1, WatchersTypes DEF ViewInv, T!ShownWithoutGaps
<1>3. Last' = {}
  BY <1>1, WatchersTypes DEF Last
<1>4. /\ wire' \in Seq(T!Packets) /\ sub' \in Subscriptions /\ view' \in Observations
      /\ Len(sub'.queue) <= Capacity
      /\ Elems(wire') = {} /\ Elems(sub'.queue) = {} /\ view'.packet = None
  BY <1>1, WatchersTypes DEF Subscriptions, Observations
<1> QED BY <1>2, <1>3, <1>4, WatchersMove

LEMMA ReceiveStep ==
    ASSUME RelayInv, T!Receive \/ T!Disconnect \/ T!Subscribe
    PROVE  RelayInv'
<1>1. UNCHANGED <<executor, events, relay, status>>
  BY DEF T!Receive, T!Disconnect, T!Subscribe
<1>2. /\ view' \in Observations /\ view'.shown = view.shown /\ view'.window = view.window
      /\ view'.packet = view.packet /\ (view'.pc = "checking" <=> view.pc = "checking")
  <2>1. CASE T!Subscribe
    <3>1. view' = [pc |-> "waiting", packet |-> view.packet, window |-> view.window,
                   shown |-> view.shown]
      BY <2>1, WatchersTypes DEF T!Subscribe, Observations
    <3> QED BY <2>1, <3>1, WatchersTypes DEF T!Subscribe, Observations
  <2>2. CASE T!Receive \/ T!Disconnect
    BY <2>2, WatchersTypes DEF T!Receive, T!Disconnect
  <2> QED BY <2>1, <2>2
<1>3. Last' = Last /\ ViewInv'
  BY <1>2, SameShown DEF RelayInv, ViewInv
<1>4. /\ wire' \in Seq(T!Packets) /\ Elems(wire') \subseteq Elems(wire)
      /\ sub' \in Subscriptions /\ Len(sub'.queue) <= Capacity
      /\ Elems(sub'.queue) \subseteq Elems(sub.queue) \cup Elems(wire)
  <2>1. CASE T!Receive
    <3> DEFINE p == Head(wire)
    <3>1. wire # <<>> /\ wire' = Tail(wire)
      BY <2>1 DEF T!Receive
    <3>2. /\ p \in T!Packets /\ p \in Elems(wire)
          /\ Tail(wire) \in Seq(T!Packets) /\ Elems(Tail(wire)) \subseteq Elems(wire)
      BY <3>1, WatchersTypes, ElemsAre, HeadTailProperties
    <3>3. \/ sub' = [sub EXCEPT !.pc = "failed"]
          \/ /\ Len(sub.queue) < Capacity
             /\ \E pc \in {"ended", "on"} :
                   sub' = [pc |-> pc, queue |-> Append(sub.queue, p),
                           window |-> T!Accepted(sub.window, p)]
      <4>1. IF ~T!Accepts(sub.window, p) \/ Len(sub.queue) >= Capacity
            THEN sub' = [sub EXCEPT !.pc = "failed"]
            ELSE sub' = [pc |-> IF p.detail.kind = "end" THEN "ended" ELSE "on",
                         queue |-> Append(sub.queue, p),
                         window |-> T!Accepted(sub.window, p)]
        BY <2>1 DEF T!Receive
      <4>2. Len(sub.queue) >= Capacity \/ Len(sub.queue) < Capacity
        BY WatchersTypes
      <4>3. (IF p.detail.kind = "end" THEN "ended" ELSE "on") \in {"ended", "on"}
        OBVIOUS
      <4> QED BY <4>1, <4>2, <4>3
    <3> HIDE DEF p
    <3>4. /\ Append(sub.queue, p) \in Seq(T!Packets)
          /\ Len(Append(sub.queue, p)) = Len(sub.queue) + 1
          /\ Elems(Append(sub.queue, p)) = Elems(sub.queue) \cup {p}
      BY <3>2, WatchersTypes, AppendProperties, ElemsAre
    <3>5. T!Accepted(sub.window, p) \in Windows
      BY <3>2, WatchersTypes, AcceptedIs
    <3>6. CASE sub' = [sub EXCEPT !.pc = "failed"]
      <4>1. sub' = [pc |-> "failed", queue |-> sub.queue, window |-> sub.window]
        BY <3>6, WatchersTypes DEF Subscriptions
      <4> QED BY <3>1, <3>2, <4>1, WatchersTypes DEF Subscriptions
    <3>7. ASSUME Len(sub.queue) < Capacity, NEW pc \in {"ended", "on"},
                 sub' = [pc |-> pc, queue |-> Append(sub.queue, p),
                         window |-> T!Accepted(sub.window, p)]
          PROVE  /\ wire' \in Seq(T!Packets) /\ Elems(wire') \subseteq Elems(wire)
                 /\ sub' \in Subscriptions /\ Len(sub'.queue) <= Capacity
                 /\ Elems(sub'.queue) \subseteq Elems(sub.queue) \cup Elems(wire)
      <4>1. sub'.queue = Append(sub.queue, p) /\ sub' \in Subscriptions
        BY <3>4, <3>5, <3>7 DEF Subscriptions
      <4> QED BY <3>1, <3>2, <3>4, <3>7, <4>1, WatchersTypes
    <3> QED BY <3>3, <3>6, <3>7
  <2>2. CASE T!Disconnect \/ T!Subscribe
    <3>1. /\ wire' \in {wire, <<>>}
          /\ \E pc \in {"failed", "on"} :
                sub' = [pc |-> pc, queue |-> sub.queue, window |-> sub.window]
      <4>1. wire' \in {wire, <<>>} /\ \E pc \in {"failed", "on"} : sub' = [sub EXCEPT !.pc = pc]
        BY <2>2 DEF T!Disconnect, T!Subscribe
      <4>2. \A pc : [sub EXCEPT !.pc = pc]
                        = [pc |-> pc, queue |-> sub.queue, window |-> sub.window]
        BY WatchersTypes DEF Subscriptions
      <4> QED BY <4>1, <4>2
    <3>2. sub'.queue = sub.queue /\ sub' \in Subscriptions
      BY <3>1, WatchersTypes DEF Subscriptions
    <3>3. wire' \in Seq(T!Packets) /\ Elems(wire') \subseteq Elems(wire)
      BY <3>1, WatchersTypes
    <3> QED BY <3>2, <3>3, WatchersTypes
  <2> QED BY <2>1, <2>2
<1> QED BY <1>1, <1>2, <1>3, <1>4, WatchersMove

LEMMA NextPacketStep ==
    ASSUME RelayInv, T!NextPacket
    PROVE  RelayInv'
<1>1. /\ view.pc = "waiting" /\ UNCHANGED <<executor, events, relay, status>>
      /\ \/ T!Close
         \/ /\ sub.queue # <<>> /\ UNCHANGED wire
            /\ view' = [view EXCEPT !.pc = "checking", !.packet = Head(sub.queue)]
            /\ sub' = [sub EXCEPT !.queue = Tail(@)]
  BY DEF T!NextPacket
<1>2. CASE T!Close
  BY <1>1, <1>2, CloseStep
<1>3. CASE /\ sub.queue # <<>> /\ UNCHANGED wire
           /\ view' = [view EXCEPT !.pc = "checking", !.packet = Head(sub.queue)]
           /\ sub' = [sub EXCEPT !.queue = Tail(@)]
  <2>1. /\ Head(sub.queue) \in T!Packets /\ Head(sub.queue) \in Elems(sub.queue)
        /\ Tail(sub.queue) \in Seq(T!Packets) /\ Elems(Tail(sub.queue)) \subseteq Elems(sub.queue)
        /\ Len(Tail(sub.queue)) = Len(sub.queue) - 1
    BY <1>3, WatchersTypes, ElemsAre, HeadTailProperties
  <2>2. /\ view' = [pc |-> "checking", packet |-> Head(sub.queue), window |-> view.window,
                    shown |-> view.shown]
        /\ sub' = [pc |-> sub.pc, queue |-> Tail(sub.queue), window |-> sub.window]
    BY <1>3, WatchersTypes DEF Subscriptions, Observations
  <2>3. Head(sub.queue) # None
    BY <2>1, TextAssumption
  <2>4. view' \in Observations /\ sub' \in Subscriptions
    BY <2>1, <2>2, WatchersTypes DEF Subscriptions, Observations
  <2>5. Last' = Last /\ ViewInv'
    BY <2>2, <2>3, SameShown DEF RelayInv, ViewInv
  <2>6. /\ Len(sub'.queue) <= Capacity /\ Elems(wire') \subseteq Elems(wire)
        /\ Elems(sub'.queue) \subseteq Elems(sub.queue) /\ wire' \in Seq(T!Packets)
        /\ view'.packet \in Elems(sub.queue)
    BY <1>3, <2>1, <2>2, WatchersTypes
  <2> QED BY <1>1, <2>4, <2>5, <2>6, WatchersMove
<1> QED BY <1>1, <1>2, <1>3

\* A piece that is shown follows what was shown last: the window takes only
\* the packet with the next number.
LEMMA ShowPacketStep ==
    ASSUME RelayInv, T!ShowPacket
    PROVE  RelayInv'
<1> DEFINE p == view.packet
<1>1. /\ view.pc = "checking" /\ UNCHANGED <<executor, events, relay, status>>
      /\ \/ T!Close
         \/ /\ T!Accepts(view.window, p) /\ UNCHANGED <<sub, wire>>
            /\ \E pc \in {"silent", "waiting"} :
                 view' = [pc |-> pc, packet |-> None, window |-> T!Accepted(view.window, p),
                          shown |-> IF p.detail.kind = "delta"
                                    THEN Append(view.shown, p.detail.text) ELSE <<>>]
  BY DEF T!ShowPacket
<1>2. CASE T!Close
  BY <1>1, <1>2, CloseStep
<1>3. ASSUME T!Accepts(view.window, p), UNCHANGED <<sub, wire>>,
             NEW pc \in {"silent", "waiting"},
             view' = [pc |-> pc, packet |-> None, window |-> T!Accepted(view.window, p),
                      shown |-> IF p.detail.kind = "delta"
                                THEN Append(view.shown, p.detail.text) ELSE <<>>]
      PROVE  RelayInv'
  <2>1. /\ p \in T!Packets /\ p # None /\ p \in Underway
    BY <1>1, WatchersTypes DEF RelayInv, ViewInv, Underway
  <2>2. /\ view'.shown = IF p.detail.kind = "delta"
                         THEN Append(view.shown, p.detail.text) ELSE <<>>
        /\ view'.window = T!Accepted(view.window, p)
        /\ view'.pc \in {"silent", "waiting"} /\ view'.packet = None
    BY <1>3
  <2>3. /\ T!Accepted(view.window, p) \in Windows
        /\ T!Accepted(view.window, p).next = p.sequence + 1
    BY <2>1, WatchersTypes, AcceptedIs
  <2>4. CASE p.detail.kind = "delta"
    <3> DEFINE text == p.detail.text
    <3>1. /\ text \in T!Pieces /\ p.sequence \in Nat
          /\ p = [sequence |-> p.sequence, detail |-> [kind |-> "delta", text |-> text]]
      BY <2>1, <2>4, PacketShape
    <3>2. view'.shown = Append(view.shown, text)
      BY <2>2, <2>4
    <3> HIDE DEF text
    <3>3. /\ Append(view.shown, text) \in Seq(T!Pieces) /\ Append(view.shown, text) # <<>>
          /\ Len(Append(view.shown, text)) = Len(view.shown) + 1
          /\ \A i \in 1 .. Len(view.shown) : Append(view.shown, text)[i] = view.shown[i]
          /\ Append(view.shown, text)[Len(view.shown) + 1] = text
          /\ Len(view.shown) \in Nat
      BY <3>1, WatchersTypes, AppendProperties, LenProperties
    <3>4. Last' \subseteq {p}
      <4> SUFFICES ASSUME NEW q \in Last' PROVE q = p
        OBVIOUS
      <4>1. PICK i \in 1 .. Len(view'.shown) :
               /\ i = Len(view'.shown)
               /\ q = [sequence |-> view'.window.next - 1,
                       detail |-> [kind |-> "delta", text |-> view'.shown[i]]]
        BY DEF Last
      <4>2. view'.shown[i] = text /\ view'.window.next - 1 = p.sequence
        BY <2>2, <2>3, <3>1, <3>2, <3>3, <4>1
      <4> QED BY <3>1, <4>1, <4>2
    <3>5. T!ShownWithoutGaps'
      <4> SUFFICES ASSUME NEW i \in 1 .. Len(view'.shown) - 1
                   PROVE  T!Follows(view'.shown[i], view'.shown[i + 1])
        BY DEF T!ShownWithoutGaps, T!Follows
      <4>1. Len(view'.shown) - 1 = Len(view.shown) /\ i \in 1 .. Len(view.shown)
        BY <3>2, <3>3
      <4>2. CASE i = Len(view.shown)
        <5> DEFINE last == [sequence |-> view.window.next - 1,
                            detail |-> [kind |-> "delta", text |-> view.shown[i]]]
        <5>1. view.shown # <<>> /\ view.window.next # None
          BY <4>1, WatchersTypes DEF RelayInv, ViewInv
        <5>2. view.window.next = p.sequence
          BY <1>3, <5>1 DEF T!Accepts
        <5>3. last \in Underway
          BY <4>1, <4>2 DEF Last, Underway
        <5>4. p.sequence = last.sequence + 1
          BY <3>1, <5>2
        <5>5. last.detail.kind = "delta" /\ last.detail.text = view.shown[i]
          OBVIOUS
        <5> HIDE DEF last
        <5>6. T!Follows(last.detail.text, p.detail.text)
          BY <2>1, <2>4, <5>3, <5>4, <5>5 DEF RelayInv, ChainInv, Linked
        <5> QED BY <3>2, <3>3, <4>1, <4>2, <5>5, <5>6 DEF text
      <4>3. CASE i # Len(view.shown)
        <5>1. i \in 1 .. Len(view.shown) - 1 /\ i + 1 \in 1 .. Len(view.shown)
          BY <3>3, <4>1, <4>3
        <5>2. T!Follows(view.shown[i], view.shown[i + 1])
          BY <5>1 DEF RelayInv, ViewInv, T!ShownWithoutGaps
        <5> QED BY <3>2, <3>3, <4>1, <5>1, <5>2
      <4> QED BY <4>2, <4>3
    <3>6. p.sequence + 1 # None
      BY <3>1, TextAssumption
    <3>7. ViewInv'
      BY <2>2, <2>3, <3>5, <3>6 DEF ViewInv
    <3>8. view' \in Observations
      BY <1>3, <2>3, <2>4, <3>3 DEF Observations, text
    <3>9. Last' \subseteq Last \cup ({view.packet} \ {None})
      BY <2>1, <3>4
    <3> QED
      BY <1>1, <1>3, <2>2, <3>7, <3>8, <3>9, WatchersTypes, WatchersMove
  <2>5. CASE p.detail.kind # "delta"
    <3>1. view'.shown = <<>>
      BY <2>2, <2>5
    <3>2. Last' = {} /\ T!ShownWithoutGaps'
      BY <3>1, WatchersTypes DEF Last, T!ShownWithoutGaps
    <3>3. ViewInv'
      BY <2>2, <3>1, <3>2 DEF ViewInv
    <3>4. view' \in Observations
      BY <1>3, <2>3, <2>5, WatchersTypes DEF Observations
    <3> QED BY <1>1, <1>3, <2>2, <3>2, <3>3, <3>4, WatchersTypes, WatchersMove
  <2> QED BY <2>4, <2>5
<1> QED BY <1>1, <1>2, <1>3

LEMMA RelayStep == RelayInv /\ [MCNext]_allVars => RelayInv'
<1> SUFFICES ASSUME RelayInv, [MCNext]_allVars PROVE RelayInv'
  OBVIOUS
<1>1. CASE T!TextNext
  <2>1. T!Leave => T!Close /\ UNCHANGED <<executor, events, relay, status>>
    BY DEF T!Leave
  <2> QED
    BY <1>1, <2>1, ExecutorSteps, TakeEventStep, PublishStep, ReceiveStep, NextPacketStep,
       ShowPacketStep, CloseStep
       DEF T!TextNext, T!Transport, T!Observe
<1>2. CASE UNCHANGED textVars
  <2>1. UNCHANGED <<executor, events, relay, wire, sub, view, status>>
    BY <1>2 DEF textVars
  <2> QED
    BY <2>1, TransportStays DEF RelayInv, RelayTypeInv, BoundsInv, EmissionInv
<1> QED
  BY <1>1, <1>2 DEF MCNext, IndexStep, CacheStep, OriginalsStep, TextStep, Index, Cached,
                    Text, allVars

\* For a text of any length and any loss between the executor, the relay, the
\* subscription and the request: what a browser shows is a run of what the
\* model wrote, without a gap.
THEOREM ShownWithoutGapsHolds == MCSpec => []ShownWithoutGaps
<1>1. MCInit => RelayInv
  BY RelayInit DEF MCInit
<1>2. RelayInv => ShownWithoutGaps
  <2> SUFFICES ASSUME RelayInv PROVE ShownWithoutGaps
    OBVIOUS
  <2>1. T!TextTypeOK
    <3>1. /\ executor \in [pc: {"sending", "persisting", "storing", "done"}, wrote: Nat]
          /\ events.open \in BOOLEAN /\ relay.on \in BOOLEAN
          /\ sub.pc \in {"absent", "on", "ended", "failed"}
          /\ view.pc \in {"idle", "waiting", "checking", "silent", "closed"}
          /\ status \in {"running", "final"}
      BY DEF RelayInv, RelayTypeInv
    <3>2. /\ Len(events.queue) <= Capacity /\ Len(sub.queue) <= Capacity
          /\ Len(relay.rest) <= 2
      BY DEF RelayInv, BoundsInv
    <3>3. \A i \in 1 .. Len(wire) : wire[i] \in T!Packets
      BY WatchersTypes, ElementOfSeq
    <3> QED BY <3>1, <3>2, <3>3 DEF T!TextTypeOK
  <2>2. T!ShownWithoutGaps
    BY DEF RelayInv, ViewInv
  <2> QED BY <2>1, <2>2 DEF ShownWithoutGaps
<1> QED BY <1>1, <1>2, RelayStep, PTL DEF MCSpec

=============================================================================

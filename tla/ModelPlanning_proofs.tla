------------------------- MODULE ModelPlanning_proofs -------------------------
(***************************************************************************)
(* Proofs about module ModelPlanning, for every value of its constants.    *)
(*                                                                         *)
(* Every property below concerns one request at a time, so the invariant   *)
(* is a conjunction over the keys.  KeyKept says which changes of the      *)
(* tables and of the processes cannot hurt the invariant of a key; nearly  *)
(* every action is such a change for every key, and the few others for     *)
(* every key but their own.                                                *)
(***************************************************************************)
EXTENDS ModelPlanning, Sums_proofs, TLAPS

-----------------------------------------------------------------------------
(* The invariant. *)

\* The places of a task that has claimed its request, and of one that has
\* not sent it yet.
Taken == {"recheck", "revision", "verify", "send", "wait", "disable", "finish"}
Unsent == {"recheck", "revision", "verify", "send"}

\* The types of the tasks: one that has ended has an outcome.
TaskType ==
    /\ task \in [Keys -> Tasks]
    /\ \A k \in Keys : task[k].pc = "finish" => task[k].outcome \in Outcomes

\* The types but those of the two totals, which are sums over the keys.
TypeInv ==
    /\ receipt \in [Keys -> Receipts \union {None}]
    /\ day \in Days
    /\ conversation \in [Conversations -> [deleted: BOOLEAN, revision: Nat]]
    /\ config \in [Revisions -> Configurations]
    /\ plan \in [Keys -> PlanRows \union {NoPlan}]
    /\ server \in [Servers -> Processes]
    /\ call \in [Servers -> [Keys -> CallStages]]
    /\ TaskType
    /\ sends \in [Keys -> Nat]
    /\ billed \in [Keys -> Nat]

\* A request that could still be approved has no task, and one that could
\* still be sent was not sent.
SendInv(k) ==
    /\ sends[k] <= 1
    /\ task[k].pc \in Unsent \union {"claim"} => sends[k] = 0
    /\ Queued(k) => sends[k] = 0
    /\ plan[k].status = "draft" \/ (plan[k].status = "absent" /\ Locked(k))
           => task[k].pc = "none" /\ sends[k] = 0

\* From its claim on a request keeps its reservation, and is settled for
\* what it may have cost.
MoneyInv(k) ==
    /\ task[k].pc \in Taken \/ sends[k] > 0 =>
           /\ Mine(k)
           /\ receipt[k].settlement # "cancelled_before_dispatch"
           /\ plan[k].status \notin {"draft", "queued"}
    /\ Held(k, "model_planning") =>
           receipt[k].settlement # "cancelled_before_dispatch"
    /\ task[k].pc \in Unsent /\ receipt[k].charged # None =>
           receipt[k].charged = Cost[receipt[k].budget]
    /\ sends[k] > 0 /\ receipt[k].charged # None
           /\ billed[k] <= Cost[receipt[k].budget] =>
           receipt[k].charged >= billed[k]
    /\ task[k].usage # None =>
           /\ task[k].pc = "finish"
           /\ task[k].usage = billed[k]
           /\ billed[k] <= Cost[receipt[k].budget]

\* The budget of a request is the one its configuration is registered with,
\* and its task runs in a process of that configuration.
QuoteInv(k) ==
    /\ plan[k].status # "absent" => config[plan[k].version].budget = plan[k].budget
    /\ \A s \in Servers : call[s][k] = "approve" /\ Locked(k) =>
           /\ plan[k].status # "absent"
           /\ plan[k].version = server[s].version
    /\ task[k].pc # "none" =>
           /\ task[k].server \in Servers
           /\ Mine(k)
           /\ receipt[k].revision = server[task[k].server].version
           /\ receipt[k].budget = config[receipt[k].revision].budget

KeyInv(k) == SendInv(k) /\ MoneyInv(k) /\ QuoteInv(k)

Inv == TypeInv /\ \A k \in Keys : KeyInv(k)

-----------------------------------------------------------------------------
(* Ending requests. *)

\* What a transaction may end: open requests, and with a usage only the one
\* whose task brings its answer.
EndsOK(ends) ==
    /\ DOMAIN ends \subseteq Keys
    /\ \A k \in DOMAIN ends :
           /\ IsOpen(k)
           /\ ends[k].status \in Ended
           /\ ends[k].usage \in Nat \union {None}
           /\ ends[k].usage # None =>
                  task[k].pc = "finish" /\ ends[k].usage = task[k].usage

\* A reservation of this kind is settled, whole unless its usage is known.
Settles(k) ==
    /\ IsActive(k)
    /\ Held(k, "model_planning")
    /\ \E usage \in Nat \union {None} :
           /\ usage # None => task[k].pc = "finish" /\ usage = task[k].usage
           /\ receipt'[k] = [receipt[k] EXCEPT
                  !.charged = Charge(receipt[k].budget, Queued(k), usage),
                  !.settlement = Settlement(receipt[k].budget, Queued(k), usage)]

\* What is overdue in a conversation may be ended (expire).
LEMMA ExpiryOK ==
    ASSUME NEW c \in Conversations
    PROVE  EndsOK(Expiry(c))
  BY DEF EndsOK, Expiry, Due, KeysOf, End, Ended

\* An open request may be ended with them.
LEMMA AlsoOK ==
    ASSUME NEW ends, EndsOK(ends), NEW k \in Keys, IsOpen(k),
           NEW status \in Ended, NEW usage \in Nat \union {None},
           usage # None => task[k].pc = "finish" /\ usage = task[k].usage
    PROVE  EndsOK(Also(ends, k, End(status, usage)))
  BY DEF EndsOK, Also, End

\* Ending requests changes their status, and no other request.
LEMMA PlansEnd ==
    ASSUME TypeInv, NEW ends, EndsOK(ends)
    PROVE  /\ PlanAfter(ends) \in [Keys -> PlanRows \union {NoPlan}]
           /\ \A k \in Keys :
                  /\ PlanAfter(ends)[k].version = plan[k].version
                  /\ PlanAfter(ends)[k].budget = plan[k].budget
                  /\ \/ PlanAfter(ends)[k] = plan[k]
                     \/ /\ k \in DOMAIN ends
                        /\ IsOpen(k)
                        /\ PlanAfter(ends)[k] \in PlanRows
                        /\ PlanAfter(ends)[k].status \in Ended
                        /\ PlanAfter(ends)[k].status = ends[k].status
  <1>1. ASSUME NEW k \in Keys, k \in DOMAIN ends
        PROVE  /\ PlanAfter(ends)[k] = [plan[k] EXCEPT !.status = ends[k].status,
                                                       !.due = FALSE]
               /\ plan[k] \in PlanRows /\ IsOpen(k)
               /\ ends[k].status \in Ended
    BY <1>1 DEF PlanAfter, EndsOK, TypeInv, IsOpen, Open, Active, NoPlan
  <1>2. ASSUME NEW k \in Keys, k \in DOMAIN ends
        PROVE  /\ PlanAfter(ends)[k] \in PlanRows
               /\ PlanAfter(ends)[k].version = plan[k].version
               /\ PlanAfter(ends)[k].budget = plan[k].budget
               /\ PlanAfter(ends)[k].status = ends[k].status
    BY <1>2, <1>1 DEF PlanRows
  <1>3. ASSUME NEW k \in Keys, k \notin DOMAIN ends
        PROVE  PlanAfter(ends)[k] = plan[k]
    BY <1>3 DEF PlanAfter
  <1>4. PlanAfter(ends) \in [Keys -> PlanRows \union {NoPlan}]
    <2>1. PlanAfter(ends) = [k \in Keys |-> PlanAfter(ends)[k]]
      BY DEF PlanAfter
    <2>2. \A k \in Keys : PlanAfter(ends)[k] \in PlanRows \union {NoPlan}
      BY <1>2, <1>3 DEF TypeInv
    <2> QED BY <2>1, <2>2
  <1> QED BY <1>1, <1>2, <1>3, <1>4

\* What a settlement charges, and its reason (budget.rs settle).
LEMMA ChargeOf ==
    ASSUME NEW b \in Budgets, NEW before \in BOOLEAN, NEW usage \in Nat \union {None}
    PROVE  /\ Charge(b, before, usage) \in Nat
           /\ Settlement(b, before, usage) \in Settlements
           /\ Charge(b, before, usage) # None
           /\ ~before => Settlement(b, before, usage) # "cancelled_before_dispatch"
           /\ before => Settlement(b, before, usage) = "cancelled_before_dispatch"
           /\ ~before /\ usage = None => Charge(b, before, usage) = Cost[b]
           /\ ~before /\ usage # None /\ usage <= Cost[b]
                  => Charge(b, before, usage) = usage
  BY BudgetAssumption, NullAssumption DEF Charge, Settlement, Settlements

\* Settling touches only open reservations of active requests (terminate).
LEMMA ReceiptsSettle ==
    ASSUME TypeInv, NEW ends, EndsOK(ends), \A k \in Paid(ends) : ReceiptValid(k),
           NEW k \in Keys, receipt'[k] = ReceiptAfter(ends)[k]
    PROVE  /\ receipt'[k] \in Receipts \union {None}
           /\ \/ k \notin Paid(ends) /\ receipt'[k] = receipt[k]
              \/ k \in Paid(ends) /\ Settles(k)
  <1>1. CASE k \in Paid(ends)
    <2>1. /\ k \in DOMAIN ends /\ IsActive(k)
          /\ ends[k].usage \in Nat \union {None}
          /\ ends[k].usage # None =>
                 task[k].pc = "finish" /\ ends[k].usage = task[k].usage
      BY <1>1 DEF Paid, EndsOK
    <2>2. /\ Held(k, "model_planning")
          /\ receipt[k].budget = plan[k].budget
      BY <1>1 DEF ReceiptValid
    <2>3. receipt[k] \in Receipts
      BY <2>2 DEF Held, TypeInv
    <2>4. receipt'[k] = [receipt[k] EXCEPT
              !.charged = Charge(receipt[k].budget, Queued(k), ends[k].usage),
              !.settlement = Settlement(receipt[k].budget, Queued(k), ends[k].usage)]
      BY <1>1, <2>2 DEF ReceiptAfter, Settled
    <2>5. Queued(k) \in BOOLEAN /\ receipt[k].budget \in Budgets
      BY <2>3 DEF Queued, Receipts
    <2>6. /\ Charge(receipt[k].budget, Queued(k), ends[k].usage) \in Nat
          /\ Settlement(receipt[k].budget, Queued(k), ends[k].usage) \in Settlements
      BY <2>1, <2>5, ChargeOf
    <2>7. receipt'[k] \in Receipts
      BY <2>3, <2>4, <2>6 DEF Receipts
    <2> QED BY <1>1, <2>1, <2>2, <2>4, <2>7 DEF Settles
  <1>2. CASE k \notin Paid(ends)
    BY <1>2 DEF ReceiptAfter, TypeInv
  <1> QED BY <1>1, <1>2

-----------------------------------------------------------------------------
(* Changes that cannot hurt the invariant of a key. *)

\* A request may end, or go with its conversation.
PlanKept(k) ==
    \/ plan'[k] = NoPlan /\ ~Locked(k)'
    \/ /\ plan'[k].version = plan[k].version
       /\ plan'[k].budget = plan[k].budget
       /\ \/ plan'[k].status = plan[k].status
          \/ IsOpen(k) /\ plan'[k].status \in Ended

\* Its reservation may be settled, or be another kind's.
ReceiptKept(k) ==
    \/ receipt'[k] = receipt[k]
    \/ Settles(k)
    \/ ~Mine(k) /\ ~Mine(k)'

\* Its task may be lost, or go on without sending.
TaskKept(k) ==
    \/ task'[k] = task[k]
    \/ task'[k] = NoTask
    \/ /\ {task[k].pc, task'[k].pc} \subseteq Taken
       /\ task'[k].pc \in Unsent => task[k].pc \in Unsent
       /\ task'[k].server = task[k].server
       /\ task'[k].usage # None =>
              /\ task'[k].pc = "finish"
              /\ task'[k].usage = billed[k]
              /\ billed[k] <= Cost[receipt[k].budget]

\* A conversation stays deleted, a budget registered, and a process what it
\* is, unless it goes down with its calls and tasks.
RestKept(k) ==
    /\ sends'[k] = sends[k] /\ billed'[k] = billed[k]
    /\ ~Locked(k) => ~Locked(k)'
    /\ \A v \in Revisions :
           config[v].budget # None => config'[v].budget = config[v].budget
    /\ \A s \in Servers :
           /\ call'[s][k] = "approve" => call[s][k] = "approve"
           /\ \/ server[s].version # None => server'[s].version = server[s].version
              \/ call'[s][k] = "none" /\ task'[k].server # s

Kept(k) == PlanKept(k) /\ ReceiptKept(k) /\ TaskKept(k) /\ RestKept(k)

\* A settled reservation keeps all but its charge and its reason.
LEMMA SettlesKeeps ==
    ASSUME TypeInv, NEW k \in Keys, Settles(k)
    PROVE  /\ receipt[k] \in Receipts /\ Mine(k) /\ receipt[k].charged = None
           /\ Mine(k)' /\ receipt'[k].charged # None
           /\ receipt'[k].kind = receipt[k].kind
           /\ receipt'[k].day = receipt[k].day
           /\ receipt'[k].revision = receipt[k].revision
           /\ receipt'[k].budget = receipt[k].budget
           /\ Queued(k) <=> receipt'[k].settlement = "cancelled_before_dispatch"
           /\ ~Queued(k) =>
                  \/ receipt'[k].charged = Cost[receipt[k].budget]
                  \/ /\ task[k].pc = "finish"
                     /\ task[k].usage \in Nat /\ task[k].usage # None
                     /\ task[k].usage <= Cost[receipt[k].budget]
                     /\ receipt'[k].charged = task[k].usage
  <1>1. receipt[k] \in Receipts /\ Mine(k) /\ receipt[k].charged = None
    BY DEF Settles, Held, TypeInv, Mine
  <1>2. PICK usage \in Nat \union {None} :
           /\ usage # None => task[k].pc = "finish" /\ usage = task[k].usage
           /\ receipt'[k] = [receipt[k] EXCEPT
                  !.charged = Charge(receipt[k].budget, Queued(k), usage),
                  !.settlement = Settlement(receipt[k].budget, Queued(k), usage)]
    BY DEF Settles
  <1>3. /\ receipt'[k].charged = Charge(receipt[k].budget, Queued(k), usage)
        /\ receipt'[k].settlement = Settlement(receipt[k].budget, Queued(k), usage)
        /\ receipt'[k].kind = receipt[k].kind
        /\ receipt'[k].day = receipt[k].day
        /\ receipt'[k].revision = receipt[k].revision
        /\ receipt'[k].budget = receipt[k].budget
        /\ receipt'[k] \in [kind: Kinds, day: Days, revision: Revisions,
                            budget: Budgets,
                            charged: {Charge(receipt[k].budget, Queued(k), usage)},
                            settlement: {Settlement(receipt[k].budget, Queued(k), usage)}]
    BY <1>1, <1>2 DEF Receipts
  <1>4. receipt[k].budget \in Budgets /\ Queued(k) \in BOOLEAN
    BY <1>1 DEF Receipts, Queued
  <1>5. /\ receipt'[k].charged \in Nat
        /\ receipt'[k].settlement \in Settlements
        /\ receipt'[k].charged # None
        /\ Queued(k) <=> receipt'[k].settlement = "cancelled_before_dispatch"
    BY <1>3, <1>4, ChargeOf
  <1>6. receipt'[k] \in Receipts
    BY <1>3, <1>5 DEF Receipts
  <1>7. Mine(k)'
    BY <1>1, <1>3, <1>6, NullAssumption DEF Mine
  <1>8. ASSUME ~Queued(k)
        PROVE  \/ receipt'[k].charged = Cost[receipt[k].budget]
               \/ /\ task[k].pc = "finish"
                  /\ task[k].usage \in Nat /\ task[k].usage # None
                  /\ task[k].usage <= Cost[receipt[k].budget]
                  /\ receipt'[k].charged = task[k].usage
    BY <1>2, <1>3, <1>8, NullAssumption DEF Charge
  <1> QED BY <1>1, <1>3, <1>5, <1>7, <1>8

\* Such a change keeps the invariant of the key.
LEMMA KeyKept ==
    ASSUME Inv, NEW k \in Keys, Kept(k)
    PROVE  KeyInv(k)'
  <1> USE DEF Kept
  <1>1. TypeInv /\ SendInv(k) /\ MoneyInv(k) /\ QuoteInv(k)
    BY DEF Inv, KeyInv
  <1>2. /\ task[k] \in Tasks /\ plan[k] \in PlanRows \union {NoPlan}
        /\ receipt[k] \in Receipts \union {None}
        /\ sends[k] \in Nat /\ billed[k] \in Nat
    BY <1>1 DEF TypeInv, TaskType
  <1>3. /\ ~Locked(k) => ~Locked(k)'
        /\ sends'[k] = sends[k] /\ billed'[k] = billed[k]
    BY DEF RestKept
  <1>4. /\ task'[k].pc \in Unsent \union {"claim"} =>
               task[k].pc \in Unsent \union {"claim"}
        /\ task'[k].pc \in Unsent => task[k].pc \in Unsent
        /\ task'[k].pc \in Taken => task[k].pc \in Taken
        /\ task[k].pc = "none" => task'[k].pc = "none"
        /\ task'[k].pc # "none" =>
               task[k].pc # "none" /\ task'[k].server = task[k].server
    BY <1>2 DEF TaskKept, NoTask, Taken, Unsent
  <1>5. /\ Queued(k)' => Queued(k)
        /\ plan'[k].status = "draft" => plan[k].status = "draft"
        /\ plan'[k].status = "absent" =>
               plan[k].status = "absent" \/ ~Locked(k)'
    BY DEF PlanKept, NoPlan, Queued, Ended
  <1>6. SendInv(k)'
    BY <1>1, <1>3, <1>4, <1>5 DEF SendInv
  <1>7. ASSUME Mine(k)
        PROVE  /\ Mine(k)'
               /\ receipt'[k].revision = receipt[k].revision
               /\ receipt'[k].budget = receipt[k].budget
    BY <1>7, <1>1, SettlesKeeps DEF ReceiptKept, Mine
  <1>8. MoneyInv(k)'
    <2>1. ASSUME task'[k].pc \in Taken \/ sends'[k] > 0
          PROVE  /\ Mine(k) /\ Mine(k)'
                 /\ receipt'[k].settlement # "cancelled_before_dispatch"
                 /\ plan'[k].status \notin {"draft", "queued"}
      <3>1. /\ Mine(k) /\ ~Queued(k) /\ plan[k].status # "draft"
            /\ receipt[k].settlement # "cancelled_before_dispatch"
        BY <2>1, <1>1, <1>3, <1>4 DEF MoneyInv, Queued
      <3>2. receipt'[k].settlement # "cancelled_before_dispatch"
        BY <3>1, <1>1, <1>7, SettlesKeeps DEF ReceiptKept
      <3> QED BY <3>1, <3>2, <1>5, <1>7 DEF Queued
    <2>2. Held(k, "model_planning")' =>
              receipt'[k].settlement # "cancelled_before_dispatch"
      BY <1>1, SettlesKeeps DEF ReceiptKept, MoneyInv, Held, Mine
    <2>3. ASSUME task'[k].pc \in Unsent, receipt'[k].charged # None
          PROVE  receipt'[k].charged = Cost[receipt'[k].budget]
      <3>1. task[k].pc \in Unsent /\ Mine(k) /\ ~Queued(k)
        BY <2>3, <2>1, <1>1, <1>4 DEF Taken, Unsent, MoneyInv, Queued
      <3>2. CASE receipt'[k] = receipt[k]
        BY <3>1, <3>2, <2>3, <1>1 DEF MoneyInv
      <3>3. CASE Settles(k)
        BY <3>1, <3>3, <1>1, SettlesKeeps DEF Unsent
      <3> QED BY <3>1, <3>2, <3>3 DEF ReceiptKept
    <2>4. ASSUME sends'[k] > 0, receipt'[k].charged # None,
                 billed'[k] <= Cost[receipt'[k].budget]
          PROVE  receipt'[k].charged >= billed'[k]
      <3>1. sends[k] > 0 /\ Mine(k) /\ ~Queued(k)
        BY <2>4, <1>1, <1>3 DEF MoneyInv, Queued
      <3>2. CASE receipt'[k] = receipt[k]
        BY <3>1, <3>2, <2>4, <1>1, <1>3 DEF MoneyInv
      <3>3. CASE Settles(k)
        <4>1. receipt[k].budget \in Budgets /\ Cost[receipt[k].budget] \in Nat
          BY <3>3, <1>1, SettlesKeeps, BudgetAssumption DEF Receipts
        <4>2. receipt'[k].budget = receipt[k].budget
          BY <3>3, <1>1, SettlesKeeps
        <4>3. CASE receipt'[k].charged = Cost[receipt[k].budget]
          BY <4>1, <4>2, <4>3, <2>4, <1>2, <1>3
        <4>4. CASE /\ task[k].usage # None
                   /\ receipt'[k].charged = task[k].usage
          BY <4>4, <1>1, <1>2, <1>3 DEF MoneyInv
        <4> QED BY <3>1, <3>3, <4>3, <4>4, <1>1, SettlesKeeps
      <3> QED BY <3>1, <3>2, <3>3 DEF ReceiptKept
    <2>5. ASSUME task'[k].usage # None
          PROVE  /\ task'[k].pc = "finish"
                 /\ task'[k].usage = billed'[k]
                 /\ billed'[k] <= Cost[receipt'[k].budget]
      <3>1. /\ task'[k].pc = "finish"
            /\ task'[k].usage = billed[k]
            /\ billed[k] <= Cost[receipt[k].budget]
        BY <2>5, <1>1 DEF TaskKept, MoneyInv, NoTask
      <3>2. Mine(k)
        BY <3>1, <2>1 DEF Taken
      <3> QED BY <3>1, <3>2, <1>3, <1>7
    <2> QED BY <2>1, <2>2, <2>3, <2>4, <2>5 DEF MoneyInv
  <1>9. QuoteInv(k)'
    <2>1. ASSUME plan'[k].status # "absent"
          PROVE  config'[plan'[k].version].budget = plan'[k].budget
      <3>1. /\ plan'[k].version = plan[k].version
            /\ plan'[k].budget = plan[k].budget
            /\ plan[k].status # "absent"
        BY <2>1 DEF PlanKept, NoPlan, IsOpen, Open, Active
      <3>2. plan[k].version \in Revisions /\ plan[k].budget \in Budgets
        BY <3>1, <1>2 DEF PlanRows, NoPlan
      <3>3. config[plan[k].version].budget = plan[k].budget
        BY <3>1, <1>1 DEF QuoteInv
      <3> QED BY <3>1, <3>2, <3>3, PlanningAssumption DEF RestKept
    <2>2. ASSUME NEW s \in Servers, call'[s][k] = "approve", Locked(k)'
          PROVE  /\ plan'[k].status # "absent"
                 /\ plan'[k].version = server'[s].version
      <3>1. call[s][k] = "approve" /\ Locked(k)
        BY <2>2, <1>3 DEF RestKept
      <3>2. plan[k].status # "absent" /\ plan[k].version = server[s].version
        BY <3>1, <1>1 DEF QuoteInv
      <3>3. server[s].version # None
        BY <3>2, <1>2, PlanningAssumption DEF PlanRows, NoPlan
      <3>4. server'[s].version = server[s].version
        BY <3>3, <2>2 DEF RestKept
      <3> QED BY <3>2, <3>4, <2>2, <1>5 DEF PlanKept, NoPlan
    <2>3. ASSUME task'[k].pc # "none"
          PROVE  /\ task'[k].server \in Servers
                 /\ Mine(k)'
                 /\ receipt'[k].revision = server'[task'[k].server].version
                 /\ receipt'[k].budget = config'[receipt'[k].revision].budget
      <3>1. /\ task'[k].server = task[k].server
            /\ task[k].server \in Servers
            /\ Mine(k)
            /\ receipt[k].revision = server[task[k].server].version
            /\ receipt[k].budget = config[receipt[k].revision].budget
        BY <2>3, <1>1, <1>4 DEF QuoteInv
      <3>2. receipt[k].revision \in Revisions /\ receipt[k].budget \in Budgets
        BY <3>1, <1>2 DEF Mine, Receipts
      <3>3. /\ server'[task[k].server].version = server[task[k].server].version
            /\ config'[receipt[k].revision].budget = receipt[k].budget
        BY <3>1, <3>2, PlanningAssumption DEF RestKept
      <3> QED BY <3>1, <3>3, <1>7
    <2> QED BY <2>1, <2>2, <2>3 DEF QuoteInv
  <1> QED BY <1>6, <1>8, <1>9 DEF KeyInv

\* Most changes keep the invariant of every key.
LEMMA AllKept ==
    ASSUME Inv, TypeInv', \A k \in Keys : Kept(k)
    PROVE  Inv'
  BY KeyKept DEF Inv

\* A step that leaves conversations, configurations and processes alone.
LEMMA RestSame ==
    ASSUME NEW k, UNCHANGED <<conversation, config, server, call, seenVars>>
    PROVE  RestKept(k)
  BY DEF RestKept, seenVars, Locked

\* What a transaction settles is kept.
LEMMA SettleKeeps ==
    ASSUME TypeInv, NEW ends, EndsOK(ends), Settle(ends)
    PROVE  /\ receipt' \in [Keys -> Receipts \union {None}]
           /\ \A k \in Keys :
                  /\ ReceiptKept(k)
                  /\ k \notin DOMAIN ends => receipt'[k] = receipt[k]
  <1>1. receipt' = ReceiptAfter(ends) /\ \A k \in Paid(ends) : ReceiptValid(k)
    BY DEF Settle
  <1>2. ASSUME NEW k \in Keys
        PROVE  /\ receipt'[k] \in Receipts \union {None}
               /\ ReceiptKept(k)
               /\ k \notin DOMAIN ends => receipt'[k] = receipt[k]
    BY <1>1, ReceiptsSettle DEF ReceiptKept, Paid
  <1>3. receipt' = [k \in Keys |-> receipt'[k]]
    BY <1>1 DEF ReceiptAfter
  <1> QED BY <1>2, <1>3

\* What a transaction ends is kept, request and reservation.
LEMMA CommitKeeps ==
    ASSUME TypeInv, NEW ends, EndsOK(ends), Commit(ends)
    PROVE  /\ receipt' \in [Keys -> Receipts \union {None}]
           /\ plan' \in [Keys -> PlanRows \union {NoPlan}]
           /\ \A k \in Keys : PlanKept(k) /\ ReceiptKept(k)
  <1>1. Settle(ends) /\ plan' = PlanAfter(ends)
    BY DEF Commit
  <1>2. \A k \in Keys : PlanKept(k)
    BY <1>1, PlansEnd DEF PlanKept
  <1> QED BY <1>1, <1>2, PlansEnd, SettleKeeps

\* Steps of a task change no other task.
LEMMA TaskGoes ==
    ASSUME TypeInv, NEW k \in Keys, NEW pc \in Places, Goto(k, pc)
    PROVE  /\ pc # "finish" => TaskType'
           /\ task'[k].pc = pc /\ task'[k].server = task[k].server
           /\ task'[k].usage = task[k].usage
           /\ \A j \in Keys \ {k} : task'[j] = task[j]
  BY DEF Goto, TypeInv, TaskType, Tasks

LEMMA TaskConcludes ==
    ASSUME TypeInv, NEW k \in Keys, NEW outcome \in Outcomes,
           NEW usage \in Nat \union {None}, Conclude(k, outcome, usage)
    PROVE  /\ TaskType'
           /\ task'[k].pc = "finish" /\ task'[k].server = task[k].server
           /\ task'[k].usage = usage
           /\ \A j \in Keys \ {k} : task'[j] = task[j]
  <1>1. task'[k] = [task[k] EXCEPT !.pc = "finish", !.outcome = outcome,
                                   !.usage = usage]
    BY DEF Conclude, TypeInv, TaskType
  <1>2. /\ task'[k].pc = "finish" /\ task'[k].server = task[k].server
        /\ task'[k].usage = usage /\ task'[k].outcome = outcome
        /\ task'[k] \in Tasks
    BY <1>1 DEF TypeInv, TaskType, Tasks, Places
  <1>3. \A j \in Keys \ {k} : task'[j] = task[j]
    BY DEF Conclude, TypeInv, TaskType
  <1>4. task' \in [Keys -> Tasks]
    BY <1>2, <1>3 DEF Conclude, TypeInv, TaskType
  <1> QED BY <1>2, <1>3, <1>4 DEF TypeInv, TaskType

LEMMA TaskStops ==
    ASSUME TypeInv, NEW k \in Keys, Stop(k)
    PROVE  /\ TaskType'
           /\ \A j \in Keys : TaskKept(j)
  BY DEF Stop, TypeInv, TaskType, Tasks, NoTask, Places, TaskKept

\* A task that has claimed goes on, or concludes without a usage.
LEMMA TaskMoves ==
    ASSUME Inv, NEW k \in Keys, task[k].pc \in Taken,
           \/ \E pc \in Taken : /\ pc \in Unsent => task[k].pc \in Unsent
                                /\ "finish" \notin {pc, task[k].pc}
                                /\ Goto(k, pc)
           \/ \E outcome \in Outcomes : Conclude(k, outcome, None)
    PROVE  /\ TaskType'
           /\ \A j \in Keys : TaskKept(j)
  <1>1. TypeInv /\ MoneyInv(k)
    BY DEF Inv, KeyInv
  <1>2. CASE \E outcome \in Outcomes : Conclude(k, outcome, None)
    <2>1. PICK outcome \in Outcomes : Conclude(k, outcome, None)
      BY <1>2
    <2>2. /\ TaskType'
          /\ task'[k].pc = "finish" /\ task'[k].server = task[k].server
          /\ task'[k].usage = None
          /\ \A j \in Keys \ {k} : task'[j] = task[j]
      BY <1>1, <2>1, TaskConcludes
    <2> QED BY <2>2 DEF TaskKept, Taken, Unsent
  <1>3. CASE \E pc \in Taken : /\ pc \in Unsent => task[k].pc \in Unsent
                               /\ "finish" \notin {pc, task[k].pc}
                               /\ Goto(k, pc)
    <2>1. PICK pc \in Taken : /\ pc \in Unsent => task[k].pc \in Unsent
                              /\ "finish" \notin {pc, task[k].pc}
                              /\ Goto(k, pc)
      BY <1>3
    <2>2. pc \in Places
      BY DEF Taken, Places
    <2>3. /\ TaskType'
          /\ task'[k].pc = pc /\ task'[k].server = task[k].server
          /\ task'[k].usage = task[k].usage
          /\ \A j \in Keys \ {k} : task'[j] = task[j]
      BY <1>1, <2>1, <2>2, TaskGoes
    <2>4. task'[k].usage = None
      BY <1>1, <2>1, <2>3 DEF MoneyInv
    <2> QED BY <2>1, <2>3, <2>4 DEF TaskKept
  <1> QED BY <1>2, <1>3

-----------------------------------------------------------------------------
(* The environment. *)

LEMMA TimeStep ==
    ASSUME Inv,
           \/ NewDay
           \/ \E k \in Keys : Lapse(k)
           \/ \E v \in Revisions : PriceLapses(v) \/ OperatorDisables(v)
    PROVE  Inv'
  <1> USE DEF rowVars, processVars, moneyVars
  <1>1. TypeInv
    BY DEF Inv
  <1>2. CASE NewDay
    <2>1. day' \in Days
      BY <1>1, <1>2, BudgetAssumption DEF NewDay, TypeInv, Days
    <2>2. TypeInv'
      BY <1>1, <1>2, <2>1 DEF NewDay, TypeInv, TaskType, seenVars
    <2>3. \A k \in Keys : Kept(k)
      BY <1>2, RestSame DEF NewDay, Kept, PlanKept, ReceiptKept, TaskKept
    <2> QED BY <2>2, <2>3, AllKept
  <1>3. ASSUME NEW k \in Keys, Lapse(k)
        PROVE  Inv'
    <2>1. plan[k] \in PlanRows
      BY <1>1, <1>3 DEF Lapse, TypeInv, IsOpen, Open, Active, NoPlan
    <2>2. /\ plan' \in [Keys -> PlanRows \union {NoPlan}]
          /\ \A j \in Keys : PlanKept(j)
      BY <1>1, <1>3, <2>1 DEF Lapse, TypeInv, PlanRows, PlanKept
    <2>3. TypeInv'
      BY <1>1, <1>3, <2>2 DEF Lapse, TypeInv, TaskType, seenVars
    <2>4. \A j \in Keys : ReceiptKept(j) /\ TaskKept(j) /\ RestKept(j)
      BY <1>3, RestSame DEF Lapse, ReceiptKept, TaskKept
    <2> QED BY <2>2, <2>3, <2>4, AllKept DEF Kept
  <1>4. ASSUME NEW v \in Revisions, PriceLapses(v)
        PROVE  Inv'
    <2>1. config' \in [Revisions -> Configurations]
      BY <1>1, <1>4 DEF PriceLapses, TypeInv, Configurations
    <2>2. \A j \in Keys : PlanKept(j) /\ plan'[j] \in PlanRows \union {NoPlan}
      <3> SUFFICES ASSUME NEW j \in Keys
                   PROVE  PlanKept(j) /\ plan'[j] \in PlanRows \union {NoPlan}
        OBVIOUS
      <3>1. CASE plan[j].version = v /\ plan[j].status \in {"draft", "queued"}
        <4>1. plan[j] \in PlanRows
          BY <1>1, <3>1 DEF TypeInv, NoPlan
        <4>2. plan'[j] = [plan[j] EXCEPT !.due = TRUE]
          BY <1>4, <3>1 DEF PriceLapses
        <4> QED BY <4>1, <4>2 DEF PlanRows, PlanKept
      <3>2. CASE ~(plan[j].version = v /\ plan[j].status \in {"draft", "queued"})
        <4>1. plan'[j] = plan[j]
          BY <1>4, <3>2 DEF PriceLapses
        <4> QED BY <1>1, <4>1 DEF TypeInv, PlanKept
      <3> QED BY <3>1, <3>2
    <2>3. plan' \in [Keys -> PlanRows \union {NoPlan}]
      BY <1>4, <2>2 DEF PriceLapses
    <2>4. TypeInv'
      BY <1>1, <1>4, <2>1, <2>3 DEF PriceLapses, TypeInv, TaskType, seenVars
    <2>5. \A j \in Keys : ReceiptKept(j) /\ TaskKept(j) /\ RestKept(j)
      BY <1>1, <1>4 DEF PriceLapses, ReceiptKept, TaskKept, RestKept, TypeInv,
                        Configurations, Locked, seenVars
    <2> QED BY <2>2, <2>4, <2>5, AllKept DEF Kept
  <1>5. ASSUME NEW v \in Revisions, OperatorDisables(v)
        PROVE  Inv'
    <2>1. config' \in [Revisions -> Configurations]
      BY <1>1, <1>5, ZenonT(60) DEF OperatorDisables, TypeInv, Configurations
    <2>2. TypeInv'
      BY <1>1, <1>5, <2>1 DEF OperatorDisables, TypeInv, TaskType, seenVars
    <2>3. \A j \in Keys : Kept(j)
      BY <1>1, <1>5 DEF OperatorDisables, Kept, PlanKept, ReceiptKept, TaskKept,
                        RestKept, TypeInv, Configurations, Locked, seenVars
    <2> QED BY <2>2, <2>3, AllKept
  <1> QED BY <1>2, <1>3, <1>4, <1>5

LEMMA ConversationStep ==
    ASSUME Inv, NEW c \in Conversations, AppendMessage(c) \/ DeleteConversation(c)
    PROVE  Inv'
  <1> USE DEF rowVars, processVars, moneyVars
  <1>1. TypeInv
    BY DEF Inv
  <1>2. CASE AppendMessage(c)
    <2>1. conversation' \in [Conversations -> [deleted: BOOLEAN, revision: Nat]]
      BY <1>1, <1>2 DEF AppendMessage, TypeInv
    <2>2. \A d \in Conversations : conversation'[d].deleted = conversation[d].deleted
      BY <1>1, <1>2 DEF AppendMessage, TypeInv
    <2>3. TypeInv'
      BY <1>1, <1>2, <2>1 DEF AppendMessage, TypeInv, TaskType, seenVars
    <2>4. \A j \in Keys : Kept(j)
      BY <1>2, <2>2 DEF AppendMessage, Kept, PlanKept, ReceiptKept, TaskKept,
                        RestKept, Locked, Keys, seenVars
    <2> QED BY <2>3, <2>4, AllKept
  <1>3. CASE DeleteConversation(c)
    <2> DEFINE ends == [k \in {j \in KeysOf(c) : IsActive(j)} |->
                           End("cancelled", None)]
    <2>1. EndsOK(ends)
      BY DEF EndsOK, KeysOf, End, Ended, IsActive, IsOpen, Open
    <2>2. Settle(ends)
      BY <1>3 DEF DeleteConversation
    <2> HIDE DEF ends
    <2>3. receipt' \in [Keys -> Receipts \union {None}]
      BY <1>1, <2>1, <2>2, SettleKeeps
    <2>4. \A j \in Keys : ReceiptKept(j)
      BY <1>1, <2>1, <2>2, SettleKeeps
    <2>5. plan' \in [Keys -> PlanRows \union {NoPlan}]
      BY <1>1, <1>3 DEF DeleteConversation, TypeInv
    <2>6. conversation' \in [Conversations -> [deleted: BOOLEAN, revision: Nat]]
      BY <1>1, <1>3 DEF DeleteConversation, TypeInv
    <2>7. /\ conversation'[c].deleted
          /\ \A d \in Conversations :
                 conversation[d].deleted => conversation'[d].deleted
      BY <1>1, <1>3 DEF DeleteConversation, TypeInv
    <2>8. \A j \in Keys : PlanKept(j)
      BY <1>3, <2>7 DEF DeleteConversation, PlanKept, Locked
    <2>9. \A j \in Keys : TaskKept(j) /\ RestKept(j)
      BY <1>3, <2>7 DEF DeleteConversation, TaskKept, RestKept, Locked, Keys, seenVars
    <2>10. TypeInv'
      BY <1>1, <1>3, <2>3, <2>5, <2>6 DEF DeleteConversation, TypeInv, TaskType, seenVars
    <2> QED BY <2>4, <2>8, <2>9, <2>10, AllKept DEF Kept
  <1> QED BY <1>2, <1>3

\* The other kinds of requests touch no reservation of this kind.
LEMMA ReplyKeeps ==
    ASSUME TypeInv, NEW k \in Keys, NEW v \in Revisions, NEW b \in Budgets,
           ReplyReserves(k, v, b) \/ ReplySettles(k)
    PROVE  /\ receipt' \in [Keys -> Receipts \union {None}]
           /\ \A j \in Keys : ReceiptKept(j)
  <1>1. CASE ReplyReserves(k, v, b)
    BY <1>1 DEF ReplyReserves, ReserveMoney, TypeInv, Receipts, Kinds,
                ReceiptKept, Mine
  <1>2. CASE ReplySettles(k)
    <2>1. PICK before \in BOOLEAN : SettleKind(k, "reply", before, None)
      BY <1>2 DEF ReplySettles
    <2>2. CASE ~Held(k, "reply")
      BY <2>1, <2>2 DEF SettleKind, moneyVars, TypeInv, ReceiptKept
    <2>3. CASE Held(k, "reply")
      <3>1. receipt[k] \in Receipts /\ receipt[k].kind = "reply"
        BY <2>3 DEF Held, TypeInv
      <3>2. PICK n, reason :
               /\ n = Charge(receipt[k].budget, before, None)
               /\ reason = Settlement(receipt[k].budget, before, None)
               /\ receipt' = [receipt EXCEPT ![k].charged = n,
                                             ![k].settlement = reason]
        BY <2>1, <2>3 DEF SettleKind
      <3>3. n \in Nat /\ reason \in Settlements
        BY <3>1, <3>2, ChargeOf DEF Receipts
      <3>4. receipt'[k] \in Receipts /\ receipt'[k].kind = "reply"
        BY <3>1, <3>2, <3>3 DEF TypeInv, Receipts
      <3> QED BY <3>1, <3>2, <3>4 DEF TypeInv, ReceiptKept, Mine
    <2> QED BY <2>2, <2>3
  <1> QED BY <1>1, <1>2

LEMMA ReplyStep ==
    ASSUME Inv, NEW k \in Keys, NEW v \in Revisions, NEW b \in Budgets,
           ReplyReserves(k, v, b) \/ ReplySettles(k)
    PROVE  Inv'
  <1>1. TypeInv
    BY DEF Inv
  <1>2. /\ receipt' \in [Keys -> Receipts \union {None}]
        /\ \A j \in Keys : ReceiptKept(j)
    BY <1>1, ReplyKeeps
  <1> USE DEF rowVars, processVars
  <1>3. TypeInv'
    BY <1>1, <1>2 DEF ReplyReserves, ReplySettles, TypeInv, TaskType, seenVars
  <1>4. \A j \in Keys : PlanKept(j) /\ TaskKept(j) /\ RestKept(j)
    BY RestSame DEF ReplyReserves, ReplySettles, PlanKept, TaskKept
  <1> QED BY <1>2, <1>3, <1>4, AllKept DEF Kept

-----------------------------------------------------------------------------
(* Store calls of the handlers. *)

\* A transaction that only ends requests.
LEMMA EndingStep ==
    ASSUME Inv, NEW ends, EndsOK(ends), Commit(ends),
           UNCHANGED <<day, conversation, config, server, call, seenVars>>,
           TaskType', \A k \in Keys : TaskKept(k)
    PROVE  Inv'
  <1>1. TypeInv
    BY DEF Inv
  <1>2. /\ receipt' \in [Keys -> Receipts \union {None}]
        /\ plan' \in [Keys -> PlanRows \union {NoPlan}]
        /\ \A k \in Keys : PlanKept(k) /\ ReceiptKept(k)
    BY <1>1, CommitKeeps
  <1>3. TypeInv'
    BY <1>1, <1>2 DEF TypeInv, seenVars
  <1> QED BY <1>2, <1>3, RestSame, AllKept DEF Kept

LEMMA CreateStep ==
    ASSUME Inv, NEW s \in Servers, NEW k \in Keys, Create(s, k)
    PROVE  Inv'
  <1> DEFINE v    == server[s].version
             ends == Expiry(k[1])
             row  == [status |-> "draft", revision |-> conversation[k[1]].revision,
                      version |-> v, budget |-> config[v].budget, created |-> day,
                      day |-> None, due |-> FALSE]
  <1>1. TypeInv /\ SendInv(k) /\ MoneyInv(k) /\ QuoteInv(k)
    BY DEF Inv, KeyInv
  <1>2. EndsOK(ends)
    BY ExpiryOK DEF Keys
  <1>3. /\ Settle(ends) /\ Locked(k) /\ plan[k].status = "absent"
        /\ v \in Revisions /\ config[v].budget \in Budgets
        /\ plan' = [PlanAfter(ends) EXCEPT ![k] = row]
        /\ UNCHANGED <<day, conversation, config, processVars, faults, seenVars>>
    BY <1>1 DEF Create, TypeInv, Processes, Configurations, ConfigActive
  <1>4. row \in PlanRows
    BY <1>1, <1>3 DEF TypeInv, PlanRows, Open, Keys
  <1>5. k \notin DOMAIN ends
    BY <1>3 DEF Expiry, Due, IsOpen, Open, Active
  <1> HIDE DEF ends, row, v
  <1>6. /\ receipt' \in [Keys -> Receipts \union {None}]
        /\ \A j \in Keys : ReceiptKept(j)
        /\ receipt'[k] = receipt[k]
    BY <1>1, <1>2, <1>3, <1>5, SettleKeeps
  <1>7. /\ PlanAfter(ends) \in [Keys -> PlanRows \union {NoPlan}]
        /\ plan'[k] = row
        /\ plan' \in [Keys -> PlanRows \union {NoPlan}]
        /\ \A j \in Keys \ {k} : plan'[j] = PlanAfter(ends)[j]
    BY <1>1, <1>2, <1>3, <1>4, PlansEnd
  <1>8. TypeInv'
    BY <1>1, <1>3, <1>6, <1>7 DEF TypeInv, TaskType, seenVars, processVars
  <1>9. ASSUME NEW j \in Keys \ {k}
        PROVE  KeyInv(j)'
    <2>1. PlanKept(j)
      BY <1>1, <1>2, <1>7, PlansEnd DEF PlanKept
    <2>2. TaskKept(j) /\ RestKept(j)
      BY <1>3, RestSame DEF TaskKept, processVars
    <2> QED BY <2>1, <2>2, <1>6, KeyKept DEF Kept
  <1>10. KeyInv(k)'
    <2>1. /\ task'[k].pc = "none" /\ sends'[k] = 0 /\ task'[k].usage = None
          /\ \A r \in Servers : call'[r][k] # "approve"
          /\ plan'[k].status = "draft" /\ plan'[k].version = v
          /\ plan'[k].budget = config'[v].budget
      BY <1>1, <1>3, <1>7 DEF SendInv, MoneyInv, QuoteInv, processVars, seenVars, row
    <2>2. SendInv(k)'
      BY <2>1 DEF SendInv, Unsent, Queued
    <2>3. MoneyInv(k)'
      BY <2>1, <1>1, <1>6 DEF MoneyInv, Taken, Unsent, Held
    <2>4. QuoteInv(k)'
      BY <2>1 DEF QuoteInv
    <2> QED BY <2>2, <2>3, <2>4 DEF KeyInv
  <1> QED BY <1>8, <1>9, <1>10 DEF Inv

\* Writing the stop changes no budget.
LEMMA StopWritten ==
    ASSUME TypeInv, NEW v, WriteStop(v)
    PROVE  /\ config' \in [Revisions -> Configurations]
           /\ \A w \in Revisions :
                  /\ config'[w].budget = config[w].budget
                  /\ config[w].disabled => config'[w].disabled
  <1>1. CASE UNCHANGED config
    BY <1>1 DEF TypeInv
  <1>2. CASE config' = [config EXCEPT ![v].disabled = TRUE]
    <2>1. ASSUME NEW w \in Revisions
          PROVE  /\ config'[w] \in Configurations
                 /\ config'[w].budget = config[w].budget
                 /\ config[w].disabled => config'[w].disabled
      <3>1. config'[w] = IF w = v THEN [config[w] EXCEPT !.disabled = TRUE]
                         ELSE config[w]
        BY <1>2 DEF TypeInv
      <3> QED BY <3>1 DEF TypeInv, Configurations
    <2>2. config' = [w \in Revisions |-> config'[w]]
      BY <1>2 DEF TypeInv
    <2> QED BY <2>1, <2>2
  <1> QED BY <1>1, <1>2 DEF WriteStop

LEMMA CallStep ==
    ASSUME Inv, NEW s \in Servers, NEW k \in Keys,
           Call(s, k) \/ Ready(s, k) \/ HangUp(s, k)
    PROVE  Inv'
  <1> USE DEF rowVars, moneyVars
  <1>1. TypeInv
    BY DEF Inv
  <1>2. PICK stage \in CallStages :
            /\ call' = [call EXCEPT ![s][k] = stage]
            /\ stage = "approve" => /\ Ready(s, k) /\ plan[k].status # "absent"
                                    /\ plan[k].version = server[s].version
    BY DEF Call, Ready, HangUp, CallStages
  <1>3. /\ call' \in [Servers -> [Keys -> CallStages]]
        /\ call'[s][k] = stage
        /\ \A r \in Servers, j \in Keys :
               r # s \/ j # k => call'[r][j] = call[r][j]
    BY <1>1, <1>2 DEF TypeInv
  <1>4. /\ config' \in [Revisions -> Configurations]
        /\ \A v \in Revisions : config'[v].budget = config[v].budget
    BY <1>1, StopWritten DEF Call, Ready, HangUp, TypeInv
  <1>5. UNCHANGED <<day, conversation, plan, receipt, server, task, seenVars>>
    BY DEF Call, Ready, HangUp
  <1>6. TypeInv'
    BY <1>1, <1>3, <1>4, <1>5 DEF TypeInv, TaskType, seenVars
  <1>7. \A j \in Keys : PlanKept(j) /\ ReceiptKept(j) /\ TaskKept(j)
    BY <1>5 DEF PlanKept, ReceiptKept, TaskKept
  <1>8. ASSUME NEW j \in Keys, stage # "approve" \/ j # k
        PROVE  KeyInv(j)'
    <2>1. RestKept(j)
      BY <1>3, <1>4, <1>5, <1>8 DEF RestKept, Locked, seenVars
    <2> QED BY <2>1, <1>7, KeyKept DEF Kept
  <1>9. ASSUME stage = "approve"
        PROVE  KeyInv(k)'
    <2>1. SendInv(k) /\ MoneyInv(k) /\ QuoteInv(k)
      BY DEF Inv, KeyInv
    <2>2. SendInv(k)' /\ MoneyInv(k)'
      BY <2>1, <1>5 DEF SendInv, MoneyInv, Queued, Locked, Mine, Held, seenVars
    <2>3. plan[k].status # "absent" => plan[k].version \in Revisions
      BY <1>1 DEF TypeInv, PlanRows, NoPlan
    <2>4. /\ plan'[k].status # "absent" =>
                 config'[plan'[k].version].budget = plan'[k].budget
      BY <2>1, <2>3, <1>4, <1>5 DEF QuoteInv
    <2>5. ASSUME NEW r \in Servers, call'[r][k] = "approve", Locked(k)'
          PROVE  plan'[k].status # "absent" /\ plan'[k].version = server'[r].version
      BY <2>1, <2>5, <1>2, <1>3, <1>5, <1>9 DEF QuoteInv, Locked
    <2>6. ASSUME task'[k].pc # "none"
          PROVE  /\ task'[k].server \in Servers
                 /\ Mine(k)'
                 /\ receipt'[k].revision = server'[task'[k].server].version
                 /\ receipt'[k].budget = config'[receipt'[k].revision].budget
      BY <2>1, <2>6, <1>1, <1>4, <1>5 DEF QuoteInv, Mine, TypeInv, Receipts
    <2> QED BY <2>2, <2>4, <2>5, <2>6 DEF QuoteInv, KeyInv
  <1> QED BY <1>6, <1>8, <1>9 DEF Inv

LEMMA ApproveStep ==
    ASSUME Inv, NEW s \in Servers, NEW k \in Keys, Approve(s, k)
    PROVE  Inv'
  <1> DEFINE ends == Expiry(k[1])
             row  == [kind |-> "model_planning", day |-> day,
                      revision |-> plan[k].version, budget |-> plan[k].budget,
                      charged |-> None, settlement |-> None]
  <1>1. TypeInv /\ SendInv(k) /\ MoneyInv(k) /\ QuoteInv(k)
    BY DEF Inv, KeyInv
  <1>2. EndsOK(ends)
    BY ExpiryOK DEF Keys
  <1>3. /\ call[s][k] = "approve" /\ Locked(k) /\ plan[k].status # "absent"
        /\ call' = [call EXCEPT ![s][k] = "none"]
        /\ UNCHANGED <<day, conversation, config, server, faults, seenVars>>
    BY DEF Approve
  <1>4. /\ call' \in [Servers -> [Keys -> CallStages]]
        /\ call'[s][k] = "none"
        /\ \A r \in Servers, j \in Keys :
               r # s \/ j # k => call'[r][j] = call[r][j]
    BY <1>1, <1>3 DEF TypeInv, CallStages
  <1>5. \A j \in Keys : RestKept(j)
    BY <1>3, <1>4 DEF RestKept, Locked, seenVars
  <1>6. CASE Commit(ends) /\ UNCHANGED task
    <2>1. /\ receipt' \in [Keys -> Receipts \union {None}]
          /\ plan' \in [Keys -> PlanRows \union {NoPlan}]
          /\ \A j \in Keys : PlanKept(j) /\ ReceiptKept(j)
      BY <1>1, <1>2, <1>6, CommitKeeps
    <2>2. TypeInv'
      BY <1>1, <1>3, <1>4, <1>6, <2>1 DEF TypeInv, TaskType, seenVars
    <2> QED BY <1>5, <1>6, <2>1, <2>2, AllKept DEF Kept, TaskKept
  <1>7. CASE /\ Reserve(k)
             /\ \/ task' = [task EXCEPT ![k].pc = "claim", ![k].server = s]
                \/ UNCHANGED task
    <2>1. /\ plan[k].status = "draft" /\ receipt[k] = None
          /\ k \notin DOMAIN ends
          /\ \A j \in Paid(ends) : ReceiptValid(j)
          /\ plan' = [PlanAfter(ends) EXCEPT ![k].status = "queued", ![k].day = day]
          /\ receipt' = [ReceiptAfter(ends) EXCEPT ![k] = row]
      BY <1>7 DEF Reserve, Expiry
    <2>2. plan[k] \in PlanRows
      BY <1>1, <2>1 DEF TypeInv, NoPlan
    <2>3. row \in Receipts
      BY <1>1, <2>2 DEF TypeInv, Receipts, Kinds, PlanRows
    <2> HIDE DEF ends
    <2>4. /\ PlanAfter(ends) \in [Keys -> PlanRows \union {NoPlan}]
          /\ PlanAfter(ends)[k] = plan[k]
      BY <1>1, <1>2, <2>1, PlansEnd
    <2>5. /\ plan' \in [Keys -> PlanRows \union {NoPlan}]
          /\ plan'[k].status = "queued"
          /\ plan'[k].version = plan[k].version /\ plan'[k].budget = plan[k].budget
          /\ \A j \in Keys \ {k} : plan'[j] = PlanAfter(ends)[j]
      <3>1. /\ plan'[k] = [plan[k] EXCEPT !.status = "queued", !.day = day]
            /\ \A j \in Keys \ {k} : plan'[j] = PlanAfter(ends)[j]
            /\ plan' = [j \in Keys |-> plan'[j]]
        BY <2>1, <2>4
      <3>2. /\ plan'[k] \in PlanRows
            /\ plan'[k].status = "queued"
            /\ plan'[k].version = plan[k].version /\ plan'[k].budget = plan[k].budget
        BY <3>1, <2>2, <1>1 DEF TypeInv, PlanRows, Open, Active
      <3>3. \A j \in Keys : plan'[j] \in PlanRows \union {NoPlan}
        BY <3>1, <3>2, <2>4
      <3> QED BY <3>1, <3>2, <3>3
    <2> HIDE DEF row
    <2>6. /\ receipt'[k] = row
          /\ receipt' = [j \in Keys |-> receipt'[j]]
          /\ \A j \in Keys \ {k} : receipt'[j] = ReceiptAfter(ends)[j]
      BY <2>1 DEF ReceiptAfter
    <2>7. \A j \in Keys \ {k} :
              /\ receipt'[j] \in Receipts \union {None}
              /\ ReceiptKept(j)
      BY <1>1, <1>2, <2>1, <2>6, ReceiptsSettle DEF ReceiptKept
    <2>8. receipt' \in [Keys -> Receipts \union {None}]
      BY <2>3, <2>6, <2>7
    <2>9. /\ TaskType'
          /\ \A j \in Keys \ {k} : task'[j] = task[j]
          /\ task'[k].usage = task[k].usage
          /\ task'[k].pc \in {task[k].pc, "claim"}
          /\ task'[k].pc = "claim" /\ task[k].pc # "claim" => task'[k].server = s
      <3>1. CASE UNCHANGED task
        BY <1>1, <3>1 DEF TypeInv, TaskType
      <3>2. CASE task' = [task EXCEPT ![k].pc = "claim", ![k].server = s]
        <4>1. /\ task'[k] = [task[k] EXCEPT !.pc = "claim", !.server = s]
              /\ task' = [j \in Keys |-> task'[j]]
              /\ \A j \in Keys \ {k} : task'[j] = task[j]
          BY <1>1, <3>2 DEF TypeInv, TaskType
        <4>2. /\ task'[k] \in Tasks /\ task'[k].pc = "claim"
              /\ task'[k].server = s /\ task'[k].usage = task[k].usage
          <5>1. task[k] \in Tasks
            BY <1>1 DEF TypeInv, TaskType
          <5>2. task'[k] = [pc |-> "claim", server |-> s,
                            outcome |-> task[k].outcome, usage |-> task[k].usage]
            BY <4>1, <5>1 DEF Tasks
          <5> QED BY <5>1, <5>2 DEF Tasks, Places
        <4>3. task' \in [Keys -> Tasks]
          BY <1>1, <4>1, <4>2 DEF TypeInv, TaskType
        <4> QED BY <1>1, <4>1, <4>2, <4>3 DEF TypeInv, TaskType
      <3> QED BY <1>7, <3>1, <3>2
    <2>10. TypeInv'
      BY <1>1, <1>3, <1>4, <2>5, <2>8, <2>9 DEF TypeInv, seenVars
    <2>11. ASSUME NEW j \in Keys \ {k}
           PROVE  KeyInv(j)'
      <3>1. PlanKept(j)
        BY <1>1, <1>2, <2>5, PlansEnd DEF PlanKept
      <3>2. TaskKept(j)
        BY <2>9 DEF TaskKept
      <3> QED BY <3>1, <3>2, <2>7, <1>5, KeyKept DEF Kept
    <2>12. KeyInv(k)'
      <3>1. /\ task[k].pc = "none" /\ task[k].usage = None
            /\ sends'[k] = 0
        BY <1>1, <1>3, <2>1 DEF SendInv, MoneyInv, seenVars
      <3>2. /\ task'[k].pc \in {"none", "claim"} /\ task'[k].usage = None
            /\ task'[k].pc = "claim" => task'[k].server = s
        BY <3>1, <2>9
      <3>3. SendInv(k)'
        BY <3>1, <2>5 DEF SendInv
      <3>4. /\ receipt'[k] \in Receipts /\ receipt'[k].kind = "model_planning"
            /\ receipt'[k].charged = None /\ receipt'[k].settlement = None
            /\ receipt'[k].revision = plan[k].version
            /\ receipt'[k].budget = plan[k].budget
        BY <2>3, <2>6 DEF row
      <3>5. Mine(k)'
        BY <3>4, NullAssumption DEF Mine
      <3>6. MoneyInv(k)'
        BY <3>1, <3>2, <3>4, PlanningAssumption
        DEF MoneyInv, Taken, Unsent, Settlements
      <3>7. /\ config[plan[k].version].budget = plan[k].budget
            /\ plan[k].version = server[s].version
        BY <1>1, <1>3 DEF QuoteInv
      <3>8. QuoteInv(k)'
        <4>1. \A r \in Servers : call'[r][k] = "approve" =>
                  plan'[k].version = server'[r].version
          BY <1>1, <1>3, <1>4, <2>5 DEF QuoteInv
        <4> QED BY <4>1, <3>2, <3>4, <3>5, <3>7, <1>3, <2>5 DEF QuoteInv
      <3> QED BY <3>3, <3>6, <3>8 DEF KeyInv
    <2> QED BY <2>10, <2>11, <2>12 DEF Inv
  <1> QED BY <1>6, <1>7 DEF Approve

LEMMA TouchStep ==
    ASSUME Inv, NEW c \in Conversations, Touch(c)
    PROVE  Inv'
  <1>1. TaskType' /\ \A k \in Keys : TaskKept(k)
    BY DEF Touch, processVars, TaskType, TaskKept, Inv, TypeInv
  <1> QED BY <1>1, ExpiryOK, EndingStep DEF Touch, processVars

LEMMA CancelStep ==
    ASSUME Inv, NEW k \in Keys, Cancel(k)
    PROVE  Inv'
  <1>1. TaskType' /\ \A j \in Keys : TaskKept(j)
    BY DEF Cancel, processVars, TaskType, TaskKept, Inv, TypeInv
  <1>2. EndsOK(Expiry(k[1]))
    BY ExpiryOK DEF Keys
  <1>3. EndsOK(Also(Expiry(k[1]), k, End("cancelled", None)))
    BY <1>2, AlsoOK DEF Cancel, Ended
  <1> QED BY <1>1, <1>3, EndingStep DEF Cancel, processVars

-----------------------------------------------------------------------------
(* The task of a request. *)

LEMMA ClaimStep ==
    ASSUME Inv, NEW k \in Keys, Claim(k)
    PROVE  Inv'
  <1> DEFINE ends == Expiry(k[1])
  <1>1. TypeInv /\ SendInv(k) /\ MoneyInv(k) /\ QuoteInv(k)
    BY DEF Inv, KeyInv
  <1>2. EndsOK(ends)
    BY ExpiryOK DEF Keys
  <1>3. /\ task[k].pc = "claim" /\ Locked(k)
        /\ UNCHANGED <<day, conversation, config, server, call, faults, seenVars>>
    BY DEF Claim, At
  <1>4. CASE Commit(ends) /\ Stop(k)
    BY <1>1, <1>2, <1>3, <1>4, TaskStops, EndingStep
  <1>5. CASE /\ Queued(k) /\ Stop(k)
             /\ Commit(Also(ends, k, End("stale", None)))
    <2>1. EndsOK(Also(ends, k, End("stale", None)))
      BY <1>2, <1>5, AlsoOK DEF Queued, IsOpen, Open, Active, Ended
    <2> QED BY <1>1, <1>3, <1>5, <2>1, TaskStops, EndingStep
  <1>6. CASE /\ Queued(k) /\ k \notin Due(k[1]) /\ ReceiptValid(k)
             /\ Settle(ends)
             /\ plan' = [PlanAfter(ends) EXCEPT ![k].status = "dispatching"]
             /\ Goto(k, "recheck")
    <2>1. k \notin DOMAIN ends
      BY <1>6 DEF Expiry
    <2> HIDE DEF ends
    <2>2. /\ receipt' \in [Keys -> Receipts \union {None}]
          /\ \A j \in Keys : ReceiptKept(j)
          /\ receipt'[k] = receipt[k]
      BY <1>1, <1>2, <1>6, <2>1, SettleKeeps
    <2>3. plan[k] \in PlanRows
      BY <1>1, <1>6 DEF TypeInv, Queued, NoPlan
    <2>4. /\ PlanAfter(ends) \in [Keys -> PlanRows \union {NoPlan}]
          /\ PlanAfter(ends)[k] = plan[k]
      BY <1>1, <1>2, <2>1, PlansEnd
    <2>5. /\ plan'[k] = [plan[k] EXCEPT !.status = "dispatching"]
          /\ plan' = [j \in Keys |-> plan'[j]]
          /\ \A j \in Keys \ {k} : plan'[j] = PlanAfter(ends)[j]
      BY <1>6, <2>4
    <2>6. /\ plan'[k] \in PlanRows /\ plan'[k].status = "dispatching"
          /\ plan'[k].version = plan[k].version /\ plan'[k].budget = plan[k].budget
      BY <2>3, <2>5 DEF PlanRows, Open, Active
    <2>7. plan' \in [Keys -> PlanRows \union {NoPlan}]
      <3>1. \A j \in Keys : plan'[j] \in PlanRows \union {NoPlan}
        BY <2>4, <2>5, <2>6
      <3> QED BY <3>1, <2>5
    <2>8. /\ TaskType'
          /\ task'[k].pc = "recheck" /\ task'[k].server = task[k].server
          /\ task'[k].usage = task[k].usage
          /\ \A j \in Keys \ {k} : task'[j] = task[j]
      BY <1>1, <1>6, TaskGoes DEF Places
    <2>9. TypeInv'
      BY <1>1, <1>3, <2>2, <2>7, <2>8 DEF TypeInv, seenVars
    <2>10. ASSUME NEW j \in Keys \ {k}
           PROVE  KeyInv(j)'
      <3>1. PlanKept(j)
        BY <1>1, <1>2, <2>5, PlansEnd DEF PlanKept
      <3>2. TaskKept(j) /\ RestKept(j)
        BY <1>3, <2>8, RestSame DEF TaskKept
      <3> QED BY <3>1, <3>2, <2>2, KeyKept DEF Kept
    <2>11. KeyInv(k)'
      <3>1. /\ sends[k] = 0 /\ task[k].usage = None
            /\ sends'[k] = 0 /\ task'[k].usage = None
        BY <1>1, <1>3, <2>8 DEF SendInv, MoneyInv, seenVars
      <3>2. SendInv(k)'
        BY <3>1, <2>6 DEF SendInv, Queued
      <3>3. /\ Mine(k) /\ receipt[k].charged = None
            /\ receipt[k].settlement # "cancelled_before_dispatch"
        BY <1>1, <1>6 DEF ReceiptValid, Held, Mine, MoneyInv
      <3>4. MoneyInv(k)'
        BY <3>1, <3>3, <2>2, <2>6 DEF MoneyInv, Mine
      <3>5. QuoteInv(k)'
        <4>1. /\ config[plan[k].version].budget = plan[k].budget
              /\ task[k].server \in Servers
              /\ receipt[k].revision = server[task[k].server].version
              /\ receipt[k].budget = config[receipt[k].revision].budget
          BY <1>1, <1>3, <1>6 DEF QuoteInv, Queued
        <4>2. \A r \in Servers : call'[r][k] = "approve" =>
                  plan'[k].version = server'[r].version
          BY <1>1, <1>3, <2>6 DEF QuoteInv
        <4>3. Mine(k)'
          BY <3>3, <2>2 DEF Mine
        <4> QED BY <4>1, <4>2, <4>3, <1>3, <2>2, <2>6, <2>8 DEF QuoteInv
      <3> QED BY <3>2, <3>4, <3>5 DEF KeyInv
    <2> QED BY <2>9, <2>10, <2>11 DEF Inv
  <1> QED BY <1>4, <1>5, <1>6 DEF Claim

\* The checks before the request is sent, and their refusal.
LEMMA CheckStep ==
    ASSUME Inv, NEW k \in Keys,
           Recheck(k) \/ CheckRevision(k) \/ Verify(k) \/ Refuse(k)
    PROVE  Inv'
  <1> USE DEF At, Outcomes, Taken, Unsent
  <1>1. TypeInv
    BY DEF Inv
  <1>2. TaskType' /\ \A j \in Keys : TaskKept(j)
    BY TaskMoves DEF Recheck, CheckRevision, Verify, Refuse
  <1>3. CASE Recheck(k)
    <2>1. EndsOK(Expiry(k[1]))
      BY ExpiryOK DEF Keys
    <2> QED BY <1>2, <1>3, <2>1, EndingStep DEF Recheck
  <1>4. CASE CheckRevision(k) \/ Verify(k) \/ Refuse(k)
    <2>1. UNCHANGED <<day, rowVars, server, call, faults, seenVars>>
      BY <1>4 DEF CheckRevision, Verify, Refuse
    <2>2. TypeInv'
      BY <1>1, <1>2, <2>1 DEF TypeInv, rowVars, moneyVars, seenVars
    <2>3. \A j \in Keys : PlanKept(j) /\ ReceiptKept(j) /\ RestKept(j)
      BY <2>1, RestSame DEF PlanKept, ReceiptKept, rowVars, moneyVars
    <2> QED BY <1>2, <2>2, <2>3, AllKept DEF Kept
  <1> QED BY <1>3, <1>4

LEMMA SendStep ==
    ASSUME Inv, NEW k \in Keys, Send(k)
    PROVE  Inv'
  <1>1. TypeInv /\ SendInv(k) /\ MoneyInv(k) /\ QuoteInv(k)
    BY DEF Inv, KeyInv
  <1>2. /\ task[k].pc = "send"
        /\ UNCHANGED <<day, rowVars, server, call, faults>>
    BY DEF Send, At
  <1>3. CASE Conclude(k, "failed", None) /\ UNCHANGED seenVars
    <2>1. TaskType' /\ \A j \in Keys : TaskKept(j)
      BY <1>2, <1>3, TaskMoves DEF Outcomes, Taken
    <2>2. TypeInv'
      BY <1>1, <1>2, <1>3, <2>1 DEF TypeInv, rowVars, moneyVars, seenVars
    <2>3. \A j \in Keys : PlanKept(j) /\ ReceiptKept(j) /\ RestKept(j)
      BY <1>2, <1>3, RestSame DEF PlanKept, ReceiptKept, rowVars, moneyVars
    <2> QED BY <2>1, <2>2, <2>3, AllKept DEF Kept
  <1>4. ASSUME NEW n \in Billable(receipt[k].budget),
               sends' = [sends EXCEPT ![k] = @ + 1],
               billed' = [billed EXCEPT ![k] = n],
               Goto(k, "wait")
        PROVE  Inv'
    <2>1. /\ sends[k] = 0 /\ Mine(k) /\ task[k].usage = None
          /\ receipt[k].settlement # "cancelled_before_dispatch"
          /\ plan[k].status \notin {"draft", "queued"}
          /\ ~(plan[k].status = "absent" /\ Locked(k))
          /\ receipt[k].charged # None =>
                 receipt[k].charged = Cost[receipt[k].budget]
      BY <1>1, <1>2 DEF SendInv, MoneyInv, Unsent, Taken
    <2>2. receipt[k].budget \in Budgets /\ receipt[k] \in Receipts
      BY <1>1, <2>1 DEF TypeInv, Mine, Receipts
    <2>3. Cost[receipt[k].budget] \in Nat /\ n \in Nat
      BY <2>2, BudgetAssumption DEF Billable
    <2>4. /\ TaskType'
          /\ task'[k].pc = "wait" /\ task'[k].server = task[k].server
          /\ task'[k].usage = None
          /\ \A j \in Keys \ {k} : task'[j] = task[j]
      BY <1>1, <1>4, <2>1, TaskGoes DEF Places
    <2>5. /\ sends' \in [Keys -> Nat] /\ billed' \in [Keys -> Nat]
          /\ sends'[k] = 1 /\ billed'[k] = n
          /\ \A j \in Keys \ {k} : sends'[j] = sends[j] /\ billed'[j] = billed[j]
      BY <1>1, <1>4, <2>1, <2>3 DEF TypeInv
    <2>6. TypeInv'
      BY <1>1, <1>2, <2>4, <2>5 DEF TypeInv, rowVars, moneyVars
    <2>7. ASSUME NEW j \in Keys \ {k}
          PROVE  KeyInv(j)'
      <3>1. PlanKept(j) /\ ReceiptKept(j) /\ TaskKept(j) /\ RestKept(j)
        BY <1>2, <2>4, <2>5 DEF PlanKept, ReceiptKept, TaskKept, RestKept,
                                Locked, rowVars, moneyVars
      <3> QED BY <3>1, KeyKept DEF Kept
    <2>8. KeyInv(k)'
      <3>1. SendInv(k)'
        BY <1>2, <2>1, <2>4, <2>5
        DEF SendInv, Unsent, Queued, Locked, rowVars
      <3>2. MoneyInv(k)'
        BY <1>1, <1>2, <2>1, <2>3, <2>4, <2>5
        DEF MoneyInv, Unsent, Mine, Held, rowVars, moneyVars
      <3>3. QuoteInv(k)'
        BY <1>1, <1>2, <2>4 DEF QuoteInv, Mine, Locked, rowVars, moneyVars
      <3> QED BY <3>1, <3>2, <3>3 DEF KeyInv
    <2> QED BY <2>6, <2>7, <2>8 DEF Inv
  <1> QED BY <1>3, <1>4 DEF Send

LEMMA AnswerStep ==
    ASSUME Inv, NEW k \in Keys, Answered(k)
    PROVE  Inv'
  <1>1. TypeInv
    BY DEF Inv
  <1>2. /\ task[k].pc = "wait"
        /\ UNCHANGED <<day, rowVars, server, call, faults, seenVars>>
    BY DEF Answered, At
  <1>3. PICK outcome \in Outcomes, usage \in Nat \union {None} :
            /\ Conclude(k, outcome, usage)
            /\ usage # None => /\ usage = billed[k]
                               /\ billed[k] <= Cost[receipt[k].budget]
    BY <1>1 DEF Answered, Outcomes, TypeInv
  <1>4. /\ TaskType'
        /\ task'[k].pc = "finish" /\ task'[k].server = task[k].server
        /\ task'[k].usage = usage
        /\ \A j \in Keys \ {k} : task'[j] = task[j]
    BY <1>1, <1>3, TaskConcludes
  <1>5. \A j \in Keys : TaskKept(j)
    BY <1>2, <1>3, <1>4 DEF TaskKept, Taken, Unsent
  <1>6. TypeInv'
    BY <1>1, <1>2, <1>4 DEF TypeInv, rowVars, moneyVars, seenVars
  <1>7. \A j \in Keys : PlanKept(j) /\ ReceiptKept(j) /\ RestKept(j)
    BY <1>2, RestSame DEF PlanKept, ReceiptKept, rowVars, moneyVars
  <1> QED BY <1>5, <1>6, <1>7, AllKept DEF Kept

LEMMA StopStep ==
    ASSUME Inv, NEW k \in Keys, ContractViolation(k) \/ PersistDisable(k)
    PROVE  Inv'
  <1> USE DEF At, Outcomes, Taken, Unsent
  <1>1. TypeInv
    BY DEF Inv
  <1>2. TaskType' /\ \A j \in Keys : TaskKept(j)
    BY TaskMoves DEF ContractViolation, PersistDisable
  <1>3. CASE ContractViolation(k)
    <2>1. UNCHANGED <<day, rowVars, call, faults, seenVars>>
      BY <1>3 DEF ContractViolation
    <2>2. /\ server' \in [Servers -> Processes]
          /\ \A s \in Servers : server'[s].version = server[s].version
      BY <1>1, <1>3 DEF ContractViolation, TypeInv, Processes
    <2>3. TypeInv'
      BY <1>1, <1>2, <2>1, <2>2 DEF TypeInv, rowVars, moneyVars, seenVars
    <2>4. \A j \in Keys : PlanKept(j) /\ ReceiptKept(j) /\ RestKept(j)
      BY <2>1, <2>2 DEF PlanKept, ReceiptKept, RestKept, Locked, rowVars,
                        moneyVars, seenVars
    <2> QED BY <1>2, <2>3, <2>4, AllKept DEF Kept
  <1>4. CASE PersistDisable(k)
    <2>1. UNCHANGED <<day, conversation, plan, modelCalls, moneyVars, server,
                      call, seenVars>>
      BY <1>4 DEF PersistDisable
    <2>2. /\ config' \in [Revisions -> Configurations]
          /\ \A v \in Revisions : config'[v].budget = config[v].budget
      BY <1>1, <1>4, StopWritten DEF PersistDisable
    <2>3. TypeInv'
      BY <1>1, <1>2, <2>1, <2>2 DEF TypeInv, moneyVars, seenVars
    <2>4. \A j \in Keys : PlanKept(j) /\ ReceiptKept(j) /\ RestKept(j)
      BY <2>1, <2>2 DEF PlanKept, ReceiptKept, RestKept, Locked, moneyVars, seenVars
    <2> QED BY <1>2, <2>3, <2>4, AllKept DEF Kept
  <1> QED BY <1>3, <1>4

LEMMA FinishStep ==
    ASSUME Inv, NEW k \in Keys, Finish(k) \/ GiveUp(k)
    PROVE  Inv'
  <1>1. TypeInv
    BY DEF Inv
  <1>2. TaskType' /\ \A j \in Keys : TaskKept(j)
    BY <1>1, TaskStops DEF Finish, GiveUp
  <1>3. CASE GiveUp(k)
    <2>1. UNCHANGED <<day, rowVars, server, call, faults, seenVars>>
      BY <1>3 DEF GiveUp
    <2>2. TypeInv'
      BY <1>1, <1>2, <2>1 DEF TypeInv, rowVars, moneyVars, seenVars
    <2>3. \A j \in Keys : PlanKept(j) /\ ReceiptKept(j) /\ RestKept(j)
      BY <2>1, RestSame DEF PlanKept, ReceiptKept, rowVars, moneyVars
    <2> QED BY <1>2, <2>2, <2>3, AllKept DEF Kept
  <1>4. CASE Finish(k)
    <2> DEFINE ends   == Expiry(k[1])
               status == IF task[k].outcome # "proposed" THEN task[k].outcome
                         ELSE IF Current(k) THEN "succeeded" ELSE "failed"
               usage  == IF status = "succeeded" THEN task[k].usage ELSE None
    <2>1. EndsOK(ends)
      BY ExpiryOK DEF Keys
    <2>2. /\ task[k].pc = "finish"
          /\ UNCHANGED <<day, conversation, config, server, call, seenVars>>
          /\ \/ /\ plan[k].status = "dispatching"
                /\ Commit(Also(ends, k, End(status, usage)))
             \/ Commit(ends)
      BY <1>4 DEF Finish, At
    <2>3. status \in Ended /\ usage \in Nat \union {None}
      BY <1>1, <2>2 DEF TypeInv, TaskType, Tasks, Outcomes, Ended
    <2>4. usage # None => task[k].pc = "finish" /\ usage = task[k].usage
      BY <2>2
    <2> HIDE DEF ends, status, usage
    <2>5. plan[k].status = "dispatching" =>
              EndsOK(Also(ends, k, End(status, usage)))
      BY <2>1, <2>3, <2>4, AlsoOK DEF IsOpen, Open, Active
    <2> QED BY <1>2, <2>1, <2>2, <2>5, EndingStep
  <1> QED BY <1>3, <1>4

-----------------------------------------------------------------------------
(* Processes. *)

LEMMA ProcessStep ==
    ASSUME Inv, NEW s \in Servers,
           (\E d \in Deployments : Start(s, d)) \/ Crash(s)
    PROVE  Inv'
  <1>1. TypeInv
    BY DEF Inv
  <1>2. ASSUME NEW d \in Deployments, Start(s, d)
        PROVE  Inv'
    <2>1. d.version \in Revisions /\ d.budget \in Budgets
      BY PlanningAssumption
    <2>2. /\ config' \in [Revisions -> Configurations]
          /\ \A v \in Revisions :
                 config[v].budget # None => config'[v].budget = config[v].budget
      <3>1. \A v \in Revisions :
                config'[v] = IF v = d.version THEN [config[v] EXCEPT !.budget = d.budget]
                             ELSE config[v]
        BY <1>1, <1>2 DEF Start, TypeInv
      <3>2. ASSUME NEW v \in Revisions
            PROVE  /\ config'[v] \in Configurations
                   /\ config[v].budget # None => config'[v].budget = config[v].budget
        BY <1>1, <1>2, <2>1, <3>1, SMTT(60) DEF Start, TypeInv, Configurations
      <3>3. config' = [v \in Revisions |-> config'[v]]
        BY <1>1, <1>2 DEF Start, TypeInv
      <3> QED BY <3>2, <3>3
    <2>3. /\ server' \in [Servers -> Processes]
          /\ \A r \in Servers :
                 server[r].version # None => server'[r].version = server[r].version
      BY <1>1, <1>2, <2>1 DEF Start, TypeInv, Processes, Down
    <2>4. UNCHANGED <<day, conversation, plan, receipt, call, task, seenVars>>
      BY <1>2 DEF Start, moneyVars
    <2>5. TypeInv'
      BY <1>1, <2>2, <2>3, <2>4 DEF TypeInv, TaskType, seenVars
    <2>6. \A j \in Keys : Kept(j)
      BY <2>2, <2>3, <2>4 DEF Kept, PlanKept, ReceiptKept, TaskKept, RestKept,
                              Locked, seenVars
    <2> QED BY <2>5, <2>6, AllKept
  <1>3. CASE Crash(s)
    <2>1. UNCHANGED <<day, rowVars, seenVars>>
      BY <1>3 DEF Crash
    <2>2. /\ server' \in [Servers -> Processes]
          /\ \A r \in Servers \ {s} : server'[r] = server[r]
      BY <1>1, <1>3 DEF Crash, TypeInv, Processes, Down
    <2>3. /\ call' \in [Servers -> [Keys -> CallStages]]
          /\ \A j \in Keys : call'[s][j] = "none"
          /\ \A r \in Servers \ {s} : call'[r] = call[r]
      BY <1>1, <1>3 DEF Crash, TypeInv, CallStages
    <2>4. NoTask \in Tasks /\ NoTask.server \notin Servers /\ NoTask.pc = "none"
      BY PlanningAssumption DEF NoTask, Tasks, Places
    <2>5. \A j \in Keys :
              /\ task'[j] = IF task[j].server = s THEN NoTask ELSE task[j]
              /\ task'[j].server # s
      BY <1>3, <2>4 DEF Crash
    <2>6. TaskType'
      <3>1. \A j \in Keys : task'[j] \in Tasks
        BY <1>1, <2>4, <2>5 DEF TypeInv, TaskType
      <3>2. task' = [j \in Keys |-> task'[j]]
        BY <1>3 DEF Crash
      <3> QED BY <1>1, <2>4, <2>5, <3>1, <3>2 DEF TypeInv, TaskType
    <2>7. TypeInv'
      BY <1>1, <2>1, <2>2, <2>3, <2>6 DEF TypeInv, rowVars, moneyVars, seenVars
    <2>8. \A j \in Keys : PlanKept(j) /\ ReceiptKept(j) /\ TaskKept(j)
      BY <2>1, <2>5 DEF PlanKept, ReceiptKept, TaskKept, rowVars, moneyVars
    <2>9. \A j \in Keys : RestKept(j)
      BY <2>1, <2>2, <2>3, <2>5 DEF RestKept, Locked, rowVars, seenVars
    <2> QED BY <2>7, <2>8, <2>9, AllKept DEF Kept
  <1> QED BY <1>2, <1>3

-----------------------------------------------------------------------------
(* The theorems. *)

\* The invariant holds in every state (all of ModelPlanning).
THEOREM Invariance == Spec => []Inv
  <1>1. Init => Inv
    <2> SUFFICES ASSUME Init
                 PROVE  Inv
      OBVIOUS
    <2>1. /\ receipt = [k \in Keys |-> None]
          /\ day = 0
          /\ plan = [k \in Keys |-> NoPlan]
          /\ task = [k \in Keys |-> NoTask]
          /\ sends = [k \in Keys |-> 0] /\ billed = [k \in Keys |-> 0]
          /\ call = [s \in Servers |-> [k \in Keys |-> "none"]]
          /\ server = [s \in Servers |-> Down]
      BY DEF Init, MoneyInit
    <2>2. NoTask \in Tasks /\ Down \in Processes /\ 0 \in Days
      BY BudgetAssumption DEF NoTask, Tasks, Places, Down, Processes, Days
    <2>3. conversation \in [Conversations -> [deleted: BOOLEAN, revision: Nat]]
      BY DEF Init
    <2>4. config \in [Revisions -> Configurations]
      BY DEF Init, Configurations
    <2>5. TypeInv
      BY <2>1, <2>2, <2>3, <2>4 DEF TypeInv, TaskType, NoTask, CallStages
    <2>6. ASSUME NEW k \in Keys
          PROVE  KeyInv(k)
      <3>1. SendInv(k)
        BY <2>1 DEF SendInv, NoTask, NoPlan, Queued, Unsent
      <3>2. MoneyInv(k)
        BY <2>1 DEF MoneyInv, NoTask, Taken, Unsent, Held
      <3>3. QuoteInv(k)
        BY <2>1 DEF QuoteInv, NoTask, NoPlan
      <3> QED BY <3>1, <3>2, <3>3 DEF KeyInv
    <2> QED BY <2>5, <2>6 DEF Inv
  <1>2. Inv /\ [Next]_vars => Inv'
    <2> SUFFICES ASSUME Inv, [Next]_vars
                 PROVE  Inv'
      OBVIOUS
    <2>1. CASE UNCHANGED vars
      <3>1. TypeInv'
        BY <2>1 DEF Inv, TypeInv, TaskType, vars, rowVars, moneyVars,
                    processVars, seenVars
      <3>2. \A k \in Keys : Kept(k)
        BY <2>1 DEF Kept, PlanKept, ReceiptKept, TaskKept, RestKept, Locked,
                    vars, rowVars, moneyVars, processVars, seenVars
      <3> QED BY <3>1, <3>2, AllKept
    <2>2. CASE NewDay
      BY <2>2, TimeStep
    <2>3. ASSUME NEW k \in Keys, Lapse(k) \/ Cancel(k) \/ Run(k)
          PROVE  Inv'
      BY <2>3, TimeStep, CancelStep, ClaimStep, CheckStep, SendStep, AnswerStep,
         StopStep, FinishStep DEF Run
    <2>4. ASSUME NEW k \in ReplyKeys, NEW v \in Revisions, NEW b \in Budgets,
                 ReplyReserves(k, v, b) \/ ReplySettles(k)
          PROVE  Inv'
      <3>1. k \in Keys
        BY PlanningAssumption
      <3> QED BY <2>4, <3>1, ReplyStep
    <2>5. ASSUME NEW v \in Revisions, PriceLapses(v) \/ OperatorDisables(v)
          PROVE  Inv'
      BY <2>5, TimeStep
    <2>6. ASSUME NEW c \in Conversations,
                 AppendMessage(c) \/ DeleteConversation(c) \/ Touch(c)
          PROVE  Inv'
      BY <2>6, ConversationStep, TouchStep
    <2>7. ASSUME NEW s \in Servers, NEW k \in Keys,
                 \/ Create(s, k) \/ Call(s, k) \/ Ready(s, k)
                 \/ HangUp(s, k) \/ Approve(s, k)
          PROVE  Inv'
      BY <2>7, CreateStep, CallStep, ApproveStep
    <2>8. ASSUME NEW s \in Servers, (\E d \in Deployments : Start(s, d)) \/ Crash(s)
          PROVE  Inv'
      BY <2>8, ProcessStep
    <2> QED BY <2>1, <2>2, <2>3, <2>4, <2>5, <2>6, <2>7, <2>8 DEF Next
  <1> QED BY <1>1, <1>2, PTL DEF Spec

\* The provider gets at most one request for a planning request, on any
\* number of processes and through any number of approvals, crashes and
\* deletions (start_planning, run_planning).
THEOREM SentOnceHolds == Spec => []SentAtMostOnce
  <1>1. Inv => SentAtMostOnce
    BY DEF Inv, KeyInv, SendInv, SentAtMostOnce
  <1> QED BY <1>1, Invariance, PTL

\* What the provider may bill within the quote stays in the ledger, and no
\* request that went out is settled as one that did not (terminate).
THEOREM BillCoveredHolds == Spec => []BillCovered
  <1>1. Inv => BillCovered
    <2> SUFFICES ASSUME Inv, NEW k \in Keys, sends[k] > 0
                 PROVE  /\ receipt[k] # None
                        /\ receipt[k].kind = "model_planning"
                        /\ receipt[k].settlement # "cancelled_before_dispatch"
                        /\ receipt[k].charged # None
                           /\ billed[k] <= Cost[receipt[k].budget]
                               => receipt[k].charged >= billed[k]
      BY DEF BillCovered
    <2> QED BY DEF Inv, KeyInv, MoneyInv, Mine
  <1> QED BY <1>1, Invariance, PTL

\* Whoever may send does so under the budget its own process was started
\* with and that the user approved (run_planning, from_env).
THEOREM QuoteHonouredHolds == Spec => []QuoteHonoured
  <1>1. Inv => QuoteHonoured
    <2> SUFFICES ASSUME Inv, NEW k \in Keys, task[k].pc \in Taken
                 PROVE  /\ receipt[k] # None
                        /\ receipt[k].kind = "model_planning"
                        /\ receipt[k].revision = server[task[k].server].version
                        /\ receipt[k].budget = config[receipt[k].revision].budget
                        /\ receipt[k].settlement # "cancelled_before_dispatch"
      BY DEF QuoteHonoured, Taken
    <2> QED BY DEF Inv, KeyInv, MoneyInv, QuoteInv, Mine, Taken
  <1> QED BY <1>1, Invariance, PTL

-----------------------------------------------------------------------------
(* What a step can do to a request. *)

\* A request keeps its status, goes with its conversation, ends while it is
\* open, or moves on under a configuration that is active.
PlanMoves(k) ==
    \/ plan'[k].status = plan[k].status /\ plan'[k].version = plan[k].version
    \/ plan'[k] = NoPlan
    \/ IsOpen(k) /\ plan'[k].status \in Ended
    \/ plan[k].status = "absent" /\ plan'[k].status = "draft"
    \/ /\ plan[k].status \in {"draft", "queued"}
       /\ plan'[k].version = plan[k].version
       /\ ConfigActive(plan[k].version)

\* A reservation is made where none was, or settled while it is open.
ReceiptMoves(k) ==
    receipt[k] = None \/ receipt[k].charged = None \/ receipt'[k] = receipt[k]

Moves(k) == PlanMoves(k) /\ ReceiptMoves(k)

LEMMA CommitMoves ==
    ASSUME TypeInv, NEW ends, EndsOK(ends), Commit(ends), NEW k \in Keys
    PROVE  Moves(k)
  <1>1. Settle(ends) /\ plan' = PlanAfter(ends)
    BY DEF Commit
  <1>2. PlanMoves(k)
    BY <1>1, PlansEnd DEF PlanMoves
  <1>3. ReceiptMoves(k)
    BY <1>1, ReceiptsSettle DEF ReceiptMoves, Settle, Settles, Held
  <1> QED BY <1>2, <1>3 DEF Moves

LEMMA EnvironmentMoves ==
    ASSUME TypeInv, NEW k \in Keys,
           \/ NewDay
           \/ \E j \in Keys : Lapse(j)
           \/ \E v \in Revisions : PriceLapses(v) \/ OperatorDisables(v)
           \/ \E c \in Conversations : AppendMessage(c) \/ DeleteConversation(c)
           \/ \E j \in Keys, v \in Revisions, b \in Budgets :
                  ReplyReserves(j, v, b) \/ ReplySettles(j)
    PROVE  Moves(k)
  <1> USE DEF Moves, PlanMoves, ReceiptMoves, rowVars, moneyVars
  <1>1. CASE NewDay
    BY <1>1 DEF NewDay
  <1>2. ASSUME NEW j \in Keys, Lapse(j)
        PROVE  Moves(k)
    <2>1. plan[j] \in PlanRows
      BY <1>2 DEF Lapse, TypeInv, IsOpen, Open, Active, NoPlan
    <2>2. plan'[k].status = plan[k].status /\ plan'[k].version = plan[k].version
      BY <1>2, <2>1 DEF Lapse, TypeInv, PlanRows
    <2> QED BY <1>2, <2>2 DEF Lapse
  <1>3. ASSUME NEW v \in Revisions, PriceLapses(v) \/ OperatorDisables(v)
        PROVE  Moves(k)
    <2>1. CASE PriceLapses(v)
      <3>1. plan'[k] \in {plan[k], [plan[k] EXCEPT !.due = TRUE]}
        BY <2>1 DEF PriceLapses
      <3>2. plan'[k].status = plan[k].status /\ plan'[k].version = plan[k].version
        BY <3>1 DEF TypeInv, PlanRows, NoPlan
      <3> QED BY <2>1, <3>2 DEF PriceLapses
    <2>2. CASE OperatorDisables(v)
      BY <2>2 DEF OperatorDisables
    <2> QED BY <1>3, <2>1, <2>2
  <1>4. ASSUME NEW c \in Conversations, AppendMessage(c) \/ DeleteConversation(c)
        PROVE  Moves(k)
    <2>1. CASE AppendMessage(c)
      BY <2>1 DEF AppendMessage
    <2>2. CASE DeleteConversation(c)
      <3> DEFINE ends == [j \in {i \in KeysOf(c) : IsActive(i)} |->
                             End("cancelled", None)]
      <3>1. EndsOK(ends)
        BY DEF EndsOK, KeysOf, End, Ended, IsActive, IsOpen, Open
      <3>2. Settle(ends) /\ (plan'[k] = NoPlan \/ plan'[k] = plan[k])
        BY <2>2 DEF DeleteConversation
      <3> HIDE DEF ends
      <3>3. ReceiptMoves(k)
        BY <3>1, <3>2, ReceiptsSettle DEF Settle, Settles, Held
      <3> QED BY <3>2, <3>3
    <2> QED BY <1>4, <2>1, <2>2
  <1>5. ASSUME NEW j \in Keys, NEW v \in Revisions, NEW b \in Budgets,
               ReplyReserves(j, v, b) \/ ReplySettles(j)
        PROVE  Moves(k)
    <2>1. ReceiptMoves(k)
      BY <1>5 DEF ReplyReserves, ReplySettles, ReserveMoney, SettleKind, Held, TypeInv
    <2>2. UNCHANGED plan
      BY <1>5 DEF ReplyReserves, ReplySettles
    <2> QED BY <2>1, <2>2
  <1> QED BY <1>1, <1>2, <1>3, <1>4, <1>5

LEMMA HandlerMoves ==
    ASSUME TypeInv, NEW k \in Keys, NEW s \in Servers, NEW j \in Keys,
           \/ Create(s, j) \/ Call(s, j) \/ Ready(s, j)
           \/ HangUp(s, j) \/ Approve(s, j)
    PROVE  Moves(k)
  <1> USE DEF rowVars, moneyVars
  <1> DEFINE ends == Expiry(j[1])
  <1>1. EndsOK(ends)
    BY ExpiryOK DEF Keys
  <1>2. CASE Create(s, j)
    <2> DEFINE v   == server[s].version
               row == [status |-> "draft", revision |-> conversation[j[1]].revision,
                       version |-> v, budget |-> config[v].budget, created |-> day,
                       day |-> None, due |-> FALSE]
    <2>1. /\ Settle(ends) /\ plan[j].status = "absent"
          /\ plan' = [PlanAfter(ends) EXCEPT ![j] = row]
          /\ row.status = "draft"
      BY <1>2 DEF Create
    <2> HIDE DEF ends, row
    <2>2. ReceiptMoves(k)
      BY <1>1, <2>1, ReceiptsSettle DEF Settle, Settles, Held, ReceiptMoves
    <2>3. PlanMoves(k)
      BY <1>1, <2>1, PlansEnd DEF PlanMoves
    <2> QED BY <2>2, <2>3 DEF Moves
  <1>3. CASE Call(s, j) \/ Ready(s, j) \/ HangUp(s, j)
    BY <1>3 DEF Call, Ready, HangUp, Moves, PlanMoves, ReceiptMoves
  <1>4. CASE Commit(ends)
    BY <1>1, <1>4, CommitMoves
  <1>5. CASE Reserve(j)
    <2> DEFINE row == [kind |-> "model_planning", day |-> day,
                       revision |-> plan[j].version, budget |-> plan[j].budget,
                       charged |-> None, settlement |-> None]
    <2>1. /\ plan[j].status = "draft" /\ receipt[j] = None
          /\ j \notin DOMAIN ends /\ ConfigActive(plan[j].version)
          /\ \A i \in Paid(ends) : ReceiptValid(i)
          /\ plan' = [PlanAfter(ends) EXCEPT ![j].status = "queued", ![j].day = day]
          /\ receipt' = [ReceiptAfter(ends) EXCEPT ![j] = row]
      BY <1>5 DEF Reserve, Expiry
    <2> HIDE DEF ends, row
    <2>2. ReceiptMoves(k)
      <3>1. CASE k = j
        BY <2>1, <3>1 DEF ReceiptMoves
      <3>2. CASE k # j
        <4>1. receipt'[k] = ReceiptAfter(ends)[k]
          BY <2>1, <3>2 DEF ReceiptAfter
        <4>2. receipt'[k] = receipt[k] \/ Settles(k)
          BY <1>1, <2>1, <4>1, ReceiptsSettle
        <4> QED BY <4>2 DEF Settles, Held, ReceiptMoves
      <3> QED BY <3>1, <3>2
    <2>3. PlanMoves(k)
      <3>1. PlanAfter(ends)[j] = plan[j] /\ plan[j] \in PlanRows
        BY <1>1, <2>1, PlansEnd DEF TypeInv, NoPlan
      <3>2. CASE k = j
        <4>1. plan'[j] = [plan[j] EXCEPT !.status = "queued", !.day = day]
          BY <1>1, <2>1, <3>1, PlansEnd
        <4>2. plan'[j].version = plan[j].version
          BY <3>1, <4>1 DEF PlanRows
        <4> QED BY <2>1, <3>2, <4>2 DEF PlanMoves
      <3>3. CASE k # j
        <4>1. plan'[k] = PlanAfter(ends)[k]
          BY <1>1, <2>1, <3>3, PlansEnd
        <4> QED BY <1>1, <4>1, PlansEnd DEF PlanMoves
      <3> QED BY <3>2, <3>3
    <2> QED BY <2>2, <2>3 DEF Moves
  <1> QED BY <1>2, <1>3, <1>4, <1>5 DEF Approve

LEMMA TaskStepMoves ==
    ASSUME TypeInv, NEW k \in Keys, NEW j \in Keys, Run(j)
    PROVE  Moves(k)
  <1> DEFINE ends == Expiry(j[1])
  <1>1. EndsOK(ends)
    BY ExpiryOK DEF Keys
  <1>2. CASE Commit(ends)
    BY <1>1, <1>2, CommitMoves
  <1>3. CASE UNCHANGED <<plan, receipt>>
    BY <1>3 DEF Moves, PlanMoves, ReceiptMoves
  <1>4. CASE Claim(j)
    <2>1. CASE Queued(j) /\ Commit(Also(ends, j, End("stale", None)))
      <3>1. EndsOK(Also(ends, j, End("stale", None)))
        BY <1>1, <2>1, AlsoOK DEF Queued, IsOpen, Open, Active, Ended
      <3> QED BY <2>1, <3>1, CommitMoves
    <2>2. CASE /\ Queued(j) /\ j \notin Due(j[1])
               /\ ConfigActive(plan[j].version)
               /\ Settle(ends)
               /\ plan' = [PlanAfter(ends) EXCEPT ![j].status = "dispatching"]
      <3>1. j \notin DOMAIN ends
        BY <2>2 DEF Expiry
      <3> HIDE DEF ends
      <3>2. ReceiptMoves(k)
        BY <1>1, <2>2, ReceiptsSettle DEF Settle, Settles, Held, ReceiptMoves
      <3>3. PlanAfter(ends)[j] = plan[j] /\ plan[j] \in PlanRows
        BY <1>1, <2>2, <3>1, PlansEnd DEF TypeInv, NoPlan, Queued
      <3>4. CASE k = j
        <4>1. plan'[j] = [plan[j] EXCEPT !.status = "dispatching"]
          BY <1>1, <2>2, <3>3, PlansEnd
        <4>2. plan'[j].version = plan[j].version
          BY <3>3, <4>1 DEF PlanRows
        <4> QED BY <2>2, <3>2, <3>4, <4>2 DEF Moves, PlanMoves, Queued
      <3>5. CASE k # j
        <4>1. plan'[k] = PlanAfter(ends)[k]
          BY <1>1, <2>2, <3>5, PlansEnd
        <4> QED BY <1>1, <3>2, <4>1, PlansEnd DEF Moves, PlanMoves
      <3> QED BY <3>4, <3>5
    <2> QED BY <1>2, <1>4, <2>1, <2>2 DEF Claim
  <1>5. CASE Finish(j)
    <2> DEFINE status == IF task[j].outcome # "proposed" THEN task[j].outcome
                         ELSE IF Current(j) THEN "succeeded" ELSE "failed"
               usage  == IF status = "succeeded" THEN task[j].usage ELSE None
    <2>1. /\ task[j].pc = "finish"
          /\ \/ /\ plan[j].status = "dispatching"
                /\ Commit(Also(ends, j, End(status, usage)))
             \/ Commit(ends)
      BY <1>5 DEF Finish, At
    <2>2. status \in Ended /\ usage \in Nat \union {None}
      BY <2>1 DEF TypeInv, TaskType, Tasks, Outcomes, Ended
    <2>3. usage # None => task[j].pc = "finish" /\ usage = task[j].usage
      BY <2>1
    <2> HIDE DEF ends, status, usage
    <2>4. plan[j].status = "dispatching" =>
              EndsOK(Also(ends, j, End(status, usage)))
      BY <1>1, <2>2, <2>3, AlsoOK DEF IsOpen, Open, Active
    <2> QED BY <1>1, <2>1, <2>4, CommitMoves
  <1>6. CASE Recheck(j)
    BY <1>2, <1>6 DEF Recheck
  <1>7. CASE \/ CheckRevision(j) \/ Verify(j) \/ Refuse(j) \/ Send(j)
             \/ Answered(j) \/ ContractViolation(j) \/ PersistDisable(j) \/ GiveUp(j)
    BY <1>3, <1>7 DEF CheckRevision, Verify, Refuse, Send, Answered,
       ContractViolation, PersistDisable, GiveUp, rowVars, moneyVars
  <1> QED BY <1>4, <1>5, <1>6, <1>7 DEF Run

LEMMA NextMoves ==
    ASSUME TypeInv, [Next]_vars, NEW k \in Keys
    PROVE  Moves(k)
  <1> USE DEF rowVars, moneyVars
  <1>1. CASE UNCHANGED vars
    BY <1>1 DEF vars, Moves, PlanMoves, ReceiptMoves
  <1>2. ASSUME NEW j \in ReplyKeys, NEW v \in Revisions, NEW b \in Budgets,
               ReplyReserves(j, v, b) \/ ReplySettles(j)
        PROVE  Moves(k)
    <2>1. j \in Keys
      BY PlanningAssumption
    <2> QED BY <1>2, <2>1, EnvironmentMoves
  <1>3. ASSUME NEW c \in Conversations, Touch(c)
        PROVE  Moves(k)
    BY <1>3, ExpiryOK, CommitMoves DEF Touch
  <1>4. ASSUME NEW j \in Keys, Cancel(j)
        PROVE  Moves(k)
    <2>1. EndsOK(Also(Expiry(j[1]), j, End("cancelled", None)))
      BY <1>4, ExpiryOK, AlsoOK DEF Cancel, Ended, Keys
    <2> QED BY <1>4, <2>1, CommitMoves DEF Cancel
  <1>5. ASSUME NEW s \in Servers, (\E d \in Deployments : Start(s, d)) \/ Crash(s)
        PROVE  Moves(k)
    BY <1>5 DEF Start, Crash, Moves, PlanMoves, ReceiptMoves
  <1> QED
    BY <1>1, <1>2, <1>3, <1>4, <1>5, EnvironmentMoves, HandlerMoves, TaskStepMoves
    DEF Next

\* What a step can do to a configuration that is disabled, and to a process.
LEMMA DisabledStays ==
    ASSUME Inv, [Next]_vars, NEW v \in Revisions, config[v].disabled
    PROVE  /\ config'[v].disabled
           /\ \A s \in Servers : server'[s].version = v => server[s].version = v
  <1> USE DEF rowVars, processVars, moneyVars
  <1>1. TypeInv
    BY DEF Inv
  <1>2. CASE UNCHANGED <<config, server>>
    BY <1>2
  <1>3. ASSUME NEW w \in Revisions, PriceLapses(w) \/ OperatorDisables(w)
        PROVE  config'[v].disabled /\ UNCHANGED server
    <2>1. config'[v] \in {config[v], [config[v] EXCEPT !.lapsed = TRUE],
                          [config[v] EXCEPT !.disabled = TRUE]}
      BY <1>1, <1>3 DEF PriceLapses, OperatorDisables, TypeInv
    <2>2. config[v] \in Configurations
      BY <1>1 DEF TypeInv
    <2>3. config'[v].disabled
      BY <2>1, <2>2 DEF Configurations
    <2> QED BY <1>3, <2>3 DEF PriceLapses, OperatorDisables
  <1>4. ASSUME NEW s \in Servers, NEW k \in Keys, Ready(s, k)
        PROVE  config'[v].disabled /\ UNCHANGED server
    BY <1>1, <1>4, StopWritten DEF Ready
  <1>5. ASSUME NEW k \in Keys, PersistDisable(k)
        PROVE  config'[v].disabled /\ UNCHANGED server
    BY <1>1, <1>5, StopWritten DEF PersistDisable
  <1>6. ASSUME NEW k \in Keys, ContractViolation(k)
        PROVE  /\ config'[v].disabled
               /\ \A s \in Servers : server'[s].version = server[s].version
    BY <1>1, <1>6 DEF ContractViolation, TypeInv, Processes
  <1>7. ASSUME NEW s \in Servers, NEW d \in Deployments, Start(s, d)
        PROVE  /\ config'[v].disabled
               /\ \A r \in Servers : server'[r].version = v => server[r].version = v
    <2>1. d.version # v
      BY <1>7 DEF Start
    <2>2. config'[v] = config[v]
      BY <1>1, <1>7, <2>1 DEF Start, TypeInv
    <2>3. \A r \in Servers : server'[r].version = v => server[r].version = v
      BY <1>1, <1>7, <2>1 DEF Start, TypeInv
    <2> QED BY <2>2, <2>3
  <1>8. ASSUME NEW s \in Servers, Crash(s)
        PROVE  /\ config'[v].disabled
               /\ \A r \in Servers : server'[r].version = v => server[r].version = v
    BY <1>1, <1>8, PlanningAssumption DEF Crash, Down, TypeInv
  <1>9. ASSUME NEW k \in Keys, Lapse(k) \/ Cancel(k) \/ Run(k)
        PROVE  /\ config'[v].disabled
               /\ \A r \in Servers : server'[r].version = server[r].version
    <2>1. CASE PersistDisable(k) \/ ContractViolation(k)
      BY <2>1, <1>5, <1>6
    <2>2. CASE ~(PersistDisable(k) \/ ContractViolation(k))
      BY <1>9, <2>2 DEF Lapse, Cancel, Run, Claim, Recheck, CheckRevision, Verify,
                        Refuse, Send, Answered, Finish, GiveUp
    <2> QED BY <2>1, <2>2
  <1>10. CASE \/ NewDay
              \/ \E k \in ReplyKeys, w \in Revisions, b \in Budgets :
                     ReplyReserves(k, w, b) \/ ReplySettles(k)
              \/ \E c \in Conversations :
                     AppendMessage(c) \/ DeleteConversation(c) \/ Touch(c)
              \/ \E s \in Servers, k \in Keys :
                     Create(s, k) \/ Call(s, k) \/ HangUp(s, k) \/ Approve(s, k)
    BY <1>2, <1>10, ZenonT(60) DEF NewDay, ReplyReserves, ReplySettles, AppendMessage,
       DeleteConversation, Touch, Create, Call, HangUp, Approve
  <1>11. CASE UNCHANGED vars
    BY <1>2, <1>11 DEF vars
  <1> QED BY <1>3, <1>4, <1>7, <1>8, <1>9, <1>10, <1>11 DEF Next

\* A late answer, an expiry, a cancellation and a deletion cannot change the
\* end of a request, nor settle its reservation again (terminate).
THEOREM EndedIsFinalHolds == Spec => EndedIsFinal
  <1>1. ASSUME Inv, [Next]_vars, NEW k \in Keys
        PROVE  /\ plan[k].status \in Ended =>
                      plan'[k].status \in {plan[k].status, "absent"}
               /\ receipt[k] # None /\ receipt[k].charged # None =>
                      receipt'[k] = receipt[k]
    <2>1. PlanMoves(k) /\ ReceiptMoves(k)
      BY <1>1, NextMoves DEF Inv, Moves
    <2> QED BY <2>1 DEF PlanMoves, ReceiptMoves, Ended, IsOpen, Open, Active, NoPlan
  <1>2. Inv /\ [Next]_vars =>
            [\A k \in Keys :
               /\ plan[k].status \in Ended =>
                      plan'[k].status \in {plan[k].status, "absent"}
               /\ receipt[k] # None /\ receipt[k].charged # None =>
                      receipt'[k] = receipt[k]]_vars
    BY <1>1
  <1> QED BY <1>2, Invariance, PTL DEF Spec, EndedIsFinal

\* No store call moves a request on under a configuration whose stop is
\* durable, whichever process it comes from (check_configuration).
THEOREM StopIsFinalHolds == Spec => StopIsFinal
  <1>1. ASSUME Inv, [Next]_vars, NEW v \in Revisions, config[v].disabled
        PROVE  /\ config'[v].disabled
               /\ \A k \in Keys : plan[k].version = v /\ plan'[k].status \in Active
                                      => plan'[k].status = plan[k].status
               /\ \A s \in Servers :
                      server'[s].version = v => server[s].version = v
    <2>1. ASSUME NEW k \in Keys, plan[k].version = v, plan'[k].status \in Active
          PROVE  plan'[k].status = plan[k].status
      <3>1. PlanMoves(k)
        BY <1>1, NextMoves DEF Inv, Moves
      <3> QED BY <1>1, <2>1, <3>1 DEF PlanMoves, ConfigActive, Active, Ended, NoPlan
    <2> QED BY <1>1, <2>1, DisabledStays
  <1>2. Inv /\ [Next]_vars =>
            [\A v \in Revisions : config[v].disabled =>
               /\ config'[v].disabled
               /\ \A k \in Keys : plan[k].version = v /\ plan'[k].status \in Active
                                      => plan'[k].status = plan[k].status
               /\ \A s \in Servers :
                      server'[s].version = v => server[s].version = v]_vars
    BY <1>1
  <1> QED BY <1>2, Invariance, PTL DEF Spec, StopIsFinal

\* A process that saw an answer outside of the contract sends nothing more,
\* for any request, whether or not its stop was written (check, observe).
THEOREM HaltedSendsNothingHolds == Spec => HaltedSendsNothing
  <1>1. ASSUME Inv, [Next]_vars, NEW k \in Keys, sends'[k] > sends[k]
        PROVE  ~server[task[k].server].halted
    <2>1. sends \in [Keys -> Nat]
      BY <1>1 DEF Inv, TypeInv
    <2>2. sends' # sends
      BY <1>1, <2>1
    <2>3. PICK j \in Keys : Send(j)
      BY <1>1, <2>2, ZenonT(60) DEF Next, vars, seenVars, NewDay, Lapse, Cancel, Run, Claim,
         Recheck, CheckRevision, Verify, Refuse, Answered, ContractViolation,
         PersistDisable, Finish, GiveUp, ReplyReserves, ReplySettles, PriceLapses,
         OperatorDisables, AppendMessage, DeleteConversation, Touch, Create, Call,
         Ready, HangUp, Approve, Start, Crash
    <2>4. /\ ~server[task[j].server].halted
          /\ sends' = [sends EXCEPT ![j] = @ + 1]
      BY <2>2, <2>3 DEF Send, seenVars
    <2>5. j = k
      BY <1>1, <2>1, <2>4
    <2> QED BY <2>4, <2>5
  <1>2. Inv /\ [Next]_vars =>
            [\A k \in Keys : sends'[k] > sends[k] => ~server[task[k].server].halted]_vars
    BY <1>1
  <1> QED BY <1>2, Invariance, PTL DEF Spec, HaltedSendsNothing

-----------------------------------------------------------------------------
(* Each planning request is a one-shot call. *)

\* Who waits for an answer, or knows what it cost, has sent its request.
SentInv ==
    \A k \in Keys : task[k].pc = "wait" \/ task[k].usage # None => sends[k] > 0

\* What a step can do to the reservation of a request and to its place in
\* the queue: end it, concern another kind, nothing, reserve it, or take it.
CallMoves(k) ==
    \/ Settles(k)
    \/ ~Mine(k) /\ ~Mine(k)'
    \/ /\ receipt'[k] = receipt[k]
       /\ Held(k, "model_planning") => (Queued(k)' <=> Queued(k))
    \/ /\ receipt[k] = None
       /\ Held(k, "model_planning")' /\ receipt'[k].budget \in Budgets
       /\ Queued(k)'
    \/ /\ Held(k, "model_planning") /\ receipt'[k] = receipt[k]
       /\ Queued(k) /\ ~Queued(k)'

LEMMA EndsMove ==
    ASSUME TypeInv, NEW ends, EndsOK(ends), \A j \in Paid(ends) : ReceiptValid(j),
           NEW k \in Keys,
           receipt'[k] = ReceiptAfter(ends)[k], plan'[k] = PlanAfter(ends)[k]
    PROVE  CallMoves(k)
  <1>1. CASE Settles(k)
    BY <1>1 DEF CallMoves
  <1>2. CASE k \notin Paid(ends) /\ receipt'[k] = receipt[k]
    <2>1. CASE plan'[k] = plan[k]
      BY <1>2, <2>1 DEF CallMoves, Queued
    <2>2. CASE k \in DOMAIN ends /\ plan'[k].status \in Ended
      <3>1. ~Queued(k) /\ ~Queued(k)'
        BY <1>2, <2>2 DEF Paid, IsActive, Active, Queued, Ended
      <3> QED BY <1>2, <3>1 DEF CallMoves
    <2> QED BY <2>1, <2>2, PlansEnd
  <1> QED BY <1>1, <1>2, ReceiptsSettle

\* Ending requests is no other move for any of them.
LEMMA CommitCalls ==
    ASSUME TypeInv, NEW ends, EndsOK(ends), Commit(ends), NEW k \in Keys
    PROVE  CallMoves(k)
  BY EndsMove DEF Commit, Settle

LEMMA EnvironmentCalls ==
    ASSUME TypeInv, NEW k \in Keys,
           \/ NewDay
           \/ \E j \in Keys : Lapse(j)
           \/ \E v \in Revisions : PriceLapses(v) \/ OperatorDisables(v)
           \/ \E c \in Conversations : AppendMessage(c) \/ DeleteConversation(c)
           \/ \E j \in Keys, v \in Revisions, b \in Budgets :
                  ReplyReserves(j, v, b) \/ ReplySettles(j)
    PROVE  CallMoves(k)
  <1> USE DEF rowVars, moneyVars
  <1>1. CASE UNCHANGED receipt /\ plan'[k].status = plan[k].status
    BY <1>1 DEF CallMoves, Queued
  <1>2. CASE NewDay
    BY <1>1, <1>2 DEF NewDay
  <1>3. ASSUME NEW j \in Keys, Lapse(j)
        PROVE  CallMoves(k)
    <2>1. plan[j] \in PlanRows
      BY <1>3 DEF Lapse, TypeInv, IsOpen, Open, Active, NoPlan
    <2>2. plan'[k].status = plan[k].status
      BY <1>3, <2>1 DEF Lapse, TypeInv, PlanRows
    <2> QED BY <1>1, <1>3, <2>2 DEF Lapse
  <1>4. ASSUME NEW v \in Revisions, PriceLapses(v) \/ OperatorDisables(v)
        PROVE  CallMoves(k)
    <2>1. plan'[k] \in {plan[k], [plan[k] EXCEPT !.due = TRUE]}
      BY <1>4 DEF PriceLapses, OperatorDisables
    <2>2. plan'[k].status = plan[k].status
      BY <2>1 DEF TypeInv, PlanRows, NoPlan
    <2> QED BY <1>1, <1>4, <2>2 DEF PriceLapses, OperatorDisables
  <1>5. ASSUME NEW c \in Conversations, AppendMessage(c)
        PROVE  CallMoves(k)
    BY <1>1, <1>5 DEF AppendMessage
  <1>6. ASSUME NEW c \in Conversations, DeleteConversation(c)
        PROVE  CallMoves(k)
    <2> DEFINE ends == [j \in {i \in KeysOf(c) : IsActive(i)} |->
                           End("cancelled", None)]
    <2>1. EndsOK(ends)
      BY DEF EndsOK, KeysOf, End, Ended, IsActive, IsOpen, Open
    <2>2. /\ Settle(ends)
          /\ plan'[k] = IF k[1] = c THEN NoPlan ELSE plan[k]
          /\ Queued(k) /\ k[1] = c => k \in Paid(ends)
      BY <1>6 DEF DeleteConversation, Paid, KeysOf, IsActive, Active, Queued
    <2> HIDE DEF ends
    <2>3. Settles(k) \/ (k \notin Paid(ends) /\ receipt'[k] = receipt[k])
      BY <2>1, <2>2, ReceiptsSettle DEF Settle
    <2>4. k \notin Paid(ends) => (Queued(k)' <=> Queued(k))
      BY <2>2 DEF Queued, NoPlan
    <2> QED BY <2>3, <2>4 DEF CallMoves
  <1>7. ASSUME NEW j \in Keys, NEW v \in Revisions, NEW b \in Budgets,
               ReplyReserves(j, v, b) \/ ReplySettles(j)
        PROVE  CallMoves(k)
    <2>1. ReceiptKept(k) /\ UNCHANGED plan
      BY <1>7, ReplyKeeps DEF ReplyReserves, ReplySettles
    <2> QED BY <2>1 DEF ReceiptKept, CallMoves, Queued
  <1> QED BY <1>2, <1>3, <1>4, <1>5, <1>6, <1>7

LEMMA HandlerCalls ==
    ASSUME TypeInv, NEW k \in Keys, NEW s \in Servers, NEW j \in Keys,
           Create(s, j) \/ Approve(s, j)
    PROVE  CallMoves(k)
  <1> DEFINE ends == Expiry(j[1])
  <1>1. EndsOK(ends)
    BY ExpiryOK DEF Keys
  <1>2. CASE Create(s, j)
    <2> DEFINE v   == server[s].version
               row == [status |-> "draft", revision |-> conversation[j[1]].revision,
                       version |-> v, budget |-> config[v].budget, created |-> day,
                       day |-> None, due |-> FALSE]
    <2>1. /\ Settle(ends) /\ plan[j].status = "absent"
          /\ plan' = [PlanAfter(ends) EXCEPT ![j] = row]
          /\ row.status = "draft" /\ j \notin DOMAIN ends
      BY <1>2 DEF Create, Expiry, Due, IsOpen, Open, Active
    <2> HIDE DEF ends, row
    <2>2. CASE k = j
      <3>1. receipt'[j] = receipt[j]
        BY <1>1, <2>1, SettleKeeps
      <3>2. ~Queued(j) /\ ~Queued(j)'
        BY <1>1, <2>1, PlansEnd DEF Queued
      <3> QED BY <2>2, <3>1, <3>2 DEF CallMoves
    <2>3. CASE k # j
      <3>1. plan'[k] = PlanAfter(ends)[k]
        BY <1>1, <2>1, <2>3, PlansEnd
      <3> QED BY <1>1, <2>1, <3>1, EndsMove DEF Settle
    <2> QED BY <2>2, <2>3
  <1>3. CASE Commit(ends)
    BY <1>1, <1>3, CommitCalls
  <1>4. CASE Reserve(j)
    <2> DEFINE row == [kind |-> "model_planning", day |-> day,
                       revision |-> plan[j].version, budget |-> plan[j].budget,
                       charged |-> None, settlement |-> None]
    <2>1. /\ plan[j].status = "draft" /\ receipt[j] = None
          /\ j \notin DOMAIN ends
          /\ \A i \in Paid(ends) : ReceiptValid(i)
          /\ plan' = [PlanAfter(ends) EXCEPT ![j].status = "queued", ![j].day = day]
          /\ receipt' = [ReceiptAfter(ends) EXCEPT ![j] = row]
      BY <1>4 DEF Reserve, Expiry
    <2>2. plan[j] \in PlanRows
      BY <2>1 DEF TypeInv, NoPlan
    <2>3. /\ row \in Receipts /\ row.kind = "model_planning"
          /\ row.charged = None /\ row.budget \in Budgets
      BY <2>2 DEF TypeInv, PlanRows, Receipts, Kinds
    <2> HIDE DEF ends, row
    <2>4. PlanAfter(ends)[j] = plan[j]
      BY <1>1, <2>1, PlansEnd
    <2>5. CASE k = j
      <3>1. plan'[j] = [plan[j] EXCEPT !.status = "queued", !.day = day]
        BY <1>1, <2>1, <2>4, PlansEnd
      <3>2. Queued(j)'
        BY <2>2, <3>1 DEF Queued, PlanRows
      <3>3. receipt'[j] = row
        BY <2>1 DEF ReceiptAfter
      <3>4. Held(j, "model_planning")' /\ receipt'[j].budget \in Budgets
        BY <2>3, <3>3, NullAssumption DEF Held
      <3> QED BY <2>1, <2>5, <3>2, <3>4 DEF CallMoves
    <2>6. CASE k # j
      <3>1. /\ plan'[k] = PlanAfter(ends)[k]
            /\ receipt'[k] = ReceiptAfter(ends)[k]
        BY <1>1, <2>1, <2>6, PlansEnd DEF ReceiptAfter
      <3> QED BY <1>1, <2>1, <3>1, EndsMove
    <2> QED BY <2>5, <2>6
  <1> QED BY <1>2, <1>3, <1>4 DEF Approve

LEMMA TaskStepCalls ==
    ASSUME TypeInv, NEW k \in Keys, NEW j \in Keys, Run(j)
    PROVE  CallMoves(k)
  <1> DEFINE ends == Expiry(j[1])
  <1>1. EndsOK(ends)
    BY ExpiryOK DEF Keys
  <1>2. CASE Commit(ends)
    BY <1>1, <1>2, CommitCalls
  <1>3. CASE UNCHANGED <<plan, receipt>>
    BY <1>3 DEF CallMoves, Queued
  <1>4. CASE Claim(j)
    <2>1. CASE Queued(j) /\ Commit(Also(ends, j, End("stale", None)))
      <3>1. EndsOK(Also(ends, j, End("stale", None)))
        BY <1>1, <2>1, AlsoOK DEF Queued, IsOpen, Open, Active, Ended
      <3> QED BY <2>1, <3>1, CommitCalls
    <2>2. CASE /\ Queued(j) /\ j \notin Due(j[1])
               /\ ReceiptValid(j)
               /\ Settle(ends)
               /\ plan' = [PlanAfter(ends) EXCEPT ![j].status = "dispatching"]
      <3>1. j \notin DOMAIN ends /\ Held(j, "model_planning")
        BY <2>2 DEF Expiry, ReceiptValid
      <3> HIDE DEF ends
      <3>2. PlanAfter(ends)[j] = plan[j] /\ plan[j] \in PlanRows
        BY <1>1, <2>2, <3>1, PlansEnd DEF TypeInv, NoPlan, Queued
      <3>3. CASE k = j
        <4>1. plan'[j] = [plan[j] EXCEPT !.status = "dispatching"]
          BY <1>1, <2>2, <3>2, PlansEnd
        <4>2. ~Queued(j)'
          BY <3>2, <4>1 DEF PlanRows, Queued
        <4>3. receipt'[j] = receipt[j]
          BY <1>1, <2>2, <3>1, SettleKeeps
        <4> QED BY <2>2, <3>1, <3>3, <4>2, <4>3 DEF CallMoves
      <3>4. CASE k # j
        <4>1. plan'[k] = PlanAfter(ends)[k]
          BY <1>1, <2>2, <3>4, PlansEnd
        <4> QED BY <1>1, <2>2, <4>1, EndsMove DEF Settle
      <3> QED BY <3>3, <3>4
    <2> QED BY <1>2, <1>4, <2>1, <2>2 DEF Claim
  <1>5. CASE Finish(j)
    <2> DEFINE status == IF task[j].outcome # "proposed" THEN task[j].outcome
                         ELSE IF Current(j) THEN "succeeded" ELSE "failed"
               usage  == IF status = "succeeded" THEN task[j].usage ELSE None
    <2>1. /\ task[j].pc = "finish"
          /\ \/ /\ plan[j].status = "dispatching"
                /\ Commit(Also(ends, j, End(status, usage)))
             \/ Commit(ends)
      BY <1>5 DEF Finish, At
    <2>2. status \in Ended /\ usage \in Nat \union {None}
      BY <2>1 DEF TypeInv, TaskType, Tasks, Outcomes, Ended
    <2>3. usage # None => task[j].pc = "finish" /\ usage = task[j].usage
      BY <2>1
    <2> HIDE DEF ends, status, usage
    <2>4. plan[j].status = "dispatching" =>
              EndsOK(Also(ends, j, End(status, usage)))
      BY <1>1, <2>2, <2>3, AlsoOK DEF IsOpen, Open, Active
    <2> QED BY <1>1, <2>1, <2>4, CommitCalls
  <1>6. CASE Recheck(j)
    BY <1>2, <1>6 DEF Recheck
  <1>7. CASE \/ CheckRevision(j) \/ Verify(j) \/ Refuse(j) \/ Send(j)
             \/ Answered(j) \/ ContractViolation(j) \/ PersistDisable(j) \/ GiveUp(j)
    BY <1>3, <1>7 DEF CheckRevision, Verify, Refuse, Send, Answered,
       ContractViolation, PersistDisable, GiveUp, rowVars, moneyVars
  <1> QED BY <1>4, <1>5, <1>6, <1>7 DEF Run

LEMMA NextCalls ==
    ASSUME TypeInv, [Next]_vars, NEW k \in Keys
    PROVE  CallMoves(k)
  <1> USE DEF rowVars, moneyVars
  <1>1. CASE UNCHANGED <<plan, receipt>>
    BY <1>1 DEF CallMoves, Queued
  <1>2. ASSUME NEW j \in ReplyKeys, NEW v \in Revisions, NEW b \in Budgets,
               ReplyReserves(j, v, b) \/ ReplySettles(j)
        PROVE  CallMoves(k)
    <2>1. j \in Keys
      BY PlanningAssumption
    <2> QED BY <1>2, <2>1, EnvironmentCalls
  <1>3. ASSUME NEW c \in Conversations, Touch(c)
        PROVE  CallMoves(k)
    BY <1>3, ExpiryOK, CommitCalls DEF Touch
  <1>4. ASSUME NEW j \in Keys, Cancel(j)
        PROVE  CallMoves(k)
    <2>1. EndsOK(Also(Expiry(j[1]), j, End("cancelled", None)))
      BY <1>4, ExpiryOK, AlsoOK DEF Cancel, Ended, Keys
    <2> QED BY <1>4, <2>1, CommitCalls DEF Cancel
  <1>5. ASSUME NEW s \in Servers,
               \/ \E d \in Deployments : Start(s, d)
               \/ Crash(s)
               \/ \E j \in Keys : Call(s, j) \/ Ready(s, j) \/ HangUp(s, j)
        PROVE  CallMoves(k)
    BY <1>1, <1>5 DEF Start, Crash, Call, Ready, HangUp
  <1>6. CASE UNCHANGED vars
    BY <1>1, <1>6 DEF vars
  <1> QED
    BY <1>2, <1>3, <1>4, <1>5, <1>6, EnvironmentCalls, HandlerCalls, TaskStepCalls
    DEF Next

\* A step sends for at most one request, the one whose task is at send.
LEMMA SendsMove ==
    ASSUME TypeInv, [Next]_vars, NEW k \in Keys
    PROVE  \/ Send(k)
           \/ sends'[k] = sends[k] /\ billed'[k] = billed[k]
  <1>1. CASE UNCHANGED seenVars
    BY <1>1 DEF seenVars
  <1>2. ASSUME NEW j \in Keys, Send(j)
        PROVE  Send(k) \/ (sends'[k] = sends[k] /\ billed'[k] = billed[k])
    BY <1>2 DEF Send, TypeInv, seenVars
  <1> QED
    BY <1>1, <1>2, ZenonT(60) DEF Next, vars, NewDay, Lapse, Cancel, Run, Claim,
       Recheck, CheckRevision, Verify, Refuse, Answered, ContractViolation,
       PersistDisable, Finish, GiveUp, ReplyReserves, ReplySettles, PriceLapses,
       OperatorDisables, AppendMessage, DeleteConversation, Touch, Create, Call,
       Ready, HangUp, Approve, Start, Crash

\* A task comes to wait by sending, and learns a usage only by waiting.
LEMMA TaskLearns ==
    ASSUME TypeInv, [Next]_vars, NEW k \in Keys
    PROVE  \/ task[k].pc = "wait"
           \/ Send(k)
           \/ /\ task'[k].pc # "wait"
              /\ task'[k].usage # None => task[k].usage # None
           \/ task'[k] = task[k]
  <1> DEFINE Learns ==
          \/ task[k].pc = "wait"
          \/ Send(k)
          \/ /\ task'[k].pc # "wait"
             /\ task'[k].usage # None => task[k].usage # None
          \/ task'[k] = task[k]
  <1> SUFFICES Learns
    OBVIOUS
  <1>1. CASE UNCHANGED task
    BY <1>1
  <1>2. ASSUME NEW j \in Keys, Stop(j)
        PROVE  Learns
    BY <1>2 DEF Stop, TypeInv, TaskType, NoTask
  <1>3. ASSUME NEW j \in Keys, NEW outcome \in Outcomes, Conclude(j, outcome, None)
        PROVE  Learns
    <2>1. /\ task'[j].pc = "finish" /\ task'[j].usage = None
          /\ \A i \in Keys \ {j} : task'[i] = task[i]
      BY <1>3, TaskConcludes
    <2> QED BY <2>1
  <1>4. ASSUME NEW j \in Keys, NEW pc \in Places \ {"wait"}, Goto(j, pc)
        PROVE  Learns
    <2>1. /\ task'[j].pc = pc /\ task'[j].usage = task[j].usage
          /\ \A i \in Keys \ {j} : task'[i] = task[i]
      BY <1>4, TaskGoes
    <2> QED BY <2>1
  <1>5. ASSUME NEW j \in Keys, Send(j) \/ Answered(j)
        PROVE  Learns
    <2>1. CASE k = j
      BY <1>5, <2>1 DEF Answered, At
    <2>2. CASE k # j
      BY <1>5, <2>2 DEF Send, Answered, Goto, Conclude, TypeInv, TaskType
    <2> QED BY <2>1, <2>2
  <1>6. ASSUME NEW j \in Keys, NEW s \in Servers, Approve(s, j)
        PROVE  Learns
    <2>1. \/ UNCHANGED task
          \/ task' = [task EXCEPT ![j].pc = "claim", ![j].server = s]
      BY <1>6 DEF Approve
    <2>2. CASE task' = [task EXCEPT ![j].pc = "claim", ![j].server = s]
      <3>1. task[j] \in Tasks
        BY DEF TypeInv, TaskType
      <3>2. task'[j] = [task[j] EXCEPT !.pc = "claim", !.server = s]
        BY <2>2 DEF TypeInv, TaskType
      <3>3. task'[j].pc = "claim" /\ task'[j].usage = task[j].usage
        BY <3>1, <3>2 DEF Tasks
      <3>4. k # j => task'[k] = task[k]
        BY <2>2 DEF TypeInv, TaskType
      <3> QED BY <3>3, <3>4
    <2> QED BY <1>1, <2>1, <2>2
  <1>7. ASSUME NEW s \in Servers, Crash(s)
        PROVE  Learns
    BY <1>7 DEF Crash, NoTask
  <1>8. ASSUME NEW j \in Keys,
               \/ Claim(j) \/ Recheck(j) \/ CheckRevision(j) \/ Verify(j) \/ Refuse(j)
               \/ ContractViolation(j) \/ PersistDisable(j) \/ Finish(j) \/ GiveUp(j)
        PROVE  Learns
    <2>1. \/ Stop(j)
          \/ \E outcome \in Outcomes : Conclude(j, outcome, None)
          \/ \E pc \in Places \ {"wait"} : Goto(j, pc)
      BY <1>8 DEF Claim, Recheck, CheckRevision, Verify, Refuse, ContractViolation,
                  PersistDisable, Finish, GiveUp, Outcomes, Places
    <2> HIDE DEF Learns
    <2> QED BY <2>1, <1>2, <1>3, <1>4
  <1> HIDE DEF Learns
  <1>9. CASE UNCHANGED vars
    BY <1>1, <1>9 DEF vars, processVars
  <1>10. CASE Next
    BY <1>1, <1>5, <1>6, <1>7, <1>8, <1>10, ZenonT(60) DEF Next, NewDay, Lapse, Cancel, Run,
       ReplyReserves, ReplySettles, PriceLapses, OperatorDisables, AppendMessage,
       DeleteConversation, Touch, Create, Call, Ready, HangUp, Start, processVars
  <1> QED BY <1>9, <1>10

\* Whoever waits has sent (Send, Answered).
LEMMA SentInvariant == Spec => []SentInv
  <1>1. Init => SentInv
    BY DEF Init, SentInv, NoTask
  <1>2. Inv /\ SentInv /\ [Next]_vars => SentInv'
    <2> SUFFICES ASSUME Inv, SentInv, [Next]_vars, NEW k \in Keys,
                        task'[k].pc = "wait" \/ task'[k].usage # None
                 PROVE  sends'[k] > 0
      BY DEF SentInv
    <2>1. TypeInv /\ sends[k] \in Nat /\ MoneyInv(k)
      BY DEF Inv, TypeInv, KeyInv
    <2>2. CASE Send(k)
      <3>1. CASE sends' = [sends EXCEPT ![k] = @ + 1]
        BY <2>1, <3>1 DEF TypeInv
      <3>2. CASE Conclude(k, "failed", None)
        BY <2>1, <3>2, TaskConcludes DEF Outcomes
      <3> QED BY <2>2, <3>1, <3>2 DEF Send
    <2>3. CASE ~Send(k)
      <3>1. sends'[k] = sends[k]
        BY <2>1, <2>3, SendsMove
      <3>2. \/ task[k].pc = "wait"
            \/ task[k].usage # None
        BY <2>1, <2>3, TaskLearns
      <3> QED BY <3>1, <3>2 DEF SentInv
    <2> QED BY <2>2, <2>3
  <1> QED BY <1>1, <1>2, Invariance, PTL DEF Spec

\* What the contract sees of a request.
BoundOf(k) == IF Mine(k) THEN Cost[receipt[k].budget] ELSE 0
ChargeKept(k) ==
    IF Mine(k) /\ receipt[k].charged # None THEN receipt[k].charged ELSE 0

\* The steps of the contract, for one call.
LEMMA Simulates ==
    ASSUME NEW k,
           \/ /\ Phase(k)' = Phase(k) /\ BoundOf(k)' = BoundOf(k)
              /\ ChargeKept(k)' = ChargeKept(k)
              /\ sends'[k] = sends[k] /\ billed'[k] = billed[k]
           \/ /\ Phase(k) = "absent" /\ Phase(k)' = "reserved"
              /\ \E b \in Budgets : BoundOf(k)' = Cost[b]
              /\ ChargeKept(k)' = ChargeKept(k)
              /\ sends'[k] = sends[k] /\ billed'[k] = billed[k]
           \/ /\ Phase(k) = "reserved" /\ Phase(k)' \in {"withdrawn", "taken"}
              /\ BoundOf(k)' = BoundOf(k) /\ ChargeKept(k)' = ChargeKept(k)
              /\ sends'[k] = sends[k] /\ billed'[k] = billed[k]
           \/ /\ Phase(k) \in {"taken", "closed"} /\ Phase(k)' = Phase(k)
              /\ BoundOf(k)' = BoundOf(k) /\ ChargeKept(k)' = ChargeKept(k)
              /\ ~(sends[k] > 0) /\ sends'[k] > 0
              /\ \E b \in Budgets : billed'[k] \in Billable(b)
           \/ /\ Phase(k) = "taken" /\ Phase(k)' = "closed"
              /\ BoundOf(k)' = BoundOf(k)
              /\ \/ ChargeKept(k)' = BoundOf(k)
                 \/ /\ sends[k] > 0 /\ billed[k] <= BoundOf(k)
                    /\ ChargeKept(k)' = billed[k]
              /\ sends'[k] = sends[k] /\ billed'[k] = billed[k]
    PROVE  [PlanCall(k)!Next]_(PlanCall(k)!vars)
  <1> USE DEF PlanCall!Next, PlanCall!vars
  <1>1. CASE /\ Phase(k)' = Phase(k) /\ BoundOf(k)' = BoundOf(k)
             /\ ChargeKept(k)' = ChargeKept(k)
             /\ sends'[k] = sends[k] /\ billed'[k] = billed[k]
    <2>1. UNCHANGED PlanCall(k)!vars
      BY <1>1 DEF BoundOf, ChargeKept
    <2> QED BY <2>1
  <1>2. CASE /\ Phase(k) = "absent" /\ Phase(k)' = "reserved"
             /\ \E b \in Budgets : BoundOf(k)' = Cost[b]
             /\ ChargeKept(k)' = ChargeKept(k)
             /\ sends'[k] = sends[k] /\ billed'[k] = billed[k]
    <2>1. PlanCall(k)!Reserve(k)
      BY <1>2 DEF PlanCall!Reserve, BoundOf, ChargeKept
    <2> QED BY <2>1
  <1>3. CASE /\ Phase(k) = "reserved" /\ Phase(k)' \in {"withdrawn", "taken"}
             /\ BoundOf(k)' = BoundOf(k) /\ ChargeKept(k)' = ChargeKept(k)
             /\ sends'[k] = sends[k] /\ billed'[k] = billed[k]
    <2>1. PlanCall(k)!Withdraw(k) \/ PlanCall(k)!Take(k)
      BY <1>3 DEF PlanCall!Withdraw, PlanCall!Take, BoundOf, ChargeKept
    <2> QED BY <2>1
  <1>4. CASE /\ Phase(k) \in {"taken", "closed"} /\ Phase(k)' = Phase(k)
             /\ BoundOf(k)' = BoundOf(k) /\ ChargeKept(k)' = ChargeKept(k)
             /\ ~(sends[k] > 0) /\ sends'[k] > 0
             /\ \E b \in Budgets : billed'[k] \in Billable(b)
    <2>1. PlanCall(k)!Call(k)
      BY <1>4 DEF PlanCall!Call, BoundOf, ChargeKept
    <2> QED BY <2>1
  <1>5. CASE /\ Phase(k) = "taken" /\ Phase(k)' = "closed"
             /\ BoundOf(k)' = BoundOf(k)
             /\ \/ ChargeKept(k)' = BoundOf(k)
                \/ /\ sends[k] > 0 /\ billed[k] <= BoundOf(k)
                   /\ ChargeKept(k)' = billed[k]
             /\ sends'[k] = sends[k] /\ billed'[k] = billed[k]
    <2>1. PlanCall(k)!Close(k)
      BY <1>5 DEF PlanCall!Close, BoundOf, ChargeKept
    <2> QED BY <2>1
  <1> QED BY <1>1, <1>2, <1>3, <1>4, <1>5

\* Every planning request is a one-shot call: it is reserved, taken, sent and
\* closed at most once each, in this order but for a request that goes out
\* after it was closed whole (all of ModelPlanning against OneShotCall).
THEOREM RefinesOneShotCall == Spec => PlanCallSpec
  <1>1. Init => \A k \in Keys : PlanCall(k)!Init
    <2> SUFFICES ASSUME Init, NEW k \in Keys
                 PROVE  PlanCall(k)!Init
      OBVIOUS
    <2>1. receipt[k] = None /\ sends[k] = 0 /\ billed[k] = 0
      BY DEF Init, MoneyInit
    <2>2. ~Mine(k) /\ Phase(k) = "absent"
      BY <2>1 DEF Mine, Phase
    <2>3. (sends[k] > 0) = FALSE
      BY <2>1
    <2>4. /\ [j \in {k} |-> Phase(k)] = [j \in {k} |-> "absent"]
          /\ [j \in {k} |-> sends[k] > 0] = [j \in {k} |-> FALSE]
          /\ [j \in {k} |-> billed[k]] = [j \in {k} |-> 0]
      BY <2>1, <2>2, <2>3, Zenon
    <2> QED BY <2>2, <2>4, Zenon DEF PlanCall!Init
  <1>2. ASSUME Inv, SentInv, [Next]_vars, NEW k \in Keys
        PROVE  [PlanCall(k)!Next]_(PlanCall(k)!vars)
    <2>1. /\ TypeInv /\ SendInv(k) /\ MoneyInv(k)
          /\ receipt[k] \in Receipts \union {None}
          /\ sends[k] \in Nat /\ billed[k] \in Nat
      BY <1>2 DEF Inv, KeyInv, TypeInv
    <2>2. CallMoves(k)
      BY <1>2, <2>1, NextCalls
    <2>3. Mine(k) => receipt[k].budget \in Budgets
      BY <2>1 DEF Mine, Receipts
    <2>4. CASE Send(k)
      <3>1. /\ task[k].pc = "send" /\ UNCHANGED <<plan, receipt>>
        BY <2>4 DEF Send, At, rowVars, moneyVars
      <3>2. /\ sends[k] = 0 /\ Mine(k) /\ ~Queued(k)
            /\ receipt[k].settlement # "cancelled_before_dispatch"
        BY <2>1, <3>1 DEF SendInv, MoneyInv, Unsent, Taken, Queued
      <3>3. /\ Phase(k) \in {"taken", "closed"} /\ Phase(k)' = Phase(k)
            /\ BoundOf(k)' = BoundOf(k) /\ ChargeKept(k)' = ChargeKept(k)
        BY <3>1, <3>2 DEF Phase, BoundOf, ChargeKept, Mine, Queued
      <3>4. CASE UNCHANGED seenVars
        BY <3>3, <3>4, Simulates DEF seenVars
      <3>5. CASE /\ sends' = [sends EXCEPT ![k] = @ + 1]
                 /\ \E n \in Billable(receipt[k].budget) :
                        billed' = [billed EXCEPT ![k] = n]
        <4>1. sends'[k] = 1 /\ billed'[k] \in Billable(receipt[k].budget)
          BY <2>1, <3>2, <3>5 DEF TypeInv
        <4> QED BY <2>3, <3>2, <3>3, <4>1, Simulates
      <3> QED BY <2>4, <3>4, <3>5 DEF Send
    <2>5. CASE sends'[k] = sends[k] /\ billed'[k] = billed[k]
      <3>1. CASE Settles(k)
        <4>1. /\ Mine(k) /\ receipt[k].charged = None
              /\ Mine(k)' /\ receipt'[k].charged # None
              /\ receipt'[k].budget = receipt[k].budget
              /\ Queued(k) <=> receipt'[k].settlement = "cancelled_before_dispatch"
          BY <2>1, <3>1, SettlesKeeps
        <4>2. /\ BoundOf(k) = Cost[receipt[k].budget] /\ BoundOf(k)' = BoundOf(k)
              /\ ChargeKept(k) = 0 /\ ChargeKept(k)' = receipt'[k].charged
          BY <4>1 DEF BoundOf, ChargeKept
        <4>3. CASE Queued(k)
          <5>1. Phase(k) = "reserved" /\ Phase(k)' = "withdrawn"
            BY <4>1, <4>3 DEF Phase
          <5>2. receipt'[k].charged = 0
            <6>1. PICK usage :
                     receipt'[k] = [receipt[k] EXCEPT
                         !.charged = Charge(receipt[k].budget, Queued(k), usage),
                         !.settlement = Settlement(receipt[k].budget, Queued(k), usage)]
              BY <3>1 DEF Settles
            <6> QED BY <2>1, <4>1, <4>3, <6>1 DEF Charge, Mine, Receipts
          <5> QED BY <2>5, <4>2, <5>1, <5>2, Simulates
        <4>4. CASE ~Queued(k)
          <5>1. Phase(k) = "taken" /\ Phase(k)' = "closed"
            BY <4>1, <4>4 DEF Phase
          <5>2. \/ receipt'[k].charged = Cost[receipt[k].budget]
                \/ /\ task[k].usage # None
                   /\ task[k].usage <= Cost[receipt[k].budget]
                   /\ receipt'[k].charged = task[k].usage
            BY <2>1, <3>1, <4>4, SettlesKeeps
          <5>3. task[k].usage # None => task[k].usage = billed[k] /\ sends[k] > 0
            BY <1>2, <2>1 DEF MoneyInv, SentInv
          <5> QED BY <2>5, <4>2, <5>1, <5>2, <5>3, Simulates
        <4> QED BY <4>3, <4>4
      <3>2. CASE ~Mine(k) /\ ~Mine(k)'
        BY <2>5, <3>2, Simulates DEF Phase, BoundOf, ChargeKept
      <3>3. CASE /\ receipt'[k] = receipt[k]
                 /\ Held(k, "model_planning") => (Queued(k)' <=> Queued(k))
        <4>1. /\ Phase(k)' = Phase(k) /\ BoundOf(k)' = BoundOf(k)
              /\ ChargeKept(k)' = ChargeKept(k)
          BY <3>3 DEF Phase, BoundOf, ChargeKept, Mine, Held
        <4> QED BY <2>5, <4>1, Simulates
      <3>4. CASE /\ receipt[k] = None
                 /\ Held(k, "model_planning")' /\ receipt'[k].budget \in Budgets
                 /\ Queued(k)'
        <4>1. /\ Phase(k) = "absent" /\ Phase(k)' = "reserved"
              /\ BoundOf(k)' = Cost[receipt'[k].budget]
              /\ ChargeKept(k)' = ChargeKept(k)
          BY <3>4 DEF Phase, BoundOf, ChargeKept, Mine, Held
        <4> QED BY <2>5, <3>4, <4>1, Simulates
      <3>5. CASE /\ Held(k, "model_planning") /\ receipt'[k] = receipt[k]
                 /\ Queued(k) /\ ~Queued(k)'
        <4>1. /\ Phase(k) = "reserved" /\ Phase(k)' = "taken"
              /\ BoundOf(k)' = BoundOf(k) /\ ChargeKept(k)' = ChargeKept(k)
          BY <3>5 DEF Phase, BoundOf, ChargeKept, Mine, Held
        <4> QED BY <2>5, <4>1, Simulates
      <3> QED BY <2>2, <3>1, <3>2, <3>3, <3>4, <3>5 DEF CallMoves
    <2> QED BY <1>2, <2>1, <2>4, <2>5, SendsMove
  <1>3. Inv /\ SentInv /\ [Next]_vars =>
            [\A k \in Keys : [PlanCall(k)!Next]_(PlanCall(k)!vars)]_vars
    BY <1>2
  <1> QED BY <1>1, <1>3, Invariance, SentInvariant, PTL DEF Spec, PlanCallSpec

-----------------------------------------------------------------------------
(* The books.  Totals are sums over the keys, so they are stated for any   *)
(* set of reservations r: a transaction may end several requests and then  *)
(* reserve for one more.                                                   *)

KeptIn(r, d, m) ==
    [k \in Keys |->
        IF r[k] # None /\ r[k].day = d /\ Currency[r[k].budget] = m
        THEN Occupies(r[k]) ELSE 0]

CountedIn(r, d) ==
    {k \in Keys : /\ r[k] # None
                  /\ r[k].kind = "model_planning"
                  /\ r[k].day = d
                  /\ r[k].settlement # "cancelled_before_dispatch"}

\* The totals o of money and c of calls are those of the reservations r.
Books(r, o, c) ==
    /\ r \in [Keys -> Receipts \union {None}]
    /\ o \in [Days -> [Currencies -> Nat]]
    /\ c \in [Days -> Nat]
    /\ \A d \in Days, m \in Currencies :
           IsFiniteSet(UnitsOf(KeptIn(r, d, m))) /\ o[d][m] = SumOf(KeptIn(r, d, m))
    /\ \A d \in Days :
           IsFiniteSet(CountedIn(r, d)) /\ c[d] = Cardinality(CountedIn(r, d))

\* A request is approved and not ended exactly while it holds money.
AgreeInv(k) ==
    /\ IsActive(k) =>
           /\ Held(k, "model_planning")
           /\ receipt[k].day = plan[k].day
           /\ receipt[k].budget = plan[k].budget
           /\ receipt[k].revision = plan[k].version
    /\ Held(k, "model_planning") => IsActive(k)

BooksInv == Books(receipt, occupied, modelCalls) /\ \A k \in Keys : AgreeInv(k)

\* What reservations keep are natural amounts.
LEMMA KeptType ==
    ASSUME NEW r \in [Keys -> Receipts \union {None}]
    PROVE  /\ \A k \in Keys : r[k] # None => Occupies(r[k]) \in Nat
           /\ \A d, m : KeptIn(r, d, m) \in [Keys -> Nat]
  <1>1. ASSUME NEW k \in Keys, r[k] # None
        PROVE  Occupies(r[k]) \in Nat
    <2>1. /\ r[k].budget \in Budgets
          /\ r[k].charged \in Nat \union {None}
      BY <1>1 DEF Receipts
    <2> QED BY <2>1, BudgetAssumption DEF Occupies
  <1>2. ASSUME NEW d, NEW m
        PROVE  KeptIn(r, d, m) \in [Keys -> Nat]
    BY <1>1 DEF KeptIn
  <1> QED BY <1>1, <1>2

\* A reservation more (Reserve, ReserveMoney): from r and o to r2 and o2.
Added(r, o, k, e, row, r2, o2) ==
    /\ k \in Keys /\ r[k] = None
    /\ e \in Days
    /\ row \in Receipts /\ row.day = e /\ row.charged = None
    /\ r2 = [r EXCEPT ![k] = row]
    /\ o2 = [o EXCEPT ![e][Currency[row.budget]] = @ + Cost[row.budget]]

LEMMA BooksReserve ==
    ASSUME NEW r, NEW o, NEW c, NEW k, NEW e, NEW row, NEW r2, NEW o2,
           Books(r, o, c), Added(r, o, k, e, row, r2, o2)
    PROVE  /\ row.kind # "model_planning" => Books(r2, o2, c)
           /\ row.kind = "model_planning" /\ row.settlement = None =>
                  Books(r2, o2, [c EXCEPT ![e] = @ + 1])
  <1> USE DEF Added
  <1> DEFINE n == Currency[row.budget]  cost == Cost[row.budget]
  <1>1. /\ r \in [Keys -> Receipts \union {None}]
        /\ o \in [Days -> [Currencies -> Nat]]
        /\ c \in [Days -> Nat]
    BY DEF Books
  <1>2. row.budget \in Budgets /\ n \in Currencies /\ cost \in Nat
    BY BudgetAssumption DEF Receipts
  <1>3. r2 \in [Keys -> Receipts \union {None}] /\ r2[k] = row
        /\ \A j \in Keys \ {k} : r2[j] = r[j]
    BY <1>1
  <1>4. row # None /\ Occupies(row) = cost
    BY NullAssumption DEF Occupies
  <1> HIDE DEF n, cost
  <1>5. o2 \in [Days -> [Currencies -> Nat]]
        /\ \A d \in Days, m \in Currencies :
               o2[d][m] = IF d = e /\ m = n THEN o[d][m] + cost ELSE o[d][m]
    BY <1>1, <1>2 DEF n, cost
  <1>6. ASSUME NEW d \in Days, NEW m \in Currencies
        PROVE  /\ IsFiniteSet(UnitsOf(KeptIn(r2, d, m)))
               /\ o2[d][m] = SumOf(KeptIn(r2, d, m))
    <2> DEFINE f == KeptIn(r, d, m)  g == KeptIn(r2, d, m)
    <2>1. f \in [Keys -> Nat] /\ g \in [Keys -> Nat]
      BY <1>1, <1>3, KeptType
    <2>2. /\ \A j \in Keys \ {k} : g[j] = f[j]
          /\ f[k] = 0
          /\ g[k] = IF d = e /\ m = n THEN cost ELSE 0
      BY <1>3, <1>4 DEF KeptIn, n
    <2>3. IsFiniteSet(UnitsOf(f)) /\ o[d][m] = SumOf(f)
      BY DEF Books
    <2> HIDE DEF f, g
    <2>4. /\ IsFiniteSet(UnitsOf(g)) /\ SumOf(g) + f[k] = SumOf(f) + g[k]
      BY <2>1, <2>2, <2>3, SumOfChange
    <2>5. SumOf(f) \in Nat /\ SumOf(g) \in Nat
      BY <2>1, <2>3, <2>4, SumOfType
    <2>6. o2[d][m] = SumOf(g)
      BY <1>2, <1>5, <2>2, <2>3, <2>4, <2>5
    <2> QED BY <2>4, <2>6 DEF g
  <1>7. CASE row.kind # "model_planning"
    <2>1. \A d \in Days : CountedIn(r2, d) = CountedIn(r, d)
      BY <1>3, <1>7 DEF CountedIn
    <2> QED BY <1>1, <1>3, <1>5, <1>6, <1>7, <2>1 DEF Books
  <1>8. CASE row.kind = "model_planning" /\ row.settlement = None
    <2>1. ASSUME NEW d \in Days
          PROVE  /\ IsFiniteSet(CountedIn(r2, d))
                 /\ [c EXCEPT ![e] = @ + 1][d] = Cardinality(CountedIn(r2, d))
      <3>1. IsFiniteSet(CountedIn(r, d)) /\ c[d] = Cardinality(CountedIn(r, d))
        BY DEF Books
      <3>2. CASE d = e
        <4>1. None # "cancelled_before_dispatch"
          BY PlanningAssumption DEF Settlements
        <4>2. /\ CountedIn(r2, d) = CountedIn(r, d) \cup {k}
              /\ k \notin CountedIn(r, d)
          BY <1>3, <1>4, <1>8, <3>2, <4>1 DEF CountedIn
        <4>3. /\ IsFiniteSet(CountedIn(r, d) \cup {k})
              /\ Cardinality(CountedIn(r, d) \cup {k}) =
                     Cardinality(CountedIn(r, d)) + 1
          BY <3>1, <4>2, FS_AddElement
        <4> QED BY <1>1, <3>1, <3>2, <4>2, <4>3
      <3>3. CASE d # e
        <4>1. CountedIn(r2, d) = CountedIn(r, d)
          BY <1>3, <1>8, <3>3 DEF CountedIn
        <4> QED BY <1>1, <3>1, <3>3, <4>1
      <3> QED BY <3>2, <3>3
    <2>2. [c EXCEPT ![e] = @ + 1] \in [Days -> Nat]
      BY <1>1
    <2> QED BY <1>3, <1>5, <1>6, <1>8, <2>1, <2>2 DEF Books
  <1> QED BY <1>7, <1>8

\* Nothing is charged beyond what was reserved.
LEMMA ChargeWithin ==
    ASSUME NEW b \in Budgets, NEW before \in BOOLEAN, NEW usage \in Nat \union {None}
    PROVE  Cost[b] \in Nat /\ Cost[b] - Charge(b, before, usage) \in Nat
  BY BudgetAssumption, NullAssumption DEF Charge

\* A reservation that is settled as terminate does it.
LEMMA PaidSettles ==
    ASSUME Inv, BooksInv, NEW ends, EndsOK(ends), NEW k \in Paid(ends)
    PROVE  /\ k \in Keys /\ receipt[k] \in Receipts /\ Held(k, "model_planning")
           /\ receipt[k].day = plan[k].day /\ receipt[k].budget = plan[k].budget
           /\ plan[k].budget \in Budgets /\ Queued(k) \in BOOLEAN
           /\ ends[k].usage \in Nat \union {None}
           /\ receipt[k].settlement # "cancelled_before_dispatch"
           /\ ReceiptAfter(ends)[k] \in Receipts
           /\ ReceiptAfter(ends)[k].kind = "model_planning"
           /\ ReceiptAfter(ends)[k].day = plan[k].day
           /\ ReceiptAfter(ends)[k].budget = plan[k].budget
           /\ ReceiptAfter(ends)[k].charged =
                  Charge(plan[k].budget, Queued(k), ends[k].usage)
           /\ ReceiptAfter(ends)[k].charged \in Nat
           /\ ReceiptAfter(ends)[k].settlement = "cancelled_before_dispatch"
                  <=> Queued(k)
  <1>1. /\ k \in Keys /\ IsActive(k) /\ k \in DOMAIN ends
        /\ ends[k].usage \in Nat \union {None}
    BY DEF Paid, EndsOK
  <1>2. /\ Held(k, "model_planning")
        /\ receipt[k].day = plan[k].day /\ receipt[k].budget = plan[k].budget
    BY <1>1 DEF BooksInv, AgreeInv
  <1>3. receipt[k] \in Receipts
    BY <1>1, <1>2 DEF Held, Inv, TypeInv
  <1>4. plan[k].budget \in Budgets /\ Queued(k) \in BOOLEAN
    BY <1>2, <1>3 DEF Receipts, Queued
  <1>5. receipt[k].settlement # "cancelled_before_dispatch"
    BY <1>1, <1>2 DEF Inv, KeyInv, MoneyInv
  <1>6. /\ Charge(plan[k].budget, Queued(k), ends[k].usage) \in Nat
        /\ Settlement(plan[k].budget, Queued(k), ends[k].usage) \in Settlements
        /\ Settlement(plan[k].budget, Queued(k), ends[k].usage)
               = "cancelled_before_dispatch" <=> Queued(k)
    BY <1>1, <1>4, ChargeOf
  <1>7. ReceiptAfter(ends)[k] = Settled(k, ends[k])
    BY <1>1 DEF ReceiptAfter
  <1>8. receipt[k].kind = "model_planning"
    BY <1>2 DEF Held
  <1> QED BY <1>1, <1>2, <1>3, <1>4, <1>5, <1>6, <1>7, <1>8 DEF Settled, Receipts

\* A transaction gives back exactly what the requests it ends do not keep.
LEMMA BooksSettle ==
    ASSUME Inv, BooksInv, NEW ends, EndsOK(ends)
    PROVE  Books(ReceiptAfter(ends), OccupiedAfter(ends), CallsAfter(ends))
  <1> DEFINE r == ReceiptAfter(ends)
  <1>1. \A k \in Paid(ends) : ReceiptAfter(ends)[k] \in Receipts
    BY PaidSettles
  <1>2. /\ r \in [Keys -> Receipts \union {None}]
        /\ \A k \in Keys \ Paid(ends) : r[k] = receipt[k]
    <2>1. receipt \in [Keys -> Receipts \union {None}]
      BY DEF Inv, TypeInv
    <2> QED BY <1>1, <2>1 DEF ReceiptAfter
  <1>3. /\ receipt \in [Keys -> Receipts \union {None}]
        /\ occupied \in [Days -> [Currencies -> Nat]]
        /\ modelCalls \in [Days -> Nat]
    BY DEF BooksInv, Books
  <1>4. ASSUME NEW d \in Days, NEW m \in Currencies
        PROVE  /\ IsFiniteSet(UnitsOf(KeptIn(r, d, m)))
               /\ OccupiedAfter(ends)[d][m] \in Nat
               /\ OccupiedAfter(ends)[d][m] = SumOf(KeptIn(r, d, m))
    <2> DEFINE f == KeptIn(receipt, d, m)
               g == KeptIn(r, d, m)
               h == Refunds(ends, d, m)
    <2>1. f \in [Keys -> Nat] /\ g \in [Keys -> Nat]
      BY <1>2, <1>3, KeptType
    <2>2. ASSUME NEW k \in Keys
          PROVE  h[k] \in Nat /\ f[k] = g[k] + h[k]
      <3>1. CASE k \in Paid(ends)
        <4> DEFINE b == plan[k].budget
                   charged == Charge(b, Queued(k), ends[k].usage)
        <4>1. b \in Budgets /\ charged \in Nat
          BY <3>1, PaidSettles
        <4>2. Cost[b] \in Nat /\ Cost[b] - charged \in Nat
          BY <3>1, PaidSettles, ChargeWithin
        <4>3. f[k] = IF plan[k].day = d /\ Currency[b] = m THEN Cost[b] ELSE 0
          <5>1. /\ receipt[k] # None /\ receipt[k].charged = None
                /\ receipt[k].day = plan[k].day /\ receipt[k].budget = b
            BY <3>1, PaidSettles DEF Held
          <5> QED BY <5>1 DEF KeptIn, Occupies
        <4>4. g[k] = IF plan[k].day = d /\ Currency[b] = m THEN charged ELSE 0
          <5>1. /\ r[k] \in Receipts /\ r[k].charged = charged
                /\ r[k].day = plan[k].day /\ r[k].budget = b
            BY <3>1, PaidSettles
          <5>2. r[k] # None /\ charged # None
            BY <4>1, <5>1, NullAssumption
          <5> QED BY <5>1, <5>2 DEF KeptIn, Occupies
        <4>5. h[k] = IF plan[k].day = d /\ Currency[b] = m
                     THEN Cost[b] - charged ELSE 0
          BY <3>1 DEF Refunds
        <4> HIDE DEF b, charged, f, g, h
        <4> QED BY <4>1, <4>2, <4>3, <4>4, <4>5
      <3>2. CASE k \notin Paid(ends)
        <4>1. h[k] = 0 /\ f[k] = g[k]
          BY <1>2, <3>2 DEF Refunds, KeptIn
        <4>2. f[k] \in Nat
          BY <2>1
        <4> HIDE DEF f, g, h
        <4> QED BY <4>1, <4>2
      <3> QED BY <3>1, <3>2
    <2>3. h \in [Keys -> Nat]
      <3>1. h = [k \in Keys |-> h[k]]
        BY DEF Refunds
      <3> HIDE DEF h
      <3> QED BY <2>2, <3>1
    <2>4. IsFiniteSet(UnitsOf(f)) /\ occupied[d][m] = SumOf(f)
      BY DEF BooksInv, Books
    <2>5. OccupiedAfter(ends)[d][m] = occupied[d][m] - SumOf(h)
      BY DEF OccupiedAfter
    <2> HIDE DEF f, g, h
    <2>6. /\ IsFiniteSet(UnitsOf(g)) /\ SumOf(g) \in Nat /\ SumOf(h) \in Nat
          /\ SumOf(f) = SumOf(g) + SumOf(h)
      BY <2>1, <2>2, <2>3, <2>4, SumOfSplit
    <2>7. OccupiedAfter(ends)[d][m] = SumOf(g)
      BY <2>4, <2>5, <2>6
    <2> QED BY <2>6, <2>7 DEF g
  <1>5. ASSUME NEW d \in Days
        PROVE  /\ IsFiniteSet(CountedIn(r, d))
               /\ CallsAfter(ends)[d] \in Nat
               /\ CallsAfter(ends)[d] = Cardinality(CountedIn(r, d))
    <2> DEFINE back == {k \in Paid(ends) : Queued(k) /\ plan[k].day = d}
               C == CountedIn(receipt, d)
    <2>1. CountedIn(r, d) = C \ back
      <3>1. ASSUME NEW k \in Keys
            PROVE  k \in CountedIn(r, d) <=> k \in C /\ k \notin back
        <4>1. CASE k \in Paid(ends)
          <5>1. k \in C <=> plan[k].day = d
            BY <4>1, PaidSettles DEF CountedIn, Held
          <5>2. k \in CountedIn(r, d) <=> plan[k].day = d /\ ~Queued(k)
            BY <4>1, PaidSettles, NullAssumption DEF CountedIn
          <5> QED BY <4>1, <5>1, <5>2
        <4>2. CASE k \notin Paid(ends)
          BY <1>2, <4>2 DEF CountedIn
        <4> QED BY <4>1, <4>2
      <3>2. CountedIn(r, d) \subseteq Keys /\ C \subseteq Keys
        BY DEF CountedIn
      <3> HIDE DEF C, r, back
      <3> QED BY <3>1, <3>2
    <2>2. back \subseteq C
      BY PaidSettles DEF CountedIn, Held
    <2>3. IsFiniteSet(C) /\ modelCalls[d] = Cardinality(C)
      BY DEF BooksInv, Books
    <2>4. CallsAfter(ends)[d] = modelCalls[d] - Cardinality(back)
      BY DEF CallsAfter
    <2> HIDE DEF C, r, back
    <2>5. IsFiniteSet(back) /\ IsFiniteSet(C \ back)
      BY <2>2, <2>3, FS_Subset
    <2>6. Cardinality(back) \in Nat /\ Cardinality(C \ back) \in Nat
      BY <2>5, FS_CardinalityType
    <2>7. /\ C = (C \ back) \cup back
          /\ Cardinality((C \ back) \cup back) = Cardinality(C \ back) + Cardinality(back)
      <3>1. (C \ back) \cap back = {} /\ C = (C \ back) \cup back
        BY <2>2
      <3> QED BY <2>5, <3>1, DisjointUnion
    <2> QED BY <2>1, <2>3, <2>4, <2>5, <2>6, <2>7
  <1>6. OccupiedAfter(ends) \in [Days -> [Currencies -> Nat]]
    <2>1. OccupiedAfter(ends) =
              [d \in Days |-> [m \in Currencies |-> OccupiedAfter(ends)[d][m]]]
      BY DEF OccupiedAfter
    <2> QED BY <1>4, <2>1
  <1>7. CallsAfter(ends) \in [Days -> Nat]
    <2>1. CallsAfter(ends) = [d \in Days |-> CallsAfter(ends)[d]]
      BY DEF CallsAfter
    <2> QED BY <1>5, <2>1
  <1> HIDE DEF r
  <1>8. Books(r, OccupiedAfter(ends), CallsAfter(ends))
    BY <1>2, <1>4, <1>5, <1>6, <1>7 DEF Books
  <1> QED BY <1>8 DEF r

\* A reply that shares the key is settled on its own.
LEMMA BooksReply ==
    ASSUME Inv, BooksInv, NEW k \in Keys, NEW before \in BOOLEAN,
           Held(k, "reply"), SettleKind(k, "reply", before, None)
    PROVE  Books(receipt', occupied', modelCalls)
  <1> DEFINE b == receipt[k].budget
             n == Currency[b]
             e == receipt[k].day
             charged == Charge(b, before, None)
             refund == Cost[b] - charged
  <1>1. /\ receipt \in [Keys -> Receipts \union {None}]
        /\ occupied \in [Days -> [Currencies -> Nat]]
        /\ modelCalls \in [Days -> Nat]
    BY DEF BooksInv, Books
  <1>2. /\ receipt[k] \in Receipts /\ receipt[k].charged = None
        /\ receipt[k].kind = "reply" /\ receipt[k] # None
    BY <1>1 DEF Held
  <1>3. b \in Budgets /\ n \in Currencies /\ e \in Days
    BY <1>2, BudgetAssumption DEF Receipts
  <1>4. /\ charged \in Nat /\ charged # None
        /\ Settlement(b, before, None) \in Settlements
    BY <1>3, ChargeOf
  <1>5. Cost[b] \in Nat /\ refund \in Nat
    BY <1>3, ChargeWithin
  <1>6. /\ occupied[e][n] >= refund
        /\ receipt' = [receipt EXCEPT ![k].charged = charged,
               ![k].settlement = Settlement(b, before, None)]
        /\ occupied' = [occupied EXCEPT ![e][n] = @ - refund]
    BY DEF SettleKind
  <1>7. /\ receipt' \in [Keys -> Receipts \union {None}]
        /\ \A j \in Keys \ {k} : receipt'[j] = receipt[j]
        /\ receipt'[k].kind = "reply" /\ receipt'[k].charged = charged
        /\ receipt'[k].day = e /\ receipt'[k].budget = b
        /\ receipt'[k] # None
    <2>1. receipt'[k] = [receipt[k] EXCEPT !.charged = charged,
                             !.settlement = Settlement(b, before, None)]
      BY <1>1, <1>6
    <2>2. /\ receipt'[k] \in Receipts
          /\ receipt'[k].kind = "reply" /\ receipt'[k].charged = charged
          /\ receipt'[k].day = e /\ receipt'[k].budget = b
      BY <1>2, <1>4, <2>1 DEF Receipts
    <2>3. receipt'[k] # None
      BY <2>2, NullAssumption
    <2>4. \A j \in Keys \ {k} : receipt'[j] = receipt[j]
      BY <1>1, <1>6
    <2>5. receipt' = [j \in Keys |-> receipt'[j]]
      BY <1>1, <1>6
    <2>6. \A j \in Keys : receipt'[j] \in Receipts \union {None}
      BY <1>1, <2>2, <2>4
    <2>7. receipt' \in [Keys -> Receipts \union {None}]
      BY <2>5, <2>6
    <2> QED BY <2>2, <2>3, <2>4, <2>7
  <1> HIDE DEF refund, charged, n, e, b
  <1>8. /\ occupied' \in [Days -> [Currencies -> Nat]]
        /\ \A d \in Days, m \in Currencies :
               occupied'[d][m] = IF d = e /\ m = n THEN occupied[d][m] - refund
                                 ELSE occupied[d][m]
    <2>1. occupied[e][n] - refund \in Nat
      BY <1>1, <1>3, <1>5, <1>6
    <2> QED BY <1>1, <1>3, <1>6, <2>1
  <1>9. ASSUME NEW d \in Days, NEW m \in Currencies
        PROVE  /\ IsFiniteSet(UnitsOf(KeptIn(receipt', d, m)))
               /\ occupied'[d][m] = SumOf(KeptIn(receipt', d, m))
    <2> DEFINE f == KeptIn(receipt, d, m)  g == KeptIn(receipt', d, m)
    <2>1. f \in [Keys -> Nat] /\ g \in [Keys -> Nat]
      BY <1>1, <1>7, KeptType
    <2>2. /\ \A j \in Keys \ {k} : g[j] = f[j]
          /\ f[k] = IF d = e /\ m = n THEN Cost[b] ELSE 0
          /\ g[k] = IF d = e /\ m = n THEN charged ELSE 0
      BY <1>2, <1>4, <1>7 DEF KeptIn, Occupies, n, e, b
    <2>3. IsFiniteSet(UnitsOf(f)) /\ occupied[d][m] = SumOf(f)
      BY DEF BooksInv, Books
    <2> HIDE DEF f, g
    <2>4. /\ IsFiniteSet(UnitsOf(g)) /\ SumOf(g) + f[k] = SumOf(f) + g[k]
      BY <2>1, <2>2, <2>3, SumOfChange
    <2>5. SumOf(f) \in Nat /\ SumOf(g) \in Nat
      BY <2>1, <2>3, <2>4, SumOfType
    <2>6. occupied'[d][m] = SumOf(g)
      <3>1. refund = Cost[b] - charged
        BY DEF refund
      <3>2. CASE d = e /\ m = n
        BY <1>3, <1>4, <1>5, <1>8, <2>2, <2>3, <2>4, <2>5, <3>1, <3>2
      <3>3. CASE ~(d = e /\ m = n)
        BY <1>8, <2>2, <2>3, <2>4, <2>5, <3>3
      <3> QED BY <3>2, <3>3
    <2> QED BY <2>4, <2>6 DEF g
  <1>10. \A d \in Days : CountedIn(receipt', d) = CountedIn(receipt, d)
    BY <1>2, <1>7 DEF CountedIn
  <1> QED BY <1>1, <1>7, <1>8, <1>9, <1>10 DEF Books, BooksInv

\* A request stays approved as it is, or is not approved.
RowSame(k) ==
    \/ ~IsActive(k) /\ ~IsActive(k)'
    \/ /\ IsActive(k) /\ IsActive(k)'
       /\ plan'[k].day = plan[k].day
       /\ plan'[k].budget = plan[k].budget
       /\ plan'[k].version = plan[k].version

\* A transaction that ends what it settles, and nothing else.
Ending(ends) ==
    /\ EndsOK(ends)
    /\ Settle(ends)
    /\ \A k \in Keys : IF k \in Paid(ends) THEN ~IsActive(k)' ELSE RowSame(k)

Quiet == UNCHANGED <<moneyVars, modelCalls>> /\ \A k \in Keys : RowSame(k)

\* The agreement of a request whose reservation no step touches.
LEMMA AgreeKept ==
    ASSUME NEW k \in Keys, AgreeInv(k), receipt'[k] = receipt[k], RowSame(k)
    PROVE  AgreeInv(k)'
  <1>1. Held(k, "model_planning")' <=> Held(k, "model_planning")
    BY DEF Held
  <1> QED BY <1>1 DEF AgreeInv, RowSame

LEMMA QuietBooks ==
    ASSUME BooksInv, Quiet
    PROVE  BooksInv'
  <1>1. receipt' = receipt /\ occupied' = occupied /\ modelCalls' = modelCalls
    BY DEF Quiet, moneyVars
  <1>2. Books(receipt, occupied, modelCalls)'
    BY <1>1 DEF BooksInv, Books, KeptIn, CountedIn, Occupies
  <1>3. \A k \in Keys : AgreeInv(k)'
    BY <1>1, AgreeKept DEF BooksInv, Quiet
  <1> QED BY <1>2, <1>3 DEF BooksInv

LEMMA EndingBooks ==
    ASSUME Inv, BooksInv, NEW ends, Ending(ends)
    PROVE  BooksInv'
  <1>1. /\ EndsOK(ends)
        /\ receipt' = ReceiptAfter(ends) /\ occupied' = OccupiedAfter(ends)
        /\ modelCalls' = CallsAfter(ends)
    BY DEF Ending, Settle
  <1>2. Books(ReceiptAfter(ends), OccupiedAfter(ends), CallsAfter(ends))
    BY <1>1, BooksSettle
  <1>3. Books(receipt', occupied', modelCalls')
    BY <1>1, <1>2
  <1>4. Books(receipt, occupied, modelCalls)'
    BY <1>3 DEF Books, KeptIn, CountedIn, Occupies
  <1>5. ASSUME NEW k \in Keys PROVE AgreeInv(k)'
    <2>1. CASE k \in Paid(ends)
      <3>1. ~IsActive(k)'
        BY <2>1 DEF Ending
      <3>2. receipt'[k].charged \in Nat
        BY <1>1, <2>1, PaidSettles
      <3>3. ~Held(k, "model_planning")'
        BY <3>2, NullAssumption DEF Held
      <3> QED BY <3>1, <3>3 DEF AgreeInv
    <2>2. CASE k \notin Paid(ends)
      <3>1. receipt'[k] = receipt[k]
        BY <1>1, <2>2 DEF ReceiptAfter
      <3>2. RowSame(k)
        BY <2>2 DEF Ending
      <3>3. AgreeInv(k)
        BY DEF BooksInv
      <3> QED BY <3>1, <3>2, <3>3, AgreeKept
    <2> QED BY <2>1, <2>2
  <1> QED BY <1>4, <1>5 DEF BooksInv

LEMMA SameRow ==
    ASSUME NEW k, plan'[k] = plan[k]
    PROVE  RowSame(k)
  BY DEF RowSame, IsActive

\* Which requests a transaction with these ends leaves approved.
LEMMA AfterRow ==
    ASSUME TypeInv, NEW ends, EndsOK(ends), NEW k \in Keys,
           plan'[k] = PlanAfter(ends)[k]
    PROVE  IF k \in Paid(ends) THEN ~IsActive(k)' ELSE RowSame(k)
  <1>1. CASE k \in DOMAIN ends
    <2>1. plan'[k].status \in Ended
      <3>1. ends[k].status \in Ended /\ IsOpen(k)
        BY <1>1 DEF EndsOK
      <3>2. plan[k] \in PlanRows
        BY <3>1 DEF TypeInv, IsOpen, Open, Active, NoPlan
      <3>3. plan'[k] = [plan[k] EXCEPT !.status = ends[k].status, !.due = FALSE]
        BY <1>1 DEF PlanAfter
      <3> QED BY <3>1, <3>2, <3>3 DEF PlanRows
    <2>2. ~IsActive(k)'
      BY <2>1 DEF IsActive, Active, Ended
    <2>3. k \notin Paid(ends) => ~IsActive(k)
      BY <1>1 DEF Paid
    <2> QED BY <2>2, <2>3 DEF RowSame
  <1>2. CASE k \notin DOMAIN ends
    <2>1. plan'[k] = plan[k]
      BY <1>2 DEF PlanAfter
    <2>2. k \notin Paid(ends)
      BY <1>2 DEF Paid
    <2> QED BY <2>1, <2>2, SameRow
  <1> QED BY <1>1, <1>2

LEMMA CommitEnds ==
    ASSUME TypeInv, NEW ends, EndsOK(ends), Commit(ends)
    PROVE  Ending(ends)
  BY AfterRow DEF Commit, Ending

\* An approval reserves for its request after it ended what was overdue.
LEMMA ReserveBooks ==
    ASSUME Inv, BooksInv, NEW k \in Keys, Reserve(k)
    PROVE  BooksInv'
  <1> DEFINE ends == Expiry(k[1])
             b    == plan[k].budget
             row  == [kind |-> "model_planning", day |-> day,
                      revision |-> plan[k].version, budget |-> b,
                      charged |-> None, settlement |-> None]
  <1>1. TypeInv /\ EndsOK(ends) /\ k \notin DOMAIN ends
    BY ExpiryOK DEF Inv, Keys, Reserve, Expiry
  <1>2. /\ plan[k].status = "draft" /\ receipt[k] = None
        /\ plan' = [PlanAfter(ends) EXCEPT ![k].status = "queued", ![k].day = day]
        /\ receipt' = [ReceiptAfter(ends) EXCEPT ![k] = row]
        /\ occupied' = [OccupiedAfter(ends) EXCEPT ![day][Currency[b]] = @ + Cost[b]]
        /\ modelCalls' = [CallsAfter(ends) EXCEPT ![day] = @ + 1]
    BY DEF Reserve
  <1>3. plan[k] \in PlanRows /\ day \in Days
    BY <1>1, <1>2 DEF TypeInv, NoPlan
  <1>4. /\ row \in Receipts /\ row.day = day /\ row.charged = None
        /\ row.kind = "model_planning" /\ row.settlement = None
        /\ row.budget = b /\ row.revision = plan[k].version
    BY <1>3 DEF PlanRows, Receipts, Kinds
  <1> HIDE DEF ends, row
  <1>5. Books(ReceiptAfter(ends), OccupiedAfter(ends), CallsAfter(ends))
    BY <1>1, BooksSettle
  <1>6. ReceiptAfter(ends)[k] = None
    BY <1>1, <1>2 DEF ReceiptAfter, Paid
  <1>7. Books(receipt', occupied', [CallsAfter(ends) EXCEPT ![day] = @ + 1])
    <2> DEFINE r2 == receipt'  o2 == occupied'
    <2>1. r2 = [ReceiptAfter(ends) EXCEPT ![k] = row]
      BY <1>2
    <2>2. o2 = [OccupiedAfter(ends) EXCEPT ![row.day][Currency[row.budget]] =
                    @ + Cost[row.budget]]
      BY <1>2, <1>4
    <2>3. o2 = [OccupiedAfter(ends) EXCEPT ![day][Currency[row.budget]] =
                    @ + Cost[row.budget]]
      BY <1>4, <2>2
    <2> HIDE DEF r2, o2
    <2>4. Added(ReceiptAfter(ends), OccupiedAfter(ends), k, day, row, r2, o2)
      BY <1>3, <1>4, <1>6, <2>1, <2>3 DEF Added
    <2>5. Books(r2, o2, [CallsAfter(ends) EXCEPT ![day] = @ + 1])
      BY <1>4, <1>5, <2>4, BooksReserve
    <2> QED BY <2>5 DEF r2, o2
  <1>8. Books(receipt, occupied, modelCalls)'
    BY <1>2, <1>7 DEF Books, KeptIn, CountedIn, Occupies
  <1>9. PlanAfter(ends)[k] = plan[k]
    BY <1>1 DEF PlanAfter
  <1>10. ASSUME NEW j \in Keys PROVE AgreeInv(j)'
    <2>1. CASE j = k
      <3>1. plan'[k] = [plan[k] EXCEPT !.status = "queued", !.day = day]
        BY <1>1, <1>2, <1>9, PlansEnd
      <3>2. /\ plan'[k].status = "queued" /\ plan'[k].day = day
            /\ plan'[k].budget = b /\ plan'[k].version = plan[k].version
        BY <1>3, <3>1 DEF PlanRows
      <3>3. receipt'[k] = row
        BY <1>2 DEF ReceiptAfter
      <3>4. row # None
        BY <1>4, NullAssumption
      <3> QED BY <1>4, <2>1, <3>2, <3>3, <3>4 DEF AgreeInv, Held, IsActive, Active
    <2>2. CASE j # k /\ j \in Paid(ends)
      <3>1. /\ receipt'[j] = ReceiptAfter(ends)[j]
            /\ plan'[j] = PlanAfter(ends)[j]
        BY <1>1, <1>2, <2>2, PlansEnd DEF ReceiptAfter
      <3>2. receipt'[j].charged \in Nat
        BY <1>1, <2>2, <3>1, PaidSettles
      <3>3. ~Held(j, "model_planning")'
        BY <3>2, NullAssumption DEF Held
      <3>4. ~IsActive(j)'
        BY <1>1, <2>2, <3>1, AfterRow
      <3> QED BY <3>3, <3>4 DEF AgreeInv
    <2>3. CASE j # k /\ j \notin Paid(ends)
      <3>1. /\ receipt'[j] = receipt[j]
            /\ plan'[j] = PlanAfter(ends)[j]
        BY <1>1, <1>2, <2>3, PlansEnd DEF ReceiptAfter
      <3>2. RowSame(j)
        BY <1>1, <2>3, <3>1, AfterRow
      <3>3. AgreeInv(j)
        BY DEF BooksInv
      <3> QED BY <3>1, <3>2, <3>3, AgreeKept
    <2> QED BY <2>1, <2>2, <2>3
  <1> QED BY <1>8, <1>10 DEF BooksInv

\* Neither reserving nor settling a reply concerns a planning request.
LEMMA ReplyBooks ==
    ASSUME Inv, BooksInv, NEW k \in Keys, NEW v \in Revisions, NEW b \in Budgets,
           ReplyReserves(k, v, b) \/ ReplySettles(k)
    PROVE  BooksInv'
  <1>1. UNCHANGED <<plan, modelCalls>>
    BY DEF ReplyReserves, ReplySettles
  <1>2. CASE UNCHANGED moneyVars
    <2>1. \A j \in Keys : RowSame(j)
      BY <1>1, SameRow
    <2> QED BY <1>1, <1>2, <2>1, QuietBooks DEF Quiet
  <1>3. CASE ReplyReserves(k, v, b)
    <2> DEFINE row == [kind |-> "reply", day |-> day, revision |-> v, budget |-> b,
                       charged |-> None, settlement |-> None]
               o2 == occupied'
               r2 == receipt'
    <2>1. /\ receipt[k] = None
          /\ r2 = [receipt EXCEPT ![k] = row]
          /\ o2 = [occupied EXCEPT ![day][Currency[b]] = @ + Cost[b]]
      BY <1>3 DEF ReplyReserves, ReserveMoney
    <2>2. day \in Days
      BY DEF Inv, TypeInv
    <2>3. /\ row \in Receipts /\ row.day = day /\ row.charged = None
          /\ row.kind = "reply" /\ row.budget = b
      BY <2>2 DEF Receipts, Kinds
    <2>4. o2 = [occupied EXCEPT ![day][Currency[row.budget]] = @ + Cost[row.budget]]
      BY <2>1, <2>3
    <2> HIDE DEF row, o2, r2
    <2>5. Books(r2, o2, modelCalls)
      <3>1. Added(receipt, occupied, k, day, row, r2, o2)
        BY <2>1, <2>2, <2>3, <2>4 DEF Added
      <3>2. Books(receipt, occupied, modelCalls)
        BY DEF BooksInv
      <3> QED BY <2>3, <3>1, <3>2, BooksReserve
    <2>6. Books(receipt, occupied, modelCalls)'
      BY <1>1, <2>5 DEF r2, o2, Books, KeptIn, CountedIn, Occupies
    <2>7. ASSUME NEW j \in Keys PROVE AgreeInv(j)'
      <3>1. CASE j = k
        <4>1. ~Held(k, "model_planning")
          BY <2>1 DEF Held
        <4>2. r2[k] = row
          BY <2>1 DEF BooksInv, Books
        <4>3. ~Held(k, "model_planning")'
          BY <2>3, <4>2 DEF Held, r2
        <4> QED BY <1>1, <3>1, <4>1, <4>3 DEF AgreeInv, BooksInv, IsActive
      <3>2. CASE j # k
        <4>1. r2[j] = receipt[j]
          BY <2>1, <3>2
        <4>2. AgreeInv(j) /\ RowSame(j)
          BY <1>1, SameRow DEF BooksInv
        <4> QED BY <4>1, <4>2, AgreeKept DEF r2
      <3> QED BY <3>1, <3>2
    <2> QED BY <2>6, <2>7 DEF BooksInv
  <1>4. ASSUME NEW before \in BOOLEAN, Held(k, "reply"),
               SettleKind(k, "reply", before, None)
        PROVE  BooksInv'
    <2>1. Books(receipt', occupied', modelCalls)
      BY <1>4, BooksReply
    <2>2. Books(receipt, occupied, modelCalls)'
      BY <1>1, <2>1 DEF Books, KeptIn, CountedIn, Occupies
    <2>3. receipt \in [Keys -> Receipts \union {None}]
      BY DEF Inv, TypeInv
    <2>4. /\ receipt[k] \in Receipts /\ receipt[k].kind = "reply"
          /\ \A j \in Keys \ {k} : receipt'[j] = receipt[j]
          /\ receipt'[k].kind = receipt[k].kind
      BY <1>4, <2>3 DEF SettleKind, Held, Receipts
    <2>5. ASSUME NEW j \in Keys PROVE AgreeInv(j)'
      <3>1. CASE j = k
        <4>1. ~Held(k, "model_planning") /\ ~Held(k, "model_planning")'
          BY <2>4 DEF Held
        <4> QED BY <1>1, <3>1, <4>1 DEF AgreeInv, BooksInv, IsActive
      <3>2. CASE j # k
        <4>1. AgreeInv(j) /\ RowSame(j)
          BY <1>1, SameRow DEF BooksInv
        <4> QED BY <2>4, <3>2, <4>1, AgreeKept
      <3> QED BY <3>1, <3>2
    <2> QED BY <2>2, <2>5 DEF BooksInv
  <1> QED BY <1>2, <1>3, <1>4 DEF ReplySettles, SettleKind

\* Time and configurations approve and end nothing.
LEMMA EnvironmentBooks ==
    ASSUME Inv, BooksInv,
           \/ NewDay
           \/ \E k \in Keys : Lapse(k)
           \/ \E v \in Revisions : PriceLapses(v) \/ OperatorDisables(v)
           \/ \E c \in Conversations : AppendMessage(c) \/ DeleteConversation(c)
    PROVE  BooksInv'
  <1> USE DEF rowVars, moneyVars
  <1>1. CASE UNCHANGED <<moneyVars, modelCalls, plan>>
    BY <1>1, QuietBooks, SameRow DEF Quiet
  <1>2. CASE NewDay
    BY <1>1, <1>2 DEF NewDay
  <1>3. ASSUME NEW k \in Keys, Lapse(k)
        PROVE  BooksInv'
    <2>1. plan[k] \in PlanRows
      BY <1>3 DEF Lapse, Inv, TypeInv, IsOpen, Open, Active, NoPlan
    <2>2. ASSUME NEW j \in Keys PROVE RowSame(j)
      <3>1. CASE j = k
        <4>1. plan'[k] = [plan[k] EXCEPT !.due = TRUE]
          BY <1>3 DEF Lapse, Inv, TypeInv
        <4>2. /\ plan'[k].status = plan[k].status /\ plan'[k].day = plan[k].day
              /\ plan'[k].budget = plan[k].budget
              /\ plan'[k].version = plan[k].version
          BY <2>1, <4>1 DEF PlanRows
        <4> QED BY <3>1, <4>2 DEF RowSame, IsActive
      <3>2. CASE j # k
        BY <1>3, <3>2, SameRow DEF Lapse, Inv, TypeInv
      <3> QED BY <3>1, <3>2
    <2> QED BY <1>3, <2>2, QuietBooks DEF Lapse, Quiet
  <1>4. ASSUME NEW v \in Revisions, PriceLapses(v)
        PROVE  BooksInv'
    <2>1. ASSUME NEW j \in Keys PROVE RowSame(j)
      <3>1. plan'[j] \in {plan[j], [plan[j] EXCEPT !.due = TRUE]}
        BY <1>4 DEF PriceLapses
      <3>2. plan[j] \in PlanRows \union {NoPlan}
        BY DEF Inv, TypeInv
      <3>3. /\ plan'[j].status = plan[j].status /\ plan'[j].day = plan[j].day
            /\ plan'[j].budget = plan[j].budget
            /\ plan'[j].version = plan[j].version
        BY <3>1, <3>2 DEF PlanRows, NoPlan
      <3> QED BY <3>3 DEF RowSame, IsActive
    <2> QED BY <1>4, <2>1, QuietBooks DEF PriceLapses, Quiet
  <1>5. ASSUME NEW c \in Conversations, DeleteConversation(c)
        PROVE  BooksInv'
    <2> DEFINE ends == [j \in {i \in KeysOf(c) : IsActive(i)} |->
                           End("cancelled", None)]
    <2>1. EndsOK(ends)
      BY DEF EndsOK, KeysOf, End, Ended, IsActive, IsOpen, Open
    <2>2. /\ Settle(ends)
          /\ \A k \in Keys : plan'[k] = IF k[1] = c THEN NoPlan ELSE plan[k]
          /\ \A k \in Keys : k \in Paid(ends) <=> k[1] = c /\ IsActive(k)
      BY <1>5 DEF DeleteConversation, Paid, KeysOf
    <2> HIDE DEF ends
    <2>3. ASSUME NEW k \in Keys
          PROVE  IF k \in Paid(ends) THEN ~IsActive(k)' ELSE RowSame(k)
      <3>1. CASE k[1] = c
        <4>1. ~IsActive(k)'
          BY <2>2, <3>1 DEF IsActive, NoPlan, Active
        <4> QED BY <2>2, <3>1, <4>1 DEF RowSame
      <3>2. CASE k[1] # c
        BY <2>2, <3>2, SameRow
      <3> QED BY <3>1, <3>2
    <2> QED BY <2>1, <2>2, <2>3, EndingBooks DEF Ending
  <1>6. ASSUME NEW v \in Revisions, OperatorDisables(v)
        PROVE  BooksInv'
    BY <1>1, <1>6 DEF OperatorDisables
  <1>7. ASSUME NEW c \in Conversations, AppendMessage(c)
        PROVE  BooksInv'
    BY <1>1, <1>7 DEF AppendMessage
  <1> QED BY <1>2, <1>3, <1>4, <1>5, <1>6, <1>7

\* A request moves on after the transaction ended what was overdue: from
\* and to a place that is the same for its money.
LEMMA MovedOn ==
    ASSUME Inv, BooksInv, NEW k \in Keys, NEW ends, EndsOK(ends), Settle(ends),
           k \notin DOMAIN ends, RowSame(k),
           \A j \in Keys \ {k} : plan'[j] = PlanAfter(ends)[j]
    PROVE  BooksInv'
  <1>1. ASSUME NEW j \in Keys
        PROVE  IF j \in Paid(ends) THEN ~IsActive(j)' ELSE RowSame(j)
    <2>1. CASE j = k
      BY <2>1 DEF Paid
    <2>2. CASE j # k
      BY <2>2, AfterRow DEF Inv
    <2> QED BY <2>1, <2>2
  <1> QED BY <1>1, EndingBooks DEF Ending

LEMMA HandlerBooks ==
    ASSUME Inv, BooksInv, NEW s \in Servers, NEW k \in Keys,
           \/ Create(s, k) \/ Call(s, k) \/ Ready(s, k)
           \/ HangUp(s, k) \/ Approve(s, k) \/ Cancel(k)
    PROVE  BooksInv'
  <1> USE DEF rowVars, moneyVars
  <1> DEFINE ends == Expiry(k[1])
  <1>1. EndsOK(ends) /\ TypeInv
    BY ExpiryOK DEF Keys, Inv
  <1>2. ASSUME NEW e, EndsOK(e), Commit(e)
        PROVE  BooksInv'
    BY <1>1, <1>2, CommitEnds, EndingBooks
  <1>3. CASE Create(s, k)
    <2> DEFINE v   == server[s].version
               row == [status |-> "draft", revision |-> conversation[k[1]].revision,
                       version |-> v, budget |-> config[v].budget, created |-> day,
                       day |-> None, due |-> FALSE]
    <2>1. /\ Settle(ends) /\ plan[k].status = "absent"
          /\ plan' = [PlanAfter(ends) EXCEPT ![k] = row]
          /\ row.status = "draft" /\ k \notin DOMAIN ends
      BY <1>3 DEF Create, Expiry, Due, IsOpen, Open, Active
    <2> HIDE DEF ends, row
    <2>2. plan'[k] = row /\ \A j \in Keys \ {k} : plan'[j] = PlanAfter(ends)[j]
      BY <1>1, <2>1, PlansEnd
    <2>3. RowSame(k)
      BY <2>1, <2>2 DEF RowSame, IsActive, Active
    <2> QED BY <1>1, <2>1, <2>2, <2>3, MovedOn
  <1>4. CASE Call(s, k) \/ Ready(s, k) \/ HangUp(s, k)
    BY <1>4, QuietBooks, SameRow DEF Call, Ready, HangUp, Quiet
  <1>5. CASE Commit(ends)
    BY <1>1, <1>2, <1>5
  <1>6. CASE Reserve(k)
    BY <1>6, ReserveBooks
  <1>7. CASE Cancel(k)
    <2>1. EndsOK(Also(ends, k, End("cancelled", None)))
      BY <1>1, <1>7, AlsoOK DEF Cancel, Ended
    <2> QED BY <1>2, <1>7, <2>1 DEF Cancel
  <1> QED BY <1>3, <1>4, <1>5, <1>6, <1>7 DEF Approve

LEMMA TaskBooks ==
    ASSUME Inv, BooksInv, NEW k \in Keys, Run(k)
    PROVE  BooksInv'
  <1> USE DEF rowVars, moneyVars
  <1> DEFINE ends == Expiry(k[1])
  <1>1. EndsOK(ends) /\ TypeInv
    BY ExpiryOK DEF Keys, Inv
  <1>2. ASSUME NEW e, EndsOK(e), Commit(e)
        PROVE  BooksInv'
    BY <1>1, <1>2, CommitEnds, EndingBooks
  <1>3. CASE UNCHANGED <<moneyVars, modelCalls, plan>>
    BY <1>3, QuietBooks, SameRow DEF Quiet
  <1>4. CASE Claim(k)
    <2>1. CASE Queued(k) /\ Commit(Also(ends, k, End("stale", None)))
      <3>1. EndsOK(Also(ends, k, End("stale", None)))
        BY <1>1, <2>1, AlsoOK DEF Queued, IsOpen, Open, Active, Ended
      <3> QED BY <1>2, <2>1, <3>1
    <2>2. CASE /\ Queued(k) /\ k \notin Due(k[1])
               /\ Settle(ends)
               /\ plan' = [PlanAfter(ends) EXCEPT ![k].status = "dispatching"]
      <3>1. k \notin DOMAIN ends
        BY <2>2 DEF Expiry
      <3> HIDE DEF ends
      <3>2. PlanAfter(ends)[k] = plan[k] /\ plan[k] \in PlanRows
        BY <1>1, <2>2, <3>1, PlansEnd DEF TypeInv, NoPlan, Queued
      <3>3. /\ plan'[k] = [plan[k] EXCEPT !.status = "dispatching"]
            /\ \A j \in Keys \ {k} : plan'[j] = PlanAfter(ends)[j]
        BY <1>1, <2>2, <3>2, PlansEnd
      <3>4. /\ plan'[k].status = "dispatching" /\ plan'[k].day = plan[k].day
            /\ plan'[k].budget = plan[k].budget
            /\ plan'[k].version = plan[k].version
        BY <3>2, <3>3 DEF PlanRows
      <3>5. RowSame(k)
        BY <2>2, <3>4 DEF RowSame, IsActive, Active, Queued
      <3> QED BY <1>1, <2>2, <3>1, <3>3, <3>5, MovedOn
    <2>3. CASE Commit(ends)
      BY <1>1, <1>2, <2>3
    <2> QED BY <1>4, <2>1, <2>2, <2>3 DEF Claim
  <1>5. CASE Finish(k)
    <2> DEFINE status == IF task[k].outcome # "proposed" THEN task[k].outcome
                         ELSE IF Current(k) THEN "succeeded" ELSE "failed"
               usage  == IF status = "succeeded" THEN task[k].usage ELSE None
    <2>1. /\ task[k].pc = "finish"
          /\ \/ /\ plan[k].status = "dispatching"
                /\ Commit(Also(ends, k, End(status, usage)))
             \/ Commit(ends)
      BY <1>5 DEF Finish, At
    <2>2. status \in Ended /\ usage \in Nat \union {None}
      BY <1>1, <2>1 DEF TypeInv, TaskType, Tasks, Outcomes, Ended
    <2>3. usage # None => task[k].pc = "finish" /\ usage = task[k].usage
      BY <2>1
    <2> HIDE DEF ends, status, usage
    <2>4. plan[k].status = "dispatching" =>
              EndsOK(Also(ends, k, End(status, usage)))
      BY <1>1, <2>2, <2>3, AlsoOK DEF IsOpen, Open, Active
    <2> QED BY <1>1, <1>2, <2>1, <2>4
  <1>6. CASE Recheck(k)
    BY <1>1, <1>2, <1>6 DEF Recheck
  <1>7. CASE \/ CheckRevision(k) \/ Verify(k) \/ Refuse(k) \/ Send(k)
             \/ Answered(k) \/ ContractViolation(k) \/ PersistDisable(k) \/ GiveUp(k)
    BY <1>3, <1>7 DEF CheckRevision, Verify, Refuse, Send, Answered,
       ContractViolation, PersistDisable, GiveUp
  <1> QED BY <1>4, <1>5, <1>6, <1>7 DEF Run

LEMMA NextBooks ==
    ASSUME Inv, BooksInv, [Next]_vars
    PROVE  BooksInv'
  <1>1. CASE UNCHANGED <<moneyVars, modelCalls, plan>>
    BY <1>1, QuietBooks, SameRow DEF Quiet
  <1>2. ASSUME NEW j \in ReplyKeys, NEW v \in Revisions, NEW b \in Budgets,
               ReplyReserves(j, v, b) \/ ReplySettles(j)
        PROVE  BooksInv'
    <2>1. j \in Keys
      BY PlanningAssumption
    <2> QED BY <1>2, <2>1, ReplyBooks
  <1>3. ASSUME NEW c \in Conversations, Touch(c)
        PROVE  BooksInv'
    BY <1>3, ExpiryOK, CommitEnds, EndingBooks DEF Touch, Inv
  <1>4. ASSUME NEW k \in Keys, Cancel(k)
        PROVE  BooksInv'
    <2>1. EndsOK(Also(Expiry(k[1]), k, End("cancelled", None)))
      BY <1>4, ExpiryOK, AlsoOK DEF Cancel, Ended, Keys
    <2> QED BY <1>4, <2>1, CommitEnds, EndingBooks DEF Cancel, Inv
  <1>5. ASSUME NEW s \in Servers, (\E d \in Deployments : Start(s, d)) \/ Crash(s)
        PROVE  BooksInv'
    BY <1>1, <1>5 DEF Start, Crash, rowVars
  <1>6. CASE UNCHANGED vars
    BY <1>1, <1>6 DEF vars, rowVars
  <1> QED
    BY <1>2, <1>3, <1>4, <1>5, <1>6, EnvironmentBooks, HandlerBooks, TaskBooks
    DEF Next

LEMMA InitBooks ==
    ASSUME Init
    PROVE  BooksInv
  <1>1. /\ receipt = [k \in Keys |-> None]
        /\ occupied = [d \in Days |-> [m \in Currencies |-> 0]]
        /\ modelCalls = [d \in Days |-> 0]
        /\ plan = [k \in Keys |-> NoPlan]
    BY DEF Init, MoneyInit
  <1>2. ASSUME NEW d \in Days, NEW m \in Currencies
        PROVE  /\ IsFiniteSet(UnitsOf(KeptIn(receipt, d, m)))
               /\ SumOf(KeptIn(receipt, d, m)) = 0
    <2>1. \A k \in DOMAIN KeptIn(receipt, d, m) : KeptIn(receipt, d, m)[k] = 0
      BY <1>1 DEF KeptIn
    <2> QED BY <2>1, SumOfZeros
  <1>3. ASSUME NEW d \in Days
        PROVE  /\ IsFiniteSet(CountedIn(receipt, d))
               /\ Cardinality(CountedIn(receipt, d)) = 0
    <2>1. CountedIn(receipt, d) = {}
      BY <1>1 DEF CountedIn
    <2> QED BY <2>1, FS_EmptySet
  <1>4. Books(receipt, occupied, modelCalls)
    BY <1>1, <1>2, <1>3 DEF Books
  <1>5. \A k \in Keys : AgreeInv(k)
    BY <1>1 DEF AgreeInv, Held, IsActive, Active, NoPlan
  <1> QED BY <1>4, <1>5 DEF BooksInv

\* Every open reservation is in both totals.
LEMMA Covered ==
    ASSUME Inv, BooksInv, NEW k \in Keys, IsActive(k)
    PROVE  ReceiptValid(k)
  <1>1. /\ Held(k, "model_planning")
        /\ receipt[k].day = plan[k].day
        /\ receipt[k].budget = plan[k].budget
        /\ receipt[k].revision = plan[k].version
    BY DEF BooksInv, AgreeInv
  <1> DEFINE d == plan[k].day
             m == Currency[plan[k].budget]
  <1>2. receipt[k] \in Receipts
    BY <1>1 DEF Held, Inv, TypeInv
  <1>3. d \in Days /\ m \in Currencies /\ Cost[plan[k].budget] \in Nat
    BY <1>1, <1>2, BudgetAssumption DEF Receipts
  <1>4. modelCalls[d] >= 1
    <2>1. k \in CountedIn(receipt, d)
      BY <1>1 DEF CountedIn, Held, Inv, KeyInv, MoneyInv
    <2>2. /\ IsFiniteSet(CountedIn(receipt, d))
          /\ modelCalls[d] = Cardinality(CountedIn(receipt, d))
      BY <1>3 DEF BooksInv, Books
    <2>3. Cardinality(CountedIn(receipt, d)) # 0
      BY <2>1, <2>2, FS_EmptySet
    <2>4. Cardinality(CountedIn(receipt, d)) \in Nat
      BY <2>2, FS_CardinalityType
    <2> QED BY <2>2, <2>3, <2>4
  <1>5. occupied[d][m] >= Cost[plan[k].budget]
    <2> DEFINE f == KeptIn(receipt, d, m)
    <2>1. IsFiniteSet(UnitsOf(f)) /\ occupied[d][m] = SumOf(f)
      BY <1>3 DEF BooksInv, Books
    <2>2. f \in [Keys -> Nat]
      BY KeptType DEF BooksInv, Books
    <2>3. f[k] = Cost[plan[k].budget]
      BY <1>1 DEF KeptIn, Held, Occupies
    <2> HIDE DEF f, d, m
    <2>4. SumOf(f) \in Nat /\ f[k] <= SumOf(f)
      BY <2>1, <2>2, SumOfType
    <2> QED BY <1>3, <2>1, <2>3, <2>4
  <1> QED BY <1>1, <1>4, <1>5 DEF ReceiptValid

\* The money and the calls of a day are those of its requests, whatever a
\* transaction ends on its way, and no store call ever meets a request that
\* disagrees with its reservation (check_receipt, terminate, settle_kind).
THEOREM BooksAreExactHolds == Spec => []BooksAreExact
  <1>1. Inv /\ BooksInv /\ [Next]_vars => BooksInv'
    BY NextBooks
  <1>2. Init => BooksInv
    BY InitBooks
  <1>3. Inv /\ BooksInv => BooksAreExact
    <2> SUFFICES ASSUME Inv, BooksInv
                 PROVE  BooksAreExact
      OBVIOUS
    <2>1. LedgerExact
      BY DEF LedgerExact, BooksInv, Books, KeptOn, KeptIn
    <2>2. CallsExact
      BY DEF CallsExact, BooksInv, Books, CountedIn
    <2>3. ReceiptsAgree
      BY Covered DEF ReceiptsAgree, BooksInv, AgreeInv
    <2> QED BY <2>1, <2>2, <2>3 DEF BooksAreExact
  <1> QED BY <1>1, <1>2, <1>3, Invariance, PTL DEF Spec

\* Every variable keeps its type; the totals never become negative.
THEOREM TypeCorrect == Spec => []TypeOK
  <1> DEFINE Bound == faults \in 0 .. MaxFaults
  <1>1. Init => Bound
    BY PlanningAssumption DEF Init
  <1>2. Bound /\ [Next]_vars => Bound'
    <2> SUFFICES ASSUME Bound, [Next]_vars
                 PROVE  Bound'
      OBVIOUS
    <2>1. CASE UNCHANGED faults
      BY <2>1
    <2>2. CASE Fault
      BY <2>2, PlanningAssumption DEF Fault
    <2> QED
      BY <2>1, <2>2, ZenonT(60) DEF Next, vars, NewDay, Lapse, Cancel, Run, Claim, Recheck,
         CheckRevision, Verify, Refuse, Send, Answered, ContractViolation,
         PersistDisable, WriteStop, Finish, GiveUp, ReplyReserves, ReplySettles,
         PriceLapses, OperatorDisables, AppendMessage, DeleteConversation, Touch,
         Create, Call, Ready, HangUp, Approve, Start, Crash
  <1>3. Inv /\ BooksInv /\ Bound => TypeOK
    BY DEF Inv, TypeInv, TaskType, BooksInv, Books, MoneyTypeOK, TypeOK
  <1>4. Inv /\ BooksInv /\ [Next]_vars => BooksInv'
    BY NextBooks
  <1>5. Init => BooksInv
    BY InitBooks
  <1> QED BY <1>1, <1>2, <1>3, <1>4, <1>5, Invariance, PTL DEF Spec
=============================================================================

--------------------------- MODULE Replies_proofs ---------------------------
(***************************************************************************)
(* Proofs about module Replies, for every value of its constants.          *)
(***************************************************************************)
EXTENDS Replies, Sums_proofs, TLAPS

-----------------------------------------------------------------------------
(* The ledger operators. *)

\* A settlement never charges more than was reserved, and charges less only
\* before the dispatch or for a known usage (budget.rs settle).
LEMMA ChargeRange ==
    ASSUME NEW b \in Budgets, NEW before \in BOOLEAN,
           NEW usage \in Nat \union {None}
    PROVE  /\ Charge(b, before, usage) \in 0 .. Cost[b]
           /\ Settlement(b, before, usage) \in Settlements
           /\ ~before /\ usage = None => Charge(b, before, usage) = Cost[b]
           /\ ~before /\ usage # None /\ usage <= Cost[b]
                  => Charge(b, before, usage) = usage
  BY BudgetAssumption DEF Charge, Settlement, Settlements

\* Reserving keeps the ledger's types.
LEMMA ReserveType ==
    ASSUME MoneyTypeOK, NEW k \in Keys, NEW d \in Days, NEW r \in Revisions,
           NEW b \in Budgets, ReserveMoney(k, "reply", d, r, b)
    PROVE  MoneyTypeOK'
  <1>1. Currency[b] \in Currencies
    BY BudgetAssumption
  <1> QED
    BY <1>1, BudgetAssumption
    DEF MoneyTypeOK, ReserveMoney, Receipts, Kinds

\* Settling keeps the ledger's types and every reservation.
LEMMA SettleType ==
    ASSUME MoneyTypeOK, NEW k \in Keys, NEW before \in BOOLEAN,
           NEW usage \in Nat \union {None},
           SettleKind(k, "reply", before, usage)
    PROVE  /\ MoneyTypeOK'
           /\ \A j \in Keys : receipt[j] # None => receipt'[j] # None
  <1>1. CASE ~Held(k, "reply")
    BY <1>1 DEF SettleKind, MoneyTypeOK, moneyVars
  <1>2. CASE Held(k, "reply")
    <2> DEFINE row     == receipt[k]
               m       == Currency[row.budget]
               charged == Charge(row.budget, before, usage)
               settled == Settlement(row.budget, before, usage)
               refund  == Cost[row.budget] - charged
    <2>1. row \in Receipts
      BY <1>2 DEF Held, MoneyTypeOK
    <2>2. row.day \in Days /\ row.budget \in Budgets
      BY <2>1 DEF Receipts
    <2>3. m \in Currencies /\ Cost[row.budget] \in Nat
      BY <2>2, BudgetAssumption
    <2>4. charged \in 0 .. Cost[row.budget] /\ settled \in Settlements
      BY <2>2, ChargeRange
    <2>5. charged \in Nat /\ refund \in Nat
      BY <2>3, <2>4
    <2>6. /\ occupied[row.day][m] >= refund
          /\ receipt' = [receipt EXCEPT ![k].charged = charged,
                                        ![k].settlement = settled]
          /\ occupied' = [occupied EXCEPT ![row.day][m] = @ - refund]
      BY <1>2 DEF SettleKind
    <2> HIDE DEF charged, settled, refund, m
    <2>7. /\ receipt' \in [Keys -> Receipts \union {None}]
          /\ receipt'[k] \in Receipts
          /\ \A j \in Keys \ {k} : receipt'[j] = receipt[j]
      BY <2>1, <2>4, <2>5, <2>6 DEF MoneyTypeOK, Receipts
    <2>8. occupied' \in [Days -> [Currencies -> Nat]]
      BY <2>2, <2>3, <2>5, <2>6 DEF MoneyTypeOK
    <2> QED BY <2>7, <2>8, NullAssumption DEF MoneyTypeOK
  <1> QED BY <1>1, <1>2

-----------------------------------------------------------------------------
(* Type correctness. *)

Dispatch == {"recheck", "verify", "send", "wait", "disable", "finish"}
Holding == Dispatch \union {"sleep"}

\* What the place of a process says of the rest of its state.
PlaceOK(p) ==
    /\ p.pc # "down" => p.deployment \in Deployments
    /\ p.pc \in Dispatch \union {"scan", "paid"} => p.deployment.mode = "openai"
    /\ p.halted => p.pc # "down" /\ p.deployment.mode = "openai"
    /\ p.pc \in Holding => p.item \in Keys
    /\ p.pc \notin Holding => p.item = None
    /\ p.pc = "finish" => p.outcome \in Outcomes

\* The types are inductive only together with it, and with the reservation
\* that every dispatched reply has.
ProcessOK ==
    \A s \in Servers :
        /\ PlaceOK(server[s])
        /\ server[s].pc \in Dispatch => receipt[server[s].item] # None

TypeInv == TypeOK /\ ProcessOK

\* Two facts about a paid deployment that most steps of an executor need.
LEMMA PaidDeployment ==
    ASSUME TypeInv, NEW s \in Servers, server[s].pc # "down", Paid(s)
    PROVE  /\ server[s].deployment.revision \in Revisions
           /\ server[s].deployment.budget \in Budgets
  BY DeploymentAssumption DEF TypeInv, ProcessOK, PlaceOK, Paid

\* Ending a reply keeps the types, and no reservation disappears.
LEMMA EndReplyType ==
    ASSUME TypeOK, NEW k \in Keys, NEW status \in Statuses,
           NEW usage \in Nat \union {None}, EndReply(k, status, usage)
    PROVE  /\ reply' \in [Keys -> ReplyRows]
           /\ MoneyTypeOK'
           /\ \A j \in Keys : receipt[j] # None => receipt'[j] # None
  <1>1. SettleKind(k, "reply", Queued(k), usage)
    BY DEF EndReply
  <1>2. Queued(k) \in BOOLEAN
    BY DEF Queued
  <1>3. /\ MoneyTypeOK'
        /\ \A j \in Keys : receipt[j] # None => receipt'[j] # None
    BY <1>1, <1>2, SettleType DEF TypeOK
  <1>4. reply' \in [Keys -> ReplyRows]
    <2>1. reply' = [reply EXCEPT ![k].status = status,
                                 ![k].configuration = None,
                                 ![k].output = (status = "succeeded")]
      BY DEF EndReply
    <2>2. reply[k] \in ReplyRows
      BY DEF TypeOK
    <2>3. reply'[k] = [reply[k] EXCEPT !.status = status,
                           !.configuration = None,
                           !.output = (status = "succeeded")]
      BY <2>1 DEF TypeOK
    <2>4. reply'[k] \in ReplyRows
      BY <2>2, <2>3 DEF ReplyRows
    <2> QED
      BY <2>1, <2>4 DEF TypeOK
  <1> QED BY <1>3, <1>4

\* What the store changes of a reply leave well typed.
StoreOK ==
    /\ reply \in [Keys -> ReplyRows]
    /\ MoneyTypeOK

LEMMA ExpireType ==
    ASSUME TypeOK, NEW k \in Keys, Expire(k)
    PROVE  /\ StoreOK'
           /\ \A j \in Keys : receipt[j] # None => receipt'[j] # None
  BY EndReplyType
  DEF Expire, StoreOK, TypeOK, MoneyTypeOK, moneyVars, Statuses

LEMMA FinishReplyType ==
    ASSUME TypeOK, NEW k \in Keys, NEW outcome \in Outcomes,
           NEW usage \in Nat \union {None}, FinishReply(k, outcome, usage)
    PROVE  /\ StoreOK'
           /\ \A j \in Keys : receipt[j] # None => receipt'[j] # None
  <1> DEFINE kept == IF outcome = "succeeded" THEN usage ELSE None
  <1>1. kept \in Nat \union {None} /\ outcome \in Statuses
           /\ "unknown" \in Statuses
    BY DEF Outcomes, Statuses
  <1>2. CASE UNCHANGED <<reply, moneyVars>>
    BY <1>2 DEF StoreOK, TypeOK, MoneyTypeOK, moneyVars
  <1>3. CASE EndReply(k, "unknown", None)
    BY <1>3, <1>1, EndReplyType DEF StoreOK
  <1>4. CASE EndReply(k, outcome, kept)
    BY <1>4, <1>1, EndReplyType DEF StoreOK
  <1> QED BY <1>2, <1>3, <1>4 DEF FinishReply

LEMMA TypeInit == Init => TypeInv
  <1> SUFFICES ASSUME Init PROVE TypeInv
    OBVIOUS
  <1>1. MoneyTypeOK
    BY BudgetAssumption DEF Init, MoneyInit, MoneyTypeOK
  <1>2. NoReply \in ReplyRows
    BY BudgetAssumption DEF NoReply, ReplyRows, Statuses, Days
  <1>3. Down \in Processes
    BY DEF Down, Processes, Places
  <1>4. TypeOK
    BY <1>1, <1>2, <1>3, BudgetAssumption, QuotaAssumption
    DEF Init, TypeOK, Days, Registrations
  <1>5. ProcessOK
    BY DEF Init, ProcessOK, PlaceOK, Down, Dispatch, Holding
  <1> QED BY <1>4, <1>5 DEF TypeInv

\* A step that leaves the processes alone and drops no reservation keeps
\* ProcessOK.
LEMMA ProcessFrame ==
    ASSUME ProcessOK, server' = server,
           \A j \in Keys : receipt[j] # None => receipt'[j] # None
    PROVE  ProcessOK'
  BY DEF ProcessOK, PlaceOK, Dispatch, Holding

\* Time, users and operators.
LEMMA TypeEnvironment ==
    ASSUME TypeInv,
           \/ NextDay
           \/ \E k \in Keys : LeaseLapses(k) \/ Cancel(k)
           \/ \E r \in Revisions : PriceLapses(r) \/ OperatorDisables(r)
           \/ \E c \in Conversations : AppendMessage(c) \/ DeleteConversation(c)
           \/ \E s \in Servers, k \in Keys : CreatePaid(s, k) \/ CreateFixture(s, k)
    PROVE  TypeInv'
  <1> USE DEF TypeInv
  <1>1. CASE NextDay
    <2>1. day' \in Days
      BY <1>1, BudgetAssumption DEF NextDay, TypeOK, Days
    <2> QED
      BY <1>1, <2>1, ProcessFrame
      DEF NextDay, TypeOK, MoneyTypeOK, dbVars, seenVars
  <1>2. ASSUME NEW k \in Keys, LeaseLapses(k) PROVE TypeInv'
    <2>1. reply' \in [Keys -> ReplyRows]
      BY <1>2 DEF LeaseLapses, TypeOK, ReplyRows
    <2> QED
      BY <1>2, <2>1, ProcessFrame
      DEF LeaseLapses, TypeOK, MoneyTypeOK, moneyVars, seenVars
  <1>3. ASSUME NEW k \in Keys, Cancel(k) PROVE TypeInv'
    <2>1. /\ reply' \in [Keys -> ReplyRows] /\ MoneyTypeOK'
          /\ \A j \in Keys : receipt[j] # None => receipt'[j] # None
      BY <1>3, EndReplyType DEF Cancel, Statuses
    <2>2. reserved' \in [Days -> Nat]
      BY <1>3 DEF Cancel, ReturnCount, TypeOK, ReplyRows
    <2> QED
      BY <1>3, <2>1, <2>2, ProcessFrame DEF Cancel, TypeOK, seenVars
  <1>4. ASSUME NEW r \in Revisions, PriceLapses(r) \/ OperatorDisables(r)
        PROVE  TypeInv'
    <2>1. config' \in [Revisions -> Registrations]
      BY <1>4, ZenonT(60) DEF PriceLapses, OperatorDisables, TypeOK, Registrations
    <2> QED
      BY <1>4, <2>1, ProcessFrame
      DEF PriceLapses, OperatorDisables, TypeOK, MoneyTypeOK, moneyVars, seenVars
  <1>5. ASSUME NEW c \in Conversations, AppendMessage(c) PROVE TypeInv'
    BY <1>5, ProcessFrame
    DEF AppendMessage, TypeOK, MoneyTypeOK, moneyVars, seenVars
  <1>6. ASSUME NEW c \in Conversations, DeleteConversation(c) PROVE TypeInv'
    <2>1. /\ MoneyTypeOK'
          /\ reserved' \in [Days -> Nat]
          /\ \A j \in Keys : receipt[j] # None => receipt'[j] # None
      <3>1. CASE UNCHANGED <<reserved, moneyVars>>
        BY <3>1 DEF TypeOK, MoneyTypeOK, moneyVars
      <3>2. ASSUME NEW k \in Keys, ReturnCount(k),
                   SettleKind(k, "reply", Queued(k), None)
            PROVE  /\ MoneyTypeOK'
                   /\ reserved' \in [Days -> Nat]
                   /\ \A j \in Keys : receipt[j] # None => receipt'[j] # None
        <4>1. Queued(k) \in BOOLEAN
          BY DEF Queued
        <4>2. reserved' \in [Days -> Nat]
          BY <3>2 DEF ReturnCount, TypeOK, ReplyRows
        <4> QED BY <3>2, <4>1, <4>2, SettleType DEF TypeOK
      <3> QED BY <1>6, <3>1, <3>2 DEF DeleteConversation
    <2>2. reply' \in [Keys -> ReplyRows]
      <3> DEFINE ended(j, a) == [reply[j] EXCEPT !.configuration = None,
                                    !.output = FALSE, !.status = a]
      <3>1. \A j \in Keys, a \in Statuses : ended(j, a) \in ReplyRows
        BY DEF TypeOK, ReplyRows
      <3>2. \A j \in Keys : reply[j].status \in Statuses
        BY DEF TypeOK, ReplyRows
      <3>3. reply' = [j \in Keys |->
                IF j \in {k \in Keys : k[1] = c}
                THEN ended(j, IF j \in {k \in {i \in Keys : i[1] = c} : IsActive(k)}
                              THEN "cancelled" ELSE reply[j].status)
                ELSE reply[j]]
        BY <1>6 DEF DeleteConversation
      <3>4. "cancelled" \in Statuses
        BY DEF Statuses
      <3> HIDE DEF ended
      <3> QED BY <3>1, <3>2, <3>3, <3>4 DEF TypeOK
    <2>3. conversation' \in [Conversations -> [deleted: BOOLEAN, revision: Nat]]
      <3> DEFINE gone == [deleted |-> TRUE,
                          revision |-> conversation[c].revision + 1]
      <3>1. gone \in [deleted: BOOLEAN, revision: Nat]
        BY DEF TypeOK
      <3>2. conversation' = [conversation EXCEPT ![c] = gone]
        BY <1>6 DEF DeleteConversation
      <3> HIDE DEF gone
      <3> QED BY <3>1, <3>2 DEF TypeOK
    <2> QED
      BY <1>6, <2>1, <2>2, <2>3, ProcessFrame
      DEF DeleteConversation, TypeOK, seenVars
  <1>7. ASSUME NEW k \in Keys, NEW f \in Configurations, InsertReply(k, f)
        PROVE  reply' \in [Keys -> ReplyRows] /\ reserved' \in [Days -> Nat]
    <2>1. k[1] \in Conversations
      BY DEF Keys
    <2>2. conversation[k[1]].revision \in Nat
      BY <2>1 DEF TypeOK
    <2> DEFINE new == [NoReply EXCEPT !.status = "queued", !.day = day,
                          !.revision = conversation[k[1]].revision,
                          !.configuration = f]
    <2>3. new \in ReplyRows
      BY <2>2 DEF NoReply, ReplyRows, TypeOK, Statuses
    <2>4. reply' = [reply EXCEPT ![k] = new]
          /\ reserved' = [reserved EXCEPT ![day] = @ + 1]
      BY <1>7 DEF InsertReply
    <2> HIDE DEF new
    <2> QED BY <2>3, <2>4 DEF TypeOK
  <1>8. ASSUME NEW s \in Servers, NEW k \in Keys, CreatePaid(s, k)
        PROVE  TypeInv'
    <2> DEFINE d == server[s].deployment
    <2>1. d.revision \in Revisions /\ d.budget \in Budgets
      BY <1>8, PaidDeployment DEF CreatePaid, Paid
    <2>2. MoneyTypeOK'
      BY <1>8, <2>1, ReserveType DEF CreatePaid, TypeOK
    <2>3. reply' \in [Keys -> ReplyRows] /\ reserved' \in [Days -> Nat]
      BY <1>8, <1>7, <2>1 DEF CreatePaid, Configurations
    <2>4. receipt'[k] # None
      <3>1. receipt'[k] = [kind |-> "reply", day |-> day,
                revision |-> d.revision, budget |-> d.budget,
                charged |-> None, settlement |-> None]
        BY <1>8 DEF CreatePaid, ReserveMoney, TypeOK, MoneyTypeOK
      <3>2. receipt'[k] \in Receipts
        BY <3>1, <2>1 DEF Receipts, TypeOK, Kinds
      <3> QED BY <3>2, NullAssumption
    <2>5. \A j \in Keys : receipt[j] # None => receipt'[j] # None
      BY <1>8, <2>4 DEF CreatePaid, ReserveMoney, TypeOK, MoneyTypeOK
    <2> QED
      BY <1>8, <2>2, <2>3, <2>5, ProcessFrame DEF CreatePaid, TypeOK, seenVars
  <1>9. ASSUME NEW s \in Servers, NEW k \in Keys, CreateFixture(s, k)
        PROVE  TypeInv'
    BY <1>9, <1>7, ProcessFrame
    DEF CreateFixture, TypeOK, MoneyTypeOK, moneyVars, seenVars, Configurations
  <1> QED BY <1>1, <1>2, <1>3, <1>4, <1>5, <1>6, <1>8, <1>9

\* A step that gives one server a new process state p keeps the processes
\* well typed if p is.
LEMMA ServerStep ==
    ASSUME TypeInv, NEW s \in Servers, NEW p \in Processes, PlaceOK(p),
           server' = [server EXCEPT ![s] = p],
           \A j \in Keys : receipt[j] # None => receipt'[j] # None,
           p.pc \in Dispatch => receipt'[p.item] # None
    PROVE  server' \in [Servers -> Processes] /\ ProcessOK'
  <1>1. server' \in [Servers -> Processes]
    BY DEF TypeInv, TypeOK
  <1>2. ASSUME NEW t \in Servers
        PROVE  /\ PlaceOK(server'[t])
               /\ server'[t].pc \in Dispatch => receipt'[server'[t].item] # None
    <2>1. CASE t = s
      BY <2>1 DEF TypeInv, TypeOK
    <2>2. CASE t # s
      <3>1. server'[t] = server[t]
        BY <2>2 DEF TypeInv, TypeOK
      <3>2. /\ PlaceOK(server[t])
            /\ server[t].pc \in Dispatch =>
                   server[t].item \in Keys /\ receipt[server[t].item] # None
        BY DEF TypeInv, ProcessOK, PlaceOK, Dispatch, Holding
      <3> QED BY <3>1, <3>2
    <2> QED BY <2>1, <2>2
  <1>3. ProcessOK'
    BY <1>2 DEF ProcessOK, PlaceOK
  <1> QED BY <1>1, <1>3

\* The ways in which an executor goes on.
LEMMA GotoType ==
    ASSUME TypeInv, NEW s \in Servers, NEW pc \in Places, Goto(s, pc),
           \A j \in Keys : receipt[j] # None => receipt'[j] # None,
           \/ pc \in Dispatch \ {"finish"} /\ server[s].pc \in Dispatch
           \/ pc = "scan" /\ server[s].pc = "generic" /\ Paid(s)
    PROVE  server' \in [Servers -> Processes] /\ ProcessOK'
  <1> DEFINE p == [server[s] EXCEPT !.pc = pc]
  <1>1. server[s] \in Processes /\ PlaceOK(server[s])
           /\ (server[s].pc \in Dispatch =>
                   server[s].item \in Keys /\ receipt[server[s].item] # None)
    BY DEF TypeInv, TypeOK, ProcessOK, PlaceOK, Dispatch, Holding
  <1>2. p \in Processes /\ PlaceOK(p)
           /\ (p.pc \in Dispatch => receipt'[p.item] # None)
    BY <1>1 DEF Processes, PlaceOK, Paid, Dispatch, Holding
  <1>3. server' = [server EXCEPT ![s] = p]
    BY DEF Goto
  <1> HIDE DEF p
  <1> QED BY <1>2, <1>3, ServerStep

LEMMA ReturnType ==
    ASSUME TypeInv, NEW s \in Servers, NEW pc \in Places, Return(s, pc),
           \A j \in Keys : receipt[j] # None => receipt'[j] # None,
           \/ pc = "paid" /\ server[s].pc \in Dispatch
           \/ pc = "generic" /\ server[s].pc = "sleep"
    PROVE  server' \in [Servers -> Processes] /\ ProcessOK'
  <1> DEFINE p == [server[s] EXCEPT !.pc = pc, !.item = None,
                                    !.outcome = None, !.usage = None]
  <1>1. server[s] \in Processes /\ PlaceOK(server[s])
           /\ (server[s].pc \in Dispatch => Paid(s))
    BY DEF TypeInv, TypeOK, ProcessOK, PlaceOK, Paid
  <1>2. p \in Processes /\ PlaceOK(p) /\ p.pc \notin Dispatch
    BY <1>1 DEF Processes, PlaceOK, Paid, Dispatch, Holding
  <1>3. server' = [server EXCEPT ![s] = p]
    BY DEF Return
  <1> HIDE DEF p
  <1> QED BY <1>2, <1>3, ServerStep

LEMMA FinishWithType ==
    ASSUME TypeInv, NEW s \in Servers, NEW outcome \in Outcomes,
           FinishWith(s, outcome), server[s].pc \in Dispatch,
           \A j \in Keys : receipt[j] # None => receipt'[j] # None
    PROVE  server' \in [Servers -> Processes] /\ ProcessOK'
  <1> DEFINE p == [server[s] EXCEPT !.pc = "finish", !.outcome = outcome]
  <1>1. server[s] \in Processes /\ PlaceOK(server[s])
           /\ server[s].item \in Keys /\ receipt[server[s].item] # None
    BY DEF TypeInv, TypeOK, ProcessOK, PlaceOK, Dispatch, Holding
  <1>2. p \in Processes /\ PlaceOK(p) /\ receipt'[p.item] # None
    BY <1>1 DEF Processes, PlaceOK, Places, Dispatch, Holding
  <1>3. server' = [server EXCEPT ![s] = p]
    BY DEF FinishWith
  <1> HIDE DEF p
  <1> QED BY <1>2, <1>3, ServerStep

LEMMA TakeBatchType ==
    ASSUME TypeInv, NEW s \in Servers, NEW pc \in {"paid", "generic"},
           NEW batch \in SUBSET (Keys \X Active), TakeBatch(s, pc, batch),
           server[s].pc \in {"scan", "paid", "generic"},
           pc = "paid" => Paid(s),
           \A j \in Keys : receipt[j] # None => receipt'[j] # None
    PROVE  server' \in [Servers -> Processes] /\ ProcessOK'
  <1> DEFINE p == [server[s] EXCEPT !.pc = pc, !.batch = batch]
  <1>1. server[s] \in Processes /\ PlaceOK(server[s])
    BY DEF TypeInv, TypeOK, ProcessOK
  <1>2. p \in Processes /\ PlaceOK(p) /\ p.pc \notin Dispatch
    BY <1>1 DEF Processes, PlaceOK, Places, Paid, Dispatch, Holding
  <1>3. server' = [server EXCEPT ![s] = p]
    BY DEF TakeBatch
  <1> HIDE DEF p
  <1> QED BY <1>2, <1>3, ServerStep

LEMMA DropType ==
    ASSUME TypeInv, NEW s \in Servers, NEW i, Drop(s, i),
           \A j \in Keys : receipt[j] # None => receipt'[j] # None
    PROVE  server' \in [Servers -> Processes] /\ ProcessOK'
  <1> DEFINE p == [server[s] EXCEPT !.batch = @ \ {i}]
  <1>1. server[s] \in Processes /\ PlaceOK(server[s])
           /\ (server[s].pc \in Dispatch =>
                   server[s].item \in Keys /\ receipt[server[s].item] # None)
    BY DEF TypeInv, TypeOK, ProcessOK, PlaceOK, Dispatch, Holding
  <1>2. p \in Processes /\ PlaceOK(p)
           /\ (p.pc \in Dispatch => receipt'[p.item] # None)
    BY <1>1 DEF Processes, PlaceOK, Dispatch, Holding
  <1>3. server' = [server EXCEPT ![s] = p]
    BY DEF Drop
  <1> HIDE DEF p
  <1> QED BY <1>2, <1>3, ServerStep

\* The steps of the process of one server.
LEMMA TypeExecutor ==
    ASSUME TypeInv, NEW s \in Servers,
           Running(s) \/ Crash(s) \/ (\E d \in Deployments : Start(s, d))
    PROVE  TypeInv'
  <1> USE DEF TypeInv
  <1>a. /\ server[s] \in Processes /\ PlaceOK(server[s])
        /\ server[s].pc \in Dispatch =>
               /\ server[s].item \in Keys
               /\ receipt[server[s].item] \in Receipts
               /\ Paid(s)
    BY DEF TypeOK, MoneyTypeOK, ProcessOK, PlaceOK, Paid, Dispatch, Holding
  <1>b. ASSUME server[s].pc # "down", Paid(s),
               config' = [config EXCEPT
                   ![server[s].deployment.revision].disabled = TRUE]
        PROVE  config' \in [Revisions -> Registrations]
    BY <1>b, PaidDeployment DEF TypeOK, Registrations
  <1>c. Fault => faults' \in 0 .. MaxFaults
    BY QuotaAssumption DEF Fault, TypeOK
  <1>1. ASSUME NEW d \in Deployments, Start(s, d) PROVE TypeInv'
    <2>1. config' \in [Revisions -> Registrations]
      <3>1. CASE UNCHANGED config
        BY <3>1 DEF TypeOK
      <3>2. CASE config' = [config EXCEPT ![d.revision].budget = d.budget]
                 /\ d.mode = "openai"
        BY <3>2, DeploymentAssumption DEF TypeOK, Registrations
      <3> QED BY <1>1, <3>1, <3>2 DEF Start, Register
    <2> DEFINE p == [Down EXCEPT !.pc = "generic", !.deployment = d]
    <2>2. p \in Processes /\ PlaceOK(p) /\ p.pc \notin Dispatch
      BY DEF Down, Processes, Places, PlaceOK, Dispatch, Holding
    <2>3. server' = [server EXCEPT ![s] = p]
      BY <1>1 DEF Start
    <2> HIDE DEF p
    <2>4. server' \in [Servers -> Processes] /\ ProcessOK'
      BY <1>1, <2>2, <2>3, ServerStep DEF Start, moneyVars
    <2> QED
      BY <1>1, <2>1, <2>4 DEF Start, TypeOK, MoneyTypeOK, moneyVars, seenVars
  <1>2. CASE Crash(s)
    <2>1. Down \in Processes /\ PlaceOK(Down) /\ Down.pc \notin Dispatch
      BY DEF Down, Processes, Places, PlaceOK, Dispatch, Holding
    <2>2. server' \in [Servers -> Processes] /\ ProcessOK'
      BY <1>2, <2>1, ServerStep DEF Crash, dbVars
    <2> QED
      BY <1>2, <1>c, <2>2 DEF Crash, TypeOK, MoneyTypeOK, dbVars, seenVars
  <1>3. CASE RetryDisable(s)
    <2>1. server' \in [Servers -> Processes] /\ ProcessOK'
      BY <1>3, GotoType DEF RetryDisable, BetweenTicks, At, Places, moneyVars
    <2> QED
      BY <1>3, <1>b, <1>c, <2>1
      DEF RetryDisable, BetweenTicks, At, TypeOK, MoneyTypeOK, moneyVars, seenVars
  <1>4. CASE ScanPaid(s)
    <2>1. PendingPaid(s) \subseteq Keys \X Active
      BY DEF PendingPaid, Pending, Queued, Overdue, Active
    <2>2. \E batch \in SUBSET (Keys \X Active) : TakeBatch(s, "paid", batch)
      BY <1>4, <2>1 DEF ScanPaid, Scanned
    <2>3. server' \in [Servers -> Processes] /\ ProcessOK'
      BY <1>4, <1>a, <2>2, TakeBatchType
      DEF ScanPaid, BetweenTicks, At, dbVars, PlaceOK, Paid
    <2> QED
      BY <1>4, <1>c, <2>3 DEF ScanPaid, TypeOK, MoneyTypeOK, dbVars, seenVars
  <1>5. CASE ScanAll(s)
    <2>1. PendingAll \subseteq Keys \X Active
      BY DEF PendingAll, Pending, Queued, Overdue, Active
    <2>2. \E batch \in SUBSET (Keys \X Active) : TakeBatch(s, "generic", batch)
      BY <1>5, <2>1 DEF ScanAll, Scanned
    <2>3. server' \in [Servers -> Processes] /\ ProcessOK'
      BY <1>5, <2>2, TakeBatchType DEF ScanAll, BetweenTicks, At, dbVars
    <2> QED
      BY <1>5, <1>c, <2>3 DEF ScanAll, TypeOK, MoneyTypeOK, dbVars, seenVars
  <1>6. CASE ExpireItem(s)
    <2>1. PICK i \in server[s].batch :
              /\ \/ Expire(i[1]) \/ UNCHANGED <<reply, moneyVars>>
              /\ Drop(s, i)
      BY <1>6 DEF ExpireItem
    <2>2. i[1] \in Keys
      BY <1>a, <2>1 DEF Processes
    <2>3. StoreOK' /\ \A j \in Keys : receipt[j] # None => receipt'[j] # None
      BY <2>1, <2>2, ExpireType
      DEF StoreOK, TypeOK, MoneyTypeOK, moneyVars
    <2>4. server' \in [Servers -> Processes] /\ ProcessOK'
      BY <2>1, <2>3, DropType
    <2>5. faults' \in 0 .. MaxFaults
      BY <1>6, <1>c DEF ExpireItem, TypeOK
    <2>6. UNCHANGED <<day, conversation, reserved, config, sends, billed>>
      BY <1>6 DEF ExpireItem, seenVars
    <2> QED
      BY <2>3, <2>4, <2>5, <2>6 DEF TypeOK, StoreOK
  <1>d. ASSUME NEW k \in Keys, TakeReply(k)
        PROVE  reply' \in [Keys -> ReplyRows]
    <2> DEFINE taken == [reply[k] EXCEPT !.status = "dispatching",
                                         !.lease = "running"]
    <2>1. taken \in ReplyRows
      BY DEF TypeOK, ReplyRows, Statuses
    <2>2. reply' = [reply EXCEPT ![k] = taken]
      BY <1>d DEF TakeReply
    <2> HIDE DEF taken
    <2> QED BY <2>1, <2>2 DEF TypeOK
  <1>8. CASE SkipPaid(s)
    <2>1. server' \in [Servers -> Processes] /\ ProcessOK'
      BY <1>8, DropType DEF SkipPaid, dbVars
    <2> QED
      BY <1>8, <1>c, <2>1 DEF SkipPaid, TypeOK, MoneyTypeOK, dbVars, seenVars
  <1>9. CASE Recheck(s)
    <2> DEFINE k == server[s].item
    <2>1. k \in Keys /\ server[s].pc = "recheck" /\ server[s].pc \in Dispatch
      BY <1>9, <1>a DEF Recheck, At, Dispatch
    <2>2. StoreOK' /\ \A j \in Keys : receipt[j] # None => receipt'[j] # None
      BY <1>9, <2>1, ExpireType
      DEF Recheck, StoreOK, TypeOK, MoneyTypeOK, moneyVars
    <2>3. Goto(s, "verify") \/ Return(s, "paid")
      BY <1>9 DEF Recheck
    <2>4. server' \in [Servers -> Processes] /\ ProcessOK'
      BY <2>1, <2>2, <2>3, GotoType, ReturnType DEF Places, Dispatch
    <2> QED
      BY <1>9, <1>c, <2>2, <2>4 DEF Recheck, TypeOK, StoreOK, seenVars
  <1>10. CASE Verify(s)
    <2>1. server' \in [Servers -> Processes] /\ ProcessOK'
      BY <1>10, GotoType, FinishWithType
      DEF Verify, At, Places, Dispatch, Outcomes, dbVars
    <2> QED
      BY <1>10, <1>c, <2>1 DEF Verify, TypeOK, MoneyTypeOK, dbVars, seenVars
  <1>11. CASE Send(s)
    <2>1. server' \in [Servers -> Processes] /\ ProcessOK'
      BY <1>11, GotoType DEF Send, At, Places, Dispatch, dbVars
    <2>2. server[s].item \in Keys /\ Cost[receipt[server[s].item].budget] \in Nat
      BY <1>11, <1>a, BudgetAssumption DEF Send, At, Dispatch, Receipts
    <2>3. sends' \in [Keys -> Nat] /\ billed' \in [Keys -> Nat]
      BY <1>11, <2>2 DEF Send, TypeOK
    <2> QED
      BY <1>11, <2>1, <2>3 DEF Send, TypeOK, MoneyTypeOK, dbVars
  <1>12. CASE Answered(s)
    <2> DEFINE p(u) == [server[s] EXCEPT !.pc = "finish",
                            !.outcome = "succeeded", !.usage = u]
    <2>1. server[s].pc = "wait" /\ server[s].pc \in Dispatch
      BY <1>12 DEF Answered, At, Dispatch
    <2>2. Usages(server[s].item) \subseteq Nat \union {None}
      BY <1>a, <2>1 DEF Usages, TypeOK
    <2>3. \A u \in Nat \union {None} :
              p(u) \in Processes /\ PlaceOK(p(u)) /\ p(u).item = server[s].item
      BY <1>a, <2>1 DEF Processes, Places, PlaceOK, Outcomes, Holding, Dispatch
    <2>4. \/ \E u \in Nat \union {None} : server' = [server EXCEPT ![s] = p(u)]
          \/ \E o \in Outcomes : FinishWith(s, o)
      BY <1>12, <2>2 DEF Answered, Outcomes
    <2>5. receipt' = receipt
      BY <1>12 DEF Answered, dbVars
    <2> HIDE DEF p
    <2>6. server' \in [Servers -> Processes] /\ ProcessOK'
      <3>1. ASSUME NEW u \in Nat \union {None},
                   server' = [server EXCEPT ![s] = p(u)]
            PROVE  server' \in [Servers -> Processes] /\ ProcessOK'
        <4>1. receipt'[p(u).item] # None
          BY <1>a, <2>1, <2>3, <2>5, NullAssumption
        <4> QED BY <3>1, <4>1, <2>3, <2>5, ServerStep
      <3>2. ASSUME NEW o \in Outcomes, FinishWith(s, o)
            PROVE  server' \in [Servers -> Processes] /\ ProcessOK'
        BY <3>2, <2>1, <2>5, FinishWithType
      <3> QED BY <2>4, <3>1, <3>2
    <2> QED
      BY <1>12, <2>6 DEF Answered, TypeOK, MoneyTypeOK, dbVars, seenVars
  <1>13. CASE ContractViolation(s)
    <2> DEFINE p == [server[s] EXCEPT !.pc = "disable", !.halted = TRUE]
    <2>1. server[s].pc = "wait" /\ server[s].pc \in Dispatch
      BY <1>13 DEF ContractViolation, At, Dispatch
    <2>2. p \in Processes /\ PlaceOK(p) /\ receipt[p.item] # None
      BY <1>a, <2>1, NullAssumption
      DEF Processes, Places, PlaceOK, Holding, Dispatch, Paid
    <2>3. server' = [server EXCEPT ![s] = p] /\ receipt' = receipt
      BY <1>13 DEF ContractViolation, dbVars
    <2> HIDE DEF p
    <2>4. server' \in [Servers -> Processes] /\ ProcessOK'
      BY <2>2, <2>3, ServerStep
    <2> QED
      BY <1>13, <2>4
      DEF ContractViolation, TypeOK, MoneyTypeOK, dbVars, seenVars
  <1>14. CASE PersistDisable(s)
    <2>1. server' \in [Servers -> Processes] /\ ProcessOK'
      BY <1>14, FinishWithType
      DEF PersistDisable, At, Dispatch, Outcomes, moneyVars
    <2>2. server[s].pc # "down" /\ Paid(s)
      BY <1>14, <1>a DEF PersistDisable, At, Dispatch
    <2> QED
      BY <1>14, <1>b, <1>c, <2>1, <2>2
      DEF PersistDisable, TypeOK, MoneyTypeOK, moneyVars, seenVars
  <1>15. CASE Finish(s)
    <2> DEFINE k == server[s].item
    <2>1. /\ k \in Keys /\ server[s].pc \in Dispatch
          /\ server[s].outcome \in Outcomes
          /\ server[s].usage \in Nat \union {None}
      BY <1>15, <1>a DEF Finish, At, Dispatch, PlaceOK, Processes
    <2>2. StoreOK' /\ \A j \in Keys : receipt[j] # None => receipt'[j] # None
      BY <1>15, <2>1, FinishReplyType
      DEF Finish, StoreOK, TypeOK, MoneyTypeOK, moneyVars
    <2>3. server' \in [Servers -> Processes] /\ ProcessOK'
      BY <1>15, <2>1, <2>2, ReturnType DEF Finish, Places
    <2> QED
      BY <1>15, <1>c, <2>2, <2>3 DEF Finish, TypeOK, StoreOK, seenVars
  <1>17. CASE SkipGeneric(s)
    <2>1. server' \in [Servers -> Processes] /\ ProcessOK'
      BY <1>17, DropType DEF SkipGeneric, dbVars
    <2> QED
      BY <1>17, <1>c, <2>1 DEF SkipGeneric, TypeOK, MoneyTypeOK, dbVars, seenVars
  <1>18. CASE FinishFixture(s)
    <2> DEFINE k == server[s].item
    <2>1. k \in Keys /\ server[s].pc = "sleep"
      BY <1>18, <1>a DEF FinishFixture, At, PlaceOK, Holding
    <2>2. StoreOK' /\ \A j \in Keys : receipt[j] # None => receipt'[j] # None
      BY <1>18, <2>1, FinishReplyType
      DEF FinishFixture, StoreOK, TypeOK, MoneyTypeOK, moneyVars, Outcomes
    <2>3. server' \in [Servers -> Processes] /\ ProcessOK'
      BY <1>18, <2>1, <2>2, ReturnType DEF FinishFixture, Places
    <2> QED
      BY <1>18, <1>c, <2>2, <2>3 DEF FinishFixture, TypeOK, StoreOK, seenVars
  <1>7. CASE Claim(s)
    <2>1. PICK i \in server[s].batch :
              /\ Claimable(s, i[1])
              /\ TakeReply(i[1])
              /\ \/ server' = [server EXCEPT ![s].pc = "recheck",
                        ![s].item = i[1], ![s].batch = @ \ {i}]
                 \/ Drop(s, i)
      BY <1>7 DEF Claim
    <2> DEFINE p == [server[s] EXCEPT !.pc = "recheck", !.item = i[1],
                                      !.batch = @ \ {i}]
    <2>2. i[1] \in Keys
      BY <1>a, <2>1 DEF Processes
    <2>3. /\ server[s].pc = "paid" /\ receipt' = receipt
          /\ receipt[i[1]] # None
      BY <1>7, <2>1 DEF Claim, At, moneyVars, Claimable, Held
    <2>4. p \in Processes /\ PlaceOK(p) /\ receipt'[p.item] # None
      BY <1>a, <2>2, <2>3
      DEF Processes, Places, PlaceOK, Holding, Dispatch
    <2>5. server' = [server EXCEPT ![s] = p] \/ Drop(s, i)
      BY <2>1
    <2> HIDE DEF p
    <2>6. server' \in [Servers -> Processes] /\ ProcessOK'
      BY <2>3, <2>4, <2>5, ServerStep, DropType
    <2> QED
      BY <1>7, <1>c, <1>d, <2>1, <2>2, <2>6
      DEF Claim, TypeOK, MoneyTypeOK, moneyVars, seenVars
  <1>16. CASE ClaimFixture(s)
    <2>1. PICK i \in server[s].batch :
              /\ TakeReply(i[1])
              /\ \/ server' = [server EXCEPT ![s].pc = "sleep",
                        ![s].item = i[1], ![s].batch = @ \ {i}]
                 \/ Drop(s, i)
      BY <1>16 DEF ClaimFixture
    <2> DEFINE p == [server[s] EXCEPT !.pc = "sleep", !.item = i[1],
                                      !.batch = @ \ {i}]
    <2>2. i[1] \in Keys
      BY <1>a, <2>1 DEF Processes
    <2>3. server[s].pc = "generic" /\ receipt' = receipt
      BY <1>16 DEF ClaimFixture, At, moneyVars
    <2>4. p \in Processes /\ PlaceOK(p) /\ p.pc \notin Dispatch
      BY <1>a, <2>2, <2>3
      DEF Processes, Places, PlaceOK, Holding, Dispatch
    <2>5. server' = [server EXCEPT ![s] = p] \/ Drop(s, i)
      BY <2>1
    <2> HIDE DEF p
    <2>6. server' \in [Servers -> Processes] /\ ProcessOK'
      BY <2>3, <2>4, <2>5, ServerStep, DropType
    <2> QED
      BY <1>16, <1>c, <1>d, <2>1, <2>2, <2>6
      DEF ClaimFixture, TypeOK, MoneyTypeOK, moneyVars, seenVars
  <1> QED
    BY <1>1, <1>2, <1>3, <1>4, <1>5, <1>6, <1>7, <1>8, <1>9, <1>10, <1>11,
       <1>12, <1>13, <1>14, <1>15, <1>16, <1>17, <1>18 DEF Running

LEMMA TypeStep == TypeInv /\ [Next]_vars => TypeInv'
  <1> SUFFICES ASSUME TypeInv, [Next]_vars PROVE TypeInv'
    OBVIOUS
  <1>1. CASE UNCHANGED vars
    BY <1>1, ProcessFrame
    DEF TypeInv, TypeOK, MoneyTypeOK, vars, dbVars, seenVars
  <1>2. CASE Next
    BY <1>2, TypeEnvironment, TypeExecutor DEF Next
  <1> QED BY <1>1, <1>2

\* Every variable keeps its type, whatever processes, users, crashes and
\* failed store calls do.
THEOREM TypeCorrect == Spec => []TypeOK
  <1>1. Spec => []TypeInv
    BY TypeInit, TypeStep, PTL DEF Spec
  <1>2. TypeInv => TypeOK
    BY DEF TypeInv
  <1> QED BY <1>1, <1>2, PTL

-----------------------------------------------------------------------------
(* What one step does to the executors, the rows and the money.  The       *)
(* safety invariants below use these facts and no action directly.         *)

\* A reply somebody may hold: it was claimed at some time.
Taken(k) == reply[k].status \notin {"absent", "queued"}

\* The executor holds a claim and has not sent the request.
PreSend(s) == server[s].pc \in {"recheck", "verify", "send"}

\* Settling leaves the other rows alone and closes this one for Charge.
LEMMA SettleEffect ==
    ASSUME MoneyTypeOK, NEW k \in Keys, NEW before \in BOOLEAN,
           NEW usage \in Nat \union {None},
           SettleKind(k, "reply", before, usage)
    PROVE  /\ \A j \in Keys \ {k} : receipt'[j] = receipt[j]
           /\ \/ receipt'[k] = receipt[k]
              \/ /\ receipt[k] # None
                 /\ receipt[k].charged = None
                 /\ receipt'[k] = [receipt[k] EXCEPT
                        !.charged = Charge(receipt[k].budget, before, usage),
                        !.settlement =
                            Settlement(receipt[k].budget, before, usage)]
  BY DEF SettleKind, Held, MoneyTypeOK, moneyVars

\* A settlement of a row: nothing is kept of one that nobody claimed, and
\* everything of a claimed one unless its holder reports a usage within the
\* bound.
Settled(k) ==
    LET row == receipt[k] IN
    /\ row # None
    /\ row.charged = None
    /\ receipt'[k] \in Receipts
    /\ receipt'[k].budget = row.budget
    /\ receipt'[k].kind = row.kind /\ receipt'[k].day = row.day
    /\ \/ /\ Queued(k)
          /\ receipt'[k].charged = 0
          /\ receipt'[k].settlement = "cancelled_before_dispatch"
       \/ /\ ~Queued(k)
          /\ receipt'[k].settlement \in Settlements \ {"cancelled_before_dispatch"}
          /\ \/ receipt'[k].charged = Cost[row.budget]
             \/ \E s \in Servers :
                   /\ server[s].pc = "finish"
                   /\ server[s].item = k
                   /\ server[s].usage \in Nat
                   /\ server[s].usage <= Cost[row.budget]
                   /\ receipt'[k].charged = server[s].usage

\* The settlement of one reply.
LEMMA SettleReplyEffect ==
    ASSUME TypeOK, NEW k \in Keys, NEW usage \in Nat \union {None},
           SettleKind(k, "reply", Queued(k), usage),
           usage # None => \E s \in Servers :
               /\ server[s].pc = "finish" /\ server[s].item = k
               /\ server[s].usage = usage
    PROVE  /\ \A j \in Keys \ {k} : receipt'[j] = receipt[j]
           /\ receipt'[k] = receipt[k] \/ Settled(k)
  <1>1. Queued(k) \in BOOLEAN
    BY DEF Queued
  <1>3. /\ \A j \in Keys \ {k} : receipt'[j] = receipt[j]
        /\ \/ receipt'[k] = receipt[k]
           \/ /\ receipt[k] # None
              /\ receipt[k].charged = None
              /\ receipt'[k] = [receipt[k] EXCEPT
                     !.charged = Charge(receipt[k].budget, Queued(k), usage),
                     !.settlement =
                         Settlement(receipt[k].budget, Queued(k), usage)]
    BY <1>1, SettleEffect, ZenonT(60) DEF TypeOK
  <1>5. ASSUME receipt[k] # None, receipt[k].charged = None,
               receipt'[k] = [receipt[k] EXCEPT
                   !.charged = Charge(receipt[k].budget, Queued(k), usage),
                   !.settlement = Settlement(receipt[k].budget, Queued(k), usage)]
        PROVE  Settled(k)
    <2> DEFINE b == receipt[k].budget
               row == receipt[k]
    <2>1. row \in Receipts /\ b \in Budgets /\ Cost[b] \in Nat
      BY <1>5, BudgetAssumption DEF TypeOK, MoneyTypeOK, Receipts
    <2>2. /\ Charge(b, Queued(k), usage) \in Nat
          /\ Settlement(b, Queued(k), usage) \in Settlements
      BY <1>1, <2>1, ChargeRange
    <2>3. receipt'[k] \in Receipts /\ receipt'[k].budget = b
          /\ receipt'[k].kind = row.kind /\ receipt'[k].day = row.day
          /\ receipt'[k].charged = Charge(b, Queued(k), usage)
          /\ receipt'[k].settlement = Settlement(b, Queued(k), usage)
      BY <1>5, <2>1, <2>2 DEF Receipts
    <2>4. CASE Queued(k)
      BY <1>5, <2>3, <2>4 DEF Settled, Charge, Settlement
    <2>5. CASE ~Queued(k)
      <3>1. Settlement(b, Queued(k), usage) # "cancelled_before_dispatch"
        BY <2>5 DEF Settlement
      <3>2. \/ Charge(b, Queued(k), usage) = Cost[b]
            \/ /\ usage # None /\ usage \in Nat /\ usage <= Cost[b]
               /\ Charge(b, Queued(k), usage) = usage
        BY <2>5 DEF Charge
      <3> QED
        BY <1>5, <2>2, <2>3, <2>5, <3>1, <3>2 DEF Settled
    <2> QED BY <2>4, <2>5
  <1> QED BY <1>3, <1>5

\* The same with no usage.
LEMMA SettleWithoutUsage ==
    ASSUME TypeOK, NEW k \in Keys, SettleKind(k, "reply", Queued(k), None)
    PROVE  /\ \A j \in Keys \ {k} : receipt'[j] = receipt[j]
           /\ receipt'[k] = receipt[k] \/ Settled(k)
  BY SettleReplyEffect

\* Ending one reply.
LEMMA EndReplyEffect ==
    ASSUME TypeOK, NEW k \in Keys,
           NEW status \in Outcomes \union {"cancelled"},
           NEW usage \in Nat \union {None}, EndReply(k, status, usage),
           usage # None => \E s \in Servers :
               /\ server[s].pc = "finish" /\ server[s].item = k
               /\ server[s].usage = usage
    PROVE  /\ \A j \in Keys \ {k} : receipt'[j] = receipt[j] /\ reply'[j] = reply[j]
           /\ receipt'[k] = receipt[k] \/ Settled(k)
           /\ reply'[k].status = status
  <1>1. /\ \A j \in Keys \ {k} : reply'[j] = reply[j]
        /\ reply'[k].status = status
    BY DEF EndReply, TypeOK, ReplyRows
  <1> QED BY <1>1, SettleReplyEffect DEF EndReply

\* What a step may do to the row and the money of one reply.
ReservedNow(k) ==
    /\ receipt[k] = None
    /\ reply[k].status = "absent"
    /\ reply'[k].status = "queued"
    /\ receipt'[k] \in Receipts
    /\ receipt'[k].charged = None

KeptReply(k) == reply'[k].status = reply[k].status
ClaimedReply(k) == Queued(k) /\ reply'[k].status = "dispatching"
EndedReply(k) == IsActive(k) /\ reply'[k].status \in Outcomes \union {"cancelled"}

Effect(k) ==
    \/ KeptReply(k) /\ receipt'[k] = receipt[k]
    \/ ClaimedReply(k) /\ receipt'[k] = receipt[k]
    \/ EndedReply(k) /\ (receipt'[k] = receipt[k] \/ Settled(k))
    \/ reply[k].status = "absent" /\ reply'[k].status = "queued"
          /\ (receipt'[k] = receipt[k] \/ ReservedNow(k))

LEMMA ExpireEffect ==
    ASSUME TypeOK, NEW k \in Keys,
           Expire(k) \/ UNCHANGED <<reply, moneyVars>>
    PROVE  \A j \in Keys : Effect(j)
  <1>1. CASE UNCHANGED <<reply, moneyVars>>
    BY <1>1 DEF Effect, KeptReply, moneyVars
  <1>2. CASE EndReply(k, "unknown", None) /\ Overdue(k)
    <2>1. /\ \A j \in Keys \ {k} : receipt'[j] = receipt[j] /\ reply'[j] = reply[j]
          /\ receipt'[k] = receipt[k] \/ Settled(k)
          /\ reply'[k].status = "unknown"
      BY <1>2, EndReplyEffect DEF Outcomes
    <2> QED
      BY <1>2, <2>1
      DEF Effect, KeptReply, EndedReply, Outcomes, Overdue, IsActive, Active
  <1> QED BY <1>1, <1>2 DEF Expire

LEMMA FinishReplyEffect ==
    ASSUME TypeOK, NEW k \in Keys, NEW outcome \in Outcomes,
           NEW usage \in Nat \union {None},
           FinishReply(k, outcome, usage) \/ UNCHANGED <<reply, moneyVars>>,
           usage # None => \E s \in Servers :
               /\ server[s].pc = "finish" /\ server[s].item = k
               /\ server[s].usage = usage
    PROVE  \A j \in Keys : Effect(j)
  <1>1. CASE UNCHANGED <<reply, moneyVars>>
    BY <1>1 DEF Effect, KeptReply, moneyVars
  <1>2. ASSUME NEW status \in Outcomes, NEW known \in {None, usage},
               EndReply(k, status, known), reply[k].status = "dispatching"
        PROVE  \A j \in Keys : Effect(j)
    <2>1. /\ \A j \in Keys \ {k} : receipt'[j] = receipt[j] /\ reply'[j] = reply[j]
          /\ receipt'[k] = receipt[k] \/ Settled(k)
          /\ reply'[k].status = status
      BY <1>2, EndReplyEffect
    <2> QED
      BY <1>2, <2>1
      DEF Effect, KeptReply, EndedReply, Outcomes, IsActive, Active
  <1> QED
    BY <1>1, <1>2 DEF FinishReply, Outcomes

\* Every step of the system has such an effect on every reply.
LEMMA StoreStep ==
    ASSUME TypeInv, Next
    PROVE  \A k \in Keys : Effect(k)
  <1> USE DEF TypeInv
  <1>1. CASE UNCHANGED <<reply, receipt>>
    BY <1>1 DEF Effect, KeptReply
  <1>2. ASSUME NEW k \in Keys, LeaseLapses(k) PROVE \A j \in Keys : Effect(j)
    BY <1>2 DEF LeaseLapses, Effect, KeptReply, TypeOK, ReplyRows, moneyVars
  <1>3. ASSUME NEW k \in Keys, Cancel(k) PROVE \A j \in Keys : Effect(j)
    <2>1. EndReply(k, "cancelled", None) /\ IsActive(k)
      BY <1>3 DEF Cancel
    <2>2. /\ \A j \in Keys \ {k} : receipt'[j] = receipt[j] /\ reply'[j] = reply[j]
          /\ receipt'[k] = receipt[k] \/ Settled(k)
          /\ reply'[k].status = "cancelled"
      BY <2>1, EndReplyEffect
    <2> QED
      BY <2>1, <2>2 DEF Effect, KeptReply, EndedReply
  <1>6. ASSUME NEW s \in Servers, NEW k \in Keys, CreatePaid(s, k)
        PROVE  \A j \in Keys : Effect(j)
    <2> DEFINE d == server[s].deployment
    <2>1. d.revision \in Revisions /\ d.budget \in Budgets
      BY <1>6, PaidDeployment DEF CreatePaid, Paid
    <2>2. /\ receipt[k] = None
          /\ receipt' = [receipt EXCEPT ![k] =
                 [kind |-> "reply", day |-> day, revision |-> d.revision,
                  budget |-> d.budget, charged |-> None, settlement |-> None]]
      BY <1>6 DEF CreatePaid, ReserveMoney
    <2>3. /\ \A j \in Keys \ {k} : receipt'[j] = receipt[j]
          /\ receipt'[k] \in Receipts
          /\ receipt'[k].charged = None
      BY <2>1, <2>2 DEF TypeOK, MoneyTypeOK, Receipts, Kinds
    <2>4. /\ \A j \in Keys \ {k} : reply'[j] = reply[j]
          /\ reply[k].status = "absent" /\ reply'[k].status = "queued"
      BY <1>6 DEF CreatePaid, Admissible, InsertReply, NoReply, TypeOK
    <2> QED
      BY <2>2, <2>3, <2>4 DEF Effect, KeptReply, ReservedNow
  <1>7. ASSUME NEW s \in Servers, NEW k \in Keys, CreateFixture(s, k)
        PROVE  \A j \in Keys : Effect(j)
    BY <1>7
    DEF CreateFixture, Admissible, InsertReply, NoReply, TypeOK, Effect,
        KeptReply, moneyVars
  <1>8. ASSUME NEW k \in Keys, TakeReply(k), receipt' = receipt
        PROVE  \A j \in Keys : Effect(j)
    BY <1>8 DEF TakeReply, Effect, KeptReply, ClaimedReply, TypeOK, ReplyRows
  <1>9. ASSUME NEW s \in Servers
        PROVE  /\ server[s] \in Processes
               /\ server[s].pc \in Holding => server[s].item \in Keys
               /\ server[s].pc = "finish" => server[s].outcome \in Outcomes
    BY DEF TypeOK, ProcessOK, PlaceOK
  <1>10. ASSUME NEW s \in Servers, ExpireItem(s) \/ Recheck(s)
         PROVE  \A j \in Keys : Effect(j)
    <2>1. \/ UNCHANGED <<reply, moneyVars>>
          \/ \E i \in server[s].batch : Expire(i[1])
          \/ server[s].pc = "recheck" /\ Expire(server[s].item)
      BY <1>10 DEF ExpireItem, Recheck, At
    <2>2. \A i \in server[s].batch : i[1] \in Keys
      BY <1>9 DEF Processes
    <2>3. server[s].pc = "recheck" => server[s].item \in Keys
      BY <1>9 DEF Holding, Dispatch
    <2>4. CASE UNCHANGED <<reply, moneyVars>>
      BY <2>4 DEF Effect, KeptReply, moneyVars
    <2> QED BY <2>1, <2>2, <2>3, <2>4, ExpireEffect
  <1>11. ASSUME NEW s \in Servers, Finish(s) PROVE \A j \in Keys : Effect(j)
    <2>1. /\ server[s].item \in Keys /\ server[s].outcome \in Outcomes
          /\ server[s].usage \in Nat \union {None}
          /\ server[s].pc = "finish"
      BY <1>9, <1>11 DEF Finish, At, Holding, Dispatch, Processes
    <2>2. \/ UNCHANGED <<reply, moneyVars>>
          \/ FinishReply(server[s].item, server[s].outcome, server[s].usage)
      BY <1>11 DEF Finish
    <2> QED BY <2>1, <2>2, FinishReplyEffect
  <1>12. ASSUME NEW s \in Servers, FinishFixture(s)
         PROVE  \A j \in Keys : Effect(j)
    <2>1. server[s].item \in Keys
      BY <1>9, <1>12 DEF FinishFixture, At, Holding
    <2>2. \/ UNCHANGED <<reply, moneyVars>>
          \/ FinishReply(server[s].item, "succeeded", None)
      BY <1>12 DEF FinishFixture
    <2> QED BY <2>1, <2>2, FinishReplyEffect DEF Outcomes
  <1>13. ASSUME NEW s \in Servers, Claim(s) \/ ClaimFixture(s)
         PROVE  \A j \in Keys : Effect(j)
    <2>1. \E i \in server[s].batch : TakeReply(i[1])
      BY <1>13 DEF Claim, ClaimFixture
    <2>2. \A i \in server[s].batch : i[1] \in Keys
      BY <1>9 DEF Processes
    <2>3. receipt' = receipt
      BY <1>13 DEF Claim, ClaimFixture, moneyVars
    <2> QED BY <2>1, <2>2, <2>3, <1>8
  <1>14. ASSUME NEW c \in Conversations, DeleteConversation(c)
         PROVE  \A j \in Keys : Effect(j)
    <2> DEFINE Active0 == {k \in Keys : k[1] = c /\ IsActive(k)}
    <2>1. \A j \in Keys : reply'[j].status =
              IF j \in Active0 THEN "cancelled" ELSE reply[j].status
      BY <1>14 DEF DeleteConversation, TypeOK, ReplyRows
    <2>2. \A j \in Active0 : EndedReply(j)
      BY <2>1 DEF EndedReply
    <2>3. \A j \in Keys \ Active0 : KeptReply(j)
      BY <2>1 DEF KeptReply
    <2>4. CASE receipt' = receipt
      BY <2>2, <2>3, <2>4 DEF Effect
    <2>5. ASSUME NEW k \in Active0, SettleKind(k, "reply", Queued(k), None)
          PROVE  \A j \in Keys : Effect(j)
      <3>1. /\ \A j \in Keys \ {k} : receipt'[j] = receipt[j]
            /\ receipt'[k] = receipt[k] \/ Settled(k)
        BY <2>5, SettleWithoutUsage DEF TypeOK
      <3> QED BY <2>2, <2>3, <3>1 DEF Effect
    <2> QED
      BY <1>14, <2>4, <2>5 DEF DeleteConversation, moneyVars
  <1> QED
    BY <1>1, <1>2, <1>3, <1>6, <1>7, <1>10, <1>11, <1>12, <1>13, <1>14
    DEF Next, Running, NextDay, PriceLapses, OperatorDisables, AppendMessage,
        Start, Crash, RetryDisable, ScanPaid, ScanAll, SkipPaid, Verify, Send,
        Answered, ContractViolation, PersistDisable, SkipGeneric, dbVars,
        moneyVars

\* How an executor moves on: it lets its item go, or keeps it and is before
\* the request only if it was, or takes a queued reply that the same step
\* marks as dispatched.
MovesOn(s) ==
    \/ server'[s].item = None
    \/ /\ server'[s].item = server[s].item
       /\ PreSend(s)' => PreSend(s)
    \/ /\ server[s].item = None
       /\ server'[s].item \in Keys
       /\ ClaimedReply(server'[s].item)

\* A usage is only known between the answer and the end of dispatch.
UsageOK(s) ==
    server[s].usage # None =>
        /\ server[s].pc = "finish"
        /\ server[s].usage = billed[server[s].item]

LEMMA ExecutorMoves ==
    ASSUME TypeInv, NEW s \in Servers,
           Running(s) \/ Crash(s) \/ (\E d \in Deployments : Start(s, d))
    PROVE  /\ \A t \in Servers \ {s} : server'[t] = server[t]
           /\ MovesOn(s)
           /\ UsageOK(s) /\ server'[s].usage # None =>
                  /\ server'[s].pc = "finish"
                  /\ server'[s].usage = billed[server'[s].item]
  <1> USE DEF TypeInv
  <1>1. /\ server \in [Servers -> Processes]
        /\ server[s] \in Processes
        /\ server[s].pc \notin Holding => server[s].item = None
    BY DEF TypeOK, ProcessOK, PlaceOK
  <1>2. ASSUME \A t \in Servers \ {s} : server'[t] = server[t],
               server'[s].item = None, server'[s].usage = None
        PROVE  /\ \A t \in Servers \ {s} : server'[t] = server[t]
               /\ MovesOn(s)
               /\ UsageOK(s) /\ server'[s].usage # None =>
                      /\ server'[s].pc = "finish"
                      /\ server'[s].usage = billed[server'[s].item]
    BY <1>2 DEF MovesOn
  <1>7. CASE Crash(s)
    <2>1. server'[s] = Down /\ \A t \in Servers \ {s} : server'[t] = server[t]
      BY <1>1, <1>7 DEF Crash
    <2>2. Down.item = None /\ Down.usage = None
      BY DEF Down
    <2> QED BY <1>2, <2>1, <2>2
  <1>8. ASSUME NEW d \in Deployments, Start(s, d)
        PROVE  /\ \A t \in Servers \ {s} : server'[t] = server[t]
               /\ MovesOn(s)
               /\ UsageOK(s) /\ server'[s].usage # None =>
                      /\ server'[s].pc = "finish"
                      /\ server'[s].usage = billed[server'[s].item]
    <2> DEFINE p == [Down EXCEPT !.pc = "generic", !.deployment = d]
    <2>1. server'[s] = p /\ \A t \in Servers \ {s} : server'[t] = server[t]
      BY <1>1, <1>8 DEF Start
    <2>2. p.item = None /\ p.usage = None
      BY DEF Down
    <2> HIDE DEF p
    <2> QED BY <1>2, <2>1, <2>2
  <1>3. CASE \/ RetryDisable(s) \/ ScanPaid(s) \/ ScanAll(s) \/ ExpireItem(s)
             \/ SkipPaid(s) \/ SkipGeneric(s)
    <2>1. \/ Goto(s, "scan") /\ server[s].pc = "generic"
          \/ \E pc \in {"paid", "generic"} : \E batch : TakeBatch(s, pc, batch)
          \/ \E i \in server[s].batch : Drop(s, i)
      BY <1>3 DEF RetryDisable, ScanPaid, ScanAll, ExpireItem, SkipPaid,
                  SkipGeneric, BetweenTicks, At
    <2>2. /\ \A t \in Servers \ {s} : server'[t] = server[t]
          /\ server'[s].item = server[s].item
          /\ server'[s].usage = server[s].usage
      BY <1>1, <2>1 DEF Goto, TakeBatch, Drop, Processes
    <2>3. server'[s].pc \notin {"recheck", "verify", "send", "finish"}
      BY <1>1, <1>3
      DEF RetryDisable, ScanPaid, ScanAll, ExpireItem, SkipPaid, SkipGeneric,
          BetweenTicks, At, Goto, TakeBatch, Drop, Processes
    <2>4. server[s].pc # "finish"
      BY <1>3
      DEF RetryDisable, ScanPaid, ScanAll, ExpireItem, SkipPaid, SkipGeneric,
          BetweenTicks, At
    <2> QED BY <2>2, <2>3, <2>4 DEF MovesOn, UsageOK, PreSend
  <1>4. CASE \/ Recheck(s) \/ Verify(s) \/ Send(s) \/ ContractViolation(s)
             \/ PersistDisable(s) \/ Finish(s) \/ FinishFixture(s)
    <2>1. \/ server[s].pc \in {"recheck", "verify"} /\ \E pc \in {"verify", "send"} : Goto(s, pc)
          \/ Goto(s, "wait") /\ server[s].pc = "send"
          \/ \E pc \in Places : Return(s, pc)
          \/ FinishWith(s, "unknown") /\ server[s].pc \in {"verify", "disable"}
          \/ server' = [server EXCEPT ![s].pc = "disable", ![s].halted = TRUE]
               /\ server[s].pc = "wait"
      BY <1>4 DEF Recheck, Verify, Send, ContractViolation, PersistDisable,
                  Finish, FinishFixture, At, Places
    <2>2. /\ \A t \in Servers \ {s} : server'[t] = server[t]
          /\ \/ server'[s].item = None /\ server'[s].usage = None
             \/ /\ server'[s].item = server[s].item
                /\ server'[s].usage = server[s].usage
                /\ PreSend(s)' => PreSend(s)
                /\ server[s].pc # "finish"
      <3> USE <1>1 DEF PreSend, Processes
      <3>1. ASSUME NEW pc \in {"verify", "send"}, Goto(s, pc),
                   server[s].pc \in {"recheck", "verify"}
            PROVE  /\ \A t \in Servers \ {s} : server'[t] = server[t]
                   /\ server'[s].item = server[s].item
                   /\ server'[s].usage = server[s].usage
        BY <3>1 DEF Goto
      <3>2. CASE Goto(s, "wait") /\ server[s].pc = "send"
        BY <3>2 DEF Goto
      <3>3. CASE \E pc \in Places : Return(s, pc)
        BY <3>3 DEF Return
      <3>4. CASE FinishWith(s, "unknown") /\ server[s].pc \in {"verify", "disable"}
        BY <3>4 DEF FinishWith
      <3>5. CASE server' = [server EXCEPT ![s].pc = "disable", ![s].halted = TRUE]
                 /\ server[s].pc = "wait"
        BY <3>5
      <3> QED BY <2>1, <3>1, <3>2, <3>3, <3>4, <3>5
    <2>3. CASE server'[s].item = None /\ server'[s].usage = None
      BY <1>2, <2>2, <2>3
    <2>4. CASE /\ server'[s].item = server[s].item
               /\ server'[s].usage = server[s].usage
               /\ PreSend(s)' => PreSend(s)
               /\ server[s].pc # "finish"
      BY <2>2, <2>4 DEF MovesOn, UsageOK
    <2> QED BY <2>2, <2>3, <2>4
  <1>5. CASE Answered(s)
    <2>1. /\ server[s].pc = "wait"
          /\ \/ \E u \in Usages(server[s].item) :
                    server' = [server EXCEPT ![s].pc = "finish",
                                  ![s].outcome = "succeeded", ![s].usage = u]
             \/ \E o \in Outcomes : FinishWith(s, o)
      BY <1>5 DEF Answered, At, Outcomes
    <2> QED
      BY <1>1, <2>1 DEF FinishWith, Usages, MovesOn, UsageOK, PreSend, Processes
  <1>6. CASE Claim(s) \/ ClaimFixture(s)
    <2>1. PICK i \in server[s].batch, pc \in {"recheck", "sleep"} :
              /\ TakeReply(i[1])
              /\ \/ server' = [server EXCEPT ![s].pc = pc,
                        ![s].item = i[1], ![s].batch = @ \ {i}]
                 \/ Drop(s, i)
      BY <1>6 DEF Claim, ClaimFixture
    <2>2. server[s].pc \in {"paid", "generic"}
      BY <1>6 DEF Claim, ClaimFixture, At
    <2>3. server[s].item = None /\ i[1] \in Keys
      BY <1>1, <2>1, <2>2 DEF Holding, Dispatch, Processes
    <2>4. ClaimedReply(i[1])
      BY <2>1, <2>3 DEF TakeReply, ClaimedReply, TypeOK, ReplyRows
    <2> QED
      BY <1>1, <2>1, <2>2, <2>3, <2>4
      DEF Drop, MovesOn, UsageOK, PreSend, Processes
  <1> QED BY <1>3, <1>4, <1>5, <1>6, <1>7, <1>8 DEF Running

\* At most one executor moves in a step, and only a Send makes a request.
LEMMA ServerMoves ==
    ASSUME TypeInv, Next
    PROVE  \/ UNCHANGED <<server, sends, billed>>
           \/ \E s \in Servers :
                 /\ \A t \in Servers \ {s} : server'[t] = server[t]
                 /\ MovesOn(s)
                 /\ UsageOK(s) /\ server'[s].usage # None =>
                        /\ server'[s].pc = "finish"
                        /\ server'[s].usage = billed[server'[s].item]
                 /\ Send(s) \/ UNCHANGED <<sends, billed>>
  <1>1. CASE \E s \in Servers :
                 Running(s) \/ Crash(s) \/ \E d \in Deployments : Start(s, d)
    <2>1. PICK s \in Servers :
              Running(s) \/ Crash(s) \/ \E d \in Deployments : Start(s, d)
      BY <1>1
    <2>2. Send(s) \/ UNCHANGED <<sends, billed>>
      BY <2>1
      DEF Running, Crash, Start, RetryDisable, ScanPaid, ScanAll, ExpireItem,
          Claim, SkipPaid, Recheck, Verify, Answered, ContractViolation,
          PersistDisable, Finish, ClaimFixture, SkipGeneric, FinishFixture,
          seenVars
    <2> QED BY <2>1, <2>2, ExecutorMoves
  <1>2. CASE UNCHANGED <<server, sends, billed>>
    BY <1>2
  <1> QED
    BY <1>1, <1>2
    DEF Next, NextDay, LeaseLapses, Cancel, PriceLapses, OperatorDisables,
        AppendMessage, DeleteConversation, CreatePaid, CreateFixture, seenVars

-----------------------------------------------------------------------------
(* A reply is sent at most once.  The claim makes its executor the only    *)
(* holder for ever, because no step makes a reply queued again.            *)

HandInv ==
    /\ \A s, t \in Servers :
           server[s].item # None /\ server[s].item = server[t].item => s = t
    /\ \A s \in Servers : server[s].item # None => Taken(server[s].item)

SendInv ==
    /\ SentAtMostOnce
    /\ \A k \in Keys : ~Taken(k) => sends[k] = 0
    /\ \A s \in Servers : PreSend(s) => sends[server[s].item] = 0

LEMMA TakenStays ==
    ASSUME TypeInv, Next, NEW k \in Keys, Taken(k)
    PROVE  Taken(k)'
  BY StoreStep
  DEF Effect, Taken, KeptReply, ClaimedReply, EndedReply, Outcomes, Queued

LEMMA HandStep ==
    ASSUME TypeInv, HandInv, Next
    PROVE  HandInv'
  <1>1. \A s \in Servers : server[s].item \in Keys \union {None}
    BY DEF TypeInv, TypeOK, Processes
  <1>2. CASE UNCHANGED server
    BY <1>1, <1>2, TakenStays DEF HandInv, Taken
  <1>3. ASSUME NEW s \in Servers, MovesOn(s),
               \A t \in Servers \ {s} : server'[t] = server[t]
        PROVE  HandInv'
    <2>1. \A t \in Servers \ {s} :
              server'[t].item # None => server'[t].item # server'[s].item
      BY <1>1, <1>3
      DEF MovesOn, HandInv, ClaimedReply, Taken, Queued
    <2>2. server'[s].item # None => Taken(server[s].item)'
      <3>1. CASE server'[s].item = server[s].item
        BY <1>1, <3>1, TakenStays DEF HandInv, Taken
      <3>2. CASE ClaimedReply(server'[s].item)
        BY <3>2 DEF ClaimedReply, Taken
      <3> QED BY <1>3, <3>1, <3>2 DEF MovesOn
    <2>3. \A t \in Servers \ {s} : server'[t].item # None => Taken(server[t].item)'
      BY <1>1, <1>3, TakenStays DEF HandInv, Taken
    <2> QED
      BY <1>3, <2>1, <2>2, <2>3 DEF HandInv, Taken
  <1> QED BY <1>2, <1>3, ServerMoves

LEMMA SendStep ==
    ASSUME TypeInv, HandInv, SendInv, Next
    PROVE  SendInv'
  <1>1. /\ \A s \in Servers : PreSend(s) => server[s].item \in Keys
        /\ \A s \in Servers : None # server[s].item => server[s].item \in Keys
        /\ server \in [Servers -> Processes]
        /\ sends \in [Keys -> Nat]
    BY DEF TypeInv, TypeOK, ProcessOK, PlaceOK, Processes, PreSend, Holding, Dispatch
  <1>2. \A k \in Keys : Taken(k) => Taken(k)'
    BY TakenStays
  <1>3. CASE UNCHANGED <<server, sends>>
    BY <1>2, <1>3 DEF SendInv, SentAtMostOnce, PreSend, Taken
  <1>4. ASSUME NEW s \in Servers, MovesOn(s), UNCHANGED sends,
               \A t \in Servers \ {s} : server'[t] = server[t]
        PROVE  SendInv'
    <2>1. PreSend(s)' => server'[s].item \in Keys
      <3>1. TypeInv'
        BY TypeStep
      <3> QED
        BY <3>1
        DEF TypeInv, ProcessOK, PlaceOK, PreSend, Holding, Dispatch
    <2>2. PreSend(s)' => sends'[server'[s].item] = 0
      <3>1. CASE server'[s].item = server[s].item /\ (PreSend(s)' => PreSend(s))
        BY <1>4, <3>1 DEF SendInv
      <3>2. CASE server'[s].item \in Keys /\ ClaimedReply(server'[s].item)
        BY <1>4, <3>2 DEF SendInv, ClaimedReply, Taken, Queued
      <3>3. None \notin Keys
        BY NullAssumption
      <3> QED BY <1>4, <2>1, <3>1, <3>2, <3>3 DEF MovesOn
    <2> QED
      BY <1>2, <1>4, <2>2 DEF SendInv, SentAtMostOnce, PreSend, Taken
  <1>5. ASSUME NEW s \in Servers, Send(s) PROVE SendInv'
    <2> DEFINE k == server[s].item
    <2>1. /\ server[s].pc = "send" /\ PreSend(s)
          /\ sends' = [sends EXCEPT ![k] = @ + 1]
          /\ server' = [server EXCEPT ![s].pc = "wait"]
          /\ reply' = reply
      BY <1>5 DEF Send, At, Goto, PreSend, dbVars
    <2>2. k \in Keys /\ sends[k] = 0 /\ k # None /\ Taken(k)
      BY <1>1, <2>1, NullAssumption DEF SendInv, HandInv
    <2>3. sends'[k] = 1 /\ \A j \in Keys \ {k} : sends'[j] = sends[j]
      BY <1>1, <2>1, <2>2
    <2>4. SentAtMostOnce'
      BY <2>2, <2>3 DEF SendInv, SentAtMostOnce
    <2>5. \A j \in Keys : ~Taken(j)' => sends'[j] = 0
      BY <1>2, <2>2, <2>3 DEF SendInv
    <2>6. ASSUME NEW t \in Servers, PreSend(t)' PROVE sends'[server'[t].item] = 0
      <3>1. t # s
        BY <1>1, <2>1, <2>6 DEF PreSend, Processes
      <3>2. server'[t] = server[t]
        BY <1>1, <2>1, <3>1
      <3>3. PreSend(t) /\ server[t].item # k
        BY <2>2, <2>6, <3>1, <3>2 DEF PreSend, HandInv
      <3> QED
        BY <1>1, <2>3, <3>2, <3>3 DEF SendInv
    <2> QED BY <2>4, <2>5, <2>6 DEF SendInv
  <1> QED BY <1>3, <1>4, <1>5, ServerMoves

LEMMA SendInit == Init => HandInv /\ SendInv
  BY DEF Init, HandInv, SendInv, SentAtMostOnce, Taken, PreSend, Down, NoReply

LEMMA SendInvariant == Spec => [](TypeInv /\ HandInv /\ SendInv)
  <1> DEFINE Inv == TypeInv /\ HandInv /\ SendInv
  <1>1. Init => Inv
    BY TypeInit, SendInit
  <1>2. Inv /\ [Next]_vars => Inv'
    <2> SUFFICES ASSUME Inv, [Next]_vars PROVE Inv'
      OBVIOUS
    <2>1. CASE UNCHANGED vars
      <3>1. UNCHANGED <<reply, server, sends>>
        BY <2>1 DEF vars, dbVars, seenVars
      <3> QED
        BY <2>1, <3>1, TypeStep
        DEF HandInv, SendInv, SentAtMostOnce, Taken, PreSend
    <2>2. CASE Next
      BY <2>2, TypeStep, HandStep, SendStep
    <2> QED BY <2>1, <2>2
  <1> QED BY <1>1, <1>2, PTL DEF Spec

\* The provider gets at most one request for a reply, with any number of
\* servers, restarts, late answers and cancellations (reply_executor.rs).
THEOREM AtMostOneRequest == Spec => []SentAtMostOnce
  <1>1. TypeInv /\ HandInv /\ SendInv => SentAtMostOnce
    BY DEF SendInv
  <1> QED BY <1>1, SendInvariant, PTL

-----------------------------------------------------------------------------
(* The ledger covers the bill.  Before the request goes out nothing but    *)
(* the whole quote can have been charged for a claimed reply, and the only *)
(* usage that is ever charged is the bill itself, reported by the holder.  *)

BillInv ==
    /\ BillCovered
    /\ \A k \in Keys : sends[k] = 0 => billed[k] = 0
    /\ \A k \in Keys :
           ~Taken(k) /\ receipt[k] # None => receipt[k].charged = None
    /\ \A s \in Servers : UsageOK(s)
    /\ \A s \in Servers : PreSend(s) =>
           receipt[server[s].item].charged \in
               {None, Cost[receipt[server[s].item].budget]}

\* The row of a reply is not changed by a step, or it is reserved or
\* settled, and a claim does not touch it.
LEMMA MoneyStep ==
    ASSUME TypeInv, Next, NEW k \in Keys
    PROVE  /\ receipt'[k] = receipt[k] \/ ReservedNow(k) \/ Settled(k)
           /\ ClaimedReply(k) => receipt'[k] = receipt[k]
           /\ ~Taken(k)' => receipt'[k] = receipt[k] \/ ReservedNow(k)
           /\ ~Taken(k)' => ~Taken(k)
  BY StoreStep
  DEF Effect, ClaimedReply, KeptReply, EndedReply, Queued, IsActive, Active,
      Outcomes, Taken

\* Every reservation stays covered in a step that sends nothing.
LEMMA CoveredStep ==
    ASSUME TypeInv, HandInv, SendInv, BillInv, Next, UNCHANGED <<sends, billed>>
    PROVE  /\ BillCovered'
           /\ \A k \in Keys :
                  ~Taken(k)' /\ receipt'[k] # None => receipt'[k].charged = None
  <1>1. ASSUME NEW k \in Keys
        PROVE  ~Taken(k)' /\ receipt'[k] # None => receipt'[k].charged = None
    BY MoneyStep DEF BillInv, ReservedNow
  <1>2. ASSUME NEW k \in Keys
        PROVE  /\ sends[k] > 0 => receipt'[k] # None
               /\ receipt'[k] # None /\ receipt'[k].charged # None
                      /\ billed[k] <= Cost[receipt'[k].budget]
                      => receipt'[k].charged >= billed[k]
    <2>1. CASE receipt'[k] = receipt[k]
      BY <2>1 DEF BillInv, BillCovered
    <2>2. CASE ReservedNow(k)
      BY <2>2, NullAssumption DEF ReservedNow
    <2>3. CASE Settled(k)
      <3> DEFINE b == receipt[k].budget
      <3>1. receipt'[k] # None /\ receipt'[k].budget = b
        BY <2>3, NullAssumption DEF Settled
      <3>2. CASE Queued(k) /\ receipt'[k].charged = 0
        BY <3>1, <3>2 DEF SendInv, BillInv, Queued, Taken
      <3>3. CASE receipt'[k].charged = Cost[b]
        <4>1. b \in Budgets /\ billed[k] \in Nat
          BY <2>3, <3>1 DEF Settled, Receipts, TypeInv, TypeOK
        <4> QED BY <3>1, <3>3, <4>1, BudgetAssumption
      <3>4. ASSUME NEW s \in Servers, server[s].item = k,
                   server[s].usage \in Nat,
                   receipt'[k].charged = server[s].usage
            PROVE  receipt'[k].charged = billed[k] /\ billed[k] \in Nat
        BY <3>4, NullAssumption DEF BillInv, UsageOK
      <3> QED BY <2>3, <3>1, <3>2, <3>3, <3>4 DEF Settled
    <2> QED BY <2>1, <2>2, <2>3, MoneyStep
  <1>3. BillCovered'
    BY <1>2 DEF BillCovered
  <1> QED BY <1>1, <1>3

\* A claim that has not been sent keeps its whole quote.
LEMMA QuoteStep ==
    ASSUME TypeInv, HandInv, BillInv, Next, NEW k \in Keys,
           \/ ClaimedReply(k) /\ receipt[k] # None
           \/ \E s \in Servers : PreSend(s) /\ server[s].item = k
    PROVE  receipt'[k].charged \in {None, Cost[receipt'[k].budget]}
  <1>1. CASE ClaimedReply(k) /\ receipt[k] # None
    BY <1>1, MoneyStep DEF ClaimedReply, Queued, Taken, BillInv
  <1>2. ASSUME NEW s \in Servers, PreSend(s), server[s].item = k
        PROVE  receipt'[k].charged \in {None, Cost[receipt'[k].budget]}
    <2>1. Taken(k) /\ ~Queued(k) /\ k # None
      BY <1>2, NullAssumption DEF HandInv, Taken, Queued
    <2>2. CASE receipt'[k] = receipt[k]
      BY <1>2, <2>2 DEF BillInv
    <2>3. CASE Settled(k)
      <3>1. \A t \in Servers : server[t].pc = "finish" => server[t].item # k
        BY <1>2, <2>1 DEF HandInv, PreSend
      <3> QED BY <2>1, <2>3, <3>1 DEF Settled
    <2>4. ~ReservedNow(k)
      BY <2>1 DEF ReservedNow, Taken
    <2> QED BY <2>2, <2>3, <2>4, MoneyStep
  <1> QED BY <1>1, <1>2

LEMMA BillStep ==
    ASSUME TypeInv, HandInv, SendInv, BillInv, Next
    PROVE  BillInv'
  <1>1. /\ \A s \in Servers : PreSend(s) =>
               server[s].item \in Keys /\ receipt[server[s].item] # None
        /\ server \in [Servers -> Processes]
        /\ sends \in [Keys -> Nat] /\ billed \in [Keys -> Nat]
    BY DEF TypeInv, TypeOK, ProcessOK, PlaceOK, PreSend, Holding, Dispatch
  <1>2. TypeInv'
    BY TypeStep
  <1>3. ASSUME NEW s \in Servers, PreSend(s)'
        PROVE  server'[s].item \in Keys /\ receipt'[server'[s].item] # None
    BY <1>2, <1>3
    DEF TypeInv, ProcessOK, PlaceOK, PreSend, Holding, Dispatch
  <1>4. CASE UNCHANGED <<server, sends, billed>>
    BY <1>1, <1>4, CoveredStep, QuoteStep DEF BillInv, UsageOK, PreSend
  <1>5. ASSUME NEW s \in Servers, MovesOn(s), UNCHANGED <<sends, billed>>,
               \A t \in Servers \ {s} : server'[t] = server[t],
               UsageOK(s) /\ server'[s].usage # None =>
                      /\ server'[s].pc = "finish"
                      /\ server'[s].usage = billed[server'[s].item]
        PROVE  BillInv'
    <2>1. \A t \in Servers : UsageOK(t)'
      BY <1>5 DEF BillInv, UsageOK
    <2>2. ASSUME NEW t \in Servers, PreSend(t)'
          PROVE  receipt'[server'[t].item].charged \in
                     {None, Cost[receipt'[server'[t].item].budget]}
      <3> DEFINE k == server'[t].item
      <3>1. k \in Keys /\ k # None /\ receipt'[k] # None
        BY <1>3, <2>2, NullAssumption
      <3>2. \/ PreSend(t) /\ server[t].item = k
            \/ ClaimedReply(k)
        BY <1>5, <2>2, <3>1 DEF MovesOn, PreSend
      <3>3. ClaimedReply(k) => receipt[k] # None
        BY <3>1, MoneyStep
      <3> HIDE DEF k
      <3>4. receipt'[k].charged \in {None, Cost[receipt'[k].budget]}
        BY <3>1, <3>2, <3>3, QuoteStep
      <3> QED BY <3>4 DEF k
    <2> QED
      BY <1>5, <2>1, <2>2, CoveredStep DEF BillInv, PreSend
  <1>6. ASSUME NEW s \in Servers, Send(s) PROVE BillInv'
    <2> DEFINE k == server[s].item
    <2>1. /\ server[s].pc = "send" /\ PreSend(s)
          /\ sends' = [sends EXCEPT ![k] = @ + 1]
          /\ \E n \in 0 .. Cost[receipt[k].budget] + 1 :
                 billed' = [billed EXCEPT ![k] = n]
          /\ server' = [server EXCEPT ![s].pc = "wait"]
          /\ reply' = reply /\ receipt' = receipt
      BY <1>6 DEF Send, At, Goto, PreSend, dbVars
    <2>2. k \in Keys /\ k # None /\ receipt[k] # None
      BY <1>1, <2>1, NullAssumption
    <2>3. /\ receipt[k].budget \in Budgets /\ Cost[receipt[k].budget] \in Nat
          /\ receipt[k].charged \in {None, Cost[receipt[k].budget]}
          /\ sends[k] = 0
      BY <2>1, <2>2, BudgetAssumption
      DEF BillInv, SendInv, TypeInv, TypeOK, MoneyTypeOK, Receipts
    <2>4. /\ \A j \in Keys \ {k} : sends'[j] = sends[j] /\ billed'[j] = billed[j]
          /\ sends'[k] = 1 /\ billed'[k] \in Nat
      BY <1>1, <2>1, <2>2, <2>3
    <2>5. /\ \A t \in Servers \ {s} : server'[t] = server[t]
          /\ server'[s].item = k /\ server'[s].usage = server[s].usage
          /\ server'[s].pc = "wait"
      BY <1>1, <2>1 DEF Processes
    <2>6. BillCovered'
      BY <2>1, <2>2, <2>3, <2>4 DEF BillInv, BillCovered
    <2>7. \A j \in Keys : sends'[j] = 0 => billed'[j] = 0
      BY <2>4 DEF BillInv
    <2>8. \A j \in Keys :
              ~Taken(j)' /\ receipt'[j] # None => receipt'[j].charged = None
      BY <2>1 DEF BillInv, Taken
    <2>9. ASSUME NEW t \in Servers PROVE UsageOK(t)'
      <3>1. CASE t = s
        BY <2>1, <2>5, <3>1 DEF BillInv, UsageOK
      <3>2. CASE t # s
        <4>1. server[t].usage # None => server[t].item \in Keys \ {k}
          <5>1. server[t].usage # None => server[t].pc = "finish"
            BY DEF BillInv, UsageOK
          <5>2. server[t].pc = "finish" => server[t].item \in Keys
            BY DEF TypeInv, ProcessOK, PlaceOK, Holding, Dispatch
          <5>3. server[t].item # k
            BY <2>2, <3>2 DEF HandInv
          <5> QED BY <5>1, <5>2, <5>3
        <4> QED BY <2>4, <2>5, <3>2, <4>1 DEF BillInv, UsageOK
      <3> QED BY <3>1, <3>2
    <2>10. \A t \in Servers : PreSend(t)' =>
               receipt'[server'[t].item].charged \in
                   {None, Cost[receipt'[server'[t].item].budget]}
      BY <2>1, <2>5 DEF BillInv, PreSend
    <2> QED BY <2>6, <2>7, <2>8, <2>9, <2>10 DEF BillInv
  <1> QED BY <1>4, <1>5, <1>6, ServerMoves

LEMMA BillInit == Init => BillInv
  BY DEF Init, MoneyInit, BillInv, BillCovered, UsageOK, PreSend, Down

\* The ledger keeps at least the bill of every call that stays within its
\* quote, however the reply ended (change_reply with reply_money::settle).
THEOREM LedgerCoversBill == Spec => []BillCovered
  <1> DEFINE Inv == TypeInv /\ HandInv /\ SendInv
  <1>1. Init => BillInv
    BY BillInit
  <1>2. Inv /\ BillInv /\ [Next]_vars => BillInv'
    <2> SUFFICES ASSUME Inv, BillInv, [Next]_vars PROVE BillInv'
      OBVIOUS
    <2>1. CASE UNCHANGED vars
      BY <2>1
      DEF vars, dbVars, seenVars, BillInv, BillCovered, Taken, UsageOK, PreSend
    <2>2. CASE Next
      BY <2>2, BillStep
    <2> QED BY <2>1, <2>2
  <1>3. BillInv => BillCovered
    BY DEF BillInv
  <1> QED BY <1>1, <1>2, <1>3, SendInvariant, PTL DEF Spec

-----------------------------------------------------------------------------
(* A stop that is durable is final, and no scan takes a reply away.        *)

\* What a step may do to the registrations.
LEMMA ConfigMoves ==
    ASSUME TypeInv, Next
    PROVE  \/ config' = config
           \/ \E r \in Revisions :
                 \/ config' = [config EXCEPT ![r].lapsed = TRUE]
                 \/ config' = [config EXCEPT ![r].disabled = TRUE]
                 \/ /\ config[r].budget = None
                    /\ \E b \in Budgets : config' = [config EXCEPT ![r].budget = b]
  <1> DEFINE Moved == \E r \in Revisions :
                 \/ config' = [config EXCEPT ![r].lapsed = TRUE]
                 \/ config' = [config EXCEPT ![r].disabled = TRUE]
                 \/ /\ config[r].budget = None
                    /\ \E b \in Budgets : config' = [config EXCEPT ![r].budget = b]
  <1>1. ASSUME NEW s \in Servers, RetryDisable(s) \/ PersistDisable(s)
        PROVE  config' = config \/ Moved
    <2>1. server[s].pc # "down" /\ Paid(s)
      BY <1>1
      DEF RetryDisable, PersistDisable, BetweenTicks, At, Paid, TypeInv,
          ProcessOK, PlaceOK, Dispatch
    <2>2. server[s].deployment.revision \in Revisions
      BY <2>1, PaidDeployment
    <2>3. \/ config' = [config EXCEPT
                            ![server[s].deployment.revision].disabled = TRUE]
          \/ config' = config
      BY <1>1 DEF RetryDisable, PersistDisable
    <2> QED BY <2>2, <2>3
  <1>2. ASSUME NEW s \in Servers, NEW d \in Deployments, Start(s, d)
        PROVE  config' = config \/ Moved
    <2>1. d.mode = "openai" => d.revision \in Revisions /\ d.budget \in Budgets
      BY DeploymentAssumption
    <2>2. \/ d.mode = "openai" /\ Register(d.revision, d.budget)
          \/ config' = config
      BY <1>2 DEF Start
    <2> QED BY <2>1, <2>2 DEF Register
  <1>3. ASSUME NEW s \in Servers, Running(s) \/ Crash(s)
        PROVE  RetryDisable(s) \/ PersistDisable(s) \/ config' = config
    BY <1>3, Zenon
    DEF Running, Crash, ScanPaid, ScanAll, ExpireItem, Claim, SkipPaid,
        Recheck, Verify, Send, Answered, ContractViolation, Finish,
        ClaimFixture, SkipGeneric, FinishFixture, dbVars
  <1>4. ASSUME NEW r \in Revisions, PriceLapses(r) \/ OperatorDisables(r)
        PROVE  Moved
    BY <1>4 DEF PriceLapses, OperatorDisables
  <1>5. CASE \/ NextDay
             \/ \E k \in Keys : LeaseLapses(k) \/ Cancel(k)
             \/ \E c \in Conversations : AppendMessage(c) \/ DeleteConversation(c)
             \/ \E s \in Servers, k \in Keys : CreatePaid(s, k) \/ CreateFixture(s, k)
    BY <1>5, Zenon
    DEF NextDay, LeaseLapses, Cancel, AppendMessage, DeleteConversation,
        CreatePaid, CreateFixture, dbVars
  <1> QED
    BY <1>1, <1>2, <1>3, <1>4, <1>5 DEF Next

\* No step clears the mark of a stopped revision.
LEMMA DisabledStays ==
    ASSUME TypeInv, Next, NEW r \in Revisions, config[r].disabled
    PROVE  config'[r].disabled
  <1>1. config \in [Revisions -> Registrations]
    BY DEF TypeInv, TypeOK
  <1> QED
    BY <1>1, ConfigMoves DEF Registrations

\* An executor comes to be about to send by its second check only.
LEMMA SendingFollowsVerify ==
    ASSUME TypeInv, NEW s \in Servers, Running(s)
    PROVE  Verify(s) \/ server'[s].pc # "send"
  <1>1. server \in [Servers -> Processes] /\ server[s] \in Processes
    BY DEF TypeInv, TypeOK
  <1>2. CASE \/ RetryDisable(s) \/ ScanPaid(s) \/ ScanAll(s) \/ ExpireItem(s)
             \/ SkipPaid(s) \/ SkipGeneric(s)
    <2>1. \/ Goto(s, "scan")
          \/ \E pc \in {"paid", "generic"} : \E batch : TakeBatch(s, pc, batch)
          \/ server[s].pc # "send" /\ \E i \in server[s].batch : Drop(s, i)
      BY <1>2 DEF RetryDisable, ScanPaid, ScanAll, ExpireItem, SkipPaid,
                  SkipGeneric, BetweenTicks, At
    <2> QED BY <1>1, <2>1 DEF Goto, TakeBatch, Drop, Processes
  <1>3. CASE Claim(s) \/ ClaimFixture(s)
    <2>1. PICK i \in server[s].batch, pc \in {"recheck", "sleep"} :
              \/ server' = [server EXCEPT ![s].pc = pc,
                     ![s].item = i[1], ![s].batch = @ \ {i}]
              \/ Drop(s, i)
      BY <1>3, Zenon DEF Claim, ClaimFixture
    <2>2. server[s].pc \in {"paid", "generic"}
      BY <1>3, Zenon DEF Claim, ClaimFixture, At
    <2> QED BY <1>1, <2>1, <2>2 DEF Drop, Processes
  <1>4. CASE \/ Recheck(s) \/ Send(s) \/ ContractViolation(s) \/ Answered(s)
             \/ PersistDisable(s) \/ Finish(s) \/ FinishFixture(s)
    <2>1. \/ \E pc \in {"verify", "wait"} : Goto(s, pc)
          \/ \E pc \in {"paid", "generic"} : Return(s, pc)
          \/ \E o \in Outcomes : FinishWith(s, o)
          \/ server' = [server EXCEPT ![s].pc = "disable", ![s].halted = TRUE]
          \/ \E u : server' = [server EXCEPT ![s].pc = "finish",
                                    ![s].outcome = "succeeded", ![s].usage = u]
      BY <1>4
      DEF Recheck, Send, ContractViolation, Answered, PersistDisable, Finish,
          FinishFixture, Outcomes
    <2> QED BY <1>1, <2>1 DEF Goto, Return, FinishWith, Processes
  <1> QED
    BY <1>2, <1>3, <1>4 DEF Running

\* Whoever comes to be about to send has just found its configuration
\* active.
LEMMA SendersAreVerified ==
    ASSUME TypeInv, Next, NEW s \in Servers
    PROVE  \/ server'[s].pc # "send"
           \/ server'[s] = server[s]
           \/ /\ server'[s].deployment = server[s].deployment
              /\ ~config[server[s].deployment.revision].disabled
  <1>1. server \in [Servers -> Processes] /\ server[s] \in Processes
    BY DEF TypeInv, TypeOK
  <1>2. ASSUME NEW t \in Servers, t # s,
               Running(t) \/ Crash(t) \/ (\E d \in Deployments : Start(t, d))
        PROVE  server'[s] = server[s]
    BY <1>2, ExecutorMoves
  <1>3. CASE Verify(s)
    <2>1. \/ /\ ConfigActive(server[s].deployment.revision,
                             receipt[server[s].item].budget)
             /\ Goto(s, "send")
          \/ FinishWith(s, "unknown")
      BY <1>3 DEF Verify
    <2>2. server'[s].deployment = server[s].deployment
      BY <1>1, <2>1 DEF Goto, FinishWith, Processes
    <2>3. FinishWith(s, "unknown") => server'[s].pc # "send"
      BY <1>1 DEF FinishWith, Processes
    <2> QED BY <2>1, <2>2, <2>3 DEF ConfigActive
  <1>4. CASE Running(s)
    BY <1>3, <1>4, SendingFollowsVerify
  <1>5. CASE Crash(s)
    BY <1>1, <1>5 DEF Crash, Down
  <1>6. ASSUME NEW d \in Deployments, Start(s, d) PROVE server'[s].pc # "send"
    BY <1>1, <1>6 DEF Start, Down
  <1>7. CASE server' = server
    BY <1>7
  <1>8. CASE \/ NextDay
             \/ \E k \in Keys : LeaseLapses(k) \/ Cancel(k)
             \/ \E r \in Revisions : PriceLapses(r) \/ OperatorDisables(r)
             \/ \E c \in Conversations : AppendMessage(c) \/ DeleteConversation(c)
             \/ \E t \in Servers, k \in Keys : CreatePaid(t, k) \/ CreateFixture(t, k)
    <2>1. server' = server
      BY Zenon, <1>8
      DEF NextDay, LeaseLapses, Cancel, PriceLapses, OperatorDisables,
          AppendMessage, DeleteConversation, CreatePaid, CreateFixture
    <2> QED BY <1>7, <2>1
  <1> QED
    BY <1>2, <1>4, <1>5, <1>6, <1>8 DEF Next

\* A durable stop is final: afterwards the executors about to send under the
\* revision only become fewer (reply_dispatch.rs check).
THEOREM StopIsFinalHolds == Spec => StopIsFinal
  <1> DEFINE Final == \A r \in Revisions : config[r].disabled =>
                 config'[r].disabled /\ InFlight(r)' \subseteq InFlight(r)
  <1>1. ASSUME TypeInv, Next PROVE Final
    BY <1>1, DisabledStays, SendersAreVerified DEF InFlight, At
  <1>2. UNCHANGED vars => Final
    BY DEF vars, dbVars, InFlight, At
  <1>3. TypeInv /\ [Next]_vars => [Final]_vars
    BY <1>1, <1>2
  <1> QED
    BY <1>3, TypeInit, TypeStep, PTL DEF Spec, StopIsFinal

\* What a step may do to the rows of the replies.
LEMMA ReplyMoves ==
    ASSUME TypeInv, Next
    PROVE  \/ reply' = reply
           \/ \E k \in Keys :
                 \/ LeaseLapses(k) \/ TakeReply(k) \/ Expire(k)
                 \/ EndReply(k, "cancelled", None)
                 \/ FinishReply(k, "succeeded", None)
                 \/ reply[k].status = "absent" /\ \E x : InsertReply(k, x)
           \/ \E c \in Conversations : DeleteConversation(c)
           \/ \E s \in Servers :
                 /\ At(s, "finish") /\ server[s].item \in Keys
                 /\ server[s].outcome \in Outcomes
                 /\ FinishReply(server[s].item, server[s].outcome, server[s].usage)
  <1> DEFINE Moved ==
           \/ reply' = reply
           \/ \E k \in Keys :
                 \/ LeaseLapses(k) \/ TakeReply(k) \/ Expire(k)
                 \/ EndReply(k, "cancelled", None)
                 \/ FinishReply(k, "succeeded", None)
                 \/ reply[k].status = "absent" /\ \E x : InsertReply(k, x)
           \/ \E c \in Conversations : DeleteConversation(c)
           \/ \E s \in Servers :
                 /\ At(s, "finish") /\ server[s].item \in Keys
                 /\ server[s].outcome \in Outcomes
                 /\ FinishReply(server[s].item, server[s].outcome, server[s].usage)
  <1> SUFFICES Moved
    OBVIOUS
  <1>1. ASSUME NEW s \in Servers
        PROVE  /\ \A i \in server[s].batch : i[1] \in Keys
               /\ server[s].pc \in Holding => server[s].item \in Keys
               /\ server[s].pc = "finish" => server[s].outcome \in Outcomes
    BY DEF TypeInv, TypeOK, ProcessOK, PlaceOK, Processes
  <1>2. ASSUME NEW s \in Servers, Finish(s) PROVE Moved
    <2>1. At(s, "finish")
      BY <1>2 DEF Finish
    <2>2. server[s].item \in Keys /\ server[s].outcome \in Outcomes
      BY <1>1, <2>1 DEF At, Holding, Dispatch
    <2>3. \/ FinishReply(server[s].item, server[s].outcome, server[s].usage)
          \/ reply' = reply
      BY <1>2 DEF Finish
    <2> QED BY <2>1, <2>2, <2>3
  <1>3. ASSUME NEW s \in Servers, ExpireItem(s) \/ Recheck(s) PROVE Moved
    <2>1. \/ reply' = reply
          \/ \E i \in server[s].batch : Expire(i[1])
          \/ server[s].pc = "recheck" /\ Expire(server[s].item)
      BY <1>3 DEF ExpireItem, Recheck, At
    <2> QED BY <1>1, <2>1 DEF Holding, Dispatch
  <1>4. ASSUME NEW s \in Servers, FinishFixture(s) PROVE Moved
    <2>1. server[s].pc = "sleep"
      BY <1>4 DEF FinishFixture, At
    <2>2. \/ reply' = reply
          \/ FinishReply(server[s].item, "succeeded", None)
      BY <1>4 DEF FinishFixture
    <2> QED BY <1>1, <2>1, <2>2 DEF Holding
  <1>5. ASSUME NEW s \in Servers, Claim(s) \/ ClaimFixture(s) PROVE Moved
    <2>1. \E i \in server[s].batch : TakeReply(i[1])
      BY <1>5, Zenon DEF Claim, ClaimFixture
    <2> QED BY <1>1, <2>1
  <1>6. ASSUME NEW s \in Servers, NEW k \in Keys,
               CreatePaid(s, k) \/ CreateFixture(s, k)
        PROVE  Moved
    <2>1. reply[k].status = "absent" /\ \E x : InsertReply(k, x)
      BY <1>6 DEF CreatePaid, CreateFixture, Admissible
    <2> QED BY <2>1
  <1>7. ASSUME NEW k \in Keys, Cancel(k) PROVE Moved
    BY <1>7 DEF Cancel
  <1>8. ASSUME NEW s \in Servers,
               \/ RetryDisable(s) \/ ScanPaid(s) \/ ScanAll(s) \/ SkipPaid(s)
               \/ Verify(s) \/ Send(s) \/ Answered(s) \/ ContractViolation(s)
               \/ PersistDisable(s) \/ SkipGeneric(s) \/ Crash(s)
               \/ \E d \in Deployments : Start(s, d)
        PROVE  reply' = reply
    BY <1>8, Zenon
    DEF RetryDisable, ScanPaid, ScanAll, SkipPaid, Verify, Send, Answered,
        ContractViolation, PersistDisable, SkipGeneric, Crash, Start, dbVars
  <1>9. CASE \/ NextDay
             \/ \E r \in Revisions : PriceLapses(r) \/ OperatorDisables(r)
             \/ \E c \in Conversations : AppendMessage(c)
    BY <1>9 DEF NextDay, PriceLapses, OperatorDisables, AppendMessage, dbVars
  <1>10. ASSUME NEW s \in Servers, Running(s) PROVE Moved
    BY <1>2, <1>3, <1>4, <1>5, <1>8, <1>10 DEF Running
  <1>11. ASSUME NEW s \in Servers, Crash(s) \/ \E d \in Deployments : Start(s, d)
         PROVE  Moved
    BY <1>8, <1>11
  <1> QED
    <2>1. CASE \E k \in Keys : LeaseLapses(k)
      BY <2>1
    <2>2. CASE \E c \in Conversations : DeleteConversation(c)
      BY <2>2
    <2> HIDE DEF Moved
    <2> QED
      BY Zenon, <1>6, <1>7, <1>9, <1>10, <1>11, <2>1, <2>2 DEF Next

\* A deletion cancels, or leaves the status as it is.
LEMMA DeletionCancels ==
    ASSUME TypeOK, NEW c \in Conversations, DeleteConversation(c)
    PROVE  \A j \in Keys : reply'[j].status \in {"cancelled", reply[j].status}
  <1> DEFINE Active0 == {k \in Keys : k[1] = c /\ IsActive(k)}
  <1>1. \A j \in Keys : reply'[j].status =
            IF j \in Active0 THEN "cancelled" ELSE reply[j].status
    BY DEF DeleteConversation, TypeOK, ReplyRows
  <1> QED BY <1>1

\* What a step makes unknown was overdue, or in the hands of the executor
\* that finishes it.
LEMMA UnknownStep ==
    ASSUME TypeInv, Next, NEW k \in Keys, reply[k].status = "dispatching",
           reply[k].lease = "running", reply'[k].status = "unknown"
    PROVE  \E s \in Servers : server[s].item = k /\ At(s, "finish")
  <1>1. reply \in [Keys -> ReplyRows] /\ reply[k] \in ReplyRows
    BY DEF TypeInv, TypeOK
  <1>2. ASSUME NEW j \in Keys, NEW status \in Statuses, NEW usage,
               EndReply(j, status, usage)
        PROVE  j = k /\ status = "unknown"
    <2>1. reply' = [reply EXCEPT ![j].status = status,
                                 ![j].configuration = None,
                                 ![j].output = (status = "succeeded")]
      BY <1>2 DEF EndReply
    <2>2. j = k
      BY <1>1, <2>1
    <2>3. reply'[k].status = status
      BY <1>1, <2>1, <2>2 DEF ReplyRows
    <2> QED BY <2>2, <2>3
  <1>3. ASSUME NEW j \in Keys, Expire(j) PROVE FALSE
    BY <1>2, <1>3 DEF Expire, Overdue, Statuses
  <1>4. ASSUME NEW j \in Keys, FinishReply(j, "succeeded", None) PROVE FALSE
    BY <1>2, <1>4 DEF FinishReply, Overdue, Statuses
  <1>5. ASSUME NEW j \in Keys, EndReply(j, "cancelled", None) PROVE FALSE
    BY <1>2, <1>5 DEF Statuses
  <1>6. ASSUME NEW j \in Keys, TakeReply(j) PROVE FALSE
    BY <1>1, <1>6 DEF TakeReply, Queued
  <1>7. ASSUME NEW j \in Keys, LeaseLapses(j) PROVE FALSE
    <2>1. reply' = [reply EXCEPT ![j].lease = "lapsed"]
      BY <1>7 DEF LeaseLapses
    <2> QED BY <1>1, <2>1 DEF ReplyRows
  <1>8. ASSUME NEW j \in Keys, NEW x, reply[j].status = "absent", InsertReply(j, x)
        PROVE  FALSE
    <2>1. reply' = [reply EXCEPT ![j] = reply'[j]]
      BY <1>1, <1>8 DEF InsertReply
    <2> QED BY <1>1, <1>8, <2>1
  <1>9. ASSUME NEW c \in Conversations, DeleteConversation(c) PROVE FALSE
    <2>1. reply'[k].status \in {"cancelled", reply[k].status}
      BY <1>9, DeletionCancels DEF TypeInv
    <2> QED BY <2>1
  <1>10. ASSUME NEW s \in Servers, server[s].item \in Keys,
                server[s].outcome \in Outcomes,
                FinishReply(server[s].item, server[s].outcome, server[s].usage)
         PROVE  server[s].item = k
    BY <1>2, <1>10 DEF FinishReply, Outcomes, Statuses
  <1> QED
    BY <1>3, <1>4, <1>5, <1>6, <1>7, <1>8, <1>9, <1>10, ReplyMoves

\* A dispatched reply whose lease runs is given up as unknown only by the
\* executor that holds it, never by a scan that remembers it as overdue
\* (replies.rs Action::Expire).
THEOREM LeaseProtectsHolds == Spec => LeaseProtects
  <1> DEFINE Protected ==
          \A k \in Keys :
              /\ reply[k].status = "dispatching"
              /\ reply[k].lease = "running"
              /\ reply'[k].status = "unknown"
              => \E s \in Servers : server[s].item = k /\ At(s, "finish")
  <1>1. TypeInv /\ [Next]_vars => [Protected]_vars
    BY UnknownStep
  <1> QED
    BY <1>1, TypeInit, TypeStep, PTL DEF Spec, LeaseProtects

-----------------------------------------------------------------------------
(* What one step does to the rows of the store, the counts and the money.  *)

Same == UNCHANGED <<reply, reserved, moneyVars>>

DeletionsKept ==
    \A c \in Conversations : conversation'[c].deleted = conversation[c].deleted

Created(k) ==
    /\ Admissible(k)
    /\ \E x \in Configurations : InsertReply(k, x)
    /\ \/ UNCHANGED moneyVars
       \/ \E r \in Revisions, b \in Budgets : ReserveMoney(k, "reply", day, r, b)

Lapsed(k) == LeaseLapses(k)

Claimed(k) == Live(k) /\ TakeReply(k) /\ UNCHANGED <<reserved, moneyVars>>

\* The usage is the one its holder reports.
Reported(k, usage) ==
    usage # None =>
        \E s \in Servers :
            At(s, "finish") /\ server[s].item = k /\ server[s].usage = usage

Ended(k) ==
    /\ Live(k)
    /\ IsActive(k)
    /\ ReturnCount(k)
    /\ \E status \in Outcomes \union {"cancelled"}, usage \in Nat \union {None} :
           /\ EndReply(k, status, usage)
           /\ Queued(k) => status = "cancelled"
           /\ Reported(k, usage)

RowMove(k) == Created(k) \/ Lapsed(k) \/ Claimed(k) \/ Ended(k)

LEMMA RowMoves ==
    ASSUME TypeInv, Next
    PROVE  \/ DeletionsKept /\ (Same \/ \E k \in Keys : RowMove(k))
           \/ \E c \in Conversations : DeleteConversation(c)
  <1> DEFINE Goal == \/ DeletionsKept /\ (Same \/ \E k \in Keys : RowMove(k))
                     \/ \E c \in Conversations : DeleteConversation(c)
  <1> SUFFICES Goal
    OBVIOUS
  <1>1. ASSUME NEW s \in Servers
        PROVE  /\ server[s] \in Processes
               /\ \A i \in server[s].batch : i[1] \in Keys
               /\ server[s].pc \in Holding => server[s].item \in Keys
               /\ server[s].pc = "finish" => server[s].outcome \in Outcomes
               /\ server[s].usage \in Nat \union {None}
    BY DEF TypeInv, TypeOK, ProcessOK, PlaceOK, Processes
  <1>2. ASSUME NEW k \in Keys, Live(k), Expire(k), UNCHANGED <<conversation, reserved>>
        PROVE  Goal
    <2>1. CASE Overdue(k)
      <3>1. EndReply(k, "unknown", None) /\ ~Queued(k) /\ IsActive(k)
        BY <1>2, <2>1 DEF Expire, Overdue, Queued, IsActive, Active
      <3>2. Ended(k)
        BY <1>2, <3>1 DEF Ended, ReturnCount, Reported, Outcomes
      <3> QED BY <1>2, <3>2 DEF RowMove, DeletionsKept
    <2>2. CASE ~Overdue(k)
      BY <1>2, <2>2 DEF Expire, Same, DeletionsKept
    <2> QED BY <2>1, <2>2
  <1>3. ASSUME NEW k \in Keys, Live(k), NEW outcome \in Outcomes,
               NEW usage \in Nat \union {None}, Reported(k, usage),
               FinishReply(k, outcome, usage), UNCHANGED <<conversation, reserved>>
        PROVE  Goal
    <2>1. CASE UNCHANGED <<reply, moneyVars>>
      BY <1>3, <2>1 DEF Same, DeletionsKept
    <2>2. ASSUME NEW status \in Outcomes, NEW known \in {usage, None},
                 EndReply(k, status, known), reply[k].status = "dispatching"
          PROVE  Goal
      <3>1. ~Queued(k) /\ IsActive(k) /\ Reported(k, known)
        BY <1>3, <2>2 DEF Queued, IsActive, Active, Reported
      <3>2. Ended(k)
        BY <1>3, <2>2, <3>1 DEF Ended, ReturnCount
      <3> QED BY <1>3, <3>2 DEF RowMove, DeletionsKept
    <2> QED BY <1>3, <2>1, <2>2 DEF FinishReply, Outcomes
  <1>4. ASSUME NEW k \in Keys, Live(k), TakeReply(k),
               UNCHANGED <<conversation, reserved, moneyVars>>
        PROVE  Goal
    BY <1>4 DEF Claimed, RowMove, DeletionsKept
  <1>5. CASE Same /\ conversation' = conversation
    BY <1>5 DEF DeletionsKept
  <1>6. ASSUME NEW s \in Servers, Running(s) PROVE Goal
    <2>1. CASE ExpireItem(s)
      BY <1>1, <1>2, <1>5, <2>1 DEF ExpireItem, Same
    <2>2. CASE Recheck(s)
      BY <1>1, <1>2, <1>5, <2>2 DEF Recheck, Same, At, Holding, Dispatch
    <2>3. CASE Finish(s)
      <3> DEFINE k == server[s].item
      <3>1. At(s, "finish") /\ UNCHANGED <<conversation, reserved>>
        BY <2>3 DEF Finish
      <3>2. k \in Keys /\ server[s].outcome \in Outcomes
        BY <1>1, <3>1 DEF At, Holding, Dispatch
      <3>3. Reported(k, server[s].usage)
        BY <3>1 DEF Reported
      <3>4. \/ UNCHANGED <<reply, moneyVars>>
            \/ Live(k) /\ FinishReply(k, server[s].outcome, server[s].usage)
        BY <2>3 DEF Finish
      <3> QED BY <1>1, <1>3, <1>5, <3>1, <3>2, <3>3, <3>4 DEF Same
    <2>4. CASE FinishFixture(s)
      <3> DEFINE k == server[s].item
      <3>1. At(s, "sleep") /\ UNCHANGED <<conversation, reserved>>
        BY <2>4 DEF FinishFixture
      <3>2. k \in Keys
        BY <1>1, <3>1 DEF At, Holding
      <3>3. Reported(k, None)
        BY DEF Reported
      <3>4. \/ UNCHANGED <<reply, moneyVars>>
            \/ Live(k) /\ FinishReply(k, "succeeded", None)
        BY <2>4 DEF FinishFixture
      <3> QED BY <1>1, <1>3, <1>5, <3>1, <3>2, <3>3, <3>4 DEF Same, Outcomes
    <2>5. CASE Claim(s) \/ ClaimFixture(s)
      <3>1. /\ \E i \in server[s].batch : Live(i[1]) /\ TakeReply(i[1])
            /\ UNCHANGED <<conversation, reserved, moneyVars>>
        BY <2>5, Zenon DEF Claim, ClaimFixture, Claimable, FixtureClaimable
      <3> QED BY <1>1, <1>4, <3>1
    <2>6. CASE \/ RetryDisable(s) \/ ScanPaid(s) \/ ScanAll(s) \/ SkipPaid(s)
               \/ Verify(s) \/ Send(s) \/ Answered(s) \/ ContractViolation(s)
               \/ PersistDisable(s) \/ SkipGeneric(s)
      <3>1. Same /\ conversation' = conversation
        BY <2>6, Zenon
        DEF RetryDisable, ScanPaid, ScanAll, SkipPaid, Verify, Send, Answered,
            ContractViolation, PersistDisable, SkipGeneric, dbVars, Same, moneyVars
      <3> QED BY <1>5, <3>1
    <2> QED
      BY <1>6, <2>1, <2>2, <2>3, <2>4, <2>5, <2>6 DEF Running
  <1>7. ASSUME NEW s \in Servers,
               Crash(s) \/ \E d \in Deployments : Start(s, d)
        PROVE  Goal
    <2>1. Same /\ conversation' = conversation
      BY <1>7, Zenon DEF Crash, Start, dbVars, Same, moneyVars
    <2> QED BY <1>5, <2>1
  <1>8. ASSUME NEW s \in Servers, NEW k \in Keys, CreatePaid(s, k) PROVE Goal
    <2>1. /\ server[s].deployment.revision \in Revisions
          /\ server[s].deployment.budget \in Budgets
      BY <1>8, PaidDeployment DEF CreatePaid, Paid
    <2>2. Created(k)
      BY <1>8, <2>1 DEF CreatePaid, Created, Configurations
    <2> QED BY <1>8, <2>2 DEF CreatePaid, RowMove, DeletionsKept
  <1>9. ASSUME NEW s \in Servers, NEW k \in Keys, CreateFixture(s, k) PROVE Goal
    <2>1. Created(k)
      BY <1>9 DEF CreateFixture, Created, Configurations
    <2> QED BY <1>9, <2>1 DEF CreateFixture, RowMove, DeletionsKept
  <1>10. ASSUME NEW k \in Keys, Cancel(k) PROVE Goal
    <2>1. Ended(k)
      BY <1>10 DEF Cancel, Ended, Reported
    <2> QED BY <1>10, <2>1 DEF Cancel, RowMove, DeletionsKept
  <1>11. ASSUME NEW k \in Keys, LeaseLapses(k) PROVE Goal
    BY <1>11 DEF LeaseLapses, Lapsed, RowMove, DeletionsKept
  <1>12. ASSUME NEW c \in Conversations, AppendMessage(c) PROVE Goal
    <2>1. conversation' = [conversation EXCEPT ![c].revision = @ + 1]
      BY <1>12 DEF AppendMessage
    <2>2. DeletionsKept
      BY <2>1 DEF DeletionsKept, TypeInv, TypeOK
    <2> QED BY <1>12, <2>2 DEF AppendMessage, Same
  <1>13. ASSUME NEW r \in Revisions, PriceLapses(r) \/ OperatorDisables(r)
         PROVE  Goal
    BY <1>5, <1>13 DEF PriceLapses, OperatorDisables, Same
  <1>14. CASE NextDay
    <2>1. Same /\ conversation' = conversation
      BY <1>14 DEF NextDay, dbVars, Same, moneyVars
    <2> QED BY <1>5, <2>1
  <1>15. ASSUME NEW c \in Conversations, DeleteConversation(c) PROVE Goal
    BY <1>15
  <1> HIDE DEF Goal
  <1>16. ASSUME NEW k \in Keys, LeaseLapses(k) \/ Cancel(k) PROVE Goal
    BY <1>10, <1>11, <1>16
  <1>17. ASSUME NEW c \in Conversations, AppendMessage(c) \/ DeleteConversation(c)
         PROVE  Goal
    BY <1>12, <1>15, <1>17
  <1>18. ASSUME NEW s \in Servers, NEW k \in Keys,
                CreatePaid(s, k) \/ CreateFixture(s, k)
         PROVE  Goal
    BY <1>8, <1>9, <1>18
  <1>19. ASSUME NEW s \in Servers,
                Crash(s) \/ Running(s) \/ \E d \in Deployments : Start(s, d)
         PROVE  Goal
    BY <1>6, <1>7, <1>19
  <1> QED
    BY <1>13, <1>14, <1>16, <1>17, <1>18, <1>19 DEF Next

\* The row of the reply that moves, before and after, and its money.
CreatedRow(k) ==
    /\ reply[k].status = "absent"
    /\ reply'[k].status = "queued" /\ reply'[k].lease = "none"
    /\ reply'[k].day = day
    /\ reserved' = [reserved EXCEPT ![day] = @ + 1]
    /\ \/ UNCHANGED moneyVars
       \/ /\ receipt[k] = None
          /\ receipt'[k] \in Receipts
          /\ receipt'[k].kind = "reply" /\ receipt'[k].charged = None

MovedRow(k) ==
    /\ reply'[k].day = reply[k].day
    /\ reply'[k].output = reply[k].output
    /\ reply'[k].lease # "none"
    /\ reply'[k].status = "dispatching"
    /\ reply[k].status = "queued" \/ (reply[k].status = "dispatching" /\ reply[k].lease # "none")
    /\ UNCHANGED <<reserved, moneyVars>>

EndedRow(k) ==
    /\ IsActive(k)
    /\ reply'[k].day = reply[k].day
    /\ reply'[k].lease = reply[k].lease
    /\ reply'[k].configuration = None
    /\ reply'[k].status \in Outcomes \union {"cancelled"}
    /\ Queued(k) => reply'[k].status = "cancelled"
    /\ reply'[k].output => reply'[k].status = "succeeded"
    /\ ReturnCount(k)
    /\ (receipt'[k] = receipt[k] /\ ~Held(k, "reply")) \/ Settled(k)

OthersKept(k) ==
    \A j \in Keys \ {k} : reply'[j] = reply[j] /\ receipt'[j] = receipt[j]

LEMMA CreatedGives ==
    ASSUME TypeInv, NEW k \in Keys, Created(k)
    PROVE  CreatedRow(k) /\ OthersKept(k)
  <1>1. PICK x \in Configurations : InsertReply(k, x)
    BY DEF Created
  <1> DEFINE new == [NoReply EXCEPT !.status = "queued", !.day = day,
                          !.revision = conversation[k[1]].revision,
                          !.configuration = x]
  <1>2. reply' = [reply EXCEPT ![k] = new]
    BY <1>1 DEF InsertReply
  <1>3. new.status = "queued" /\ new.lease = "none" /\ new.day = day
    BY DEF NoReply
  <1> HIDE DEF new
  <1>4. reply'[k] = new /\ \A j \in Keys \ {k} : reply'[j] = reply[j]
    BY <1>2 DEF TypeInv, TypeOK
  <1>5. ASSUME NEW r \in Revisions, NEW b \in Budgets,
               ReserveMoney(k, "reply", day, r, b)
        PROVE  /\ receipt[k] = None
               /\ receipt'[k] \in Receipts
               /\ receipt'[k].kind = "reply" /\ receipt'[k].charged = None
               /\ \A j \in Keys \ {k} : receipt'[j] = receipt[j]
    BY <1>5 DEF ReserveMoney, TypeInv, TypeOK, MoneyTypeOK, Receipts, Kinds
  <1>6. reply[k].status = "absent"
    BY DEF Created, Admissible
  <1> QED
    BY <1>1, <1>3, <1>4, <1>5, <1>6
    DEF Created, CreatedRow, OthersKept, InsertReply, moneyVars

LEMMA MovedGives ==
    ASSUME TypeInv, NEW k \in Keys, Lapsed(k) \/ Claimed(k)
    PROVE  MovedRow(k) /\ OthersKept(k)
  <1>1. reply[k] \in ReplyRows
    BY DEF TypeInv, TypeOK
  <1>2. CASE Lapsed(k)
    BY <1>1, <1>2
    DEF Lapsed, LeaseLapses, MovedRow, OthersKept, TypeInv, TypeOK, ReplyRows, moneyVars
  <1>3. CASE Claimed(k)
    BY <1>1, <1>3
    DEF Claimed, TakeReply, Queued, MovedRow, OthersKept, TypeInv, TypeOK,
        ReplyRows, moneyVars
  <1> QED BY <1>2, <1>3

\* A settlement closes an open row and keeps the rest of it.
LEMMA HeldCloses ==
    ASSUME TypeOK, NEW k \in Keys, NEW usage \in Nat \union {None},
           SettleKind(k, "reply", Queued(k), usage), Held(k, "reply")
    PROVE  receipt'[k] # receipt[k]
  <1> DEFINE charged == Charge(receipt[k].budget, Queued(k), usage)
  <1>1. /\ receipt[k] \in Receipts /\ receipt[k].charged = None
        /\ Queued(k) \in BOOLEAN
    BY DEF Held, TypeOK, MoneyTypeOK, Queued
  <1>2. charged \in Nat
    BY <1>1, ChargeRange, BudgetAssumption DEF Receipts
  <1>3. \E x : receipt' = [receipt EXCEPT ![k].charged = charged,
                                          ![k].settlement = x]
    BY DEF SettleKind
  <1> HIDE DEF charged
  <1>4. receipt'[k].charged = charged
    BY <1>1, <1>3 DEF TypeOK, MoneyTypeOK, Receipts
  <1> QED BY <1>1, <1>2, <1>4, NullAssumption

LEMMA SettledCloses ==
    ASSUME TypeOK, NEW k \in Keys, Settled(k)
    PROVE  /\ receipt[k] # None /\ receipt'[k] # None
           /\ receipt'[k].charged # None /\ receipt'[k].charged \in Nat
           /\ receipt'[k].kind = receipt[k].kind
           /\ receipt'[k].day = receipt[k].day
           /\ receipt'[k].budget = receipt[k].budget
  <1>1. receipt[k] \in Receipts /\ Cost[receipt[k].budget] \in Nat
    BY BudgetAssumption DEF Settled, TypeOK, MoneyTypeOK, Receipts
  <1> QED BY <1>1, NullAssumption DEF Settled, Receipts

LEMMA EndedGives ==
    ASSUME TypeInv, NEW k \in Keys, Ended(k)
    PROVE  EndedRow(k) /\ OthersKept(k)
  <1>1. PICK status \in Outcomes \union {"cancelled"}, usage \in Nat \union {None} :
            /\ EndReply(k, status, usage)
            /\ Queued(k) => status = "cancelled"
            /\ Reported(k, usage)
    BY DEF Ended
  <1>2. /\ \A j \in Keys \ {k} : receipt'[j] = receipt[j] /\ reply'[j] = reply[j]
        /\ receipt'[k] = receipt[k] \/ Settled(k)
        /\ reply'[k].status = status
    BY <1>1, EndReplyEffect DEF TypeInv, Reported, At
  <1>3. /\ reply'[k].day = reply[k].day
        /\ reply'[k].lease = reply[k].lease
        /\ reply'[k].configuration = None
        /\ reply'[k].output => status = "succeeded"
    <2>1. reply' = [reply EXCEPT ![k].status = status,
                                 ![k].configuration = None,
                                 ![k].output = (status = "succeeded")]
      BY <1>1 DEF EndReply
    <2>2. reply'[k] = [reply[k] EXCEPT !.status = status,
                           !.configuration = None,
                           !.output = (status = "succeeded")]
      BY <2>1 DEF TypeInv, TypeOK
    <2>3. reply[k] \in ReplyRows
      BY DEF TypeInv, TypeOK
    <2> QED BY <2>2, <2>3 DEF ReplyRows
  <1>4. Held(k, "reply") => receipt'[k] # receipt[k]
    BY <1>1, HeldCloses DEF EndReply, TypeInv
  <1> QED
    BY <1>1, <1>2, <1>3, <1>4 DEF Ended, EndedRow, OthersKept

-----------------------------------------------------------------------------
(* The books.  Exactness is inductive with the unique index on the active  *)
(* reply of a conversation, the lease that only a dispatched reply has,    *)
(* and the open reservations of active replies only.                       *)

OneActive ==
    \A j, k \in Keys : j[1] = k[1] /\ IsActive(j) /\ IsActive(k) => j = k

RowInv ==
    /\ OneActive
    /\ DeletedIsClean
    /\ \A k \in Keys :
           /\ reply[k].status \in {"absent", "queued"} => reply[k].lease = "none"
           /\ reply[k].status = "dispatching" => reply[k].lease # "none"
           /\ receipt[k] # None =>
                  /\ receipt[k].kind = "reply"
                  /\ receipt[k].charged = None => IsActive(k)

CountInv ==
    \A d \in Days :
        /\ IsFiniteSet(CountedOn(d))
        /\ reserved[d] = Cardinality(CountedOn(d))

LedgerInv ==
    \A d \in Days, m \in Currencies :
        /\ IsFiniteSet(UnitsOf(KeptOn(d, m)))
        /\ occupied[d][m] = SumOf(KeptOn(d, m))

LEMMA DeletionRows ==
    ASSUME TypeInv, RowInv, NEW c \in Conversations, DeleteConversation(c)
    PROVE  /\ \A d \in Conversations \ {c} :
                  conversation'[d].deleted = conversation[d].deleted
           /\ \A j \in Keys : j[1] # c => reply'[j] = reply[j]
           /\ \A j \in Keys : j[1] = c =>
                  /\ reply'[j].configuration = None /\ ~reply'[j].output
                  /\ reply'[j].lease = reply[j].lease
                  /\ reply'[j].day = reply[j].day
                  /\ reply'[j].status =
                         IF IsActive(j) THEN "cancelled" ELSE reply[j].status
           /\ \/ /\ \A j \in Keys : j[1] = c => ~IsActive(j)
                 /\ UNCHANGED <<reserved, moneyVars>>
              \/ \E k \in Keys :
                    /\ k[1] = c /\ IsActive(k)
                    /\ ReturnCount(k)
                    /\ SettleKind(k, "reply", Queued(k), None)
                    /\ \A j \in Keys \ {k} : receipt'[j] = receipt[j]
                    /\ (receipt'[k] = receipt[k] /\ ~Held(k, "reply")) \/ Settled(k)
  <1> DEFINE mine == {k \in Keys : k[1] = c}
             active == {k \in mine : IsActive(k)}
             gone == [deleted |-> TRUE, revision |-> conversation[c].revision + 1]
  <1>1. conversation' = [conversation EXCEPT ![c] = gone]
    BY DEF DeleteConversation
  <1>2. reply' = [k \in Keys |->
           IF k \in mine
           THEN [reply[k] EXCEPT !.configuration = None, !.output = FALSE,
                     !.status = IF k \in active THEN "cancelled" ELSE @]
           ELSE reply[k]]
    BY DEF DeleteConversation
  <1>3. \A j \in Keys : j[1] # c => reply'[j] = reply[j]
    BY <1>2
  <1>4. ASSUME NEW j \in Keys, j[1] = c
        PROVE  /\ reply'[j].configuration = None /\ ~reply'[j].output
               /\ reply'[j].lease = reply[j].lease
               /\ reply'[j].day = reply[j].day
               /\ reply'[j].status =
                      IF IsActive(j) THEN "cancelled" ELSE reply[j].status
    <2>1. reply[j] \in ReplyRows
      BY DEF TypeInv, TypeOK
    <2>2. reply'[j] = [reply[j] EXCEPT !.configuration = None, !.output = FALSE,
                     !.status = IF IsActive(j) THEN "cancelled" ELSE @]
      BY <1>2, <1>4
    <2> QED BY <2>1, <2>2 DEF ReplyRows
  <1>5. \A d \in Conversations \ {c} :
            conversation'[d].deleted = conversation[d].deleted
    BY <1>1 DEF TypeInv, TypeOK
  <1>6. ASSUME NEW k \in active, ReturnCount(k),
               SettleKind(k, "reply", Queued(k), None)
        PROVE  /\ \A j \in Keys \ {k} : receipt'[j] = receipt[j]
               /\ (receipt'[k] = receipt[k] /\ ~Held(k, "reply")) \/ Settled(k)
    <2>1. /\ \A j \in Keys \ {k} : receipt'[j] = receipt[j]
          /\ receipt'[k] = receipt[k] \/ Settled(k)
      BY <1>6, SettleWithoutUsage DEF TypeInv
    <2>2. Held(k, "reply") => receipt'[k] # receipt[k]
      BY <1>6, HeldCloses DEF TypeInv
    <2> QED BY <2>1, <2>2
  <1>7. \/ active = {} /\ UNCHANGED <<reserved, moneyVars>>
        \/ \E k \in active : ReturnCount(k) /\ SettleKind(k, "reply", Queued(k), None)
    BY DEF DeleteConversation
  <1>8. \/ /\ \A j \in Keys : j[1] = c => ~IsActive(j)
           /\ UNCHANGED <<reserved, moneyVars>>
        \/ \E k \in Keys :
              /\ k[1] = c /\ IsActive(k)
              /\ ReturnCount(k)
              /\ SettleKind(k, "reply", Queued(k), None)
              /\ \A j \in Keys \ {k} : receipt'[j] = receipt[j]
              /\ (receipt'[k] = receipt[k] /\ ~Held(k, "reply")) \/ Settled(k)
    BY <1>6, <1>7
  <1> QED BY <1>3, <1>4, <1>5, <1>8

LEMMA RowStep ==
    ASSUME TypeInv, RowInv, Next
    PROVE  RowInv'
  <1>1. \A k \in Keys : k[1] \in Conversations
    BY DEF Keys
  <1>2. CASE Same /\ DeletionsKept
    BY <1>1, <1>2
    DEF Same, DeletionsKept, moneyVars, RowInv, OneActive, DeletedIsClean, IsActive, Held
  <1>3. ASSUME NEW k \in Keys, DeletionsKept, ~conversation[k[1]].deleted,
               OthersKept(k), reply[k].status # "absent" \/ Admissible(k),
               IsActive(k) \/ reply[k].status = "absent",
               CreatedRow(k) \/ MovedRow(k) \/ EndedRow(k)
        PROVE  RowInv'
    <2>1. receipt'[k] # None =>
              /\ receipt'[k].kind = "reply"
              /\ receipt'[k].charged = None => IsActive(k)'
      <3>1. CASE CreatedRow(k)
        BY <3>1
        DEF CreatedRow, RowInv, IsActive, Active, moneyVars
      <3>2. CASE MovedRow(k)
        BY <3>2 DEF MovedRow, RowInv, IsActive, Active, moneyVars
      <3>3. CASE EndedRow(k) /\ receipt'[k] = receipt[k] /\ ~Held(k, "reply")
        BY <3>3 DEF Held, RowInv
      <3>4. CASE EndedRow(k) /\ Settled(k)
        <4>1. /\ receipt[k] # None /\ receipt'[k].kind = receipt[k].kind
              /\ receipt'[k].charged # None
          BY <3>4, SettledCloses DEF TypeInv
        <4> QED BY <4>1 DEF RowInv
      <3> QED BY <1>3, <3>1, <3>2, <3>3, <3>4 DEF EndedRow
    <2>2. /\ reply'[k].status \in {"absent", "queued"} => reply'[k].lease = "none"
          /\ reply'[k].status = "dispatching" => reply'[k].lease # "none"
      BY <1>3 DEF CreatedRow, MovedRow, EndedRow, Outcomes
    <2>3. OneActive'
      <3>1. ASSUME NEW j \in Keys, j # k, j[1] = k[1], IsActive(j)', IsActive(k)'
            PROVE  FALSE
        <4>1. IsActive(j)
          BY <3>1, <1>3 DEF OthersKept, IsActive
        <4>2. ~IsActive(k)
          BY <3>1, <4>1 DEF RowInv, OneActive
        <4>3. Admissible(k)
          BY <1>3, <4>2
        <4> QED BY <3>1, <4>1, <4>3 DEF Admissible
      <3>2. \A j \in Keys \ {k} : IsActive(j)' = IsActive(j)
        BY <1>3 DEF OthersKept, IsActive
      <3> QED BY <3>1, <3>2 DEF OneActive, RowInv
    <2>4. DeletedIsClean'
      BY <1>1, <1>3
      DEF DeletionsKept, DeletedIsClean, OthersKept, RowInv, IsActive, Held
    <2> QED BY <1>3, <2>1, <2>2, <2>3, <2>4 DEF RowInv, OthersKept, IsActive
  <1>4. ASSUME NEW k \in Keys, RowMove(k), DeletionsKept PROVE RowInv'
    <2>1. CASE Created(k)
      BY <1>3, <1>4, <2>1, CreatedGives DEF Created, Admissible, Live
    <2>2. CASE Lapsed(k)
      <3>1. reply[k].status = "dispatching"
        BY <2>2 DEF Lapsed, LeaseLapses
      <3>2. ~conversation[k[1]].deleted
        BY <3>1 DEF RowInv, DeletedIsClean, IsActive, Active
      <3> QED BY <1>3, <1>4, <2>2, <3>1, <3>2, MovedGives DEF IsActive, Active
    <2>3. CASE Claimed(k)
      BY <1>3, <1>4, <2>3, MovedGives
      DEF Claimed, Live, TakeReply, Queued, IsActive, Active
    <2>4. CASE Ended(k)
      BY <1>3, <1>4, <2>4, EndedGives DEF Ended, Live, IsActive, Active
    <2> QED BY <1>4, <2>1, <2>2, <2>3, <2>4 DEF RowMove
  <1>5. ASSUME NEW c \in Conversations, DeleteConversation(c) PROVE RowInv'
    <2>1. ASSUME NEW j \in Keys
          PROVE  /\ j[1] = c => ~IsActive(j)'
                 /\ j[1] # c => reply'[j] = reply[j] /\ receipt'[j] = receipt[j]
                 /\ j[1] = c => ~Held(j, "reply")'
                 /\ receipt'[j] # None => receipt'[j].kind = "reply"
      <3>1. j[1] = c => ~IsActive(j)'
        BY <1>5, DeletionRows DEF IsActive, Active
      <3>2. receipt'[j] = receipt[j] \/ (Settled(j) /\ j[1] = c)
        BY <1>5, DeletionRows DEF moneyVars
      <3>3. j[1] = c /\ receipt'[j] = receipt[j] => ~Held(j, "reply")'
        <4> SUFFICES ASSUME j[1] = c, receipt'[j] = receipt[j], Held(j, "reply")
                     PROVE  FALSE
          BY DEF Held
        <4>1. IsActive(j)
          BY DEF Held, RowInv
        <4>2. PICK k \in Keys :
                  /\ k[1] = c /\ IsActive(k)
                  /\ (receipt'[k] = receipt[k] /\ ~Held(k, "reply")) \/ Settled(k)
          BY <1>5, <4>1, DeletionRows
        <4>3. k = j
          BY <4>1, <4>2 DEF RowInv, OneActive
        <4> QED BY <4>2, <4>3, SettledCloses DEF TypeInv, Held
      <3>4. ASSUME Settled(j)
            PROVE  /\ receipt'[j] # None /\ receipt'[j].kind = "reply"
                   /\ receipt'[j].charged # None
        <4>1. /\ receipt[j] # None /\ receipt'[j] # None
              /\ receipt'[j].kind = receipt[j].kind
              /\ receipt'[j].charged # None
          BY <3>4, SettledCloses DEF TypeInv
        <4> QED BY <4>1 DEF RowInv
      <3>5. j[1] # c => reply'[j] = reply[j] /\ receipt'[j] = receipt[j]
        BY <1>5, <3>2, DeletionRows
      <3>6. receipt'[j] # None => receipt'[j].kind = "reply"
        BY <3>2, <3>4 DEF RowInv
      <3>7. Settled(j) => ~Held(j, "reply")'
        BY <3>4 DEF Held
      <3> QED BY <3>1, <3>2, <3>3, <3>5, <3>6, <3>7
    <2>2. \A j \in Keys : IsActive(j)' => IsActive(j) /\ j[1] # c
      BY <1>5, <2>1, DeletionRows DEF IsActive
    <2>3. OneActive'
      BY <2>2 DEF OneActive, RowInv
    <2>4. DeletedIsClean'
      BY <1>1, <1>5, <2>1, DeletionRows
      DEF DeletedIsClean, RowInv, IsActive, Held
    <2>5. \A k \in Keys : receipt'[k] # None =>
              /\ receipt'[k].kind = "reply"
              /\ receipt'[k].charged = None => IsActive(k)'
      BY <2>1 DEF RowInv, Held, IsActive
    <2>6. ASSUME NEW k \in Keys
          PROVE  /\ reply'[k].status \in {"absent", "queued"} => reply'[k].lease = "none"
                 /\ reply'[k].status = "dispatching" => reply'[k].lease # "none"
      BY <1>5, DeletionRows DEF RowInv, IsActive, Active
    <2> QED BY <2>3, <2>4, <2>5, <2>6 DEF RowInv
  <1> QED BY <1>2, <1>4, <1>5, RowMoves

\* Every reply is counted on its day by one lemma for each kind of step.
LEMMA CountKept ==
    ASSUME CountInv, reserved' = reserved,
           \A d \in Days : CountedOn(d)' = CountedOn(d)
    PROVE  CountInv'
  BY DEF CountInv

\* One reply is given back.
LEMMA CountReturned ==
    ASSUME TypeInv, CountInv, RowInv, NEW k \in Keys, Queued(k), ReturnCount(k),
           reply'[k].status = "cancelled", reply'[k].lease = "none",
           \A d \in Days : \A j \in Keys \ {k} :
               j \in CountedOn(d)' <=> j \in CountedOn(d)
    PROVE  CountInv'
  <1>0. PICK e \in Days : e = reply[k].day
    BY DEF TypeInv, TypeOK, ReplyRows
  <1>1. k \in CountedOn(e)
    BY <1>0 DEF Queued, CountedOn
  <1>2. reserved' = [reserved EXCEPT ![e] = @ - 1]
    BY <1>0 DEF ReturnCount
  <1>3. reserved \in [Days -> Nat]
    BY DEF TypeInv, TypeOK
  <1>4. ASSUME NEW d \in Days
        PROVE  CountedOn(d)' = CountedOn(d) \ {k}
    <2>1. k \notin CountedOn(d)'
      BY DEF CountedOn
    <2> QED BY <2>1 DEF CountedOn
  <1>5. ASSUME NEW d \in Days, d # e
        PROVE  CountedOn(d)' = CountedOn(d)
    BY <1>0, <1>4, <1>5 DEF CountedOn
  <1>6. /\ IsFiniteSet(CountedOn(e)')
        /\ Cardinality(CountedOn(e)') = Cardinality(CountedOn(e)) - 1
    BY <1>1, <1>4, FS_RemoveElement DEF CountInv
  <1> QED BY <1>1, <1>2, <1>3, <1>5, <1>6 DEF CountInv

LEMMA CountStep ==
    ASSUME TypeInv, RowInv, CountInv, Next
    PROVE  CountInv'
  <1>1. CASE Same
    BY <1>1, CountKept DEF Same, CountedOn
  <1>2. ASSUME NEW k \in Keys, CreatedRow(k), OthersKept(k) PROVE CountInv'
    <2>0. PICK e \in Days : e = day
      BY DEF TypeInv, TypeOK
    <2>1. reserved \in [Days -> Nat]
      BY DEF TypeInv, TypeOK
    <2>2. \A d \in Days \ {e} : CountedOn(d)' = CountedOn(d)
      BY <1>2, <2>0 DEF CreatedRow, OthersKept, CountedOn
    <2>3. CountedOn(e)' = CountedOn(e) \cup {k} /\ k \notin CountedOn(e)
      BY <1>2, <2>0 DEF CreatedRow, OthersKept, CountedOn
    <2>4. /\ IsFiniteSet(CountedOn(e)')
          /\ Cardinality(CountedOn(e)') = Cardinality(CountedOn(e)) + 1
      BY <2>1, <2>3, FS_AddElement DEF CountInv
    <2>5. reserved' = [reserved EXCEPT ![e] = @ + 1]
      BY <1>2, <2>0 DEF CreatedRow
    <2> QED BY <2>1, <2>2, <2>4, <2>5 DEF CountInv
  <1>3. ASSUME NEW k \in Keys, MovedRow(k), OthersKept(k) PROVE CountInv'
    BY <1>3, CountKept DEF MovedRow, OthersKept, CountedOn
  <1>4. ASSUME NEW k \in Keys, EndedRow(k), OthersKept(k) PROVE CountInv'
    <2>1. CASE Queued(k)
      <3>1. reply'[k].status = "cancelled" /\ reply'[k].lease = "none"
        BY <1>4, <2>1 DEF EndedRow, Queued, RowInv
      <3>2. \A d \in Days : \A j \in Keys \ {k} :
                j \in CountedOn(d)' <=> j \in CountedOn(d)
        BY <1>4 DEF OthersKept, CountedOn
      <3>3. ReturnCount(k)
        BY <1>4 DEF EndedRow
      <3> QED BY <2>1, <3>1, <3>2, <3>3, CountReturned
    <2>2. CASE ~Queued(k)
      <3>1. reply[k].status = "dispatching" /\ reply[k].lease # "none"
        BY <1>4, <2>2 DEF EndedRow, IsActive, Active, Queued, RowInv
      <3> QED
        BY <1>4, <2>2, <3>1, CountKept
        DEF EndedRow, OthersKept, CountedOn, ReturnCount, Outcomes
    <2> QED BY <2>1, <2>2
  <1>5. ASSUME NEW c \in Conversations, DeleteConversation(c) PROVE CountInv'
    <2>1. ASSUME NEW j \in Keys, ~(IsActive(j) /\ j[1] = c)
          PROVE  \A d \in Days : j \in CountedOn(d)' <=> j \in CountedOn(d)
      BY <1>5, <2>1, DeletionRows DEF CountedOn
    <2>2. CASE \A j \in Keys : j[1] = c => ~IsActive(j)
      <3>1. reserved' = reserved
        BY <1>5, <2>2, DeletionRows
      <3>2. \A d \in Days : CountedOn(d)' = CountedOn(d)
        BY <2>1, <2>2 DEF CountedOn
      <3> QED BY <3>1, <3>2, CountKept
    <2>3. ASSUME NEW k \in Keys, k[1] = c, IsActive(k), ReturnCount(k)
          PROVE  CountInv'
      <3>1. \A j \in Keys \ {k} : ~(IsActive(j) /\ j[1] = c)
        BY <2>3 DEF RowInv, OneActive
      <3>2. /\ reply'[k].status = "cancelled" /\ reply'[k].lease = reply[k].lease
            /\ reply'[k].day = reply[k].day
        BY <1>5, <2>3, DeletionRows
      <3>3. CASE Queued(k)
        <4>1. reply'[k].lease = "none"
          BY <3>2, <3>3 DEF RowInv, Queued
        <4> QED BY <2>1, <2>3, <3>1, <3>2, <3>3, <4>1, CountReturned
      <3>4. CASE ~Queued(k)
        <4>1. reply[k].status = "dispatching" /\ reply[k].lease # "none"
          BY <2>3, <3>4 DEF IsActive, Active, Queued, RowInv
        <4>2. \A d \in Days : k \in CountedOn(d)' <=> k \in CountedOn(d)
          BY <3>2, <4>1 DEF CountedOn
        <4>3. \A d \in Days : CountedOn(d)' = CountedOn(d)
          BY <2>1, <3>1, <4>2 DEF CountedOn
        <4> QED BY <2>3, <3>4, <4>3, CountKept DEF ReturnCount
      <3> QED BY <3>3, <3>4
    <2> QED BY <1>5, <2>2, <2>3, DeletionRows
  <1>6. ASSUME NEW k \in Keys, RowMove(k) PROVE CountInv'
    BY <1>2, <1>3, <1>4, <1>6, CreatedGives, MovedGives, EndedGives DEF RowMove
  <1> QED BY <1>1, <1>5, <1>6, RowMoves

\* What is kept of a row is an amount.
LEMMA KeptType ==
    ASSUME MoneyTypeOK
    PROVE  /\ \A k \in Keys : receipt[k] # None => Occupies(receipt[k]) \in Nat
           /\ \A d \in Days, m \in Currencies : KeptOn(d, m) \in [Keys -> Nat]
  <1>1. ASSUME NEW k \in Keys, receipt[k] # None
        PROVE  Occupies(receipt[k]) \in Nat
    BY <1>1, BudgetAssumption DEF MoneyTypeOK, Receipts, Occupies
  <1> QED BY <1>1 DEF KeptOn

\* A step gives one row a new amount and changes the total of its day and
\* currency by the difference.
LedgerMove(k, e, n, old, new) ==
    /\ \A j \in Keys \ {k} : receipt'[j] = receipt[j]
    /\ receipt'[k] # None /\ receipt'[k].day = e
    /\ Currency[receipt'[k].budget] = n /\ Occupies(receipt'[k]) = new
    /\ \/ receipt[k] = None /\ old = 0
       \/ /\ receipt[k] # None /\ receipt[k].day = e
          /\ Currency[receipt[k].budget] = n /\ Occupies(receipt[k]) = old
    /\ \A d \in Days, m \in Currencies :
           d # e \/ m # n => occupied'[d][m] = occupied[d][m]
    /\ occupied'[e][n] + old = occupied[e][n] + new

\* Such a step keeps the ledger exact.
LEMMA LedgerChange ==
    ASSUME MoneyTypeOK, MoneyTypeOK', LedgerInv, NEW k \in Keys,
           NEW e \in Days, NEW n \in Currencies, NEW old \in Nat, NEW new \in Nat,
           LedgerMove(k, e, n, old, new)
    PROVE  LedgerInv'
  <1>1. ASSUME NEW d \in Days, NEW m \in Currencies
        PROVE  /\ KeptOn(d, m) \in [Keys -> Nat] /\ KeptOn(d, m)' \in [Keys -> Nat]
               /\ \A j \in Keys \ {k} : KeptOn(d, m)'[j] = KeptOn(d, m)[j]
    <2>1. KeptOn(d, m) \in [Keys -> Nat]
      BY KeptType
    <2>2. KeptOn(d, m)' \in [Keys -> Nat]
      <3>1. ASSUME NEW j \in Keys, receipt'[j] # None
            PROVE  Occupies(receipt'[j]) \in Nat
        BY <3>1, BudgetAssumption DEF MoneyTypeOK, Receipts, Occupies
      <3> QED BY <3>1 DEF KeptOn
    <2>3. \A j \in Keys \ {k} : KeptOn(d, m)'[j] = KeptOn(d, m)[j]
      BY DEF KeptOn, LedgerMove
    <2> QED BY <2>1, <2>2, <2>3
  <1>4. ASSUME NEW d \in Days, NEW m \in Currencies, d # e \/ m # n
        PROVE  /\ IsFiniteSet(UnitsOf(KeptOn(d, m)'))
               /\ occupied'[d][m] = SumOf(KeptOn(d, m)')
    <2>1. KeptOn(d, m)'[k] = KeptOn(d, m)[k]
      BY <1>4 DEF KeptOn, LedgerMove
    <2>2. KeptOn(d, m)' = KeptOn(d, m)
      BY <1>1, <2>1
    <2>3. occupied'[d][m] = occupied[d][m]
      BY <1>4 DEF LedgerMove
    <2> QED BY <2>2, <2>3 DEF LedgerInv
  <1>5. /\ IsFiniteSet(UnitsOf(KeptOn(e, n)'))
        /\ occupied'[e][n] = SumOf(KeptOn(e, n)')
    <2>1. KeptOn(e, n)[k] = old /\ KeptOn(e, n)'[k] = new
      BY DEF KeptOn, LedgerMove
    <2>2. IsFiniteSet(UnitsOf(KeptOn(e, n))) /\ occupied[e][n] = SumOf(KeptOn(e, n))
      BY DEF LedgerInv
    <2> DEFINE f == KeptOn(e, n)
               g == KeptOn(e, n)'
    <2>3. f \in [Keys -> Nat] /\ g \in [Keys -> Nat]
          /\ \A j \in Keys \ {k} : g[j] = f[j]
      BY <1>1
    <2>4. f[k] = old /\ g[k] = new /\ IsFiniteSet(UnitsOf(f)) /\ occupied[e][n] = SumOf(f)
      BY <2>1, <2>2
    <2> HIDE DEF f, g
    <2>5. IsFiniteSet(UnitsOf(g)) /\ SumOf(g) + old = SumOf(f) + new
      BY <2>3, <2>4, SumOfChange
    <2>6. SumOf(f) \in Nat /\ SumOf(g) \in Nat
      BY <2>3, <2>4, <2>5, SumOfType
    <2>7. occupied'[e][n] \in Nat
      BY DEF MoneyTypeOK
    <2>8. occupied'[e][n] = SumOf(g)
      BY <2>4, <2>5, <2>6, <2>7 DEF LedgerMove
    <2> QED BY <2>5, <2>8 DEF g
  <1> QED BY <1>4, <1>5 DEF LedgerInv

LEMMA LedgerReserve ==
    ASSUME TypeInv, LedgerInv, NEW k \in Keys, NEW r \in Revisions,
           NEW b \in Budgets, ReserveMoney(k, "reply", day, r, b)
    PROVE  LedgerInv'
  <1>1. PICK e \in Days : e = day
    BY DEF TypeInv, TypeOK
  <1>2. Currency[b] \in Currencies /\ Cost[b] \in Nat
    BY BudgetAssumption
  <1>3. MoneyTypeOK /\ MoneyTypeOK'
    BY <1>1, ReserveType DEF TypeInv, TypeOK
  <1> DEFINE row == [kind |-> "reply", day |-> e, revision |-> r, budget |-> b,
                     charged |-> None, settlement |-> None]
  <1>4. row \in Receipts /\ row.day = e /\ row.budget = b /\ row.charged = None
    BY <1>1 DEF Receipts, Kinds
  <1>5. receipt[k] = None /\ receipt' = [receipt EXCEPT ![k] = row]
        /\ occupied' = [occupied EXCEPT ![e][Currency[b]] = @ + Cost[b]]
    BY <1>1 DEF ReserveMoney
  <1> HIDE DEF row
  <1>6. receipt'[k] = row /\ \A j \in Keys \ {k} : receipt'[j] = receipt[j]
    BY <1>3, <1>5 DEF MoneyTypeOK
  <1>7. row # None /\ Occupies(row) = Cost[b]
    BY <1>4, NullAssumption DEF Occupies
  <1> DEFINE n == Currency[b]
             total == occupied[e][n] + Cost[b]
  <1>8. total \in Int /\ total + 0 = occupied[e][n] + Cost[b]
    BY <1>2, <1>3 DEF MoneyTypeOK
  <1>9. occupied' = [occupied EXCEPT ![e][n] = total]
    BY <1>2, <1>3, <1>5 DEF MoneyTypeOK
  <1>10. n \in Currencies /\ Currency[row.budget] = n
    BY <1>2, <1>4
  <1>11. /\ \A d \in Days, m \in Currencies :
                d # e \/ m # n => occupied'[d][m] = occupied[d][m]
         /\ occupied'[e][n] = total
    BY <1>3, <1>9, <1>10 DEF MoneyTypeOK
  <1> HIDE DEF total, n
  <1>12. LedgerMove(k, e, n, 0, Cost[b])
    BY <1>4, <1>5, <1>6, <1>7, <1>8, <1>10, <1>11 DEF LedgerMove
  <1> QED
    BY <1>2, <1>3, <1>10, <1>12, LedgerChange

LEMMA LedgerSettle ==
    ASSUME TypeInv, LedgerInv, NEW k \in Keys, NEW usage \in Nat \union {None},
           SettleKind(k, "reply", Queued(k), usage)
    PROVE  LedgerInv'
  <1>1. CASE UNCHANGED moneyVars
    BY <1>1 DEF moneyVars, LedgerInv, KeptOn
  <1>2. CASE Held(k, "reply")
    <2>1. PICK row \in Receipts : row = receipt[k] /\ row.charged = None /\ row # None
      BY <1>2 DEF Held, TypeInv, TypeOK, MoneyTypeOK
    <2>2. PICK e \in Days, n \in Currencies : e = row.day /\ n = Currency[row.budget]
      BY <2>1, BudgetAssumption DEF Receipts
    <2>3. PICK before \in BOOLEAN : before = Queued(k)
      BY DEF Queued
    <2> DEFINE new == Charge(row.budget, before, usage)
               settled == Settlement(row.budget, before, usage)
               cost == Cost[row.budget]
    <2>4. new \in 0 .. cost /\ settled \in Settlements /\ cost \in Nat
      BY <2>1, ChargeRange, BudgetAssumption DEF Receipts
    <2>5. /\ receipt' = [receipt EXCEPT ![k].charged = new,
                                        ![k].settlement = settled]
          /\ occupied' = [occupied EXCEPT ![e][n] = @ - (cost - new)]
      BY <1>2, <2>1, <2>2, <2>3 DEF SettleKind
    <2>6. MoneyTypeOK /\ MoneyTypeOK'
      BY <2>3, SettleType DEF TypeInv, TypeOK
    <2> HIDE DEF new, settled, cost
    <2>7. /\ receipt'[k] \in Receipts /\ receipt'[k].charged = new
          /\ receipt'[k].day = e /\ receipt'[k].budget = row.budget
          /\ \A j \in Keys \ {k} : receipt'[j] = receipt[j]
      <3>1. /\ receipt'[k] = [row EXCEPT !.charged = new, !.settlement = settled]
            /\ \A j \in Keys \ {k} : receipt'[j] = receipt[j]
        BY <2>1, <2>5, <2>6 DEF MoneyTypeOK
      <3>2. new \in Nat
        BY <2>4
      <3> QED BY <2>1, <2>2, <2>4, <3>1, <3>2 DEF Receipts
    <2>8. Occupies(row) = cost /\ Occupies(receipt'[k]) = new /\ receipt'[k] # None
      BY <2>1, <2>4, <2>7, NullAssumption DEF Occupies, cost
    <2> DEFINE total == occupied[e][n] - (cost - new)
    <2>9. /\ total \in Int /\ total + cost = occupied[e][n] + new
          /\ occupied' = [occupied EXCEPT ![e][n] = total]
      <3>1. occupied[e][n] \in Nat
        BY <2>6 DEF MoneyTypeOK
      <3> QED BY <2>4, <2>5, <2>6, <3>1 DEF MoneyTypeOK
    <2>10. /\ \A d \in Days, m \in Currencies :
                 d # e \/ m # n => occupied'[d][m] = occupied[d][m]
           /\ occupied'[e][n] = total
      BY <2>6, <2>9 DEF MoneyTypeOK
    <2> HIDE DEF total
    <2>11. new \in Nat
      BY <2>4
    <2>12. LedgerMove(k, e, n, cost, new)
      BY <2>1, <2>2, <2>7, <2>8, <2>9, <2>10 DEF LedgerMove
    <2> QED
      BY <2>4, <2>6, <2>11, <2>12, LedgerChange
  <1> QED BY <1>1, <1>2 DEF SettleKind

LEMMA LedgerStep ==
    ASSUME TypeInv, LedgerInv, Next
    PROVE  LedgerInv'
  <1>1. CASE UNCHANGED moneyVars
    BY <1>1 DEF moneyVars, LedgerInv, KeptOn
  <1>2. ASSUME NEW k \in Keys, RowMove(k) PROVE LedgerInv'
    BY <1>1, <1>2, LedgerReserve, LedgerSettle
    DEF RowMove, Created, Lapsed, LeaseLapses, Claimed, Ended, EndReply
  <1>3. ASSUME NEW c \in Conversations, DeleteConversation(c) PROVE LedgerInv'
    <2>1. \/ UNCHANGED moneyVars
          \/ \E k \in Keys : SettleKind(k, "reply", Queued(k), None)
      BY <1>3 DEF DeleteConversation
    <2> QED BY <1>1, <2>1, LedgerSettle
  <1> QED BY <1>1, <1>2, <1>3, RowMoves DEF Same

LEMMA BooksInit == Init => RowInv /\ CountInv /\ LedgerInv
  <1> SUFFICES ASSUME Init PROVE RowInv /\ CountInv /\ LedgerInv
    OBVIOUS
  <1>1. RowInv
    BY DEF Init, MoneyInit, NoReply, RowInv, OneActive, DeletedIsClean, IsActive,
           Active, Held
  <1>2. \A d \in Days : CountedOn(d) = {}
    BY DEF Init, NoReply, CountedOn
  <1>3. CountInv
    BY <1>2, FS_EmptySet DEF Init, CountInv
  <1>4. ASSUME NEW d \in Days, NEW m \in Currencies
        PROVE  IsFiniteSet(UnitsOf(KeptOn(d, m))) /\ SumOf(KeptOn(d, m)) = 0
    <2>1. \A k \in DOMAIN KeptOn(d, m) : KeptOn(d, m)[k] = 0
      BY DEF Init, MoneyInit, KeptOn
    <2> QED BY <2>1, SumOfZeros
  <1>5. LedgerInv
    BY <1>4 DEF Init, MoneyInit, LedgerInv
  <1> QED BY <1>1, <1>3, <1>5

LEMMA BooksInvariant == Spec => [](TypeInv /\ RowInv /\ CountInv /\ LedgerInv)
  <1> DEFINE Inv == TypeInv /\ RowInv /\ CountInv /\ LedgerInv
  <1>1. Init => Inv
    BY TypeInit, BooksInit
  <1>2. Inv /\ [Next]_vars => Inv'
    <2> SUFFICES ASSUME Inv, [Next]_vars PROVE Inv'
      OBVIOUS
    <2>1. CASE UNCHANGED vars
      <3>1. UNCHANGED <<conversation, reply, reserved, receipt, occupied>>
        BY <2>1 DEF vars, dbVars
      <3> QED
        BY <2>1, <3>1, TypeStep
        DEF RowInv, OneActive, DeletedIsClean, IsActive, Held, CountInv,
            CountedOn, LedgerInv, KeptOn
    <2>2. CASE Next
      BY <2>2, TypeStep, RowStep, CountStep, LedgerStep
    <2> QED BY <2>1, <2>2
  <1> QED BY <1>1, <1>2, PTL DEF Spec

\* The day of a queued reply counts it.
LEMMA QueuedIsCounted ==
    ASSUME TypeInv, RowInv, CountInv, NEW k \in Keys, Queued(k)
    PROVE  reserved[reply[k].day] > 0
  <1> DEFINE d == reply[k].day
  <1>1. d \in Days
    BY DEF TypeInv, TypeOK, ReplyRows
  <1>2. k \in CountedOn(d)
    BY DEF CountedOn, Queued
  <1>3. IsFiniteSet(CountedOn(d)) /\ reserved[d] = Cardinality(CountedOn(d))
    BY <1>1 DEF CountInv
  <1>4. Cardinality(CountedOn(d)) # 0
    BY <1>2, <1>3, FS_EmptySet
  <1>5. Cardinality(CountedOn(d)) \in Nat
    BY <1>3, FS_CardinalityType
  <1> QED BY <1>3, <1>4, <1>5

\* An open reservation is within the total of its own day.
LEMMA OpenIsCovered ==
    ASSUME TypeInv, LedgerInv, NEW k \in Keys, Held(k, "reply")
    PROVE  occupied[receipt[k].day][Currency[receipt[k].budget]]
               >= Cost[receipt[k].budget]
  <1> DEFINE d == receipt[k].day
             b == receipt[k].budget
             m == Currency[b]
  <1>1. receipt[k] \in Receipts
    BY DEF Held, TypeInv, TypeOK, MoneyTypeOK
  <1>2. d \in Days /\ m \in Currencies /\ Cost[b] \in Nat
    BY <1>1, BudgetAssumption DEF Receipts
  <1> DEFINE f == KeptOn(d, m)
  <1>3. IsFiniteSet(UnitsOf(f)) /\ occupied[d][m] = SumOf(f)
    BY <1>2 DEF LedgerInv
  <1>4. f \in [Keys -> Nat]
    BY <1>2, KeptType DEF TypeInv, TypeOK
  <1>5. f[k] = Cost[b]
    BY DEF KeptOn, Held, Occupies
  <1> HIDE DEF f, d, m, b
  <1>6. SumOf(f) \in Nat /\ f[k] <= SumOf(f)
    BY <1>3, <1>4, SumOfType
  <1>7. occupied[d][m] >= Cost[b]
    BY <1>2, <1>3, <1>5, <1>6
  <1> QED BY <1>7 DEF d, m, b

\* No cancellation, deletion, expiry or late answer is ever rolled back for
\* want of a count or of money to give back (reply_money.rs settle_kind), and
\* no overdue reply hides from the scans behind a deleted conversation.
THEOREM EndsAreCoveredHolds == Spec => []EndsAreCovered
  <1> DEFINE Inv == TypeInv /\ RowInv /\ CountInv /\ LedgerInv
  <1>1. Inv => EndsAreCovered
    <2> SUFFICES ASSUME Inv, NEW k \in Keys
                 PROVE  /\ Queued(k) => reserved[reply[k].day] > 0
                        /\ Held(k, "reply") =>
                             /\ IsActive(k)
                             /\ occupied[receipt[k].day][Currency[receipt[k].budget]]
                                    >= Cost[receipt[k].budget]
                        /\ Overdue(k) => Pending(k)
      BY DEF EndsAreCovered
    <2>1. Queued(k) => reserved[reply[k].day] > 0
      BY QueuedIsCounted
    <2>2. Held(k, "reply") => IsActive(k)
      BY DEF Held, RowInv
    <2>3. Held(k, "reply") =>
              occupied[receipt[k].day][Currency[receipt[k].budget]]
                  >= Cost[receipt[k].budget]
      BY OpenIsCovered
    <2>4. k[1] \in Conversations
      BY DEF Keys
    <2>5. Overdue(k) => Pending(k)
      BY <2>4 DEF Overdue, Pending, Live, RowInv, DeletedIsClean, IsActive, Active
    <2> QED BY <2>1, <2>2, <2>3, <2>5
  <1> QED BY <1>1, BooksInvariant, PTL

\* The total of every day and currency is what its reservations hold, the
\* count of a day is that of its replies, and a deleted conversation keeps
\* neither text nor money, whatever was cancelled, deleted, expired or
\* answered in between (conversations.rs, reply_money.rs).
THEOREM BooksAreExactHolds == Spec => []BooksAreExact
  <1>1. TypeInv /\ RowInv /\ CountInv /\ LedgerInv
            => LedgerExact /\ CountExact /\ DeletedIsClean
    BY DEF RowInv, CountInv, LedgerInv, CountExact, LedgerExact
  <1> QED BY <1>1, BooksInvariant, EndsAreCoveredHolds, PTL DEF BooksAreExact

-----------------------------------------------------------------------------
(* Every paid reply is a one-shot call.  Nobody holds a reply that was     *)
(* cancelled before its dispatch, and who waits for an answer, or knows    *)
(* what it cost, has sent the request.                                     *)

WithdrawInv ==
    \A k \in Keys :
        /\ receipt[k] # None
        /\ receipt[k].charged # None
        /\ receipt[k].settlement = "cancelled_before_dispatch"
        => Taken(k) /\ \A s \in Servers : server[s].item # k

\* The process waits for an answer or knows what it cost.
Informed(s) == server[s].pc = "wait" \/ server[s].usage # None

WaitInv == \A s \in Servers : Informed(s) => sends[server[s].item] > 0

LEMMA WithdrawStep ==
    ASSUME TypeInv, HandInv, WithdrawInv, Next
    PROVE  WithdrawInv'
  <1> SUFFICES ASSUME NEW k \in Keys,
                      receipt'[k] # None, receipt'[k].charged # None,
                      receipt'[k].settlement = "cancelled_before_dispatch"
               PROVE  Taken(k)' /\ \A s \in Servers : server'[s].item # k
    BY DEF WithdrawInv
  <1>1. k # None
    BY NullAssumption
  <1>2. CASE receipt'[k] = receipt[k]
    <2>1. Taken(k) /\ \A s \in Servers : server[s].item # k
      BY <1>2 DEF WithdrawInv
    <2>2. ~ClaimedReply(k)
      BY <2>1 DEF ClaimedReply, Queued, Taken
    <2> QED BY <1>1, <2>1, <2>2, TakenStays, ServerMoves DEF MovesOn
  <1>3. CASE Settled(k)
    <2>1. Queued(k) /\ receipt'[k] # receipt[k] /\ receipt[k] # None
      BY <1>3, SettledCloses DEF Settled, TypeInv
    <2>2. Taken(k)' /\ ~ClaimedReply(k)
      BY <2>1, MoneyStep DEF ReservedNow
    <2>3. \A s \in Servers : server[s].item # k
      BY <1>1, <2>1 DEF HandInv, Taken, Queued
    <2> QED BY <1>1, <2>2, <2>3, ServerMoves DEF MovesOn
  <1>4. ~ReservedNow(k)
    BY DEF ReservedNow
  <1> QED BY <1>2, <1>3, <1>4, MoneyStep

\* A process comes to wait by sending, and learns a usage by waiting.
LEMMA ExecutorLearns ==
    ASSUME TypeInv, NEW s \in Servers, UsageOK(s), Informed(s)',
           Running(s) \/ Crash(s) \/ (\E d \in Deployments : Start(s, d))
    PROVE  Send(s) \/ (Informed(s) /\ server'[s].item = server[s].item)
  <1> DEFINE Goal == Send(s) \/ (Informed(s) /\ server'[s].item = server[s].item)
  <1> SUFFICES Goal
    OBVIOUS
  <1>1. server \in [Servers -> Processes] /\ server[s] \in Processes
    BY DEF TypeInv, TypeOK
  <1>2. ASSUME server'[s].pc # "wait", server'[s].usage = None PROVE Goal
    BY <1>2 DEF Informed
  <1>3. ASSUME server'[s].pc # "wait", server'[s].usage = server[s].usage,
               server'[s].item = server[s].item
        PROVE  Goal
    BY <1>3 DEF Informed
  <1> HIDE DEF Goal
  <1>4. CASE Crash(s)
    <2>1. server'[s] = Down
      BY <1>1, <1>4 DEF Crash
    <2> QED BY <1>2, <2>1 DEF Down
  <1>5. ASSUME NEW d \in Deployments, Start(s, d) PROVE Goal
    <2>1. server'[s] = [Down EXCEPT !.pc = "generic", !.deployment = d]
      BY <1>1, <1>5 DEF Start
    <2>2. server'[s].pc = "generic" /\ server'[s].usage = None
      BY <2>1 DEF Down
    <2> QED BY <1>2, <2>2
  <1>6. CASE Send(s)
    BY <1>6 DEF Goal
  <1>7. CASE Answered(s)
    <2>1. server[s].pc = "wait"
      BY <1>7 DEF Answered, At
    <2>2. server'[s].item = server[s].item
      BY <1>1, <1>7 DEF Answered, FinishWith, Processes
    <2> QED BY <2>1, <2>2 DEF Goal, Informed
  <1>8. ASSUME NEW pc \in Places \ {"wait"}, Goto(s, pc) PROVE Goal
    <2>1. /\ server'[s].pc = pc /\ server'[s].usage = server[s].usage
          /\ server'[s].item = server[s].item
      BY <1>1, <1>8 DEF Goto, Processes
    <2> QED BY <1>3, <2>1
  <1>9. ASSUME NEW pc \in Places \ {"wait"}, Return(s, pc) PROVE Goal
    <2>1. server'[s].pc = pc /\ server'[s].usage = None
      BY <1>1, <1>9 DEF Return, Processes
    <2> QED BY <1>2, <2>1
  <1>10. CASE FinishWith(s, "unknown")
    <2>1. /\ server'[s].pc = "finish" /\ server'[s].usage = server[s].usage
          /\ server'[s].item = server[s].item
      BY <1>1, <1>10 DEF FinishWith, Processes
    <2> QED BY <1>3, <2>1
  <1>11. CASE ContractViolation(s)
    <2>1. /\ server'[s].pc = "disable" /\ server'[s].usage = server[s].usage
          /\ server'[s].item = server[s].item
      BY <1>1, <1>11 DEF ContractViolation, Processes
    <2> QED BY <1>3, <2>1
  <1>12. ASSUME NEW pc \in {"paid", "generic"}, NEW batch, TakeBatch(s, pc, batch)
         PROVE  Goal
    <2>1. /\ server'[s].pc = pc /\ server'[s].usage = server[s].usage
          /\ server'[s].item = server[s].item
      BY <1>1, <1>12 DEF TakeBatch, Processes
    <2> QED BY <1>3, <2>1
  <1>13. ASSUME NEW i, Drop(s, i), server[s].pc # "wait" PROVE Goal
    <2>1. /\ server'[s].pc = server[s].pc /\ server'[s].usage = server[s].usage
          /\ server'[s].item = server[s].item
      BY <1>1, <1>13 DEF Drop, Processes
    <2> QED BY <1>3, <1>13, <2>1
  <1>14. CASE Claim(s) \/ ClaimFixture(s)
    <2>1. PICK i \in server[s].batch, pc \in {"recheck", "sleep"} :
              \/ server' = [server EXCEPT ![s].pc = pc,
                     ![s].item = i[1], ![s].batch = @ \ {i}]
              \/ Drop(s, i)
      BY <1>14 DEF Claim, ClaimFixture
    <2>2. server[s].pc \in {"paid", "generic"}
      BY <1>14 DEF Claim, ClaimFixture, At
    <2>3. CASE server' = [server EXCEPT ![s].pc = pc,
                   ![s].item = i[1], ![s].batch = @ \ {i}]
      <3>1. server'[s].pc = pc /\ server'[s].usage = server[s].usage
        BY <1>1, <2>3 DEF Processes
      <3>2. server[s].usage = None
        BY <2>2 DEF UsageOK
      <3> QED BY <1>2, <3>1, <3>2
    <2> QED BY <1>13, <2>1, <2>2, <2>3
  <1> QED
    BY <1>4, <1>5, <1>6, <1>7, <1>8, <1>9, <1>10, <1>11, <1>12, <1>13, <1>14
    DEF Running, RetryDisable, ScanPaid, ScanAll, ExpireItem, SkipPaid, Recheck,
        Verify, PersistDisable, Finish, SkipGeneric, FinishFixture, Places, At


\* A process is changed by its own steps only.
LEMMA ExecutorIsOne ==
    ASSUME TypeInv, Next, NEW s \in Servers
    PROVE  \/ server'[s] = server[s]
           \/ Running(s) \/ Crash(s) \/ (\E d \in Deployments : Start(s, d))
  <1>1. CASE UNCHANGED server
    BY <1>1
  <1>2. ASSUME NEW t \in Servers,
               Running(t) \/ Crash(t) \/ (\E d \in Deployments : Start(t, d))
        PROVE  \/ server'[s] = server[s]
               \/ Running(s) \/ Crash(s) \/ (\E d \in Deployments : Start(s, d))
    <2>1. t # s => server'[s] = server[s]
      BY <1>2, ExecutorMoves
    <2> QED BY <1>2, <2>1
  <1> QED
    BY <1>1, <1>2
    DEF Next, NextDay, LeaseLapses, Cancel, PriceLapses, OperatorDisables,
        AppendMessage, DeleteConversation, CreatePaid, CreateFixture

LEMMA WaitStep ==
    ASSUME TypeInv, BillInv, WaitInv, Next
    PROVE  WaitInv'
  <1>1. sends \in [Keys -> Nat]
    BY DEF TypeInv, TypeOK
  <1>2. ASSUME NEW s \in Servers, Informed(s)
        PROVE  server[s].item \in Keys /\ sends[server[s].item] > 0
    BY <1>2
    DEF Informed, WaitInv, BillInv, UsageOK, TypeInv, ProcessOK, PlaceOK, Holding,
        Dispatch
  <1>3. \A k \in Keys : sends[k] > 0 => sends'[k] > 0
    <2>1. ASSUME NEW s \in Servers, Send(s)
          PROVE  \A k \in Keys : sends[k] > 0 => sends'[k] > 0
      BY <1>1, <2>1 DEF Send
    <2> QED BY <2>1, ServerMoves
  <1>4. ASSUME NEW s \in Servers, Send(s)
        PROVE  sends'[server'[s].item] > 0
    <2>1. /\ server[s].pc = "send"
          /\ sends' = [sends EXCEPT ![server[s].item] = @ + 1]
          /\ server'[s].item = server[s].item
      BY <1>4 DEF Send, At, Goto, TypeInv, TypeOK, Processes
    <2>2. server[s].item \in Keys
      BY <2>1 DEF TypeInv, ProcessOK, PlaceOK, Holding, Dispatch
    <2> QED BY <1>1, <2>1, <2>2
  <1>5. ASSUME NEW s \in Servers, Informed(s)'
        PROVE  sends'[server'[s].item] > 0
    <2>1. CASE server'[s] = server[s]
      <3>1. Informed(s)
        BY <1>5, <2>1 DEF Informed
      <3> QED BY <1>2, <1>3, <2>1, <3>1
    <2>2. CASE Informed(s) /\ server'[s].item = server[s].item
      BY <1>2, <1>3, <2>2
    <2>3. UsageOK(s)
      BY DEF BillInv
    <2> QED BY <1>4, <1>5, <2>1, <2>2, <2>3, ExecutorIsOne, ExecutorLearns
  <1> QED BY <1>5 DEF WaitInv
\* What the contract sees of a reply.
BoundOf(k) == IF receipt[k] = None THEN 0 ELSE Cost[receipt[k].budget]
ChargeKept(k) ==
    IF receipt[k] # None /\ receipt[k].charged # None
    THEN receipt[k].charged ELSE 0

Unbilled(k) == sends'[k] = sends[k] /\ billed'[k] = billed[k]

Stays(k) ==
    /\ Phase(k)' = Phase(k)
    /\ BoundOf(k)' = BoundOf(k)
    /\ ChargeKept(k)' = ChargeKept(k)

\* A step of the contract for one reply that sends nothing.
CallMoves(k) ==
    \/ Stays(k)
    \/ /\ Phase(k) = "absent" /\ Phase(k)' = "reserved"
       /\ \E b \in Budgets : BoundOf(k)' = Cost[b]
       /\ ChargeKept(k)' = ChargeKept(k)
    \/ /\ Phase(k) = "reserved" /\ Phase(k)' \in {"withdrawn", "taken"}
       /\ BoundOf(k)' = BoundOf(k) /\ ChargeKept(k)' = ChargeKept(k)
    \/ /\ Phase(k) = "taken" /\ Phase(k)' = "closed"
       /\ BoundOf(k)' = BoundOf(k)
       /\ \/ ChargeKept(k)' = BoundOf(k)
          \/ /\ sends[k] > 0 /\ billed[k] <= BoundOf(k)
             /\ ChargeKept(k)' = billed[k]

\* The one that sends.
Calls(k) ==
    /\ Phase(k) \in {"taken", "closed"} /\ Stays(k)
    /\ ~(sends[k] > 0) /\ sends'[k] > 0
    /\ \E b \in Budgets : billed'[k] \in 0 .. Cost[b] + 1

LEMMA Simulates ==
    ASSUME TypeInv, TypeInv', NEW k \in Keys,
           \A j \in Keys \ {k} : Stays(j) /\ Unbilled(j),
           (CallMoves(k) /\ Unbilled(k)) \/ Calls(k)
    PROVE  [PaidCall!Next]_(PaidCall!vars)
  <1> DEFINE P == [j \in Keys |-> Phase(j)]
             B == [j \in Keys |-> BoundOf(j)]
             S == [j \in Keys |-> sends[j] > 0]
             C == [j \in Keys |-> ChargeKept(j)]
  <1>1. /\ P' = [P EXCEPT ![k] = Phase(k)']
        /\ B' = [B EXCEPT ![k] = BoundOf(k)']
        /\ C' = [C EXCEPT ![k] = ChargeKept(k)']
    BY DEF Stays
  <1>2. billed' = [billed EXCEPT ![k] = billed'[k]]
    BY DEF TypeInv, TypeOK, Unbilled
  <1>3. /\ Phase(k)' = Phase(k) => P' = P
        /\ BoundOf(k)' = BoundOf(k) => B' = B
        /\ ChargeKept(k)' = ChargeKept(k) => C' = C
    BY DEF Stays
  <1>4. Unbilled(k) => S' = S /\ billed' = billed
    BY <1>2 DEF Unbilled, TypeInv, TypeOK
  <1>6. CASE Stays(k) /\ Unbilled(k)
    <2>1. P' = P /\ B' = B /\ C' = C /\ S' = S /\ billed' = billed
      BY <1>3, <1>4, <1>6 DEF Stays
    <2>2. UNCHANGED PaidCall!vars
      BY <2>1 DEF PaidCall!vars, BoundOf, ChargeKept
    <2> QED BY <2>2
  <1>7. CASE /\ Phase(k) = "absent" /\ Phase(k)' = "reserved"
             /\ \E b \in Budgets : BoundOf(k)' = Cost[b]
             /\ ChargeKept(k)' = ChargeKept(k) /\ Unbilled(k)
    <2>1. PICK b \in Budgets : B' = [B EXCEPT ![k] = Cost[b]]
      BY <1>1, <1>7
    <2>2. P[k] = "absent" /\ P' = [P EXCEPT ![k] = "reserved"]
      BY <1>1, <1>7
    <2>3. S' = S /\ billed' = billed /\ C' = C
      BY <1>3, <1>4, <1>7
    <2>4. PaidCall!Reserve(k)
      BY <2>1, <2>2, <2>3 DEF PaidCall!Reserve, BoundOf, ChargeKept
    <2> QED BY <2>4 DEF PaidCall!Next
  <1>8. CASE /\ Phase(k) = "reserved" /\ Phase(k)' \in {"withdrawn", "taken"}
             /\ BoundOf(k)' = BoundOf(k) /\ ChargeKept(k)' = ChargeKept(k)
             /\ Unbilled(k)
    <2>1. PaidCall!Withdraw(k) \/ PaidCall!Take(k)
      BY <1>1, <1>3, <1>4, <1>8
      DEF PaidCall!Withdraw, PaidCall!Take, BoundOf, ChargeKept
    <2> QED BY <2>1 DEF PaidCall!Next
  <1>9. CASE /\ Phase(k) = "taken" /\ Phase(k)' = "closed"
             /\ BoundOf(k)' = BoundOf(k)
             /\ \/ ChargeKept(k)' = BoundOf(k)
                \/ /\ sends[k] > 0 /\ billed[k] <= BoundOf(k)
                   /\ ChargeKept(k)' = billed[k]
             /\ Unbilled(k)
    <2>1. PaidCall!Close(k)
      BY <1>1, <1>3, <1>4, <1>9 DEF PaidCall!Close, BoundOf, ChargeKept
    <2> QED BY <2>1 DEF PaidCall!Next
  <1>10. CASE Calls(k)
    <2>1. S' = [S EXCEPT ![k] = TRUE]
      BY <1>10 DEF Calls, Unbilled
    <2>2. PaidCall!Call(k)
      BY <1>2, <1>3, <1>10, <2>1 DEF PaidCall!Call, Calls, Stays, BoundOf, ChargeKept
    <2> QED BY <2>2 DEF PaidCall!Next
  <1> QED BY <1>6, <1>7, <1>8, <1>9, <1>10 DEF CallMoves
LEMMA Stutters ==
    ASSUME \A j \in Keys : Stays(j), UNCHANGED <<sends, billed>>
    PROVE  UNCHANGED PaidCall!vars
  BY DEF Stays, PaidCall!vars, BoundOf, ChargeKept

\* A row that keeps its reservation, and its place if that is open, stays.
LEMMA KeptStays ==
    ASSUME NEW k \in Keys, receipt'[k] = receipt[k],
           receipt[k] # None /\ receipt[k].charged = None
               => (Queued(k)' <=> Queued(k))
    PROVE  Stays(k)
  BY DEF Stays, Phase, BoundOf, ChargeKept

\* Ending a reply withdraws or closes its reservation, if it is open.
LEMMA EndingMoves ==
    ASSUME TypeInv, SendInv, BillInv, RowInv, WaitInv, NEW k \in Keys,
           (receipt'[k] = receipt[k] /\ ~Held(k, "reply")) \/ Settled(k)
    PROVE  CallMoves(k)
  <1>1. CASE receipt'[k] = receipt[k] /\ ~Held(k, "reply")
    <2>1. receipt[k] # None => receipt[k].charged # None
      BY <1>1 DEF Held, RowInv
    <2> QED BY <1>1, <2>1, KeptStays DEF CallMoves
  <1>2. CASE Settled(k)
    <2>1. /\ receipt[k] # None /\ receipt'[k] # None
          /\ receipt[k].charged = None
          /\ receipt'[k].charged # None /\ receipt'[k].charged \in Nat
          /\ receipt'[k].budget = receipt[k].budget
      BY <1>2, SettledCloses DEF Settled, TypeInv
    <2>2. /\ BoundOf(k) = Cost[receipt[k].budget] /\ BoundOf(k)' = BoundOf(k)
          /\ ChargeKept(k) = 0 /\ ChargeKept(k)' = receipt'[k].charged
      BY <2>1 DEF BoundOf, ChargeKept
    <2>3. CASE Queued(k)
      <3>1. /\ receipt'[k].charged = 0
            /\ receipt'[k].settlement = "cancelled_before_dispatch"
        BY <1>2, <2>3 DEF Settled
      <3>2. Phase(k) = "reserved" /\ Phase(k)' = "withdrawn"
        BY <2>1, <2>3, <3>1 DEF Phase
      <3> QED BY <2>2, <3>1, <3>2 DEF CallMoves
    <2>4. CASE ~Queued(k)
      <3>1. receipt'[k].settlement # "cancelled_before_dispatch"
        BY <1>2, <2>4 DEF Settled
      <3>2. Phase(k) = "taken" /\ Phase(k)' = "closed"
        BY <2>1, <2>4, <3>1 DEF Phase
      <3>3. \/ ChargeKept(k)' = BoundOf(k)
            \/ \E s \in Servers :
                  /\ server[s].item = k /\ server[s].usage \in Nat
                  /\ server[s].usage <= BoundOf(k)
                  /\ ChargeKept(k)' = server[s].usage
        BY <1>2, <2>2, <2>4 DEF Settled
      <3>4. ASSUME NEW s \in Servers, server[s].item = k, server[s].usage \in Nat
            PROVE  server[s].usage = billed[k] /\ sends[k] > 0
        BY <3>4, NullAssumption DEF BillInv, UsageOK, WaitInv, Informed
      <3> QED BY <2>2, <3>2, <3>3, <3>4 DEF CallMoves
    <2> QED BY <2>3, <2>4
  <1> QED BY <1>1, <1>2

\* Reserving a reply, taking it, and any other move of it.
LEMMA ReserveMoves ==
    ASSUME NEW k \in Keys, NEW b \in Budgets,
           Phase(k) = "absent", Phase(k)' = "reserved", BoundOf(k)' = Cost[b],
           ChargeKept(k)' = ChargeKept(k)
    PROVE  CallMoves(k)
  BY Zenon DEF CallMoves

LEMMA TakeMoves ==
    ASSUME NEW k \in Keys, Phase(k) = "reserved", Phase(k)' = "taken",
           BoundOf(k)' = BoundOf(k), ChargeKept(k)' = ChargeKept(k)
    PROVE  CallMoves(k)
  BY Zenon DEF CallMoves

LEMMA StayMoves ==
    ASSUME NEW k \in Keys, Stays(k)
    PROVE  CallMoves(k)
  BY Zenon DEF CallMoves

LEMMA RowMoveCalls ==
    ASSUME TypeInv, SendInv, BillInv, RowInv, WaitInv, NEW k \in Keys, RowMove(k)
    PROVE  CallMoves(k) /\ \A j \in Keys \ {k} : Stays(j)
  <1>1. CreatedRow(k) \/ MovedRow(k) \/ EndedRow(k)
    BY CreatedGives, MovedGives, EndedGives DEF RowMove
  <1>2. OthersKept(k)
    BY CreatedGives, MovedGives, EndedGives DEF RowMove
  <1>3. \A j \in Keys \ {k} : Stays(j)
    BY <1>2, KeptStays DEF OthersKept, Queued
  <1> SUFFICES CallMoves(k)
    BY <1>3
  <1>4. CASE CreatedRow(k)
    <2>1. CASE receipt'[k] = receipt[k]
      <3>1. receipt[k] # None => receipt[k].charged # None
        BY <1>4 DEF CreatedRow, RowInv, IsActive, Active
      <3> QED BY <2>1, <3>1, KeptStays, StayMoves
    <2>2. CASE /\ receipt[k] = None
               /\ receipt'[k] \in Receipts /\ receipt'[k].charged = None
      <3>1. receipt'[k] # None /\ receipt'[k].budget \in Budgets /\ Queued(k)'
        BY <1>4, <2>2, NullAssumption DEF Receipts, CreatedRow, Queued
      <3>2. /\ Phase(k) = "absent" /\ Phase(k)' = "reserved"
            /\ BoundOf(k)' = Cost[receipt'[k].budget]
            /\ ChargeKept(k)' = ChargeKept(k)
        BY <2>2, <3>1 DEF Phase, BoundOf, ChargeKept
      <3> QED BY <3>1, <3>2, ReserveMoves
    <2> QED BY <1>4, <2>1, <2>2 DEF CreatedRow, moneyVars
  <1>5. CASE MovedRow(k)
    <2>1. receipt'[k] = receipt[k] /\ ~Queued(k)'
      BY <1>5 DEF MovedRow, moneyVars, Queued
    <2>2. CASE Queued(k) /\ receipt[k] # None /\ receipt[k].charged = None
      <3>1. /\ Phase(k) = "reserved" /\ Phase(k)' = "taken"
            /\ BoundOf(k)' = BoundOf(k) /\ ChargeKept(k)' = ChargeKept(k)
        BY <2>1, <2>2 DEF Phase, BoundOf, ChargeKept
      <3> QED BY <3>1, TakeMoves
    <2>3. CASE ~(Queued(k) /\ receipt[k] # None /\ receipt[k].charged = None)
      BY <2>1, <2>3, KeptStays, StayMoves
    <2> QED BY <2>2, <2>3
  <1>6. CASE EndedRow(k)
    BY <1>6, EndingMoves DEF EndedRow
  <1> QED BY <1>1, <1>4, <1>5, <1>6

LEMMA DeletionCalls ==
    ASSUME TypeInv, SendInv, BillInv, RowInv, WaitInv, NEW c \in Conversations,
           DeleteConversation(c)
    PROVE  \/ \A j \in Keys : Stays(j)
           \/ \E k \in Keys : CallMoves(k) /\ \A j \in Keys \ {k} : Stays(j)
  <1>1. ASSUME NEW j \in Keys, j[1] = c => ~IsActive(j), receipt'[j] = receipt[j]
        PROVE  Stays(j)
    <2>1. receipt[j] # None /\ receipt[j].charged = None => IsActive(j)
      BY DEF RowInv
    <2>2. j[1] # c => (Queued(j)' <=> Queued(j))
      BY DeletionRows DEF Queued
    <2> QED BY <1>1, <2>1, <2>2, KeptStays
  <1>2. CASE /\ \A j \in Keys : j[1] = c => ~IsActive(j)
             /\ UNCHANGED moneyVars
    BY <1>1, <1>2 DEF moneyVars
  <1>3. ASSUME NEW k \in Keys, k[1] = c, IsActive(k),
               \A j \in Keys \ {k} : receipt'[j] = receipt[j],
               (receipt'[k] = receipt[k] /\ ~Held(k, "reply")) \/ Settled(k)
        PROVE  CallMoves(k) /\ \A j \in Keys \ {k} : Stays(j)
    <2>1. \A j \in Keys \ {k} : j[1] = c => ~IsActive(j)
      BY <1>3 DEF RowInv, OneActive
    <2> QED BY <1>1, <1>3, <2>1, EndingMoves
  <1> QED BY <1>2, <1>3, DeletionRows

LEMMA SendCalls ==
    ASSUME TypeInv, HandInv, SendInv, WithdrawInv, NEW s \in Servers, Send(s)
    PROVE  LET k == server[s].item IN
           /\ k \in Keys /\ Calls(k)
           /\ \A j \in Keys \ {k} : Stays(j) /\ Unbilled(j)
  <1> DEFINE k == server[s].item
  <1>1. /\ server[s].pc = "send" /\ PreSend(s)
        /\ k \in Keys /\ receipt[k] # None /\ k # None
    BY NullAssumption
    DEF Send, At, PreSend, TypeInv, ProcessOK, PlaceOK, Holding, Dispatch
  <1>2. /\ sends' = [sends EXCEPT ![k] = @ + 1]
        /\ \E n \in 0 .. Cost[receipt[k].budget] + 1 : billed' = [billed EXCEPT ![k] = n]
        /\ reply' = reply /\ receipt' = receipt
    BY DEF Send, dbVars
  <1>3. \A j \in Keys : Stays(j)
    BY <1>2, KeptStays DEF Queued
  <1>4. sends[k] = 0 /\ Taken(k) /\ receipt[k].budget \in Budgets
    BY <1>1 DEF SendInv, HandInv, TypeInv, TypeOK, MoneyTypeOK, Receipts
  <1>5. Phase(k) \in {"taken", "closed"}
    BY <1>1, <1>4 DEF Phase, WithdrawInv, Taken, Queued
  <1>6. /\ sends'[k] = 1 /\ billed'[k] \in 0 .. Cost[receipt[k].budget] + 1
        /\ \A j \in Keys \ {k} : Unbilled(j)
    BY <1>1, <1>2, <1>4 DEF TypeInv, TypeOK, Unbilled
  <1> HIDE DEF k
  <1>7. Calls(k)
    BY <1>1, <1>3, <1>4, <1>5, <1>6 DEF Calls
  <1> QED BY <1>1, <1>3, <1>6, <1>7 DEF k

LEMMA CallStep ==
    ASSUME TypeInv, HandInv, SendInv, BillInv, RowInv, WithdrawInv, WaitInv, Next
    PROVE  [PaidCall!Next]_(PaidCall!vars)
  <1>1. TypeInv'
    BY TypeStep
  <1>2. ASSUME NEW s \in Servers, Send(s)
        PROVE  [PaidCall!Next]_(PaidCall!vars)
    <2>1. PICK k \in Keys :
              Calls(k) /\ \A j \in Keys \ {k} : Stays(j) /\ Unbilled(j)
      BY <1>2, SendCalls
    <2> QED BY <1>1, <2>1, Simulates
  <1>3. CASE UNCHANGED <<sends, billed>>
    <2>1. \A j \in Keys : Unbilled(j)
      BY <1>3 DEF Unbilled
    <2>2. CASE \A j \in Keys : Stays(j)
      BY <1>3, <2>2, Stutters
    <2>3. ASSUME NEW k \in Keys, CallMoves(k), \A j \in Keys \ {k} : Stays(j)
          PROVE  [PaidCall!Next]_(PaidCall!vars)
      BY <1>1, <2>1, <2>3, Simulates
    <2>4. CASE Same
      BY <2>2, <2>4, KeptStays DEF Same, moneyVars, Queued
    <2> QED BY <2>2, <2>3, <2>4, RowMoves, RowMoveCalls, DeletionCalls
  <1> QED BY <1>2, <1>3, ServerMoves

LEMMA CallInvariant ==
    Spec => [](/\ TypeInv /\ HandInv /\ SendInv /\ BillInv /\ RowInv
               /\ WithdrawInv /\ WaitInv)
  <1> DEFINE Inv == /\ TypeInv /\ HandInv /\ SendInv /\ BillInv /\ RowInv
                    /\ WithdrawInv /\ WaitInv
  <1>1. Init => Inv
    <2>1. Init => WithdrawInv /\ WaitInv
      BY DEF Init, MoneyInit, WithdrawInv, WaitInv, Informed, Down
    <2> QED BY <2>1, TypeInit, SendInit, BillInit, BooksInit
  <1>2. Inv /\ [Next]_vars => Inv'
    <2> SUFFICES ASSUME Inv, [Next]_vars PROVE Inv'
      OBVIOUS
    <2>1. CASE UNCHANGED vars
      <3>1. UNCHANGED <<conversation, reply, reserved, receipt, occupied, server,
                        sends, billed>>
        BY <2>1 DEF vars, dbVars, seenVars
      <3> QED
        BY <2>1, <3>1, TypeStep
        DEF HandInv, SendInv, SentAtMostOnce, BillInv, BillCovered, PreSend,
            Taken, UsageOK, RowInv, OneActive, DeletedIsClean, IsActive, Held,
            WithdrawInv, WaitInv, Informed
    <2>2. CASE Next
      BY <2>2, TypeStep, HandStep, SendStep, BillStep, RowStep, WithdrawStep, WaitStep
    <2> QED BY <2>1, <2>2
  <1> QED BY <1>1, <1>2, PTL DEF Spec

\* A paid reply is reserved, taken, sent and closed at most once each, and a
\* step of the system moves at most one of them: all of Replies implements
\* OneShotCall (conversations.rs, reply_executor.rs, reply_money.rs).
THEOREM RefinesOneShotCall == Spec => PaidCallSpec
  <1>1. Init => PaidCall!Init
    <2> SUFFICES ASSUME Init PROVE PaidCall!Init
      OBVIOUS
    <2>1. /\ [k \in Keys |-> Phase(k)] = [k \in Keys |-> "absent"]
          /\ [k \in Keys |-> BoundOf(k)] = [k \in Keys |-> 0]
          /\ [k \in Keys |-> ChargeKept(k)] = [k \in Keys |-> 0]
          /\ billed = [k \in Keys |-> 0]
      BY DEF Init, MoneyInit, Phase, BoundOf, ChargeKept
    <2>2. \A k \in Keys : (sends[k] > 0) = FALSE
      BY DEF Init
    <2>3. [k \in Keys |-> sends[k] > 0] = [k \in Keys |-> FALSE]
      BY <2>2, Zenon
    <2> QED BY <2>1, <2>3 DEF PaidCall!Init, BoundOf, ChargeKept
  <1>2. /\ TypeInv /\ HandInv /\ SendInv /\ BillInv /\ RowInv /\ WithdrawInv
        /\ WaitInv /\ [Next]_vars
        => [PaidCall!Next]_(PaidCall!vars)
    <2>1. UNCHANGED vars => UNCHANGED PaidCall!vars
      BY DEF vars, dbVars, seenVars, PaidCall!vars, Phase, Queued
    <2> QED BY <2>1, CallStep
  <1> QED BY <1>1, <1>2, CallInvariant, PTL DEF Spec, PaidCallSpec, PaidCall!Spec
-----------------------------------------------------------------------------
(* Ends are final.                                                         *)

LEMMA EndedStays ==
    ASSUME TypeInv, RowInv, Next, NEW k \in Keys
    PROVE  /\ reply[k].status \notin Active \union {"absent"} =>
                  /\ reply'[k].status = reply[k].status
                  /\ reply'[k].output => reply[k].output
           /\ receipt[k] # None /\ ~Held(k, "reply") => receipt'[k] = receipt[k]
  <1>1. reply[k].status \notin Active \union {"absent"} =>
            reply'[k].status = reply[k].status
    BY StoreStep
    DEF Effect, KeptReply, ClaimedReply, EndedReply, Queued, IsActive, Active
  <1>2. receipt[k] # None /\ ~Held(k, "reply") => receipt'[k] = receipt[k]
    BY MoneyStep DEF ReservedNow, Settled, Held, RowInv
  <1>3. ASSUME reply[k].status \notin Active \union {"absent"}, reply'[k].output
        PROVE  reply[k].output
    <2>1. ASSUME NEW j \in Keys, RowMove(j)
          PROVE  reply'[k].output = reply[k].output
      <3>1. CreatedRow(j) \/ MovedRow(j) \/ EndedRow(j)
        BY <2>1, CreatedGives, MovedGives, EndedGives DEF RowMove
      <3>2. OthersKept(j)
        BY <2>1, CreatedGives, MovedGives, EndedGives DEF RowMove
      <3>3. j # k
        BY <1>3, <3>1 DEF CreatedRow, MovedRow, EndedRow, IsActive, Active
      <3> QED BY <3>2, <3>3 DEF OthersKept
    <2>2. ASSUME NEW c \in Conversations, DeleteConversation(c)
          PROVE  reply'[k].output => reply[k].output
      BY <2>2, DeletionRows
    <2> QED BY <1>3, <2>1, <2>2, RowMoves DEF Same
  <1> QED BY <1>1, <1>2, <1>3

\* No late answer, expiry or repeated cancellation changes an ended reply or
\* gives it a text, and a settled reservation is never settled again
\* (change_reply, reply_money::settle).
THEOREM EndedIsFinalHolds == Spec => EndedIsFinal
  <1>1. TypeInv /\ RowInv /\ [Next]_vars =>
            [\A k \in Keys :
                 /\ reply[k].status \notin Active \union {"absent"} =>
                       /\ reply'[k].status = reply[k].status
                       /\ reply'[k].output => reply[k].output
                 /\ receipt[k] # None /\ ~Held(k, "reply") =>
                       receipt'[k] = receipt[k]]_vars
    BY EndedStays
  <1> QED BY <1>1, BooksInvariant, PTL DEF Spec, EndedIsFinal

-----------------------------------------------------------------------------
(* A request goes out under one budget: that of its reservation, of the    *)
(* registration and of the process.  A registered budget never changes.    *)

BudgetInv ==
    \A s \in Servers :
        LET d == server[s].deployment IN
        /\ server[s].pc # "down" /\ d.mode = "openai" =>
               config[d.revision].budget = d.budget
        /\ server[s].pc \in {"send", "wait"} =>
               receipt[server[s].item].budget = d.budget

LEMMA BudgetStays ==
    ASSUME TypeInv, Next
    PROVE  /\ \A r \in Revisions : config[r].budget # None =>
                  config'[r].budget = config[r].budget
           /\ \A k \in Keys : receipt[k] # None =>
                  receipt'[k] # None /\ receipt'[k].budget = receipt[k].budget
  <1>1. ASSUME NEW k \in Keys, receipt[k] # None
        PROVE  receipt'[k] # None /\ receipt'[k].budget = receipt[k].budget
    BY <1>1, MoneyStep, SettledCloses DEF ReservedNow, TypeInv
  <1>2. ASSUME NEW r \in Revisions, config[r].budget # None
        PROVE  config'[r].budget = config[r].budget
    BY <1>2, ConfigMoves DEF TypeInv, TypeOK, Registrations
  <1> QED BY <1>1, <1>2
\* The places between the claim and the answer.
Sending == {"recheck", "verify", "send", "wait"}

\* How a running process comes to a place of its request, and when it is
\* halted there.
Proceeds(s) ==
    /\ server'[s].deployment = server[s].deployment
    /\ server'[s].pc \in Sending => ~server'[s].halted \/ server[s].halted
    /\ server'[s].pc \in Sending =>
           \/ server'[s].pc = "recheck" /\ ~server[s].halted
           \/ /\ server'[s].item = server[s].item
              /\ server[s].pc \in {"recheck", "verify", "send"}
              /\ server'[s].pc = "send" =>
                     ConfigActive(server[s].deployment.revision,
                                  receipt[server[s].item].budget)
              /\ server'[s].pc = "wait" => server[s].pc = "send"

LEMMA ExecutorProceeds ==
    ASSUME TypeInv, NEW s \in Servers, Running(s)
    PROVE  Proceeds(s)
  <1>1. server \in [Servers -> Processes] /\ server[s] \in Processes
    BY DEF TypeInv, TypeOK
  <1>2. ASSUME server'[s].deployment = server[s].deployment,
               server'[s].pc \notin Sending
        PROVE  Proceeds(s)
    BY <1>2, Zenon DEF Proceeds
  <1>3. ASSUME NEW pc \in Places, Goto(s, pc)
        PROVE  /\ server'[s].pc = pc /\ server'[s].item = server[s].item
               /\ server'[s].halted = server[s].halted
               /\ server'[s].deployment = server[s].deployment
    BY <1>1, <1>3 DEF Goto, Processes
  <1>4. ASSUME NEW pc \in Places \ Sending,
               \/ Goto(s, pc)
               \/ Return(s, pc)
               \/ \E batch : TakeBatch(s, pc, batch)
        PROVE  Proceeds(s)
    <2>1. server'[s].pc = pc /\ server'[s].deployment = server[s].deployment
      BY <1>1, <1>4 DEF Goto, Return, TakeBatch, Processes
    <2> QED BY <1>2, <2>1
  <1>5. ASSUME \/ \E o \in Outcomes : FinishWith(s, o)
               \/ \E u : server' = [server EXCEPT ![s].pc = "finish",
                            ![s].outcome = "succeeded", ![s].usage = u]
               \/ server' = [server EXCEPT ![s].pc = "disable", ![s].halted = TRUE]
        PROVE  Proceeds(s)
    <2>1. /\ server'[s].pc \in {"finish", "disable"}
          /\ server'[s].deployment = server[s].deployment
      BY <1>1, <1>5 DEF FinishWith, Processes
    <2> QED BY <1>2, <2>1 DEF Sending
  <1>6. ASSUME NEW i, Drop(s, i), server[s].pc \in {"paid", "generic"}
        PROVE  Proceeds(s)
    <2>1. /\ server'[s].pc = server[s].pc
          /\ server'[s].deployment = server[s].deployment
      BY <1>1, <1>6 DEF Drop, Processes
    <2> QED BY <1>2, <1>6, <2>1 DEF Sending
  <1>7. CASE Recheck(s)
    <2>1. server[s].pc = "recheck" /\ (Goto(s, "verify") \/ Return(s, "paid"))
      BY <1>7 DEF Recheck, At
    <2>2. CASE Goto(s, "verify")
      <3>1. /\ server'[s].pc = "verify" /\ server'[s].item = server[s].item
            /\ server'[s].halted = server[s].halted
            /\ server'[s].deployment = server[s].deployment
        BY <1>3, <2>2 DEF Places
      <3> QED BY <2>1, <3>1 DEF Proceeds
    <2> QED BY <1>4, <2>1, <2>2 DEF Places, Sending
  <1>8. CASE Verify(s)
    <2>1. /\ server[s].pc = "verify"
          /\ \/ /\ Goto(s, "send")
                /\ ConfigActive(server[s].deployment.revision,
                                receipt[server[s].item].budget)
             \/ FinishWith(s, "unknown")
      BY <1>8 DEF Verify, At
    <2>2. CASE Goto(s, "send") /\ ConfigActive(server[s].deployment.revision,
                                      receipt[server[s].item].budget)
      <3>1. /\ server'[s].pc = "send" /\ server'[s].item = server[s].item
            /\ server'[s].halted = server[s].halted
            /\ server'[s].deployment = server[s].deployment
        BY <1>3, <2>2 DEF Places
      <3> QED BY <2>1, <2>2, <3>1 DEF Proceeds
    <2> QED BY <1>5, <2>1, <2>2 DEF Outcomes
  <1>9. CASE Send(s)
    <2>1. server[s].pc = "send" /\ Goto(s, "wait")
      BY <1>9 DEF Send, At
    <2>2. /\ server'[s].pc = "wait" /\ server'[s].item = server[s].item
          /\ server'[s].halted = server[s].halted
          /\ server'[s].deployment = server[s].deployment
      BY <1>3, <2>1 DEF Places
    <2> QED BY <2>1, <2>2 DEF Proceeds
  <1>10. CASE Claim(s) \/ ClaimFixture(s)
    <2>1. PICK i \in server[s].batch :
              \/ /\ server' = [server EXCEPT ![s].pc = "recheck",
                        ![s].item = i[1], ![s].batch = @ \ {i}]
                 /\ ~server[s].halted
              \/ server' = [server EXCEPT ![s].pc = "sleep",
                     ![s].item = i[1], ![s].batch = @ \ {i}]
              \/ Drop(s, i)
      BY <1>10 DEF Claim, ClaimFixture, Claimable
    <2>2. server[s].pc \in {"paid", "generic"}
      BY <1>10 DEF Claim, ClaimFixture, At
    <2>3. CASE server' = [server EXCEPT ![s].pc = "sleep",
                   ![s].item = i[1], ![s].batch = @ \ {i}]
      <3>1. server'[s].pc = "sleep" /\ server'[s].deployment = server[s].deployment
        BY <1>1, <2>3 DEF Processes
      <3> QED BY <1>2, <3>1 DEF Sending
    <2>4. CASE /\ server' = [server EXCEPT ![s].pc = "recheck",
                        ![s].item = i[1], ![s].batch = @ \ {i}]
               /\ ~server[s].halted
      <3>1. /\ server'[s].pc = "recheck" /\ server'[s].halted = server[s].halted
            /\ server'[s].deployment = server[s].deployment
        BY <1>1, <2>4 DEF Processes
      <3> QED BY <2>4, <3>1 DEF Proceeds
    <2> QED BY <1>6, <2>1, <2>2, <2>3, <2>4
  <1>11. CASE RetryDisable(s) \/ Finish(s) \/ FinishFixture(s)
    <2>1. Goto(s, "scan") \/ Return(s, "paid") \/ Return(s, "generic")
      BY <1>11 DEF RetryDisable, Finish, FinishFixture
    <2> QED BY <1>4, <2>1 DEF Places, Sending
  <1>12. CASE ScanPaid(s) \/ ScanAll(s)
    <2>1. \E pc \in {"paid", "generic"} : \E batch : TakeBatch(s, pc, batch)
      BY <1>12 DEF ScanPaid, ScanAll
    <2> QED BY <1>4, <2>1 DEF Places, Sending
  <1>13. CASE ExpireItem(s) \/ SkipPaid(s) \/ SkipGeneric(s)
    <2>1. /\ server[s].pc \in {"paid", "generic"}
          /\ \E i : Drop(s, i)
      BY <1>13 DEF ExpireItem, SkipPaid, SkipGeneric, At
    <2> QED BY <1>6, <2>1
  <1>14. CASE Answered(s) \/ ContractViolation(s) \/ PersistDisable(s)
    BY <1>5, <1>14 DEF Answered, ContractViolation, PersistDisable, Outcomes
  <1> QED
    BY <1>7, <1>8, <1>9, <1>10, <1>11, <1>12, <1>13, <1>14 DEF Running

LEMMA BudgetStep ==
    ASSUME TypeInv, BudgetInv, Next
    PROVE  BudgetInv'
  <1> SUFFICES ASSUME NEW s \in Servers
               PROVE  LET d == server'[s].deployment IN
                      /\ server'[s].pc # "down" /\ d.mode = "openai" =>
                             config'[d.revision].budget = d.budget
                      /\ server'[s].pc \in {"send", "wait"} =>
                             receipt'[server'[s].item].budget = d.budget
    BY DEF BudgetInv
  <1> DEFINE d == server[s].deployment
             k == server[s].item
  <1>1. /\ server[s].pc # "down" /\ d.mode = "openai" =>
               d.revision \in Revisions /\ d.budget \in Budgets
        /\ server[s].pc \in Dispatch => k \in Keys /\ receipt[k] # None
        /\ server[s].pc \in Dispatch => d.mode = "openai"
    BY PaidDeployment
    DEF Paid, TypeInv, ProcessOK, PlaceOK, Holding, Dispatch
  <1>2. \A b \in Budgets : b # None
    BY DeploymentAssumption
  <1>3. server[s].pc # "down" /\ d.mode = "openai" =>
            config'[d.revision].budget = d.budget
    BY <1>1, <1>2, BudgetStays DEF BudgetInv
  <1>4. CASE server'[s] = server[s]
    <2>1. server[s].pc \in {"send", "wait"} =>
              receipt'[k].budget = d.budget
      BY <1>1, BudgetStays DEF BudgetInv, Dispatch
    <2> QED BY <1>3, <1>4, <2>1
  <1>5. CASE Running(s)
    <2>1. Proceeds(s) /\ server[s].pc # "down"
      BY <1>5, ExecutorProceeds
      DEF Running, RetryDisable, ScanPaid, ScanAll, ExpireItem, Claim, SkipPaid,
          Recheck, Verify, Send, Answered, ContractViolation, PersistDisable,
          Finish, ClaimFixture, SkipGeneric, FinishFixture, BetweenTicks, At
    <2>2. ASSUME server'[s].pc \in {"send", "wait"}
          PROVE  receipt'[server'[s].item].budget = d.budget
      <3>1. /\ server'[s].item = k
            /\ server[s].pc \in {"recheck", "verify", "send"}
            /\ server'[s].pc = "send" => ConfigActive(d.revision, receipt[k].budget)
            /\ server'[s].pc = "wait" => server[s].pc = "send"
        BY <2>1, <2>2 DEF Proceeds, Sending
      <3>2. receipt'[k].budget = receipt[k].budget
        BY <1>1, <3>1, BudgetStays DEF Dispatch
      <3>3. receipt[k].budget = d.budget
        BY <1>1, <2>2, <3>1 DEF ConfigActive, BudgetInv, Dispatch
      <3> QED BY <3>1, <3>2, <3>3
    <2> QED BY <1>3, <2>1, <2>2 DEF Proceeds
  <1>6. CASE Crash(s)
    <2>1. server'[s].pc = "down"
      BY <1>6 DEF Crash, Down, TypeInv, TypeOK
    <2> QED BY <2>1
  <1>7. ASSUME NEW e \in Deployments, Start(s, e)
        PROVE  LET x == server'[s].deployment IN
               /\ server'[s].pc # "down" /\ x.mode = "openai" =>
                      config'[x.revision].budget = x.budget
               /\ server'[s].pc \in {"send", "wait"} =>
                      receipt'[server'[s].item].budget = x.budget
    <2>1. server'[s] = [Down EXCEPT !.pc = "generic", !.deployment = e]
      BY <1>7 DEF Start, TypeInv, TypeOK
    <2>2. server'[s].pc = "generic" /\ server'[s].deployment = e
      BY <2>1 DEF Down
    <2>3. e.mode = "openai" => e.revision \in Revisions /\ e.budget \in Budgets
      BY DeploymentAssumption
    <2>4. e.mode = "openai" => Register(e.revision, e.budget)
      BY <1>7 DEF Start
    <2>5. ASSUME e.mode = "openai" PROVE config'[e.revision].budget = e.budget
      <3> DEFINE r == e.revision
                 b == e.budget
      <3>1. /\ r \in Revisions /\ config \in [Revisions -> Registrations]
            /\ Register(r, b)
        BY <2>3, <2>4, <2>5 DEF TypeInv, TypeOK
      <3> HIDE DEF r, b
      <3>2. CASE config' = [config EXCEPT ![r].budget = b]
        <4>1. config'[r] = [config[r] EXCEPT !.budget = b]
          BY <3>1, <3>2
        <4>2. config'[r].budget = b
          BY <3>1, <4>1 DEF Registrations
        <4> QED BY <4>2 DEF r, b
      <3>3. CASE config[r].budget = b /\ config' = config
        BY <3>3 DEF r, b
      <3> QED BY <3>1, <3>2, <3>3 DEF Register, ConfigActive
    <2> QED BY <2>2, <2>5
  <1> QED BY <1>4, <1>5, <1>6, <1>7, ExecutorIsOne

\* Requests go out under the budget the process was deployed with, its
\* revision registered with and the reservation froze
\* (register_reply_configuration, reply_dispatch.rs check).
THEOREM QuoteHonouredHolds == Spec => []QuoteHonoured
  <1>1. Init => BudgetInv
    BY DEF Init, BudgetInv, Down
  <1>2. TypeInv /\ BudgetInv /\ [Next]_vars => BudgetInv'
    <2>1. UNCHANGED vars /\ BudgetInv => BudgetInv'
      BY DEF vars, dbVars, BudgetInv
    <2> QED BY <2>1, BudgetStep
  <1>3. TypeInv /\ BudgetInv => QuoteHonoured
    BY DEF TypeInv, ProcessOK, PlaceOK, BudgetInv, QuoteHonoured, Dispatch
  <1> QED BY <1>1, <1>2, <1>3, BooksInvariant, PTL DEF Spec

\* An executor that saw the contract broken never claims or sends again
\* (reply_executor.rs halt).
THEOREM HaltedSendsNothingHolds == Spec => []HaltedSendsNothing
  <1>1. Init => HaltedSendsNothing
    BY DEF Init, HaltedSendsNothing, Down
  <1>2. ASSUME TypeInv, HaltedSendsNothing, Next, NEW s \in Servers,
               server'[s].halted
        PROVE  server'[s].pc \notin {"recheck", "verify", "send", "wait"}
    <2>0. server \in [Servers -> Processes]
      BY <1>2 DEF TypeInv, TypeOK
    <2>1. CASE server'[s] = server[s]
      BY <1>2, <2>1 DEF HaltedSendsNothing
    <2>2. CASE Running(s)
      BY <1>2, <2>2, ExecutorProceeds DEF Proceeds, Sending, HaltedSendsNothing
    <2>3. CASE Crash(s)
      <3>1. server'[s] = Down
        BY <2>0, <2>3 DEF Crash
      <3> QED BY <3>1 DEF Down
    <2>4. ASSUME NEW d \in Deployments, Start(s, d)
          PROVE  server'[s].pc \notin {"recheck", "verify", "send", "wait"}
      <3>1. server'[s] = [Down EXCEPT !.pc = "generic", !.deployment = d]
        BY <2>0, <2>4 DEF Start
      <3> QED BY <3>1 DEF Down
    <2> QED BY <1>2, <2>1, <2>2, <2>3, <2>4, ExecutorIsOne
  <1>3. TypeInv /\ HaltedSendsNothing /\ [Next]_vars => HaltedSendsNothing'
    <2>1. UNCHANGED vars /\ HaltedSendsNothing => HaltedSendsNothing'
      BY DEF vars, HaltedSendsNothing
    <2> QED BY <1>2, <2>1 DEF HaltedSendsNothing
  <1> QED BY <1>1, <1>3, BooksInvariant, PTL DEF Spec
=============================================================================

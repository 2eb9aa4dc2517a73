----------------------------- MODULE ReplyMoney -----------------------------
(***************************************************************************)
(* The money ledger of one user (crates/storage-postgres/src/             *)
(* reply_money.rs).  Every priced model call holds one reservation row,    *)
(* keyed by (conversation, request), and the reservation is part of the    *)
(* occupied total of one UTC day and one currency.  The row is settled at  *)
(* most once; settling gives the unused part back to the ORIGINAL day.     *)
(*                                                                         *)
(* The operators are parts of a transaction that already holds the user    *)
(* row lock, so a caller's action is atomic.  A guard that is false makes  *)
(* the transaction roll back: nothing changes.                             *)
(*                                                                         *)
(* A budget (prices, bounds, limits) is a member of Budgets: Cost is the   *)
(* quote for its token bounds and Currency and DailyLimit its other two    *)
(* fields.  The arithmetic behind Cost is module Budget.                   *)
(***************************************************************************)
EXTENDS Integers, FiniteSets, Sums

CONSTANTS
    Conversations,  \* conversation ids of the user
    Requests,       \* request ids chosen by clients
    Revisions,      \* configuration revisions
    Budgets,        \* frozen budgets
    Currencies,
    Cost,           \* Cost[b]: amount reserved under budget b
    DailyLimit,     \* DailyLimit[b]: limit of a day's occupied total
    Currency,       \* Currency[b]
    MaxDay,         \* bound on the UTC days a behaviour spans
    None            \* SQL NULL

Keys == Conversations \X Requests
Days == 0 .. MaxDay
Kinds == {"reply", "model_planning", "model_execution"}
Settlements ==
    {"cancelled_before_dispatch", "verified", "usage_exceeded", "retained"}

ASSUME BudgetAssumption ==
    /\ Cost \in [Budgets -> Nat \ {0}]
    /\ DailyLimit \in [Budgets -> Nat]
    /\ Currency \in [Budgets -> Currencies]
    /\ MaxDay \in Nat

\* The rows a reservation can be: SQL CHECK (charged BETWEEN 0 AND reserved)
\* is left to the invariants.
Receipts ==
    [kind: Kinds, day: Days, revision: Revisions, budget: Budgets,
     charged: Nat \union {None}, settlement: Settlements \union {None}]

ASSUME NullAssumption == None \notin Int \union Keys \union Receipts

VARIABLES
    receipt,        \* reply_money_reservations: Keys -> row or None
    occupied        \* reply_money_daily: day -> currency -> amount

moneyVars == <<receipt, occupied>>

MoneyTypeOK ==
    /\ receipt \in [Keys -> Receipts \union {None}]
    /\ occupied \in [Days -> [Currencies -> Nat]]

MoneyInit ==
    /\ receipt = [k \in Keys |-> None]
    /\ occupied = [d \in Days |-> [m \in Currencies |-> 0]]

\* The row a settlement of this kind selects FOR UPDATE.
Held(k, kind) ==
    /\ receipt[k] # None
    /\ receipt[k].kind = kind
    /\ receipt[k].charged = None

\* CostReservation::settle: only a verified usage within the bounds is
\* charged as used; a missing or exceeding one keeps the whole reservation.
Charge(b, before, usage) ==
    IF before THEN 0
    ELSE IF usage # None /\ usage <= Cost[b] THEN usage ELSE Cost[b]

Settlement(b, before, usage) ==
    IF before THEN "cancelled_before_dispatch"
    ELSE IF usage = None THEN "retained"
    ELSE IF usage <= Cost[b] THEN "verified" ELSE "usage_exceeded"

\* Reserve the whole quote against day d: refused when the row exists (its
\* primary key) or the daily limit of this budget would be passed.
ReserveMoney(k, kind, d, r, b) ==
    LET m == Currency[b] IN
    /\ receipt[k] = None
    /\ occupied[d][m] + Cost[b] <= DailyLimit[b]
    /\ receipt' = [receipt EXCEPT ![k] =
           [kind |-> kind, day |-> d, revision |-> r, budget |-> b,
            charged |-> None, settlement |-> None]]
    /\ occupied' = [occupied EXCEPT ![d][m] = @ + Cost[b]]

\* Mutation: the settled amount is given back in place of the rest.
SettleGivesBackCharge(k, kind, before, usage) ==
    \/ /\ ~Held(k, kind)
       /\ UNCHANGED moneyVars
    \/ /\ Held(k, kind)
       /\ LET row     == receipt[k]
              m       == Currency[row.budget]
              charged == Charge(row.budget, before, usage)
          IN  /\ occupied[row.day][m] >= charged
              /\ receipt' = [receipt EXCEPT ![k].charged = charged,
                     ![k].settlement = Settlement(row.budget, before, usage)]
              /\ occupied' = [occupied EXCEPT ![row.day][m] = @ - charged]

\* Settle the open reservation of this kind, if there is one.
SettleKind(k, kind, before, usage) ==
    \/ /\ ~Held(k, kind)
       /\ UNCHANGED moneyVars
    \/ /\ Held(k, kind)
       /\ LET row     == receipt[k]
              m       == Currency[row.budget]
              charged == Charge(row.budget, before, usage)
              refund  == Cost[row.budget] - charged
          IN  /\ occupied[row.day][m] >= refund
              /\ receipt' = [receipt EXCEPT ![k].charged = charged,
                     ![k].settlement = Settlement(row.budget, before, usage)]
              /\ occupied' = [occupied EXCEPT ![row.day][m] = @ - refund]

\* What a reservation takes from its day: the quote until it is settled,
\* then what was charged.
Occupies(row) == IF row.charged = None THEN Cost[row.budget] ELSE row.charged

KeptOn(d, m) ==
    [k \in Keys |->
        IF /\ receipt[k] # None
           /\ receipt[k].day = d
           /\ Currency[receipt[k].budget] = m
        THEN Occupies(receipt[k]) ELSE 0]

\* The occupied total of every day and currency is the sum, over its
\* reservations, of what is settled or still reserved: no interleaving of
\* reservations and settlements loses or invents money (reply_money.rs; the
\* audit of reply_operations.rs recomputes this sum).
LedgerExact ==
    \A d \in Days, m \in Currencies : occupied[d][m] = SumOf(KeptOn(d, m))
=============================================================================

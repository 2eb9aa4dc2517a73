-------------------------------- MODULE Budget --------------------------------
(***************************************************************************)
(* The arithmetic of paid calls (crates/agent-core/src/budget.rs): the     *)
(* quote for the token bounds of a call, its reservation against one day,  *)
(* and its settlement with the usage a provider reports.                   *)
(*                                                                         *)
(* Amounts are BIGINTs; products of tokens and prices are computed in 128  *)
(* bits and cannot wrap, so only an amount above MaxAmount is an overflow, *)
(* and that is refused.                                                    *)
(***************************************************************************)
EXTENDS Integers

CONSTANTS
    Calls,          \* paid calls of one user, day and currency
    Prices,         \* prices per Million tokens
    Tokens,         \* token counts: bounds and reported usages
    Limits,         \* limits of a request and of a day
    Million,        \* 1,000,000
    MaxAmount,      \* i64::MAX
    None

ASSUME AmountAssumption ==
    /\ Prices \subseteq Nat
    /\ Tokens \subseteq Nat
    /\ Limits \subseteq Int
    /\ \A n \in Limits : n <= MaxAmount
    /\ Million \in Nat \ {0}
    /\ MaxAmount \in Nat
    /\ None \notin Int

\* The fields of CostReservation.
Reservations ==
    [input_price: Nat, output_price: Nat, input: Nat, output: Nat, amount: Nat]

ASSUME NoneAssumption == None \notin Reservations

VARIABLES
    reservation,    \* Calls -> CostReservation or None
    settlement,     \* Calls -> amount charged or None
    usage,          \* Calls -> the usage it was settled with, or None
    occupied        \* the total of the day

vars == <<reservation, settlement, usage, occupied>>

Usages == [input: Tokens, output: Tokens]

Init ==
    /\ reservation = [c \in Calls |-> None]
    /\ settlement = [c \in Calls |-> None]
    /\ usage = [c \in Calls |-> None]
    /\ occupied = 0

\* div_ceil.
CeilDiv(n, m) == (n + m - 1) \div m

\* Input and output are rounded up on their own.
Cost(p, q, input, output) ==
    CeilDiv(input * p, Million) + CeilDiv(output * q, Million)

\* quote: both prices, both bounds and the limit are positive.
Quotable(p, q, input, output, limit) ==
    /\ p > 0 /\ q > 0
    /\ input > 0 /\ output > 0
    /\ limit > 0
    /\ Cost(p, q, input, output) <= MaxAmount
    /\ Cost(p, q, input, output) <= limit

\* quote_input: an embedding has no output and no output price.
QuotableInput(p, q, input, output, limit) ==
    /\ p > 0 /\ q = 0
    /\ input > 0 /\ output = 0
    /\ limit > 0
    /\ Cost(p, q, input, output) <= MaxAmount
    /\ Cost(p, q, input, output) <= limit

\* reserve_against.
Accepted(amount, daily) ==
    /\ daily > 0
    /\ occupied + amount <= MaxAmount
    /\ occupied + amount <= daily

Reserve(c, p, q, input, output, limit, daily) ==
    LET amount == Cost(p, q, input, output) IN
    /\ reservation[c] = None
    /\ \/ Quotable(p, q, input, output, limit)
       \/ QuotableInput(p, q, input, output, limit)
    /\ Accepted(amount, daily)
    /\ reservation' = [reservation EXCEPT ![c] =
           [input_price |-> p, output_price |-> q, input |-> input,
            output |-> output, amount |-> amount]]
    /\ occupied' = occupied + amount
    /\ UNCHANGED <<settlement, usage>>

\* A usage within both bounds may be settled for less.
Within(r, u) == u.input <= r.input /\ u.output <= r.output

\* CostReservation::settle and the ledger update of settle_kind: a missing
\* usage or one out of bounds keeps the whole reservation.
Settle(c, u) ==
    LET r == reservation[c]
        charged == IF u # None /\ Within(r, u)
                   THEN Cost(r.input_price, r.output_price, u.input, u.output)
                   ELSE r.amount
    IN
    /\ r # None
    /\ settlement[c] = None
    /\ settlement' = [settlement EXCEPT ![c] = charged]
    /\ usage' = [usage EXCEPT ![c] = u]
    /\ occupied' = occupied - (r.amount - charged)
    /\ UNCHANGED reservation

Next ==
    \E c \in Calls :
        \/ \E p, q \in Prices, input, output \in Tokens, limit, daily \in Limits :
               Reserve(c, p, q, input, output, limit, daily)
        \/ \E u \in Usages \union {None} : Settle(c, u)

Spec == Init /\ [][Next]_vars

-----------------------------------------------------------------------------
(* Properties. *)

\* A settlement never charges more than was reserved, so the difference it
\* gives back is never negative and the daily total never grows by settling
\* (CostReservation::settle computes amount - charged without a check).
ChargedWithinReserved ==
    \A c \in Calls :
        settlement[c] # None => settlement[c] <= reservation[c].amount

\* Rounding never loses money: what is kept for a call covers the exact
\* price of every usage within its bounds, also the one it reported.
ChargeCoversUse ==
    \A c \in Calls :
        settlement[c] # None /\ usage[c] # None =>
            LET r == reservation[c] IN
            Within(r, usage[c]) =>
                settlement[c] * Million >=
                    usage[c].input * r.input_price
                        + usage[c].output * r.output_price

\* The total of a day never passes the largest daily limit and stays a
\* BIGINT, whatever was reserved and given back.
DayWithinLimit ==
    /\ occupied >= 0
    /\ occupied # 0 => \E daily \in Limits : occupied <= daily
=============================================================================

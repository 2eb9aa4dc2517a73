----------------------------- MODULE OneShotCall -----------------------------
(***************************************************************************)
(* What the system promises about one paid call to a model provider: a     *)
(* reservation is accepted once, taken by at most one executor, sent at    *)
(* most once, and closed once for an amount that covers what the provider  *)
(* billed, unless the provider itself broke the agreed bound.              *)
(***************************************************************************)
EXTENDS Integers

CONSTANTS
    Calls,
    Bounds,         \* amounts a call may reserve
    Bills           \* amounts the provider may bill

\* What the amounts are.
AmountsAreNatural == Bounds \subseteq Nat \ {0} /\ Bills \subseteq Nat

VARIABLES
    phase,          \* where the reservation is
    bound,          \* the amount reserved, 0 before
    called,         \* the provider request went out
    bill,           \* what the provider bills for it
    charge          \* what the ledger keeps, 0 until closed

vars == <<phase, bound, called, bill, charge>>

Phases == {"absent", "reserved", "withdrawn", "taken", "closed"}

TypeOK ==
    /\ phase \in [Calls -> Phases]
    /\ bound \in [Calls -> Nat]
    /\ called \in [Calls -> BOOLEAN]
    /\ bill \in [Calls -> Nat]
    /\ charge \in [Calls -> Nat]

Init ==
    /\ phase = [c \in Calls |-> "absent"]
    /\ bound = [c \in Calls |-> 0]
    /\ called = [c \in Calls |-> FALSE]
    /\ bill = [c \in Calls |-> 0]
    /\ charge = [c \in Calls |-> 0]

Reserve(c) ==
    /\ phase[c] = "absent"
    /\ phase' = [phase EXCEPT ![c] = "reserved"]
    /\ \E b \in Bounds : bound' = [bound EXCEPT ![c] = b]
    /\ UNCHANGED <<called, bill, charge>>

\* Cancelled before anybody took it: nothing is kept and nothing is sent.
Withdraw(c) ==
    /\ phase[c] = "reserved"
    /\ phase' = [phase EXCEPT ![c] = "withdrawn"]
    /\ UNCHANGED <<bound, called, bill, charge>>

Take(c) ==
    /\ phase[c] = "reserved"
    /\ phase' = [phase EXCEPT ![c] = "taken"]
    /\ UNCHANGED <<bound, called, bill, charge>>

\* The one request.  It may still go out after the call was closed by a
\* cancellation or an expired lease.
Call(c) ==
    /\ phase[c] \in {"taken", "closed"}
    /\ ~called[c]
    /\ called' = [called EXCEPT ![c] = TRUE]
    /\ \E n \in Bills : bill' = [bill EXCEPT ![c] = n]
    /\ UNCHANGED <<phase, bound, charge>>

\* Less than the whole bound is kept only for a request that went out and
\* whose bill is known.
Close(c) ==
    /\ phase[c] = "taken"
    /\ phase' = [phase EXCEPT ![c] = "closed"]
    /\ \/ charge' = [charge EXCEPT ![c] = bound[c]]
       \/ /\ called[c]
          /\ bill[c] <= bound[c]
          /\ charge' = [charge EXCEPT ![c] = bill[c]]
    /\ UNCHANGED <<bound, called, bill>>

Next ==
    \E c \in Calls :
        Reserve(c) \/ Withdraw(c) \/ Take(c) \/ Call(c) \/ Close(c)

Spec == Init /\ [][Next]_vars

\* A bill within the agreed bound is covered by what the ledger keeps, at
\* every moment after the call is closed and whenever the request went out.
Covered ==
    \A c \in Calls :
        /\ called[c] => phase[c] \in {"taken", "closed"}
        /\ phase[c] = "closed" /\ bill[c] <= bound[c] => bill[c] <= charge[c]
=============================================================================

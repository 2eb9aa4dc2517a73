------------------------------ MODULE Parts_proofs ------------------------------
(***************************************************************************)
(* Proofs about the parts that need no other (MCParts), for all prices,    *)
(* bounds, limits, kinds of rows, points, skills, entries, passages and    *)
(* streams: the arithmetic of Budget and Quotes, the operator's programs   *)
(* Recovery and Vectors, the planners StudyPlan and BriefPlan, and the     *)
(* readers Excerpts and TextStreams; and what the contract of one paid     *)
(* call implies (OneShotCall).                                             *)
(*                                                                         *)
(* Both facts about a price are facts about one settlement; the invariant  *)
(* only carries that a reservation holds the cost of its own bounds.  A    *)
(* day is a sum over its calls, and the facts about sums are Sums_proofs.  *)
(***************************************************************************)
EXTENDS MCParts, Sequences, Sums_proofs, WellFoundedInduction, TLAPS


-----------------------------------------------------------------------------
(* The price of one call (Budget). *)

\* A reservation holds the cost of its bounds, and a settlement is the cost
\* of a usage within them or the whole reservation.
QuoteInv ==
    \A c \in Calls :
        /\ reservation[c] # None =>
               LET r == reservation[c] IN
               r.amount = Cost(r.input_price, r.output_price, r.input, r.output)
        /\ settlement[c] # None =>
               LET r == reservation[c] IN
               /\ r # None
               /\ settlement[c] =
                      IF usage[c] # None /\ Within(r, usage[c])
                      THEN Cost(r.input_price, r.output_price,
                                usage[c].input, usage[c].output)
                      ELSE r.amount

ShapeOK ==
    /\ reservation \in [Calls -> Reservations \union {None}]
    /\ settlement \in [Calls -> Nat \union {None}]
    /\ usage \in [Calls -> Usages \union {None}]

IInv == ShapeOK /\ QuoteInv

-----------------------------------------------------------------------------

\* Rounding up is the least multiple that covers the amount.
LEMMA CeilCovers ==
    ASSUME NEW n \in Nat, NEW m \in Nat \ {0}
    PROVE  /\ CeilDiv(n, m) \in Nat
           /\ CeilDiv(n, m) * m >= n
           /\ CeilDiv(n, m) * m < n + m
<1> DEFINE x == n + m - 1
           k == x \div m
<1>1. x \in Nat OBVIOUS
<1>2. k \in Nat /\ k * m <= x /\ x < (k + 1) * m
  BY <1>1, SMTT(30)
<1>3. CeilDiv(n, m) = k BY DEF CeilDiv
<1> HIDE DEF k
<1>4. (k + 1) * m = k * m + m BY <1>2
<1> QED BY <1>2, <1>3, <1>4

\* Rounding up is monotone.
LEMMA CeilMonotone ==
    ASSUME NEW n \in Nat, NEW p \in Nat, NEW m \in Nat \ {0}, n <= p
    PROVE  CeilDiv(n, m) <= CeilDiv(p, m)
<1> DEFINE a == CeilDiv(n, m)
           b == CeilDiv(p, m)
<1>1. a \in Nat /\ b \in Nat BY CeilCovers
<1>2. a * m < n + m /\ b * m >= p BY CeilCovers
<1> HIDE DEF a, b
<1>3. ASSUME b + 1 <= a PROVE FALSE
  <2>1. (b + 1) * m <= a * m BY <1>1, <1>3
  <2>2. (b + 1) * m = b * m + m BY <1>1
  <2>3. a * m \in Int /\ b * m \in Int BY <1>1
  <2> QED BY <1>2, <2>1, <2>2, <2>3
<1> QED BY <1>1, <1>3 DEF a, b

\* The cost of fewer tokens at the same prices is no higher.
LEMMA CostMonotone ==
    ASSUME NEW p \in Nat, NEW q \in Nat, NEW i \in Nat, NEW o \in Nat,
           NEW j \in Nat, NEW n \in Nat, i <= j, o <= n
    PROVE  Cost(p, q, i, o) <= Cost(p, q, j, n)
<1>1. i * p \in Nat /\ j * p \in Nat /\ i * p <= j * p OBVIOUS
<1>2. o * q \in Nat /\ n * q \in Nat /\ o * q <= n * q OBVIOUS
<1>3. Million \in Nat \ {0} BY AmountAssumption
<1>4. CeilDiv(i * p, Million) <= CeilDiv(j * p, Million)
  BY <1>1, <1>3, CeilMonotone
<1>5. CeilDiv(o * q, Million) <= CeilDiv(n * q, Million)
  BY <1>2, <1>3, CeilMonotone
<1>6. /\ CeilDiv(i * p, Million) \in Nat /\ CeilDiv(j * p, Million) \in Nat
      /\ CeilDiv(o * q, Million) \in Nat /\ CeilDiv(n * q, Million) \in Nat
  BY <1>1, <1>2, <1>3, CeilCovers
<1> QED BY <1>4, <1>5, <1>6 DEF Cost

\* A cost is a natural number and covers the exact price.
LEMMA CostCovers ==
    ASSUME NEW p \in Nat, NEW q \in Nat, NEW i \in Nat, NEW o \in Nat
    PROVE  /\ Cost(p, q, i, o) \in Nat
           /\ Cost(p, q, i, o) * Million >= i * p + o * q
<1>1. i * p \in Nat /\ o * q \in Nat OBVIOUS
<1>2. Million \in Nat \ {0} BY AmountAssumption
<1> DEFINE a == CeilDiv(i * p, Million)
           b == CeilDiv(o * q, Million)
<1>3. /\ a \in Nat /\ b \in Nat
      /\ a * Million >= i * p /\ b * Million >= o * q
  BY <1>1, <1>2, CeilCovers
<1>4. Cost(p, q, i, o) = a + b BY DEF Cost
<1> HIDE DEF a, b
<1>5. (a + b) * Million = a * Million + b * Million BY <1>2, <1>3
<1>6. a * Million \in Nat /\ b * Million \in Nat BY <1>2, <1>3
<1> QED BY <1>1, <1>3, <1>4, <1>5, <1>6

-----------------------------------------------------------------------------

LEMMA InitHolds == Init => IInv
BY DEF Init, IInv, ShapeOK, QuoteInv

LEMMA ReserveStep ==
    ASSUME IInv, NEW c \in Calls, NEW p \in Prices, NEW q \in Prices,
           NEW tokens \in Tokens, NEW output \in Tokens,
           NEW limit \in Limits, NEW daily \in Limits,
           Reserve(c, p, q, tokens, output, limit, daily)
    PROVE  IInv'
<1> DEFINE amount == Cost(p, q, tokens, output)
           made == [input_price |-> p, output_price |-> q, input |-> tokens,
                   output |-> output, amount |-> amount]
<1>1. p \in Nat /\ q \in Nat /\ tokens \in Nat /\ output \in Nat
  BY AmountAssumption
<1>2. amount \in Nat BY <1>1, CostCovers
<1>3. made \in Reservations BY <1>1, <1>2 DEF Reservations
<1>4. /\ reservation[c] = None
      /\ reservation' = [reservation EXCEPT ![c] = made]
      /\ UNCHANGED <<settlement, usage>>
  BY DEF Reserve
<1>5. ShapeOK' BY <1>3, <1>4 DEF IInv, ShapeOK
<1>6. QuoteInv'
  <2> SUFFICES ASSUME NEW x \in Calls
               PROVE  /\ reservation'[x] # None =>
                             LET r == reservation'[x] IN
                             r.amount = Cost(r.input_price, r.output_price,
                                             r.input, r.output)
                      /\ settlement[x] # None =>
                             LET r == reservation'[x] IN
                             /\ r # None
                             /\ settlement[x] =
                                  IF usage[x] # None /\ Within(r, usage[x])
                                  THEN Cost(r.input_price, r.output_price,
                                            usage[x].input, usage[x].output)
                                  ELSE r.amount
    BY <1>4 DEF QuoteInv
  <2>1. CASE x = c
    <3>1. reservation'[c] = made BY <1>4 DEF IInv, ShapeOK
    <3>2. settlement[c] = None BY <1>4 DEF IInv, QuoteInv
    <3> QED BY <2>1, <3>1, <3>2
  <2>2. CASE x # c
    <3>1. reservation'[x] = reservation[x] BY <2>2, <1>4 DEF IInv, ShapeOK
    <3> QED BY <3>1 DEF IInv, QuoteInv
  <2> QED BY <2>1, <2>2
<1> QED BY <1>5, <1>6 DEF IInv

LEMMA SettleStep ==
    ASSUME IInv, NEW c \in Calls, NEW u \in Usages \union {None}, Settle(c, u)
    PROVE  IInv'
<1> DEFINE r == reservation[c]
           charged == IF u # None /\ Within(r, u)
                      THEN Cost(r.input_price, r.output_price, u.input, u.output)
                      ELSE r.amount
<1>1. /\ r # None /\ settlement[c] = None
      /\ settlement' = [settlement EXCEPT ![c] = charged]
      /\ usage' = [usage EXCEPT ![c] = u]
      /\ UNCHANGED reservation
  BY DEF Settle
<1>2. r \in Reservations BY <1>1 DEF IInv, ShapeOK
<1>3. charged \in Nat
  <2>1. CASE u # None /\ Within(r, u)
    <3>1. u.input \in Nat /\ u.output \in Nat
      BY <2>1, AmountAssumption DEF Usages
    <3>2. r.input_price \in Nat /\ r.output_price \in Nat
      BY <1>2 DEF Reservations
    <3> QED BY <2>1, <3>1, <3>2, CostCovers
  <2>2. CASE ~(u # None /\ Within(r, u))
    BY <2>2, <1>2 DEF Reservations
  <2> QED BY <2>1, <2>2
<1>4. ShapeOK' BY <1>1, <1>3 DEF IInv, ShapeOK
<1>5. \A x \in Calls : x # c =>
         settlement'[x] = settlement[x] /\ usage'[x] = usage[x]
  BY <1>1 DEF IInv, ShapeOK
<1>6. settlement'[c] = charged /\ usage'[c] = u
  BY <1>1 DEF IInv, ShapeOK
<1>7. QuoteInv'
  <2> SUFFICES ASSUME NEW x \in Calls
               PROVE  /\ reservation[x] # None =>
                             LET s == reservation[x] IN
                             s.amount = Cost(s.input_price, s.output_price,
                                             s.input, s.output)
                      /\ settlement'[x] # None =>
                             LET s == reservation[x] IN
                             /\ s # None
                             /\ settlement'[x] =
                                  IF usage'[x] # None /\ Within(s, usage'[x])
                                  THEN Cost(s.input_price, s.output_price,
                                            usage'[x].input, usage'[x].output)
                                  ELSE s.amount
    BY <1>1 DEF QuoteInv
  <2>1. CASE x = c BY <2>1, <1>1, <1>6 DEF IInv, QuoteInv
  <2>2. CASE x # c BY <2>2, <1>5 DEF IInv, QuoteInv
  <2> QED BY <2>1, <2>2
<1> QED BY <1>4, <1>7 DEF IInv

LEMMA IInvStep == IInv /\ [Next]_vars => IInv'
<1> SUFFICES ASSUME IInv, [Next]_vars PROVE IInv'
  OBVIOUS
<1>1. CASE Next BY <1>1, ReserveStep, SettleStep DEF Next
<1>2. CASE UNCHANGED vars
  BY <1>2 DEF vars, IInv, ShapeOK, QuoteInv
<1> QED BY <1>1, <1>2

\* The strengthening is an invariant.
THEOREM Invariance == Spec => []IInv
BY InitHolds, IInvStep, PTL DEF Spec

\* A settlement is at most the reservation.
LEMMA ChargedLess == IInv => ChargedWithinReserved
<1> SUFFICES ASSUME IInv, NEW c \in Calls, settlement[c] # None
             PROVE  settlement[c] <= reservation[c].amount
  BY DEF ChargedWithinReserved
<1> DEFINE r == reservation[c]
           u == usage[c]
<1>1. r # None BY DEF IInv, QuoteInv
<1>2. r \in Reservations BY <1>1 DEF IInv, ShapeOK
<1>3. /\ r.input_price \in Nat /\ r.output_price \in Nat
      /\ r.input \in Nat /\ r.output \in Nat /\ r.amount \in Nat
  BY <1>2 DEF Reservations
<1>4. r.amount = Cost(r.input_price, r.output_price, r.input, r.output)
  BY <1>1 DEF IInv, QuoteInv
<1>5. CASE u # None /\ Within(r, u)
  <2>1. settlement[c] = Cost(r.input_price, r.output_price, u.input, u.output)
    BY <1>5 DEF IInv, QuoteInv
  <2>2. u \in Usages BY <1>5 DEF IInv, ShapeOK
  <2>3. u.input \in Nat /\ u.output \in Nat
    BY <2>2, AmountAssumption DEF Usages
  <2>4. u.input <= r.input /\ u.output <= r.output BY <1>5 DEF Within
  <2> HIDE DEF r, u
  <2>5. Cost(r.input_price, r.output_price, u.input, u.output)
            <= Cost(r.input_price, r.output_price, r.input, r.output)
    BY <1>3, <2>3, <2>4, CostMonotone
  <2> QED BY <1>4, <2>1, <2>5 DEF r
<1>6. CASE ~(u # None /\ Within(r, u))
  <2>1. settlement[c] = r.amount BY <1>6 DEF IInv, QuoteInv
  <2> QED BY <2>1, <1>3
<1> QED BY <1>5, <1>6

\* For all prices and bounds, settling gives nothing back that was not
\* reserved (CostReservation::settle).
THEOREM RefundsAreCovered == Spec => []ChargedWithinReserved
BY ChargedLess, Invariance, PTL

\* What is kept covers the exact price.
LEMMA ChargeCovers == IInv => ChargeCoversUse
<1> SUFFICES ASSUME IInv, NEW c \in Calls,
                    settlement[c] # None, usage[c] # None,
                    Within(reservation[c], usage[c])
             PROVE  settlement[c] * Million >=
                        usage[c].input * reservation[c].input_price
                            + usage[c].output * reservation[c].output_price
  BY DEF ChargeCoversUse
<1> DEFINE r == reservation[c]
           u == usage[c]
<1>1. r # None
      /\ settlement[c] = Cost(r.input_price, r.output_price, u.input, u.output)
  BY DEF IInv, QuoteInv
<1>2. r \in Reservations /\ u \in Usages BY <1>1 DEF IInv, ShapeOK
<1>3. /\ r.input_price \in Nat /\ r.output_price \in Nat
      /\ u.input \in Nat /\ u.output \in Nat
  BY <1>2, AmountAssumption DEF Reservations, Usages
<1> HIDE DEF r, u
<1>4. Cost(r.input_price, r.output_price, u.input, u.output) * Million >=
          u.input * r.input_price + u.output * r.output_price
  BY <1>3, CostCovers
<1> QED BY <1>1, <1>4 DEF r, u

\* For all prices and bounds, rounding never keeps less than the exact price
\* of a usage within the bounds (cost).
THEOREM RoundingCoversUse == Spec => []ChargeCoversUse
BY ChargeCovers, Invariance, PTL

-----------------------------------------------------------------------------
(* The total of a day (Budget).  It is the sum of what its calls hold.     *)

HeldBy ==
    [c \in Calls |->
        IF settlement[c] # None THEN settlement[c]
        ELSE IF reservation[c] # None THEN reservation[c].amount ELSE 0]

DayInv ==
    /\ IsFiniteSet(UnitsOf(HeldBy))
    /\ occupied = SumOf(HeldBy)
    /\ DayWithinLimit

LEMMA HeldType == ShapeOK => HeldBy \in [Calls -> Nat]
<1> SUFFICES ASSUME ShapeOK, NEW c \in Calls PROVE HeldBy[c] \in Nat
  BY DEF HeldBy
<1>1. CASE settlement[c] # None
  BY <1>1 DEF HeldBy, ShapeOK
<1>2. CASE settlement[c] = None /\ reservation[c] # None
  <2>1. reservation[c] \in Reservations
    BY <1>2 DEF ShapeOK
  <2> QED BY <1>2, <2>1 DEF HeldBy, Reservations
<1>3. CASE settlement[c] = None /\ reservation[c] = None
  BY <1>3 DEF HeldBy
<1> QED BY <1>1, <1>2, <1>3

\* One call changes what it holds.
LEMMA DayChange ==
    ASSUME ShapeOK, ShapeOK', DayInv, NEW c \in Calls,
           \A x \in Calls \ {c} : reservation'[x] = reservation[x]
                                    /\ settlement'[x] = settlement[x]
    PROVE  /\ IsFiniteSet(UnitsOf(HeldBy'))
           /\ SumOf(HeldBy') + HeldBy[c] = occupied + HeldBy'[c]
           /\ occupied >= HeldBy[c]
           /\ occupied \in Nat /\ SumOf(HeldBy') \in Nat
           /\ HeldBy[c] \in Nat /\ HeldBy'[c] \in Nat
<1> DEFINE f == HeldBy
<1> PICK g : g = HeldBy'
  OBVIOUS
<1>a. (ShapeOK => HeldBy \in [Calls -> Nat])'
  BY HeldType, PTL
<1>1. f \in [Calls -> Nat] /\ HeldBy' \in [Calls -> Nat]
  BY HeldType, <1>a
<1>2. g \in [Calls -> Nat]
  BY <1>1
<1>3. \A x \in Calls \ {c} : g[x] = f[x]
  BY DEF HeldBy
<1>4. IsFiniteSet(UnitsOf(f)) /\ SumOf(f) = occupied
  BY DEF DayInv
<1> HIDE DEF f
<1>5. /\ IsFiniteSet(UnitsOf(g))
      /\ SumOf(g) + f[c] = SumOf(f) + g[c]
      /\ SumOf(f) >= f[c]
  BY <1>1, <1>2, <1>3, <1>4, SumOfChange
<1>6. SumOf(f) \in Nat /\ SumOf(g) \in Nat
  BY <1>1, <1>2, <1>4, <1>5, SumOfType
<1> QED BY <1>1, <1>2, <1>4, <1>5, <1>6 DEF f

LEMMA DayReserve ==
    ASSUME IInv, DayInv, NEW c \in Calls, NEW p \in Prices, NEW q \in Prices,
           NEW tokens \in Tokens, NEW output \in Tokens,
           NEW limit \in Limits, NEW daily \in Limits,
           Reserve(c, p, q, tokens, output, limit, daily)
    PROVE  DayInv'
<1> DEFINE amount == Cost(p, q, tokens, output)
           made == [input_price |-> p, output_price |-> q, input |-> tokens,
                   output |-> output, amount |-> amount]
<1>1. p \in Nat /\ q \in Nat /\ tokens \in Nat /\ output \in Nat
  BY AmountAssumption
<1>2. amount \in Nat BY <1>1, CostCovers
<1>3. made \in Reservations BY <1>1, <1>2 DEF Reservations
<1>4. /\ reservation[c] = None
      /\ reservation' = [reservation EXCEPT ![c] = made]
      /\ UNCHANGED <<settlement, usage>>
      /\ occupied' = occupied + amount
      /\ occupied + amount <= daily
  BY DEF Reserve, Accepted
<1>5. ShapeOK /\ ShapeOK' /\ settlement[c] = None
  BY <1>4, ReserveStep DEF IInv, QuoteInv
<1>6. HeldBy[c] = 0 /\ HeldBy'[c] = amount
  BY <1>3, <1>4, <1>5, NoneAssumption DEF HeldBy, ShapeOK
<1>7. \A x \in Calls \ {c} : reservation'[x] = reservation[x]
                               /\ settlement'[x] = settlement[x]
  BY <1>4, <1>5 DEF ShapeOK
<1> HIDE DEF amount
<1>8. /\ IsFiniteSet(UnitsOf(HeldBy'))
      /\ SumOf(HeldBy') + HeldBy[c] = occupied + HeldBy'[c]
      /\ occupied \in Nat /\ SumOf(HeldBy') \in Nat
  BY <1>5, <1>7, DayChange
<1>9. SumOf(HeldBy') = occupied' /\ occupied' \in Nat
  BY <1>2, <1>4, <1>6, <1>8
<1>10. occupied' <= daily
  BY <1>4
<1> QED BY <1>8, <1>9, <1>10 DEF DayInv, DayWithinLimit

LEMMA SettleCharges ==
    ASSUME IInv, NEW c \in Calls, NEW u \in Usages \union {None}, Settle(c, u)
    PROVE  settlement'[c] # None
<1> DEFINE r == reservation[c]
           charged == IF u # None /\ Within(r, u)
                      THEN Cost(r.input_price, r.output_price, u.input, u.output)
                      ELSE r.amount
<1>1. r # None /\ settlement' = [settlement EXCEPT ![c] = charged]
  BY DEF Settle
<1>2. r \in Reservations BY <1>1 DEF IInv, ShapeOK
<1>3. charged \in Nat
  <2>1. CASE u # None /\ Within(r, u)
    <3>1. u.input \in Nat /\ u.output \in Nat
      BY <2>1, AmountAssumption DEF Usages
    <3>2. r.input_price \in Nat /\ r.output_price \in Nat
      BY <1>2 DEF Reservations
    <3> QED BY <2>1, <3>1, <3>2, CostCovers
  <2>2. CASE ~(u # None /\ Within(r, u))
    BY <2>2, <1>2 DEF Reservations
  <2> QED BY <2>1, <2>2
<1>4. settlement'[c] = charged
  BY <1>1 DEF IInv, ShapeOK
<1> HIDE DEF charged
<1> QED BY <1>3, <1>4, AmountAssumption

LEMMA DaySettle ==
    ASSUME IInv, DayInv, NEW c \in Calls, NEW u \in Usages \union {None},
           Settle(c, u)
    PROVE  DayInv'
<1> DEFINE r == reservation[c]
<1>1. r # None /\ settlement[c] = None /\ UNCHANGED reservation
  BY DEF Settle
<1>2. PICK charged :
          /\ settlement' = [settlement EXCEPT ![c] = charged]
          /\ occupied' = occupied - (r.amount - charged)
  BY DEF Settle
<1>3. IInv' /\ ShapeOK /\ ShapeOK'
  BY SettleStep DEF IInv
<1>4. settlement'[c] = charged
  BY <1>2, <1>3 DEF ShapeOK
<1>5. r \in Reservations /\ r.amount \in Nat
  BY <1>1, <1>3 DEF ShapeOK, Reservations
<1>6. charged \in Nat
  <2>1. settlement'[c] # None
    BY SettleCharges
  <2> QED BY <1>3, <1>4, <2>1 DEF ShapeOK
<1>7. charged <= r.amount
  <2>a. (IInv => ChargedWithinReserved)'
    BY ChargedLess, PTL
  <2>1. ChargedWithinReserved'
    BY <1>3, <2>a
  <2> QED BY <1>1, <1>4, <1>6, <2>1, AmountAssumption DEF ChargedWithinReserved
<1>8. HeldBy[c] = r.amount /\ HeldBy'[c] = charged
  BY <1>1, <1>4, <1>6, AmountAssumption DEF HeldBy
<1>9. \A x \in Calls \ {c} : reservation'[x] = reservation[x]
                               /\ settlement'[x] = settlement[x]
  BY <1>1, <1>2, <1>3 DEF ShapeOK
<1> HIDE DEF r
<1>10. /\ IsFiniteSet(UnitsOf(HeldBy'))
       /\ SumOf(HeldBy') + HeldBy[c] = occupied + HeldBy'[c]
       /\ occupied >= HeldBy[c]
       /\ occupied \in Nat /\ SumOf(HeldBy') \in Nat
  BY <1>3, <1>9, DayChange
<1>11. SumOf(HeldBy') = occupied' /\ occupied' \in Nat /\ occupied' <= occupied
  BY <1>2, <1>5, <1>6, <1>7, <1>8, <1>10
<1>12. occupied' # 0 => \E daily \in Limits : occupied' <= daily
  <2>1. occupied' # 0 => occupied # 0
    BY <1>10, <1>11
  <2>2. \A n \in Limits : n \in Int
    BY AmountAssumption
  <2> QED BY <1>10, <1>11, <2>1, <2>2 DEF DayInv, DayWithinLimit
<1> QED BY <1>10, <1>11, <1>12 DEF DayInv, DayWithinLimit

LEMMA DayStep ==
    ASSUME IInv, DayInv, [Next]_vars
    PROVE  DayInv'
<1>1. CASE Next BY <1>1, DayReserve, DaySettle DEF Next
<1>2. CASE UNCHANGED vars
  <2>1. UNCHANGED <<reservation, settlement, occupied>>
    BY <1>2 DEF vars
  <2> QED BY <2>1 DEF DayInv, DayWithinLimit, HeldBy
<1> QED BY <1>1, <1>2

LEMMA DayInit == Init => DayInv
<1> SUFFICES ASSUME Init PROVE DayInv
  OBVIOUS
<1>1. \A c \in DOMAIN HeldBy : HeldBy[c] = 0
  BY DEF Init, HeldBy
<1> QED BY <1>1, SumOfZeros DEF Init, DayInv, DayWithinLimit

-----------------------------------------------------------------------------
(* The quotes (Quotes).  A quote is the cost of its calls, so consents add *)
(* to the day what they add to the sums.                                   *)

\* The amount of a quote is what its calls cost one by one.
Exact(q) == q \in Quotations /\ q.amount = CallsCost(q)

OffersInv ==
    /\ revision \in {0, 1}
    /\ quote \in [Quoted -> Quotations \union {None}]
    /\ approved \in [Quoted -> Quotations \union {None}]
    /\ \A r \in Quoted : quote[r] # None => Exact(quote[r])
    /\ \A r \in Quoted : approved[r] # None => Exact(approved[r])

SumsInv ==
    /\ IsFiniteSet(UnitsOf(AmountsOf))
    /\ IsFiniteSet(UnitsOf(CallsOf))
    /\ IsFiniteSet(UnitsOf(SearchesOf))
    /\ QuotesAddUp

QuotesInv == OffersInv /\ SumsInv

LEMMA TakenType ==
    OffersInv =>
        /\ AmountsOf \in [Quoted -> Nat]
        /\ CallsOf \in [Quoted -> Nat]
        /\ SearchesOf \in [Quoted -> Nat]
<1> SUFFICES ASSUME OffersInv, NEW r \in Quoted
             PROVE  AmountsOf[r] \in Nat /\ CallsOf[r] \in Nat /\ SearchesOf[r] \in Nat
  BY DEF AmountsOf, CallsOf, SearchesOf
<1>1. CASE approved[r] = None
  BY <1>1 DEF AmountsOf, CallsOf, SearchesOf
<1>2. CASE approved[r] # None
  <2>1. approved[r] \in Quotations
    BY <1>2 DEF OffersInv
  <2>2. approved[r].amount \in Nat /\ approved[r].searches \in Nat
    BY <2>1 DEF Quotations
  <2> QED BY <1>2, <2>2 DEF AmountsOf, CallsOf, SearchesOf
<1> QED BY <1>1, <1>2

LEMMA OfferExact ==
    ASSUME OffersInv, NEW r \in Quoted, NEW limits \in LimitSets,
           NEW amount \in Nat, NEW embedding \in Nat, NEW answer \in Nat,
           NEW searches \in Nat, amount = searches * embedding + answer,
           approved[r] = None,
           Offer(r, amount, embedding, answer, searches, limits, MaxLife)
    PROVE  OffersInv' /\ UNCHANGED <<approved, day>>
<1> DEFINE q == [amount |-> amount, embedding |-> embedding, answer |-> answer,
                 chat |-> 1, searches |-> searches, limits |-> limits,
                 revision |-> revision, life |-> MaxLife]
<1>1. quote' = [quote EXCEPT ![r] = q] /\ UNCHANGED <<revision, approved, day>>
  BY DEF Offer
<1>2. limits \in Limited /\ MaxLife \in Nat
  BY QuoteAssumption
<1>3. q \in Quotations
  BY <1>2 DEF OffersInv, Quotations
<1>4. q.amount = CallsCost(q)
  BY DEF CallsCost
<1>5. Exact(q)
  BY <1>3, <1>4 DEF Exact
<1> HIDE DEF q
<1>6. quote' \in [Quoted -> Quotations \union {None}]
  BY <1>1, <1>3 DEF OffersInv
<1>7. \A x \in Quoted : quote'[x] = IF x = r THEN q ELSE quote[x]
  BY <1>1 DEF OffersInv
<1>8. \A x \in Quoted : quote'[x] # None => Exact(quote'[x])
  BY <1>5, <1>7 DEF OffersInv
<1> QED BY <1>1, <1>6, <1>8 DEF OffersInv

LEMMA PlanningExact ==
    ASSUME OffersInv, NEW r \in Quoted, NEW limits \in LimitSets,
           NEW p \in Prices, NEW q \in Prices,
           NEW tokens \in Tokens, NEW output \in Tokens,
           QuotePlanning(r, p, q, tokens, output, limits, MaxLife)
    PROVE  OffersInv' /\ UNCHANGED <<approved, day>>
<1> DEFINE answer == Cost(p, q, tokens, output)
<1>1. p \in Nat /\ q \in Nat /\ tokens \in Nat /\ output \in Nat
  BY AmountAssumption
<1>2. answer \in Nat
  BY <1>1, CostCovers
<1>3. approved[r] = None /\ Offer(r, answer, 0, answer, 0, limits, MaxLife)
  BY DEF QuotePlanning
<1> HIDE DEF answer
<1>4. answer = 0 * 0 + answer
  BY <1>2
<1> QED BY <1>2, <1>3, <1>4, OfferExact

LEMMA ExecutionExact ==
    ASSUME OffersInv, NEW r \in Quoted, NEW limits \in LimitSets,
           NEW p \in Prices, NEW tokens \in Tokens,
           NEW answer \in AnswerCosts, NEW searches \in 1 .. MaxSearches,
           QuoteExecution(r, p, tokens, answer, searches, limits, MaxLife)
    PROVE  OffersInv' /\ UNCHANGED <<approved, day>>
<1> DEFINE embedding == Cost(p, 0, tokens, 0)
           amount == Total(embedding, searches, answer)
<1>1. p \in Nat /\ tokens \in Nat
  BY AmountAssumption
<1>2. embedding \in Nat
  BY <1>1, CostCovers
<1>3. answer \in Nat
  <2>1. PICK a \in Prices \ {0}, b \in Prices \ {0}, i \in Tokens \ {0},
             o \in Tokens \ {0} : answer = Cost(a, b, i, o)
    BY DEF AnswerCosts
  <2>2. a \in Nat /\ b \in Nat /\ i \in Nat /\ o \in Nat
    BY AmountAssumption
  <2> QED BY <2>1, <2>2, CostCovers
<1>4. searches \in Nat
  BY QuoteAssumption
<1>5. approved[r] = None
      /\ Offer(r, amount, embedding, answer, searches, limits, MaxLife)
  BY DEF QuoteExecution
<1>6. amount = embedding * searches + answer
  BY DEF Total
<1> HIDE DEF embedding, amount
<1>7. amount \in Nat /\ amount = searches * embedding + answer
  BY <1>2, <1>3, <1>4, <1>6
<1> QED BY <1>2, <1>3, <1>4, <1>5, <1>7, OfferExact

\* What a consent takes is added to each of the sums.
LEMMA ConsentStep ==
    ASSUME QuotesInv, NEW r \in Quoted, Consent(r)
    PROVE  QuotesInv'
<1> DEFINE q == quote[r]
<1>1. /\ q # None /\ approved[r] = None
      /\ Reservable(day, q)
      /\ approved' = [approved EXCEPT ![r] = q]
      /\ day' = [amount |-> day.amount + CallsCost(q),
                 model |-> day.model + ModelCalls(q),
                 tool |-> day.tool + q.searches]
      /\ UNCHANGED <<quote, revision>>
  BY DEF Consent
<1>2. OffersInv /\ SumsInv /\ Exact(q)
  BY <1>1 DEF QuotesInv, OffersInv
<1>3. /\ q \in Quotations /\ q.amount = CallsCost(q) /\ q.chat = 1
      /\ q.amount \in Nat /\ q.searches \in Nat /\ q.limits \in Limited
  BY <1>2 DEF Exact, Quotations
<1> HIDE DEF q
<1>4. \A x \in Quoted : approved'[x] = IF x = r THEN q ELSE approved[x]
  BY <1>1, <1>2 DEF OffersInv
<1>5. approved' \in [Quoted -> Quotations \union {None}]
  BY <1>1, <1>2, <1>3 DEF OffersInv
<1>6. OffersInv'
  BY <1>1, <1>2, <1>4, <1>5 DEF OffersInv
<1> DEFINE a == AmountsOf
           c == CallsOf
           s == SearchesOf
<1> PICK aa, cc, ss : aa = AmountsOf' /\ cc = CallsOf' /\ ss = SearchesOf'
  OBVIOUS
<1>7. (OffersInv => /\ AmountsOf \in [Quoted -> Nat]
                    /\ CallsOf \in [Quoted -> Nat]
                    /\ SearchesOf \in [Quoted -> Nat])'
  BY TakenType, PTL
<1>8. /\ a \in [Quoted -> Nat] /\ c \in [Quoted -> Nat] /\ s \in [Quoted -> Nat]
      /\ aa \in [Quoted -> Nat] /\ cc \in [Quoted -> Nat] /\ ss \in [Quoted -> Nat]
  BY <1>2, <1>6, <1>7, TakenType
<1>9. \A x \in Quoted \ {r} : aa[x] = a[x] /\ cc[x] = c[x] /\ ss[x] = s[x]
  BY <1>4 DEF AmountsOf, CallsOf, SearchesOf
<1>10. /\ a[r] = 0 /\ c[r] = 0 /\ s[r] = 0
       /\ aa[r] = q.amount /\ cc[r] = 1 + q.searches /\ ss[r] = q.searches
  BY <1>1, <1>3, <1>4, QuoteAssumption DEF AmountsOf, CallsOf, SearchesOf
<1>11. /\ IsFiniteSet(UnitsOf(a)) /\ IsFiniteSet(UnitsOf(c)) /\ IsFiniteSet(UnitsOf(s))
       /\ day.amount = SumOf(a) /\ day.model = SumOf(c) /\ day.tool = SumOf(s)
  BY <1>2 DEF SumsInv, QuotesAddUp
<1> HIDE DEF a, c, s
<1>12. /\ IsFiniteSet(UnitsOf(aa)) /\ SumOf(aa) + a[r] = SumOf(a) + aa[r]
       /\ SumOf(a) \in Nat /\ SumOf(aa) \in Nat
  <2>1. /\ a \in [Quoted -> Nat] /\ aa \in [Quoted -> Nat]
        /\ \A x \in Quoted \ {r} : aa[x] = a[x]
        /\ IsFiniteSet(UnitsOf(a))
    BY <1>8, <1>9, <1>11
  <2>2. IsFiniteSet(UnitsOf(aa)) /\ SumOf(aa) + a[r] = SumOf(a) + aa[r]
    BY <2>1, SumOfChange
  <2> QED BY <2>1, <2>2, SumOfType
<1>13. /\ IsFiniteSet(UnitsOf(cc)) /\ SumOf(cc) + c[r] = SumOf(c) + cc[r]
       /\ SumOf(c) \in Nat /\ SumOf(cc) \in Nat
  <2>1. /\ c \in [Quoted -> Nat] /\ cc \in [Quoted -> Nat]
        /\ \A x \in Quoted \ {r} : cc[x] = c[x]
        /\ IsFiniteSet(UnitsOf(c))
    BY <1>8, <1>9, <1>11
  <2>2. IsFiniteSet(UnitsOf(cc)) /\ SumOf(cc) + c[r] = SumOf(c) + cc[r]
    BY <2>1, SumOfChange
  <2> QED BY <2>1, <2>2, SumOfType
<1>14. /\ IsFiniteSet(UnitsOf(ss)) /\ SumOf(ss) + s[r] = SumOf(s) + ss[r]
       /\ SumOf(s) \in Nat /\ SumOf(ss) \in Nat
  <2>1. /\ s \in [Quoted -> Nat] /\ ss \in [Quoted -> Nat]
        /\ \A x \in Quoted \ {r} : ss[x] = s[x]
        /\ IsFiniteSet(UnitsOf(s))
    BY <1>8, <1>9, <1>11
  <2>2. IsFiniteSet(UnitsOf(ss)) /\ SumOf(ss) + s[r] = SumOf(s) + ss[r]
    BY <2>1, SumOfChange
  <2> QED BY <2>1, <2>2, SumOfType
<1>15. /\ day'.amount = day.amount + q.amount
       /\ day'.model = day.model + 1 + q.searches
       /\ day'.tool = day.tool + q.searches
  <2>1. ModelCalls(q) = 1 + q.searches
    BY <1>3 DEF ModelCalls
  <2>2. /\ day'.amount = day.amount + CallsCost(q)
        /\ day'.model = day.model + ModelCalls(q)
        /\ day'.tool = day.tool + q.searches
    BY <1>1
  <2>3. day.model \in Nat /\ q.searches \in Nat /\ q.amount = CallsCost(q)
    BY <1>3, <1>11, <1>13
  <2> QED BY <2>1, <2>2, <2>3
<1>16. day'.amount = SumOf(aa) /\ day'.model = SumOf(cc) /\ day'.tool = SumOf(ss)
  <2>1. SumOf(aa) = SumOf(a) + q.amount
    BY <1>3, <1>10, <1>12
  <2>2. SumOf(cc) = SumOf(c) + (1 + q.searches)
    BY <1>3, <1>10, <1>13
  <2>3. SumOf(ss) = SumOf(s) + q.searches
    BY <1>3, <1>10, <1>14
  <2>4. q.searches \in Nat /\ SumOf(c) \in Nat
    BY <1>3, <1>13
  <2> QED BY <1>11, <1>15, <2>1, <2>2, <2>3, <2>4
<1>17. /\ day'.amount <= q.limits.daily
       /\ day'.model <= q.limits.model
       /\ day'.tool <= q.limits.tool
  BY <1>1, <1>3, <1>11, <1>13, <1>15 DEF Reservable, ModelCalls
<1>18. r \in ApprovedOnes' /\ approved'[r] = q
  BY <1>1, <1>4, <1>2, <1>3, QuoteAssumption DEF ApprovedOnes
<1>19. SumsInv'
  BY <1>12, <1>13, <1>14, <1>16, <1>17, <1>18 DEF SumsInv, QuotesAddUp
<1> QED BY <1>6, <1>19 DEF QuotesInv

\* The validity of a quote does not change what it costs.
LEMMA WaitStep ==
    ASSUME QuotesInv, Wait
    PROVE  QuotesInv'
<1>1. UNCHANGED <<revision, approved, day>> /\ OffersInv
  BY DEF Wait, QuotesInv
<1>2. ASSUME NEW r \in Quoted
      PROVE  /\ quote'[r] \in Quotations \union {None}
             /\ quote'[r] # None => Exact(quote'[r])
  <2>1. CASE quote[r] = None
    BY <2>1 DEF Wait
  <2>2. CASE quote[r] # None
    <3> PICK q : q = quote[r]
      OBVIOUS
    <3>1. Exact(q)
      BY <1>1, <2>2 DEF OffersInv
    <3> DEFINE w == [q EXCEPT !.life = IF q.life > 0 THEN q.life - 1 ELSE 0]
    <3>2. quote'[r] = w
      BY <2>2 DEF Wait
    <3>3. q \in Quotations
      BY <3>1 DEF Exact
    <3>4. w \in Quotations /\ w.amount = q.amount /\ w.searches = q.searches
          /\ w.embedding = q.embedding /\ w.answer = q.answer
      BY <3>3 DEF Quotations
    <3> HIDE DEF w
    <3>5. Exact(w)
      BY <3>1, <3>4 DEF Exact, CallsCost
    <3> QED BY <3>2, <3>4, <3>5
  <2> QED BY <2>1, <2>2
<1>3. quote' \in [Quoted -> Quotations \union {None}]
  BY <1>2 DEF Wait
<1>4. OffersInv'
  BY <1>1, <1>2, <1>3 DEF OffersInv
<1>5. SumsInv'
  BY <1>1 DEF QuotesInv, SumsInv, QuotesAddUp, AmountsOf, CallsOf, SearchesOf,
              ApprovedOnes
<1> QED BY <1>4, <1>5 DEF QuotesInv

LEMMA QuotesInvStep ==
    ASSUME QuotesInv, QuoteSteps
    PROVE  QuotesInv'
<1>1. ASSUME OffersInv', UNCHANGED <<approved, day>>
      PROVE  QuotesInv'
  BY <1>1 DEF QuotesInv, SumsInv, QuotesAddUp, AmountsOf, CallsOf, SearchesOf,
              ApprovedOnes
<1>2. ASSUME NEW r \in Quoted, NEW limits \in LimitSets, NEW p \in Prices,
             NEW q \in Prices, NEW tokens \in Tokens, NEW output \in Tokens,
             QuotePlanning(r, p, q, tokens, output, limits, MaxLife)
      PROVE  QuotesInv'
  BY <1>1, <1>2, PlanningExact DEF QuotesInv
<1>3. ASSUME NEW r \in Quoted, NEW limits \in LimitSets, NEW p \in Prices,
             NEW tokens \in Tokens, NEW answer \in AnswerCosts,
             NEW searches \in 1 .. MaxSearches,
             QuoteExecution(r, p, tokens, answer, searches, limits, MaxLife)
      PROVE  QuotesInv'
  BY <1>1, <1>3, ExecutionExact DEF QuotesInv
<1>4. CASE Edit
  <2>1. OffersInv' /\ UNCHANGED <<approved, day>>
    BY <1>4 DEF Edit, QuotesInv, OffersInv
  <2> QED BY <2>1, <1>1
<1> QED BY <1>2, <1>3, <1>4, ConsentStep, WaitStep DEF QuoteSteps

LEMMA QuotesInvInit == QuotesInit => QuotesInv
<1> SUFFICES ASSUME QuotesInit PROVE QuotesInv
  OBVIOUS
<1>1. OffersInv
  BY DEF QuotesInit, OffersInv
<1>2. /\ \A r \in DOMAIN AmountsOf : AmountsOf[r] = 0
      /\ \A r \in DOMAIN CallsOf : CallsOf[r] = 0
      /\ \A r \in DOMAIN SearchesOf : SearchesOf[r] = 0
  BY DEF QuotesInit, AmountsOf, CallsOf, SearchesOf
<1>3. ApprovedOnes = {}
  BY DEF QuotesInit, ApprovedOnes
<1>4. SumsInv
  BY <1>2, <1>3, SumOfZeros DEF QuotesInit, SumsInv, QuotesAddUp
<1> QED BY <1>1, <1>4 DEF QuotesInv

MoneyInv == IInv /\ DayInv /\ QuotesInv

LEMMA MoneyStep ==
    ASSUME MoneyInv, ([Next]_vars /\ UNCHANGED quoteVars) \/ QuotesNext
    PROVE  MoneyInv'
<1>1. CASE [Next]_vars /\ UNCHANGED quoteVars
  <2>1. IInv' /\ DayInv'
    BY <1>1, IInvStep, DayStep DEF MoneyInv
  <2>2. QuotesInv'
    BY <1>1 DEF MoneyInv, quoteVars, QuotesInv, OffersInv, SumsInv, QuotesAddUp,
                AmountsOf, CallsOf, SearchesOf, ApprovedOnes
  <2> QED BY <2>1, <2>2 DEF MoneyInv
<1>2. CASE QuotesNext
  <2>1. QuotesInv'
    BY <1>2, QuotesInvStep DEF MoneyInv, QuotesNext
  <2>2. IInv' /\ DayInv'
    BY <1>2, IInvStep, DayStep DEF MoneyInv, QuotesNext
  <2> QED BY <2>1, <2>2 DEF MoneyInv
<1> QED BY <1>1, <1>2

\* For all prices, bounds and limits, a call is charged what it used at
\* least and what was reserved at most, and a day is the sum of what its
\* calls hold and of what its users were shown (budget.rs, model_plan.rs).
THEOREM AmountsAddUpHolds == MCSpec => []AmountsAddUp
<1>1. MCInit => MoneyInv
  BY InitHolds, DayInit, QuotesInvInit DEF MCInit, MoneyInv
<1>2. MoneyInv /\ [MCNext]_allVars => MoneyInv'
  <2> SUFFICES ASSUME MoneyInv, [MCNext]_allVars PROVE MoneyInv'
    OBVIOUS
  <2>1. ([Next]_vars /\ UNCHANGED quoteVars) \/ QuotesNext
    BY DEF MCNext, allVars, moneyVars, budgetVars, vars, BudgetStep, QuotesStep,
           StudyStep, BriefStep, StreamsStep, ExcerptsStep, RecoveryStep, VectorsStep
  <2> QED BY <2>1, MoneyStep
<1>3. MoneyInv => AmountsAddUp
  BY ChargedLess, ChargeCovers
     DEF MoneyInv, DayInv, QuotesInv, SumsInv, AmountsAddUp
<1> QED BY <1>1, <1>2, <1>3, PTL DEF MCSpec

-----------------------------------------------------------------------------
(* One paid call (OneShotCall), for every set of calls. *)

CONSTANTS Bounds, Bills

VARIABLES phase, bound, called, bill, charge

Contract == INSTANCE OneShotCall

\* A closed call that has not been sent keeps the whole bound, whatever it
\* will be billed later.
ContractInv ==
    /\ Contract!TypeOK
    /\ Contract!Covered
    /\ \A c \in Calls : ~called[c] => bill[c] = 0
    /\ \A c \in Calls : phase[c] = "closed" /\ ~called[c] => charge[c] = bound[c]

LEMMA ContractInit == Contract!Init => ContractInv
BY DEF Contract!Init, ContractInv, Contract!TypeOK, Contract!Covered, Contract!Phases

LEMMA ContractStep ==
    Contract!AmountsAreNatural /\ ContractInv /\ [Contract!Next]_(Contract!vars)
        => ContractInv'
<1> SUFFICES ASSUME Contract!AmountsAreNatural, ContractInv,
                    [Contract!Next]_(Contract!vars)
             PROVE  ContractInv'
  OBVIOUS
<1> USE DEF Contract!AmountsAreNatural, ContractInv, Contract!TypeOK,
            Contract!Covered, Contract!Phases
<1>1. CASE UNCHANGED Contract!vars
  BY <1>1 DEF Contract!vars
<1>2. ASSUME NEW c \in Calls, Contract!Reserve(c) PROVE ContractInv'
  BY <1>2 DEF Contract!Reserve
<1>3. ASSUME NEW c \in Calls, Contract!Withdraw(c) PROVE ContractInv'
  BY <1>3 DEF Contract!Withdraw
<1>4. ASSUME NEW c \in Calls, Contract!Take(c) PROVE ContractInv'
  BY <1>4 DEF Contract!Take
<1>5. ASSUME NEW c \in Calls, Contract!Call(c) PROVE ContractInv'
  BY <1>5 DEF Contract!Call
<1>6. ASSUME NEW c \in Calls, Contract!Close(c) PROVE ContractInv'
  BY <1>6 DEF Contract!Close
<1> QED BY <1>1, <1>2, <1>3, <1>4, <1>5, <1>6 DEF Contract!Next

\* A bill within the agreed bound is covered by what the ledger keeps,
\* although a call may be closed before its request goes out (what
\* RefinesOneShotCall shows of replies).
THEOREM BillsAreCovered ==
    ASSUME Contract!AmountsAreNatural
    PROVE  Contract!Spec => []Contract!Covered
<1>1. ContractInv => Contract!Covered
  BY DEF ContractInv
<1> QED BY <1>1, ContractInit, ContractStep, PTL DEF Contract!Spec

-----------------------------------------------------------------------------
(* Backup and restore (Recovery), for all kinds of rows the script ends    *)
(* and any number of failures.                                             *)

AllKinds ==
    {"reply", "planning", "execution", "plan", "reminder", "schedule",
     "collection", "review", "advice", "job"}

\* What is used of the life of a row.
LifeFacts(k) ==
    /\ R!Life[k][1] \in R!Statuses(k)
    /\ R!Final(k) \in R!Statuses(k)
    /\ \A i \in 2 .. Len(R!Life[k]) :
           R!Life[k][i - 1] \in R!Statuses(k) /\ R!Life[k][i] \in R!Statuses(k)

LEMMA LifeOfTwo ==
    ASSUME NEW k, NEW a, NEW b, R!Life[k] = <<a, b>>
    PROVE  R!Statuses(k) = {a, b} /\ LifeFacts(k)
<1>1. /\ DOMAIN R!Life[k] = 1 .. 2 /\ Len(R!Life[k]) = 2
      /\ R!Life[k][1] = a /\ R!Life[k][2] = b
  OBVIOUS
<1>2. R!Statuses(k) = {a, b}
  BY <1>1 DEF R!Statuses
<1>3. \A i \in 2 .. Len(R!Life[k]) : i = 2
  BY <1>1
<1> QED BY <1>1, <1>2, <1>3 DEF LifeFacts, R!Final

LEMMA LifeOfThree ==
    ASSUME NEW k, NEW a, NEW b, NEW c, R!Life[k] = <<a, b, c>>
    PROVE  R!Statuses(k) = {a, b, c} /\ LifeFacts(k)
<1>1. /\ DOMAIN R!Life[k] = 1 .. 3 /\ Len(R!Life[k]) = 3
      /\ R!Life[k][1] = a /\ R!Life[k][2] = b /\ R!Life[k][3] = c
  OBVIOUS
<1>2. R!Statuses(k) = {a, b, c}
  BY <1>1 DEF R!Statuses
<1>3. \A i \in 2 .. Len(R!Life[k]) : i = 2 \/ i = 3
  BY <1>1
<1> QED BY <1>1, <1>2, <1>3 DEF LifeFacts, R!Final

\* What the script knows of a kind covers every status of its life, and what
\* it ends in is none of them.
ScriptFacts(k) ==
    /\ DOMAIN R!Quarantine[k] \subseteq R!Ends \ R!Statuses(k)
    /\ \A s \in R!Statuses(k) :
           \E t \in DOMAIN R!Quarantine[k] : s \in R!Quarantine[k][t]

LEMMA ScriptCovers ==
    ASSUME NEW k \in AllKinds
    PROVE  LifeFacts(k) /\ ScriptFacts(k)
<1>1. CASE k = "reply"
  <2>1. R!Life[k] = <<"queued", "dispatching">>
    BY <1>1 DEF R!Life
  <2>2. R!Quarantine[k] = [cancelled |-> {"queued"}, unknown |-> {"dispatching"}]
    BY <1>1 DEF R!Quarantine
  <2>3. R!Statuses(k) = {"queued", "dispatching"} /\ LifeFacts(k)
    BY <2>1, LifeOfTwo
  <2> QED BY <2>2, <2>3 DEF ScriptFacts, R!Ends
<1>2. CASE k = "planning"
  <2>1. R!Life[k] = <<"draft", "queued", "dispatching">>
    BY <1>2 DEF R!Life
  <2>2. R!Quarantine[k] = [cancelled |-> {"draft", "queued"}, unknown |-> {"dispatching"}]
    BY <1>2 DEF R!Quarantine
  <2>3. R!Statuses(k) = {"draft", "queued", "dispatching"} /\ LifeFacts(k)
    BY <2>1, LifeOfThree
  <2> QED BY <2>2, <2>3 DEF ScriptFacts, R!Ends
<1>3. CASE k = "execution"
  <2>1. R!Life[k] = <<"draft", "queued", "running">>
    BY <1>3 DEF R!Life
  <2>2. R!Quarantine[k] = [cancelled |-> {"draft"}, unknown |-> {"queued", "running"}]
    BY <1>3 DEF R!Quarantine
  <2>3. R!Statuses(k) = {"draft", "queued", "running"} /\ LifeFacts(k)
    BY <2>1, LifeOfThree
  <2> QED BY <2>2, <2>3 DEF ScriptFacts, R!Ends
<1>4. CASE k = "plan"
  <2>1. R!Life[k] = <<"draft", "running">>
    BY <1>4 DEF R!Life
  <2>2. R!Quarantine[k] = [cancelled |-> {"draft"}, unknown |-> {"running"}]
    BY <1>4 DEF R!Quarantine
  <2>3. R!Statuses(k) = {"draft", "running"} /\ LifeFacts(k)
    BY <2>1, LifeOfTwo
  <2> QED BY <2>2, <2>3 DEF ScriptFacts, R!Ends
<1>5. CASE k = "reminder"
  <2>1. R!Life[k] = <<"draft", "scheduled", "running">>
    BY <1>5 DEF R!Life
  <2>2. R!Quarantine[k] = [cancelled |-> {"draft", "scheduled", "running"}]
    BY <1>5 DEF R!Quarantine
  <2>3. R!Statuses(k) = {"draft", "scheduled", "running"} /\ LifeFacts(k)
    BY <2>1, LifeOfThree
  <2> QED BY <2>2, <2>3 DEF ScriptFacts, R!Ends
<1>6. CASE k = "schedule"
  <2>1. R!Life[k] = <<"draft", "active">>
    BY <1>6 DEF R!Life
  <2>2. R!Quarantine[k] = [cancelled |-> {"draft", "active"}]
    BY <1>6 DEF R!Quarantine
  <2>3. R!Statuses(k) = {"draft", "active"} /\ LifeFacts(k)
    BY <2>1, LifeOfTwo
  <2> QED BY <2>2, <2>3 DEF ScriptFacts, R!Ends
<1>7. CASE k = "collection"
  <2>1. R!Life[k] = <<"draft", "running">>
    BY <1>7 DEF R!Life
  <2>2. R!Quarantine[k] = [cancelled |-> {"draft"}, unknown |-> {"running"}]
    BY <1>7 DEF R!Quarantine
  <2>3. R!Statuses(k) = {"draft", "running"} /\ LifeFacts(k)
    BY <2>1, LifeOfTwo
  <2> QED BY <2>2, <2>3 DEF ScriptFacts, R!Ends
<1>8. CASE k = "review"
  <2>1. R!Life[k] = <<"draft", "authorized", "running">>
    BY <1>8 DEF R!Life
  <2>2. R!Quarantine[k] = [invalidated |-> {"draft", "authorized"}, unknown |-> {"running"}]
    BY <1>8 DEF R!Quarantine
  <2>3. R!Statuses(k) = {"draft", "authorized", "running"} /\ LifeFacts(k)
    BY <2>1, LifeOfThree
  <2> QED BY <2>2, <2>3 DEF ScriptFacts, R!Ends
<1>9. CASE k = "advice"
  <2>1. R!Life[k] = <<"draft", "authorized", "running">>
    BY <1>9 DEF R!Life
  <2>2. R!Quarantine[k] = [invalidated |-> {"draft", "authorized"}, unknown |-> {"running"}]
    BY <1>9 DEF R!Quarantine
  <2>3. R!Statuses(k) = {"draft", "authorized", "running"} /\ LifeFacts(k)
    BY <2>1, LifeOfThree
  <2> QED BY <2>2, <2>3 DEF ScriptFacts, R!Ends
<1>10. CASE k = "job"
  <2>1. R!Life[k] = <<"queued", "running">>
    BY <1>10 DEF R!Life
  <2>2. R!Quarantine[k] = [failed |-> {"queued", "running"}]
    BY <1>10 DEF R!Quarantine
  <2>3. R!Statuses(k) = {"queued", "running"} /\ LifeFacts(k)
    BY <2>1, LifeOfTwo
  <2> QED BY <2>2, <2>3 DEF ScriptFacts, R!Ends
<1> QED BY <1>1, <1>2, <1>3, <1>4, <1>5, <1>6, <1>7, <1>8, <1>9, <1>10
           DEF AllKinds

\* What the script makes of a row of the snapshot.
LEMMA ScriptEnds ==
    ASSUME kind \in AllKinds, NEW r \in R!Row
    PROVE  /\ R!Quarantined(r) \in R!Row
           /\ R!Quarantined(r).status \notin R!Statuses(kind)
           /\ r.money = "held" => R!Quarantined(r).money = "retained"
<1> DEFINE to == {t \in DOMAIN R!Quarantine[kind] : r.status \in R!Quarantine[kind][t]}
           e == R!Ended(r.status)
<1>1. ScriptFacts(kind)
  BY ScriptCovers
<1>2. r.status \in R!Statuses(kind) \cup R!Ends
      /\ r.money \in {"none", "held", "charged", "refunded", "retained"}
  BY DEF R!Row
<1>3. CASE to = {}
  <2>1. e = r.status
    BY <1>3 DEF R!Ended
  <2>2. r.status \notin R!Statuses(kind)
    BY <1>1, <1>3 DEF ScriptFacts
  <2> QED BY <1>2, <2>1, <2>2 DEF R!Quarantined, R!Row
<1>4. CASE to # {}
  <2>1. e = CHOOSE t \in to : TRUE
    BY <1>4 DEF R!Ended
  <2>2. e \in to
    BY <1>4, <2>1
  <2>3. e \in R!Ends \ R!Statuses(kind)
    BY <1>1, <2>2 DEF ScriptFacts
  <2> QED BY <1>2, <2>3 DEF R!Quarantined, R!Row
<1> QED BY <1>3, <1>4

Calls3 == {"idle", "check", "freeze", "begin", "import", "thaw", "open"}

\* The tool imports into a database that it has closed and found empty, so
\* what is restored is the row of the snapshot as the script leaves it; the
\* service on it holds a row that has ended and a process without a claim.
RecoveryInv ==
    /\ kind \in AllKinds
    /\ R!RecoveryTypeOK
    /\ tool \in Calls3
    /\ target \in [content: {"empty", "other", "restored"},
                   row: R!Row \cup {None}, open: BOOLEAN]
    /\ tool # "idle" => archive # "none"
    /\ tool = "begin" => ~target.open
    /\ R!OthersAreSpared
    /\ target.content = "restored" =>
           archive # "none" /\ target.row = R!Quarantined(dump)
    /\ era # "old" => ~claimed
    /\ era = "restored" => row.status \notin R!Statuses(kind)
    /\ effects.restored = 0

LEMMA RecoveryInvInit == R!RecoveryInit => RecoveryInv
<1> SUFFICES ASSUME R!RecoveryInit PROVE RecoveryInv
  OBVIOUS
<1>1. kind \in AllKinds /\ kind \in Kinds
  BY RecoveryAssumption DEF R!RecoveryInit, AllKinds, R!Life
<1>2. row \in R!Row
  BY DEF R!RecoveryInit, R!Row, R!Ends
<1>3. target = [content |-> "empty", row |-> None, open |-> TRUE]
      /\ effects = [old |-> 0, restored |-> 0]
  BY DEF R!RecoveryInit
<1>4. /\ target \in [content: {"empty", "other", "restored"},
                    row: R!Row \cup {None}, open: BOOLEAN]
      /\ target.content = "empty" /\ target.open
      /\ effects \in [old: 0 .. 2, restored: 0 .. 2] /\ effects.restored = 0
  BY <1>3
<1>5. faults \in 0 .. MaxFaults
  BY RecoveryAssumption DEF R!RecoveryInit
<1>6. era = "old" /\ claimed = FALSE /\ archive = "none" /\ client = FALSE /\ tool = "idle"
  BY DEF R!RecoveryInit
<1>7. R!RecoveryTypeOK
  BY <1>1, <1>2, <1>4, <1>5, <1>6 DEF R!RecoveryTypeOK
<1> QED BY <1>1, <1>4, <1>6, <1>7 DEF RecoveryInv, R!OthersAreSpared, R!At, Calls3

\* The rows of a kind stay what they are.
LEMMA KindFrame ==
    ASSUME UNCHANGED kind
    PROVE  /\ R!Row' = R!Row
           /\ R!Statuses(kind)' = R!Statuses(kind)
           /\ UNCHANGED dump => R!Quarantined(dump)' = R!Quarantined(dump)
<1>1. R!Row' = R!Row
  BY DEF R!Row, R!Statuses
<1>2. R!Statuses(kind)' = R!Statuses(kind)
  BY DEF R!Statuses
<1>3. R!Quarantined(dump)' = R!Quarantined(dump')
  BY Zenon DEF R!Quarantined, R!Ended
<1> QED BY <1>1, <1>2, <1>3

\* A step of the service that leaves the tool and its target alone.
LEMMA ServiceFrame ==
    ASSUME RecoveryInv, R!ServiceOnly,
           row' \in R!Row, claimed' \in BOOLEAN,
           effects' \in [old: 0 .. 2, restored: 0 .. 2], effects'.restored = 0,
           era # "old" => ~claimed',
           era = "restored" => row'.status \notin R!Statuses(kind)
    PROVE  RecoveryInv'
<1>1. UNCHANGED <<kind, era, dump, archive, target, client, tool, faults>>
  BY DEF R!ServiceOnly, R!fileVars
<1>2. /\ R!Row' = R!Row /\ R!Statuses(kind)' = R!Statuses(kind)
      /\ R!Quarantined(dump)' = R!Quarantined(dump)
  BY <1>1, KindFrame
<1>3. R!RecoveryTypeOK'
  BY <1>1, <1>2 DEF RecoveryInv, R!RecoveryTypeOK
<1>4. R!OthersAreSpared'
  BY <1>1 DEF RecoveryInv, R!OthersAreSpared, R!At
<1> QED BY <1>1, <1>2, <1>3, <1>4 DEF RecoveryInv

LEMMA ServiceStep ==
    ASSUME RecoveryInv,
           R!Create \/ R!Advance \/ R!TakeUp \/ R!Work \/ R!Cancel
    PROVE  RecoveryInv'
<1>1. LifeFacts(kind) /\ kind \in AllKinds
  BY ScriptCovers DEF RecoveryInv
<1>2. ASSUME NEW s \in R!Statuses(kind), NEW m \in {"none", "held", "charged", "refunded", "retained"}
      PROVE  [status |-> s, money |-> R!Reserved(s, m)] \in R!Row
  BY DEF R!Row, R!Reserved
<1>3. ASSUME NEW e \in R!Ends, NEW m \in {"none", "held", "charged", "refunded", "retained"}
      PROVE  [status |-> e, money |-> m] \in R!Row
  BY DEF R!Row
<1>4. /\ row \in R!Row /\ claimed \in BOOLEAN
      /\ row.money \in {"none", "held", "charged", "refunded", "retained"}
      /\ era \in {"old", "down", "restored"}
      /\ effects \in [old: 0 .. 2, restored: 0 .. 2] /\ effects.restored = 0
      /\ era # "old" => ~claimed
      /\ era = "restored" => row.status \notin R!Statuses(kind)
  BY DEF RecoveryInv, R!RecoveryTypeOK, R!Row
<1>5. CASE R!Create
  <2>1. /\ era = "old" /\ UNCHANGED <<claimed, effects>> /\ R!ServiceOnly
        /\ row' = [status |-> R!Life[kind][1], money |-> R!Reserved(R!Life[kind][1], "none")]
    BY <1>5 DEF R!Create
  <2>2. row' \in R!Row
    BY <1>1, <1>2, <2>1 DEF LifeFacts
  <2> QED BY <1>4, <2>1, <2>2, ServiceFrame
<1>6. CASE R!Advance
  <2>1. PICK i \in 2 .. Len(R!Life[kind]) :
            /\ R!Serving /\ row.status = R!Life[kind][i - 1]
            /\ row' = [status |-> R!Life[kind][i],
                       money |-> R!Reserved(R!Life[kind][i], row.money)]
            /\ claimed' = (R!Life[kind][i] = R!Final(kind))
            /\ UNCHANGED effects /\ R!ServiceOnly
    BY <1>6 DEF R!Advance
  <2>2. row' \in R!Row
    BY <1>1, <1>2, <1>4, <2>1 DEF LifeFacts
  <2>3. era = "old"
    BY <1>1, <1>4, <2>1 DEF LifeFacts, R!Serving
  <2>4. claimed' \in BOOLEAN
    BY <2>1
  <2> QED BY <1>4, <2>1, <2>2, <2>3, <2>4, ServiceFrame
<1>7. CASE R!TakeUp
  <2>1. /\ R!Serving /\ row.status = R!Final(kind) /\ claimed' = TRUE
        /\ UNCHANGED <<row, effects>> /\ R!ServiceOnly
    BY <1>7 DEF R!TakeUp
  <2>2. era = "old"
    BY <1>1, <1>4, <2>1 DEF LifeFacts, R!Serving
  <2> QED BY <1>4, <2>1, <2>2, ServiceFrame
<1>8. CASE R!Work
  <2>1. /\ R!Serving /\ claimed /\ claimed' = FALSE /\ R!ServiceOnly
        /\ effects' = [effects EXCEPT ![era] = IF @ < 2 THEN @ + 1 ELSE @]
        /\ \/ UNCHANGED row
           \/ row' = [status |-> "done",
                      money |-> IF row.money = "held" THEN "charged" ELSE row.money]
    BY <1>8 DEF R!Work
  <2>2. era = "old"
    BY <1>4, <2>1 DEF R!Serving
  <2>3. row' \in R!Row
    BY <1>3, <1>4, <2>1 DEF R!Ends
  <2>4. effects' \in [old: 0 .. 2, restored: 0 .. 2] /\ effects'.restored = 0
    BY <1>4, <2>1, <2>2
  <2> QED BY <2>1, <2>2, <2>3, <2>4, ServiceFrame
<1>9. CASE R!Cancel
  <2>1. /\ R!Serving /\ row.status \in R!Statuses(kind)
        /\ row' = [status |-> "cancelled",
                   money |-> IF row.money = "held" THEN "refunded" ELSE row.money]
        /\ UNCHANGED <<claimed, effects>> /\ R!ServiceOnly
    BY <1>9 DEF R!Cancel
  <2>2. era = "old"
    BY <1>4, <2>1 DEF R!Serving
  <2>3. row' \in R!Row
    BY <1>3, <1>4, <2>1 DEF R!Ends
  <2> QED BY <1>4, <2>1, <2>2, <2>3, ServiceFrame
<1> QED BY <1>5, <1>6, <1>7, <1>8, <1>9

\* The service stops, or starts on what was restored.
LEMMA EraStep ==
    ASSUME RecoveryInv, R!Stop \/ R!Switch
    PROVE  RecoveryInv'
<1>1. UNCHANGED <<kind, effects, dump, archive, target, client, tool, faults>>
  BY DEF R!Stop, R!Switch, R!fileVars
<1>2. /\ R!Row' = R!Row /\ R!Statuses(kind)' = R!Statuses(kind)
      /\ R!Quarantined(dump)' = R!Quarantined(dump)
  BY <1>1, KindFrame
<1>3. R!OthersAreSpared'
  BY <1>1 DEF RecoveryInv, R!OthersAreSpared, R!At
<1>4. /\ row' \in R!Row /\ claimed' = FALSE /\ era' \in {"down", "restored"}
      /\ era' = "restored" => row'.status \notin R!Statuses(kind)
  <2>1. CASE R!Stop
    BY <2>1 DEF R!Stop, RecoveryInv, R!RecoveryTypeOK
  <2>2. CASE R!Switch
    <3>1. /\ row' = R!Quarantined(dump) /\ dump \in R!Row /\ claimed' = FALSE
          /\ era' = "restored"
      BY <2>2 DEF R!Switch, RecoveryInv, R!RecoveryTypeOK
    <3> QED BY <3>1, ScriptEnds DEF RecoveryInv
  <2> QED BY <2>1, <2>2
<1>5. R!RecoveryTypeOK'
  BY <1>1, <1>2, <1>4 DEF RecoveryInv, R!RecoveryTypeOK
<1> QED BY <1>1, <1>2, <1>3, <1>4, <1>5 DEF RecoveryInv

\* A step that leaves the service and the script's kind alone.
LEMMA ToolFrame ==
    ASSUME RecoveryInv, UNCHANGED <<kind, row, era, claimed, effects>>,
           archive' \in {"none", "whole", "damaged"},
           archive' # "none" => dump' \in R!Row,
           target' \in [content: {"empty", "other", "restored"},
                        row: R!Row \cup {None}, open: BOOLEAN],
           target'.content = "restored" =>
               /\ archive' # "none"
               /\ target'.row = R!Quarantined(dump')
               /\ ~client',
           client' \in BOOLEAN, faults' \in 0 .. MaxFaults,
           tool' \in Calls3,
           tool' # "idle" => archive' # "none",
           tool' = "begin" => ~target'.open,
           tool' = "import" =>
               target'.content = "empty" /\ ~target'.open /\ ~client'
    PROVE  RecoveryInv'
<1>1. R!Row' = R!Row /\ R!Statuses(kind)' = R!Statuses(kind)
  BY KindFrame
<1>2. (R!Quarantined(dump))' = R!Quarantined(dump')
  BY Zenon DEF R!Quarantined, R!Ended
<1>3. target'.content = "restored" => target'.row \in R!Row
  BY ScriptEnds DEF RecoveryInv
<1>4. R!RecoveryTypeOK'
  BY <1>1, <1>3 DEF RecoveryInv, R!RecoveryTypeOK
<1>5. R!OthersAreSpared'
  BY DEF R!OthersAreSpared, R!At
<1> QED BY <1>1, <1>2, <1>4, <1>5 DEF RecoveryInv

LEMMA OthersStep ==
    ASSUME RecoveryInv, R!Backup \/ R!Damage \/ R!Stranger \/ R!OpenByHand
    PROVE  RecoveryInv'
<1>1. UNCHANGED <<kind, row, era, claimed, effects>>
  BY DEF R!Backup, R!Damage, R!Stranger, R!OpenByHand, R!ToolOnly, R!serviceVars
<1>2. /\ row \in R!Row /\ archive \in {"none", "whole", "damaged"}
      /\ archive # "none" => dump \in R!Row
      /\ target \in [content: {"empty", "other", "restored"},
                     row: R!Row \cup {None}, open: BOOLEAN]
      /\ target.content = "restored" =>
             archive # "none" /\ target.row = R!Quarantined(dump) /\ ~client
      /\ client \in BOOLEAN /\ faults \in 0 .. MaxFaults /\ tool \in Calls3
      /\ tool # "idle" => archive # "none"
      /\ tool = "begin" => ~target.open
      /\ tool = "import" => target.content = "empty" /\ ~target.open /\ ~client
  BY DEF RecoveryInv, R!RecoveryTypeOK, R!OthersAreSpared, R!At
<1>3. R!Fault => faults' \in 0 .. MaxFaults
  BY <1>2, RecoveryAssumption DEF R!Fault
<1>4. CASE R!Backup
  <2>1. /\ archive = "none" /\ dump' = row /\ archive' = "whole"
        /\ UNCHANGED <<target, client, tool, faults>>
    BY <1>4 DEF R!Backup
  <2>2. tool' = "idle" /\ target'.content # "restored"
    BY <1>2, <2>1
  <2> QED BY <1>1, <1>2, <2>1, <2>2, ToolFrame
<1>5. CASE R!Damage
  <2>1. /\ archive = "whole" /\ archive' = "damaged" /\ R!Fault
        /\ UNCHANGED <<dump, target, client, tool>>
    BY <1>5 DEF R!Damage
  <2> QED BY <1>1, <1>2, <1>3, <2>1, ToolFrame
<1>6. CASE R!Stranger
  <2>1. UNCHANGED <<dump, archive, tool>>
    BY <1>6 DEF R!Stranger, R!fileVars
  <2>2. CASE /\ target.open /\ target.content # "restored" /\ ~client
             /\ R!Fault /\ client' = TRUE /\ UNCHANGED target
    BY <1>1, <1>2, <1>3, <2>1, <2>2, ToolFrame
  <2>3. CASE /\ client /\ target.content = "empty"
             /\ target' = [target EXCEPT !.content = "other"]
             /\ UNCHANGED <<client, faults>>
    <3>1. /\ target' \in [content: {"empty", "other", "restored"},
                          row: R!Row \cup {None}, open: BOOLEAN]
          /\ target'.content = "other" /\ target'.open = target.open
      BY <1>2, <2>3
    <3>2. tool # "import"
      BY <1>2, <2>3
    <3> QED BY <1>1, <1>2, <2>1, <2>3, <3>1, <3>2, ToolFrame
  <2>4. CASE client /\ client' = FALSE /\ UNCHANGED <<target, faults>>
    BY <1>1, <1>2, <2>1, <2>4, ToolFrame
  <2> QED BY <1>6, <2>2, <2>3, <2>4 DEF R!Stranger
<1>7. CASE R!OpenByHand
  <2>1. /\ tool = "idle" /\ target' = [target EXCEPT !.open = TRUE]
        /\ UNCHANGED <<dump, archive, client, tool, faults>>
    BY <1>7 DEF R!OpenByHand, R!ToolOnly, R!At, R!fileVars
  <2>2. /\ target' \in [content: {"empty", "other", "restored"},
                        row: R!Row \cup {None}, open: BOOLEAN]
        /\ target'.content = target.content /\ target'.row = target.row
    BY <1>2, <2>1
  <2> QED BY <1>1, <1>2, <2>1, <2>2, ToolFrame
<1> QED BY <1>4, <1>5, <1>6, <1>7

\* The restore itself: each call of the tool in order, or its failure.
LEMMA RestoreStep ==
    ASSUME RecoveryInv, R!Restore
    PROVE  RecoveryInv'
<1>1. UNCHANGED <<kind, row, era, claimed, effects, dump, archive, client>>
  BY DEF R!Restore, R!Verify, R!Check, R!Freeze, R!Begin, R!Open, R!Import,
         R!ToolOnly, R!serviceVars, R!fileVars
<1>2. /\ archive \in {"none", "whole", "damaged"}
      /\ archive # "none" => dump \in R!Row
      /\ target \in [content: {"empty", "other", "restored"},
                     row: R!Row \cup {None}, open: BOOLEAN]
      /\ target.content = "restored" =>
             archive # "none" /\ target.row = R!Quarantined(dump) /\ ~client
      /\ client \in BOOLEAN /\ faults \in 0 .. MaxFaults /\ tool \in Calls3
      /\ tool # "idle" => archive # "none"
      /\ tool = "begin" => ~target.open
      /\ tool = "import" => target.content = "empty" /\ ~target.open /\ ~client
  BY DEF RecoveryInv, R!RecoveryTypeOK, R!OthersAreSpared, R!At
<1>3. R!Fault => faults' \in 0 .. MaxFaults
  BY <1>2, RecoveryAssumption DEF R!Fault
<1> DEFINE opened == [target EXCEPT !.open = TRUE]
           closed == [target EXCEPT !.open = FALSE]
           imported == [target EXCEPT !.content = "restored",
                                      !.row = R!Quarantined(dump)]
<1>4. /\ opened \in [content: {"empty", "other", "restored"},
                     row: R!Row \cup {None}, open: BOOLEAN]
      /\ opened.content = target.content /\ opened.row = target.row
      /\ closed \in [content: {"empty", "other", "restored"},
                     row: R!Row \cup {None}, open: BOOLEAN]
      /\ closed.content = target.content /\ closed.row = target.row
      /\ closed.open = FALSE
  BY <1>2
<1>5. archive # "none" =>
          /\ imported \in [content: {"empty", "other", "restored"},
                           row: R!Row \cup {None}, open: BOOLEAN]
          /\ imported.content = "restored" /\ imported.row = R!Quarantined(dump)
  <2>1. dump \in R!Row => R!Quarantined(dump) \in R!Row
    BY ScriptEnds DEF RecoveryInv
  <2> QED BY <1>2, <2>1
<1> HIDE DEF opened, closed, imported
<1>6. CASE R!Verify
  <2>1. archive = "whole" /\ tool' = "check" /\ UNCHANGED <<faults, target>>
    BY <1>6 DEF R!Verify, R!Done, R!Goto
  <2> QED BY <1>1, <1>2, <2>1, ToolFrame DEF Calls3
<1>7. CASE R!Check
  <2>1. tool = "check" /\ tool' \in {"freeze", "idle"} /\ UNCHANGED <<faults, target>>
    BY <1>7 DEF R!Check, R!Done, R!Goto, R!At
  <2> QED BY <1>1, <1>2, <2>1, ToolFrame DEF Calls3
<1>8. CASE R!Freeze
  <2>1. /\ tool = "freeze"
        /\ \/ target' = closed /\ tool' = "begin" /\ UNCHANGED faults
           \/ target' \in {target, closed} /\ tool' = "idle" /\ R!Fault
    BY <1>8 DEF R!Freeze, R!Done, R!Goto, R!At, closed
  <2>2. target'.content = target.content /\ target'.row = target.row
    BY <1>4, <2>1
  <2> QED BY <1>1, <1>2, <1>3, <1>4, <2>1, <2>2, ToolFrame DEF Calls3
<1>9. CASE R!Begin
  <2>1. /\ tool = "begin" /\ UNCHANGED target
        /\ faults' = faults \/ R!Fault
        /\ \/ target.content = "empty" /\ ~client /\ tool' = "import"
           \/ tool' = "thaw"
    BY <1>9 DEF R!Begin, R!Done, R!Goto, R!At, R!EmptyTarget
  <2> QED BY <1>1, <1>2, <1>3, <2>1, ToolFrame DEF Calls3
<1>10. CASE R!Open
  <2>1. /\ tool' = "idle" /\ target' \in {target, opened}
        /\ faults' = faults \/ R!Fault
    BY <1>10 DEF R!Open, R!Done, R!Goto, opened
  <2>2. target'.content = target.content /\ target'.row = target.row
    BY <1>4, <2>1
  <2> QED BY <1>1, <1>2, <1>3, <1>4, <2>1, <2>2, ToolFrame DEF Calls3
<1>11. CASE R!Import
  <2>1. /\ tool = "import" /\ target' \in {target, imported}
        /\ tool' \in {"open", "idle"}
        /\ faults' = faults \/ R!Fault
    BY <1>11 DEF R!Import, R!Done, R!Goto, R!At, imported
  <2>2. archive # "none" /\ target.content = "empty" /\ ~client
    BY <1>2, <2>1
  <2>3. target'.content = "restored" => target'.row = R!Quarantined(dump)
    BY <1>5, <2>1, <2>2
  <2> QED BY <1>1, <1>2, <1>3, <1>5, <2>1, <2>2, <2>3, ToolFrame DEF Calls3
<1> QED BY <1>6, <1>7, <1>8, <1>9, <1>10, <1>11 DEF R!Restore

LEMMA RecoveryStays ==
    RecoveryInv /\ (R!RecoveryNext \/ UNCHANGED R!recoveryVars) => RecoveryInv'
<1>1. CASE UNCHANGED R!recoveryVars
  <2>1. /\ UNCHANGED <<kind, row, era, claimed, effects, dump, archive, target>>
        /\ UNCHANGED <<client, tool, faults>>
    BY <1>1 DEF R!recoveryVars, R!serviceVars, R!fileVars
  <2>2. R!Row' = R!Row /\ R!Statuses(kind)' = R!Statuses(kind)
        /\ R!Quarantined(dump)' = R!Quarantined(dump)
    BY <2>1, KindFrame
  <2> QED BY <2>1, <2>2 DEF RecoveryInv, R!RecoveryTypeOK, R!OthersAreSpared, R!At
<1> QED BY <1>1, ServiceStep, EraStep, OthersStep, RestoreStep DEF R!RecoveryNext

\* For all kinds the script ends and whatever fails: nothing that a backup
\* holds under way is done on the restored database, what it may have been
\* billed for stays charged, and nothing is replaced or shown by halves
\* (recovery-restore.mjs, recovery-quarantine.sql).
THEOREM RestoredRunsNothingHolds == MCSpec => []RestoredRunsNothing
<1>1. MCInit => RecoveryInv
  BY RecoveryInvInit DEF MCInit
<1>2. RecoveryInv /\ [MCNext]_allVars => RecoveryInv'
  <2> SUFFICES ASSUME RecoveryInv, [MCNext]_allVars PROVE RecoveryInv'
    OBVIOUS
  <2>1. R!RecoveryNext \/ UNCHANGED R!recoveryVars
    BY DEF MCNext, allVars, programVars, recoveryVars, BudgetStep, QuotesStep,
           StudyStep, BriefStep, StreamsStep, ExcerptsStep, RecoveryStep, VectorsStep,
           R!recoveryVars, R!serviceVars, R!fileVars
  <2> QED BY <2>1, RecoveryStays
<1>3. RecoveryInv => RestoredRunsNothing
  <2> SUFFICES ASSUME RecoveryInv
               PROVE  R!RecoveryTypeOK /\ R!RestoredRunsNothing /\ R!OthersAreSpared
    BY DEF RestoredRunsNothing
  <2>1. target.content = "restored" =>
            /\ target.row.status \notin R!Statuses(kind)
            /\ dump.money = "held" => target.row.money = "retained"
    BY ScriptEnds DEF RecoveryInv, R!RecoveryTypeOK
  <2> QED BY <2>1 DEF RecoveryInv, R!RestoredRunsNothing
<1> QED BY <1>1, <1>2, <1>3, PTL DEF MCSpec

-----------------------------------------------------------------------------
(* Vectors and their maintenance (Vectors), for all points, documents and  *)
(* sizes of a page.                                                        *)

\* A set of points that is not empty has a least one.
LEMMA LeastPoint ==
    ASSUME NEW set \in SUBSET Points, set # {}
    PROVE  V!Least(set) \in set /\ \A q \in set : V!Least(set) <= q
<1>1. set \subseteq Nat
  BY VectorsAssumption
<1> DEFINE less == {x \in Nat \X Nat : x[1] < x[2]}
<1>2. IsWellFoundedOn(less, Nat)
  BY NatLessThanWellFounded DEF OpToRel
<1> HIDE DEF less
<1>3. PICK p \in set : \A q \in set : <<q, p>> \notin less
  BY <1>1, <1>2, WFMin
<1>4. \A q \in set : p <= q
  <2> SUFFICES ASSUME NEW q \in set PROVE p <= q
    OBVIOUS
  <2>1. q \in Nat /\ p \in Nat
    BY <1>1
  <2>2. q < p => <<q, p>> \in less
    BY <2>1 DEF less
  <2> QED BY <1>3, <2>1, <2>2
<1> QED BY <1>4 DEF V!Least

\* What is in the store was written there once, for a document that has been
\* imported; what was removed belonged to one that is gone.
StoreInv ==
    /\ doc \in [V!Documents -> {"unborn", "present", "gone"}]
    /\ vectors \in SUBSET Points /\ writes \in SUBSET Points
    /\ landed \in SUBSET Points
    /\ stopped \in BOOLEAN /\ storeErrors \in 0 .. MaxStoreErrors
    /\ vectors \subseteq landed /\ landed \cap writes = {}
    /\ \A p \in Own : p \in landed \cup writes => doc[Document[p]] # "unborn"
    /\ V!OnlyOrphansAreRemoved

SearchInv ==
    /\ search \in [pc: {"idle", "verify", "done"}, found: SUBSET Own,
                   hits: SUBSET Own, gone: SUBSET Own]
    /\ search.gone \subseteq V!Gone
    /\ V!HitsAreLive

SweepInv ==
    /\ sweep \in [pc: {"idle", "list", "check", "remove"},
                  after: Points \cup {0}, apply: BOOLEAN, left: SUBSET Own,
                  eligible: SUBSET Own, next: Points \cup {0}]
    /\ sweep.left \subseteq landed
    /\ sweep.eligible \subseteq V!Gone
    /\ sweep.pc = "remove" => sweep.eligible # {}

\* A run that goes on where the last one ended has every vector that is due
\* before it: on the page, found to be an orphan, or behind the next cursor.
ChainInv ==
    /\ chain \in [due: SUBSET Own, at: Points \cup {0}, done: BOOLEAN]
    /\ chain.due \subseteq V!Gone /\ chain.due \subseteq landed
    /\ V!SweepIsComplete
    /\ sweep.pc \in {"check", "remove"} /\ sweep.apply /\ sweep.after = chain.at =>
           \A p \in chain.due \cap vectors :
               \/ p \in sweep.left \cup sweep.eligible
               \/ sweep.next # 0 /\ p >= sweep.next

VectorsInv == StoreInv /\ SearchInv /\ SweepInv /\ ChainInv

\* Documents do not come back, and what has landed is not written again.
LEMMA StoreStep ==
    ASSUME VectorsInv, V!VectorsNext \/ UNCHANGED V!vectorVars
    PROVE  /\ StoreInv'
           /\ V!Gone \subseteq V!Gone'
           /\ landed \subseteq landed' /\ vectors' \cap landed \subseteq vectors
<1>1. ASSUME NEW p \in Own PROVE Document[p] \in V!Documents /\ p \in Points
  BY VectorsAssumption DEF V!Documents
<1>2. V!Fails => storeErrors' \in 0 .. MaxStoreErrors
  BY VectorsAssumption DEF V!Fails, VectorsInv, StoreInv
<1>3. ASSUME UNCHANGED V!documentVars, stopped' \in BOOLEAN,
             storeErrors' \in 0 .. MaxStoreErrors
      PROVE  /\ StoreInv' /\ V!Gone \subseteq V!Gone'
             /\ landed \subseteq landed' /\ vectors' \cap landed \subseteq vectors
  BY <1>3 DEF VectorsInv, StoreInv, V!documentVars, V!Gone, V!OnlyOrphansAreRemoved,
              V!Present
<1>4. CASE UNCHANGED V!vectorVars
  BY <1>3, <1>4 DEF V!vectorVars, VectorsInv, StoreInv
<1>5. ASSUME NEW d \in V!Documents, V!Import(d)
      PROVE  /\ StoreInv' /\ V!Gone \subseteq V!Gone'
             /\ landed \subseteq landed' /\ vectors' \cap landed \subseteq vectors
  <2>1. /\ doc[d] = "unborn" /\ doc' = [doc EXCEPT ![d] = "present"]
        /\ UNCHANGED <<vectors, writes, landed, stopped, storeErrors>>
    BY <1>5 DEF V!Import
  <2> QED BY <1>1, <2>1 DEF VectorsInv, StoreInv, V!Gone, V!OnlyOrphansAreRemoved,
                            V!Present
<1>6. ASSUME NEW d \in V!Documents, V!Delete(d)
      PROVE  /\ StoreInv' /\ V!Gone \subseteq V!Gone'
             /\ landed \subseteq landed' /\ vectors' \cap landed \subseteq vectors
  <2>1. /\ doc[d] = "present" /\ doc' = [doc EXCEPT ![d] = "gone"]
        /\ UNCHANGED <<vectors, writes, landed, stopped, storeErrors>>
    BY <1>6 DEF V!Delete
  <2> QED BY <1>1, <2>1 DEF VectorsInv, StoreInv, V!Gone, V!OnlyOrphansAreRemoved,
                            V!Present
<1>7. ASSUME NEW p \in Own, V!Write(p)
      PROVE  /\ StoreInv' /\ V!Gone \subseteq V!Gone'
             /\ landed \subseteq landed' /\ vectors' \cap landed \subseteq vectors
  BY <1>1, <1>7 DEF V!Write, VectorsInv, StoreInv, V!Gone, V!OnlyOrphansAreRemoved,
                    V!Present
<1>8. ASSUME NEW p \in Own, V!Land(p)
      PROVE  /\ StoreInv' /\ V!Gone \subseteq V!Gone'
             /\ landed \subseteq landed' /\ vectors' \cap landed \subseteq vectors
  BY <1>1, <1>8 DEF V!Land, VectorsInv, StoreInv, V!Gone, V!OnlyOrphansAreRemoved,
                    V!Present
\* A vector is removed only as one of the eligible.
<1>9. ASSUME sweep.pc = "remove", vectors' = vectors \ {V!Least(sweep.eligible)},
             UNCHANGED <<doc, writes, landed, stopped>>,
             storeErrors' \in 0 .. MaxStoreErrors
      PROVE  /\ StoreInv' /\ V!Gone \subseteq V!Gone'
             /\ landed \subseteq landed' /\ vectors' \cap landed \subseteq vectors
  <2> PICK p : p = V!Least(sweep.eligible)
    OBVIOUS
  <2>1. sweep.eligible \in SUBSET Points /\ sweep.eligible # {}
    BY <1>1, <1>9 DEF VectorsInv, SweepInv
  <2>2. p \in V!Gone
    BY <2>1, LeastPoint DEF VectorsInv, SweepInv
  <2>3. p \in Own /\ doc[Document[p]] = "gone"
    BY <2>2 DEF V!Gone
  <2> QED BY <1>9, <2>3 DEF VectorsInv, StoreInv, V!Gone, V!OnlyOrphansAreRemoved,
                            V!Present
<1>10. CASE V!Search \/ V!LookUp \/ V!Drain \/ V!Resume \/ V!ListReferences
            \/ V!CheckReference \/ V!Recheck \/ V!Report
  <2>1. UNCHANGED V!documentVars /\ stopped' \in BOOLEAN
    BY <1>10 DEF V!Search, V!LookUp, V!Drain, V!Resume, V!ListReferences,
                 V!CheckReference, V!Recheck, V!Report, VectorsInv, StoreInv
  <2>2. storeErrors' \in 0 .. MaxStoreErrors
    BY <1>2, <1>10 DEF V!Search, V!LookUp, V!Drain, V!Resume, V!ListReferences,
                 V!CheckReference, V!Recheck, V!Report, VectorsInv, StoreInv
  <2> QED BY <2>1, <2>2, <1>3
<1>11. ASSUME NEW after, NEW apply, V!Gc(after, apply)
       PROVE  /\ StoreInv' /\ V!Gone \subseteq V!Gone'
              /\ landed \subseteq landed' /\ vectors' \cap landed \subseteq vectors
  BY <1>3, <1>11 DEF V!Gc, VectorsInv, StoreInv
<1>12. CASE V!Abort
  <2>1. /\ UNCHANGED <<doc, writes, landed, stopped>>
        /\ storeErrors' \in 0 .. MaxStoreErrors
        /\ \/ UNCHANGED vectors
           \/ sweep.pc = "remove" /\ vectors' = vectors \ {V!Least(sweep.eligible)}
    BY <1>2, <1>12 DEF V!Abort
  <2>2. CASE UNCHANGED vectors
    BY <1>3, <2>1, <2>2 DEF V!documentVars, VectorsInv, StoreInv
  <2> QED BY <1>9, <2>1, <2>2
<1>13. CASE V!Remove
  BY <1>9, <1>13 DEF V!Remove, VectorsInv, StoreInv
<1> QED BY <1>4, <1>5, <1>6, <1>7, <1>8, <1>10, <1>11, <1>12, <1>13
        DEF V!VectorsNext, V!Maintain

LEMMA SearchStep ==
    ASSUME VectorsInv, V!VectorsNext \/ UNCHANGED V!vectorVars
    PROVE  SearchInv'
<1>1. V!Gone \subseteq V!Gone'
  BY StoreStep
<1>2. CASE UNCHANGED search
  BY <1>1, <1>2 DEF VectorsInv, SearchInv, V!HitsAreLive
<1>3. CASE V!Search
  <2>1. search' = [pc |-> "verify", found |-> vectors \cap Own, hits |-> {},
                   gone |-> V!Gone \cap vectors]
    BY <1>3 DEF V!Search
  <2>2. V!Gone \subseteq Own
    BY DEF V!Gone
  <2> QED BY <1>1, <2>1, <2>2 DEF SearchInv, V!HitsAreLive
<1>4. CASE V!LookUp
  <2> DEFINE p == V!Least(search.found)
             same == {q \in search.found : Document[q] = Document[p]}
  <2>1. \/ search' = [search EXCEPT !.found = @ \ same,
                          !.hits = IF V!Present(p) THEN @ \cup same ELSE @]
        \/ search' = V!NoSearch
    BY <1>4 DEF V!LookUp
  <2>2. \A q \in same : V!Present(p) => q \notin V!Gone
    BY DEF V!Present, V!Gone
  <2>3. same \subseteq Own
    BY DEF VectorsInv, SearchInv
  <2> HIDE DEF same, p
  <2>4. CASE search' = V!NoSearch
    BY <2>4 DEF V!NoSearch, SearchInv, V!HitsAreLive
  <2>5. CASE search' = [search EXCEPT !.found = @ \ same,
                          !.hits = IF V!Present(p) THEN @ \cup same ELSE @]
    <3> DEFINE hits == IF V!Present(p) THEN search.hits \cup same ELSE search.hits
    <3>1. /\ search' \in [pc: {"idle", "verify", "done"}, found: SUBSET Own,
                          hits: SUBSET Own, gone: SUBSET Own]
          /\ search'.hits = hits /\ search'.gone = search.gone
      BY <2>3, <2>5 DEF VectorsInv, SearchInv
    <3>2. hits \cap search.gone = {}
      BY <2>2 DEF VectorsInv, SearchInv, V!HitsAreLive
    <3> QED BY <1>1, <3>1, <3>2 DEF VectorsInv, SearchInv, V!HitsAreLive
  <2> QED BY <2>1, <2>4, <2>5
<1> QED BY <1>2, <1>3, <1>4, Zenon
        DEF V!VectorsNext, V!Maintain, V!vectorVars, V!documentVars, V!sweepVars,
            V!Import, V!Delete, V!Write, V!Land, V!Drain, V!Resume, V!Gc, V!Abort,
            V!ListReferences, V!CheckReference, V!Recheck, V!Remove, V!Report

\* The points of a page are stored.
LEMMA PageStored ==
    ASSUME NEW after
    PROVE  V!Page(after) \subseteq vectors \cap Own
BY DEF V!Page

\* Vectors counts as the theorems about finite sets do.
LEMMA SameCount ==
    ASSUME NEW set
    PROVE  V!Cardinality(set) = Cardinality(set)
BY DEF V!Cardinality, Cardinality, V!IsFiniteSet, IsFiniteSet

\* A stored point from the cursor on is on the page or behind the next one.
LEMMA PageCovers ==
    ASSUME NEW after \in Points \cup {0}, NEW p \in vectors \cap Own, p >= after,
           p \notin V!Page(after), vectors \in SUBSET Points
    PROVE  p > after /\ \A q \in V!Page(after) : p > q
<1> DEFINE behind == {x \in vectors \cap Own : x >= after}
           before(q) == {x \in behind : x < q}
<1>1. /\ Points \subseteq Nat /\ IsFiniteSet(Points) /\ PageSize \in Nat \ {0}
      /\ after \in Nat /\ p \in Nat
  BY VectorsAssumption
<1>2. ASSUME NEW q \in Points
      PROVE  IsFiniteSet(before(q)) /\ Cardinality(before(q)) \in Nat
  <2>1. before(q) \subseteq Points
    OBVIOUS
  <2> QED BY <1>1, <2>1, FS_Subset, FS_CardinalityType
<1>3. V!Page(after) = {q \in behind : Cardinality(before(q)) < PageSize}
  BY SameCount DEF V!Page
<1>a. \A x \in behind : x \in Points /\ x \in Nat /\ x >= after
  BY <1>1
<1>4. p \in behind /\ p \in Points
  OBVIOUS
<1>5. ~(Cardinality(before(p)) < PageSize)
  BY <1>3, <1>4
<1>6. p # after
  <2> SUFFICES ASSUME p = after PROVE FALSE
    OBVIOUS
  <2>1. before(p) = {}
    <3> SUFFICES ASSUME NEW x \in behind, x < p PROVE FALSE
      OBVIOUS
    <3> QED BY <1>1, <1>a
  <2>2. Cardinality(before(p)) = 0
    BY <2>1, FS_EmptySet
  <2> QED BY <1>1, <1>5, <2>2
<1>7. ASSUME NEW q \in V!Page(after) PROVE p > q
  <2>1. q \in behind /\ Cardinality(before(q)) < PageSize
    BY <1>3
  <2>2. q \in Points /\ q \in Nat
    BY <1>1, <2>1
  <2>3. CASE p <= q
    <3>1. before(p) \subseteq before(q)
      <4> SUFFICES ASSUME NEW x \in behind, x < p PROVE x < q
        OBVIOUS
      <4> QED BY <1>1, <1>a, <2>2, <2>3
    <3>2. Cardinality(before(p)) <= Cardinality(before(q))
      BY <1>2, <2>2, <3>1, FS_Subset
    <3> HIDE DEF before
    <3> QED BY <1>1, <1>2, <1>4, <1>5, <2>1, <2>2, <3>2
  <2> QED BY <1>1, <2>2, <2>3
<1> QED BY <1>1, <1>6, <1>7

LEMMA SweepStep ==
    ASSUME VectorsInv, V!VectorsNext \/ UNCHANGED V!vectorVars
    PROVE  SweepInv'
<1>1. V!Gone \subseteq V!Gone' /\ landed \subseteq landed'
  BY StoreStep
<1>2. /\ sweep \in [pc: {"idle", "list", "check", "remove"},
                    after: Points \cup {0}, apply: BOOLEAN, left: SUBSET Own,
                    eligible: SUBSET Own, next: Points \cup {0}]
      /\ sweep.left \subseteq landed /\ sweep.eligible \subseteq V!Gone
      /\ sweep.pc = "remove" => sweep.eligible # {}
      /\ vectors \subseteq landed /\ vectors \in SUBSET Points /\ Own \subseteq Points
  BY VectorsAssumption DEF VectorsInv, SweepInv, StoreInv
<1>3. CASE UNCHANGED sweep
  BY <1>1, <1>2, <1>3 DEF SweepInv
<1>4. ASSUME NEW after \in Points \cup {0}, NEW apply \in BOOLEAN, V!Gc(after, apply)
      PROVE  SweepInv'
  <2>1. sweep' = [pc |-> "list", after |-> after, apply |-> apply, left |-> {},
                  eligible |-> {}, next |-> 0]
    BY <1>4 DEF V!Gc, V!NoSweep
  <2> QED BY <2>1 DEF SweepInv
<1>5. CASE V!Abort
  <2>1. sweep' = [pc |-> "idle", after |-> 0, apply |-> FALSE, left |-> {},
                  eligible |-> {}, next |-> sweep.after]
    BY <1>5 DEF V!Abort, V!NoSweep
  <2> QED BY <1>2, <2>1 DEF SweepInv
<1>6. CASE V!ListReferences
  <2> DEFINE page == V!Page(sweep.after)
             rest == {p \in vectors \cap Own : p > sweep.after /\ \A q \in page : p > q}
  <2> PICK next : next = IF rest = {} THEN 0 ELSE V!Least(rest)
    OBVIOUS
  <2>1. sweep' = [sweep EXCEPT !.pc = "check", !.left = page, !.next = next]
    BY <1>6 DEF V!ListReferences
  <2>2. page \subseteq vectors \cap Own
    BY PageStored
  <2>3. next \in Points \cup {0}
    <3>1. rest \in SUBSET Points
      BY <1>2
    <3> HIDE DEF rest
    <3> QED BY <3>1, LeastPoint
  <2> HIDE DEF page, rest
  <2>4. sweep' \in [pc: {"idle", "list", "check", "remove"},
                    after: Points \cup {0}, apply: BOOLEAN, left: SUBSET Own,
                    eligible: SUBSET Own, next: Points \cup {0}]
        /\ sweep'.left = page /\ sweep'.eligible = sweep.eligible /\ sweep'.pc = "check"
    BY <1>2, <2>1, <2>2, <2>3
  <2> QED BY <1>1, <1>2, <2>2, <2>4 DEF SweepInv
<1>7. CASE V!CheckReference
  <2> PICK p : p = V!Least(sweep.left)
    OBVIOUS
  <2>1. /\ sweep.left # {} /\ sweep.pc = "check"
        /\ sweep' = [sweep EXCEPT !.left = @ \ {p},
                         !.eligible = IF V!Orphan(p) THEN @ \cup {p} ELSE @]
    BY <1>7 DEF V!CheckReference
  <2>2. p \in sweep.left
    <3>1. sweep.left \in SUBSET Points
      BY <1>2
    <3> QED BY <2>1, <3>1, LeastPoint
  <2>3. V!Orphan(p) => p \in V!Gone
    <3>1. p \in Own /\ p \in landed /\ Document[p] \in V!Documents
      BY <1>2, <2>2 DEF V!Documents
    <3> QED BY <3>1 DEF VectorsInv, StoreInv, V!Orphan, V!Present, V!Gone
  <2> DEFINE eligible == IF V!Orphan(p) THEN sweep.eligible \cup {p} ELSE sweep.eligible
  <2>4. eligible \subseteq V!Gone /\ eligible \in SUBSET Own
    BY <1>2, <2>2, <2>3
  <2> HIDE DEF eligible
  <2>5. sweep' = [sweep EXCEPT !.left = @ \ {p}, !.eligible = eligible]
    BY <2>1 DEF eligible
  <2> PICK left : left = sweep.left \ {p}
    OBVIOUS
  <2>6. left \in SUBSET Own /\ left \subseteq landed
    BY <1>2
  <2>7. sweep' = [sweep EXCEPT !.left = left, !.eligible = eligible]
    BY <2>5
  <2>8. /\ sweep' \in [pc: {"idle", "list", "check", "remove"},
                       after: Points \cup {0}, apply: BOOLEAN, left: SUBSET Own,
                       eligible: SUBSET Own, next: Points \cup {0}]
        /\ sweep'.left = left /\ sweep'.eligible = eligible
        /\ sweep'.pc = "check"
    BY <1>2, <2>1, <2>4, <2>6, <2>7
  <2> QED BY <1>1, <2>4, <2>6, <2>8 DEF SweepInv
<1>8. CASE V!Recheck \/ V!Remove
  <2> PICK p : p = V!Least(sweep.eligible)
    OBVIOUS
  <2>1. \/ /\ sweep' = [sweep EXCEPT !.pc = "remove"]
           /\ sweep.eligible # {}
        \/ /\ sweep' = [sweep EXCEPT !.eligible = @ \ {p}]
           /\ sweep.pc = "check"
        \/ sweep' = [sweep EXCEPT !.pc = "check", !.eligible = @ \ {p}]
    BY <1>8 DEF V!Recheck, V!Remove
  <2>2. /\ sweep' \in [pc: {"idle", "list", "check", "remove"},
                       after: Points \cup {0}, apply: BOOLEAN, left: SUBSET Own,
                       eligible: SUBSET Own, next: Points \cup {0}]
        /\ sweep'.left = sweep.left /\ sweep'.eligible \subseteq sweep.eligible
        /\ sweep'.pc = "remove" => sweep'.eligible # {}
    <3>1. CASE sweep' = [sweep EXCEPT !.pc = "remove"] /\ sweep.eligible # {}
      BY <1>2, <3>1
    <3>2. CASE sweep' = [sweep EXCEPT !.eligible = @ \ {p}] /\ sweep.pc = "check"
      BY <1>2, <3>2
    <3>3. CASE sweep' = [sweep EXCEPT !.pc = "check", !.eligible = @ \ {p}]
      BY <1>2, <3>3
    <3> QED BY <2>1, <3>1, <3>2, <3>3
  <2> QED BY <1>1, <1>2, <2>2 DEF SweepInv
<1>9. CASE V!Report
  <2>1. sweep' = [pc |-> "idle", after |-> 0, apply |-> FALSE, left |-> {},
                  eligible |-> {}, next |-> sweep.next]
    BY <1>9 DEF V!Report, V!NoSweep
  <2> QED BY <1>2, <2>1 DEF SweepInv
<1> QED BY <1>3, <1>4, <1>5, <1>6, <1>7, <1>8, <1>9, Zenon
        DEF V!VectorsNext, V!Maintain, V!vectorVars, V!documentVars, V!sweepVars,
            V!Import, V!Delete, V!Write, V!Land, V!Drain, V!Resume, V!Search, V!LookUp

\* The last conjunct of ChainInv.
Covers ==
    sweep.pc \in {"check", "remove"} /\ sweep.apply /\ sweep.after = chain.at =>
        \A p \in chain.due \cap vectors :
            \/ p \in sweep.left \cup sweep.eligible
            \/ sweep.next # 0 /\ p >= sweep.next

LEMMA ChainStep ==
    ASSUME VectorsInv, V!VectorsNext \/ UNCHANGED V!vectorVars
    PROVE  ChainInv'
<1>1. /\ V!Gone \subseteq V!Gone' /\ landed \subseteq landed'
      /\ vectors' \cap landed \subseteq vectors
  BY StoreStep
<1>2. /\ chain \in [due: SUBSET Own, at: Points \cup {0}, done: BOOLEAN]
      /\ chain.due \subseteq V!Gone /\ chain.due \subseteq landed
      /\ V!SweepIsComplete /\ Covers
      /\ Points \subseteq Nat \ {0} /\ Own \subseteq Points
      /\ vectors \in SUBSET Points /\ vectors \subseteq landed
      /\ sweep.after \in Points \cup {0} /\ sweep.next \in Points \cup {0}
      /\ sweep.left \in SUBSET Own /\ sweep.eligible \in SUBSET Own
  BY VectorsAssumption DEF VectorsInv, ChainInv, Covers, StoreInv, SweepInv
\* Nothing that is due is stored again.
<1>3. ASSUME UNCHANGED chain, Covers' PROVE ChainInv'
  BY <1>1, <1>2, <1>3 DEF ChainInv, Covers, V!SweepIsComplete
<1>4. CASE UNCHANGED <<sweep, chain>>
  <2>1. Covers'
    BY <1>1, <1>2, <1>4 DEF Covers
  <2> QED BY <1>3, <1>4, <2>1
<1>5. CASE V!Resume
  <2>1. chain' = [due |-> {}, at |-> 0, done |-> FALSE]
    BY <1>5 DEF V!Resume, V!NoChain
  <2> QED BY <2>1 DEF ChainInv, V!SweepIsComplete
<1>6. ASSUME NEW after \in Points \cup {0}, NEW apply \in BOOLEAN, V!Gc(after, apply)
      PROVE  ChainInv'
  <2>1. sweep'.pc = "list" /\ UNCHANGED <<vectors, doc, landed>>
    BY <1>6 DEF V!Gc, V!NoSweep, V!documentVars
  <2>2. Covers'
    BY <2>1 DEF Covers
  <2>3. CASE UNCHANGED chain
    BY <1>3, <2>2, <2>3
  <2>4. CASE chain' = [due |-> V!Gone \cap vectors, at |-> 0, done |-> FALSE]
    <3>1. V!Gone \subseteq Own
      BY DEF V!Gone
    <3>2. /\ chain' \in [due: SUBSET Own, at: Points \cup {0}, done: BOOLEAN]
          /\ chain'.due = V!Gone \cap vectors /\ chain'.at = 0 /\ ~chain'.done
      BY <2>4, <3>1
    <3>3. ASSUME NEW p \in V!Gone \cap vectors PROVE p >= 0
      <4>1. p \in Points /\ p \in Nat
        BY <1>2
      <4> QED BY <4>1
    <3>4. V!SweepIsComplete'
      BY <3>2, <3>3 DEF V!SweepIsComplete
    <3> QED BY <1>1, <1>2, <2>1, <2>2, <3>2, <3>4 DEF ChainInv, Covers
  <2> QED BY <1>6, <2>3, <2>4 DEF V!Gc, V!NoChain
<1>7. CASE V!Abort
  <2>1. sweep'.pc = "idle" /\ UNCHANGED chain
    BY <1>7 DEF V!Abort, V!NoSweep
  <2>2. Covers'
    BY <2>1 DEF Covers
  <2> QED BY <1>3, <2>1, <2>2
<1>8. CASE V!ListReferences
  <2> DEFINE page == V!Page(sweep.after)
             rest == {p \in vectors \cap Own : p > sweep.after /\ \A q \in page : p > q}
  <2> PICK next : next = IF rest = {} THEN 0 ELSE V!Least(rest)
    OBVIOUS
  <2>1. /\ sweep' = [sweep EXCEPT !.pc = "check", !.left = page, !.next = next]
        /\ UNCHANGED <<chain, vectors>>
    BY <1>8 DEF V!ListReferences, V!documentVars
  <2>2. sweep'.left = page /\ sweep'.next = next /\ sweep'.after = sweep.after
    BY <2>1 DEF VectorsInv, SweepInv
  <2>3. ASSUME NEW p \in chain.due \cap vectors, p >= sweep.after, p \notin page
        PROVE  next # 0 /\ p >= next
    <3>1. p \in vectors \cap Own
      BY <1>2
    <3>2. p > sweep.after /\ \A q \in page : p > q
      BY <1>2, <2>3, <3>1, PageCovers
    <3>3. p \in rest /\ rest \in SUBSET Points
      BY <1>2, <3>1, <3>2
    <3> HIDE DEF rest
    <3>4. next = V!Least(rest) /\ next \in rest /\ \A q \in rest : next <= q
      BY <3>3, LeastPoint
    <3>5. next \in Nat \ {0} /\ p \in Nat /\ next <= p
      BY <1>2, <3>3, <3>4
    <3> QED BY <3>5
  <2> HIDE DEF page, rest
  <2>4. Covers'
    BY <1>2, <2>1, <2>2, <2>3 DEF Covers, V!SweepIsComplete
  <2> QED BY <1>3, <2>1, <2>4
<1>9. CASE V!CheckReference
  <2> PICK p : p = V!Least(sweep.left)
    OBVIOUS
  <2>1. /\ sweep.left # {} /\ sweep.pc = "check" /\ UNCHANGED <<chain, vectors>>
        /\ sweep' = [sweep EXCEPT !.left = @ \ {p},
                         !.eligible = IF V!Orphan(p) THEN @ \cup {p} ELSE @]
    BY <1>9 DEF V!CheckReference, V!documentVars
  <2>2. /\ sweep'.left = sweep.left \ {p} /\ sweep'.next = sweep.next
        /\ sweep'.eligible =
               IF V!Orphan(p) THEN sweep.eligible \cup {p} ELSE sweep.eligible
        /\ sweep'.apply = sweep.apply /\ sweep'.after = sweep.after
    BY <2>1 DEF VectorsInv, SweepInv
  <2>3. p \in V!Gone => V!Orphan(p)
    BY DEF V!Gone, V!Orphan, V!Present
  <2>4. Covers'
    BY <1>2, <2>1, <2>2, <2>3 DEF Covers
  <2> QED BY <1>3, <2>1, <2>4
<1>10. CASE V!Recheck
  <2> PICK p : p = V!Least(sweep.eligible)
    OBVIOUS
  <2>1. /\ sweep.pc = "check" /\ sweep.left = {} /\ sweep.eligible # {}
        /\ UNCHANGED <<chain, vectors>>
        /\ sweep' = IF V!Orphan(p) THEN [sweep EXCEPT !.pc = "remove"]
                    ELSE [sweep EXCEPT !.eligible = @ \ {p}]
    BY <1>10 DEF V!Recheck, V!documentVars
  <2>2. p \in sweep.eligible
    <3>1. sweep.eligible \in SUBSET Points
      BY <1>2
    <3> QED BY <2>1, <3>1, LeastPoint
  <2>3. V!Orphan(p)
    BY <2>2 DEF VectorsInv, SweepInv, V!Gone, V!Orphan, V!Present
  <2>4. /\ sweep'.left = sweep.left /\ sweep'.next = sweep.next
        /\ sweep'.eligible = sweep.eligible
        /\ sweep'.apply = sweep.apply /\ sweep'.after = sweep.after
    BY <2>1, <2>3 DEF VectorsInv, SweepInv
  <2>5. Covers'
    BY <1>2, <2>1, <2>4 DEF Covers
  <2> QED BY <1>3, <2>1, <2>5
<1>11. CASE V!Remove
  <2> PICK p : p = V!Least(sweep.eligible)
    OBVIOUS
  <2>1. /\ sweep.pc = "remove" /\ vectors' = vectors \ {p} /\ UNCHANGED chain
        /\ sweep' = [sweep EXCEPT !.pc = "check", !.eligible = @ \ {p}]
    BY <1>11 DEF V!Remove
  <2>2. /\ sweep'.left = sweep.left /\ sweep'.next = sweep.next
        /\ sweep'.eligible = sweep.eligible \ {p}
        /\ sweep'.apply = sweep.apply /\ sweep'.after = sweep.after
    BY <2>1 DEF VectorsInv, SweepInv
  <2>3. Covers'
    BY <1>2, <2>1, <2>2 DEF Covers
  <2> QED BY <1>3, <2>1, <2>3
<1>12. CASE V!Report
  <2>1. /\ sweep.pc = "check" /\ sweep.left = {} /\ (sweep.apply => sweep.eligible = {})
        /\ sweep'.pc = "idle" /\ UNCHANGED vectors
        /\ chain' = IF sweep.apply /\ sweep.after = chain.at
                    THEN [chain EXCEPT !.at = sweep.next, !.done = (sweep.next = 0)]
                    ELSE chain
    BY <1>12 DEF V!Report, V!NoSweep, V!documentVars
  <2>2. Covers'
    BY <2>1 DEF Covers
  <2>3. CASE ~(sweep.apply /\ sweep.after = chain.at)
    BY <1>3, <2>1, <2>2, <2>3
  <2>4. CASE sweep.apply /\ sweep.after = chain.at
    <3>1. /\ chain'.due = chain.due /\ chain'.at = sweep.next
          /\ chain'.done = (sweep.next = 0)
          /\ chain' \in [due: SUBSET Own, at: Points \cup {0}, done: BOOLEAN]
      BY <1>2, <2>1, <2>4
    <3>2. \A p \in chain.due \cap vectors : sweep.next # 0 /\ p >= sweep.next
      BY <1>2, <2>1, <2>4 DEF Covers
    <3>3. V!SweepIsComplete'
      BY <2>1, <3>1, <3>2 DEF V!SweepIsComplete
    <3> QED BY <1>1, <1>2, <2>2, <3>1, <3>3 DEF ChainInv, Covers
  <2> QED BY <2>3, <2>4
<1> QED BY <1>4, <1>5, <1>6, <1>7, <1>8, <1>9, <1>10, <1>11, <1>12, Zenon
        DEF V!VectorsNext, V!Maintain, V!vectorVars, V!documentVars, V!sweepVars,
            V!Import, V!Delete, V!Write, V!Land, V!Drain, V!Search, V!LookUp

LEMMA VectorsInvInit == V!VectorsInit => VectorsInv
<1> SUFFICES ASSUME V!VectorsInit PROVE VectorsInv
  OBVIOUS
<1> USE DEF V!VectorsInit
<1>1. StoreInv
  <2>1. doc \in [V!Documents -> {"unborn", "present", "gone"}]
    OBVIOUS
  <2>2. stopped \in BOOLEAN /\ storeErrors \in 0 .. MaxStoreErrors
    <3>1. MaxStoreErrors \in Nat
      BY VectorsAssumption
    <3>2. stopped \in BOOLEAN
      OBVIOUS
    <3>3. storeErrors = 0
      OBVIOUS
    <3>4. storeErrors \in 0 .. MaxStoreErrors
      BY <3>1, <3>3
    <3> QED BY <3>2, <3>4
  <2>3. vectors = Points \ Own /\ landed = Points \ Own /\ writes = {}
    OBVIOUS
  <2> QED BY <2>1, <2>2, <2>3 DEF StoreInv, V!OnlyOrphansAreRemoved
<1>2. SearchInv
  BY DEF SearchInv, V!NoSearch, V!HitsAreLive
<1>3. SweepInv
  BY DEF SweepInv, V!NoSweep
<1>4. ChainInv
  BY DEF ChainInv, V!NoChain, V!NoSweep, V!SweepIsComplete
<1> QED BY <1>1, <1>2, <1>3, <1>4 DEF VectorsInv

\* For all points, documents, sizes of a page and failures: vectors are
\* removed when their document is gone, all of them and no other, and a
\* search shows nothing of it (vector_maintenance.rs, retrieval.rs).
THEOREM VectorsAreSoundHolds == MCSpec => []VectorsAreSound
<1>1. MCInit => VectorsInv
  BY VectorsInvInit DEF MCInit
<1>2. VectorsInv /\ [MCNext]_allVars => VectorsInv'
  <2> SUFFICES ASSUME VectorsInv, [MCNext]_allVars PROVE VectorsInv'
    OBVIOUS
  <2>1. V!VectorsNext \/ UNCHANGED V!vectorVars
    BY DEF MCNext, allVars, programVars, vectorVars, BudgetStep, QuotesStep,
           StudyStep, BriefStep, StreamsStep, ExcerptsStep, RecoveryStep, VectorsStep,
           V!vectorVars, V!documentVars, V!sweepVars
  <2> QED BY <2>1, StoreStep, SearchStep, SweepStep, ChainStep DEF VectorsInv
<1>3. VectorsInv => VectorsAreSound
  <2> SUFFICES ASSUME VectorsInv
               PROVE  V!VectorsTypeOK /\ V!VectorsAreSound
    BY DEF VectorsAreSound
  <2>1. V!VectorsTypeOK
    BY DEF V!VectorsTypeOK, VectorsInv, StoreInv, SearchInv, SweepInv
  <2> QED BY <2>1 DEF VectorsInv, StoreInv, SearchInv, ChainInv, V!VectorsAreSound
<1> QED BY <1>1, <1>2, <1>3, PTL DEF MCSpec

-----------------------------------------------------------------------------
(* The sort of the skills (StudyPlan), for all graphs between them.        *)

Sorted == {order[i] : i \in 1 .. Len(order)}

\* Every skill is sorted once, behind all of its prerequisites.
OrderInv ==
    /\ order \in Seq(DOMAIN skills)
    /\ \A i, j \in 1 .. Len(order) : order[i] = order[j] => i = j
    /\ \A i \in 1 .. Len(order) : \A p \in S!Parents(order[i]) :
           \E j \in 1 .. i - 1 : order[j] = p

\* What the counters of the sort stand for.
CounterInv ==
    /\ \A s \in DOMAIN skills : S!Parents(s) \subseteq DOMAIN skills
    /\ degree = [s \in DOMAIN skills |-> Cardinality(S!Parents(s) \ Sorted)]
    /\ ready = {s \in DOMAIN skills \ Sorted : S!Parents(s) \subseteq Sorted}

SkillsInv ==
    /\ DOMAIN skills \subseteq Nat /\ IsFiniteSet(DOMAIN skills)
    /\ \A s \in DOMAIN skills :
           /\ IsFiniteSet(S!Parents(s)) /\ IsFiniteSet(skills[s].ratings)
           /\ \A a \in skills[s].ratings :
                  a.id \in Nat /\ a.at \in Nat /\ a.score \in Nat
    /\ request.budget \in Nat

\* The sort came to its end.
Complete ==
    /\ Sorted = DOMAIN skills
    /\ \A s \in DOMAIN skills : S!Parents(s) \subseteq DOMAIN skills

\* The evaluation of a skill says what the learner has shown.
Ready(s) == \A a \in S!Basics(s) : S!Mastered(a)
Judged(s) ==
    /\ states[s] = "satisfied" <=> S!Mastered(s) /\ Ready(s)
    /\ states[s] \in {"needs_assessment", "needs_practice"}
           <=> skills[s].on /\ ~S!Mastered(s) /\ Ready(s)
    /\ states[s] = "needs_assessment" => S!OfRevision(s) = {}
    /\ states[s] = "needs_practice" => S!OfRevision(s) # {}

\* Behind the place of a loop everything is done, before it nothing.
TraceInv ==
    /\ place \in Nat \ {0} /\ DOMAIN ancestors = DOMAIN skills
    /\ \A i \in 1 .. Len(order) :
           i < place => ancestors[order[i]] = S!Basics(order[i])

EvaluateInv ==
    /\ place \in Nat \ {0}
    /\ \A i \in 1 .. Len(order) :
           IF i < place /\ order[i] \in S!Relevant THEN Judged(order[i])
           ELSE states[order[i]] = "not_evaluated"

KnownInv ==
    /\ request.goals \subseteq DOMAIN skills /\ ~S!Ambiguous
    /\ \A s \in DOMAIN skills : ancestors[s] = S!Basics(s)

Time(s) == IF S!OfRevision(s) = {} THEN AssessmentMinutes ELSE PracticeMinutes
Spent == [i \in DOMAIN schedule.tasks |-> Time(schedule.tasks[i])]
Tasks == {schedule.tasks[i] : i \in 1 .. Len(schedule.tasks)}

\* Who is waiting can be trained; who can be trained is waiting, has a task,
\* or was passed over for want of room or of minutes.
ScheduleInv ==
    /\ schedule.tasks \in Seq(DOMAIN skills) /\ Len(schedule.tasks) <= MaxTasks
    /\ schedule.remaining \in Nat
    /\ IsFiniteSet(UnitsOf(Spent))
    /\ SumOf(Spent) + schedule.remaining = request.budget
    /\ \A i, j \in 1 .. Len(schedule.tasks) :
           schedule.tasks[i] = schedule.tasks[j] => i = j
    /\ \A s \in Tasks : S!Trainable(s) /\ s \notin waiting
    /\ \A s \in waiting :
           s \in DOMAIN skills /\ S!Trainable(s) /\ S!Minutes(s) = Time(s)
    /\ \A s \in DOMAIN skills \ (Tasks \cup waiting) :
           S!Trainable(s) => \/ Len(schedule.tasks) = MaxTasks
                            \/ Time(s) > schedule.remaining

EmptySchedule == schedule = [tasks |-> <<>>, remaining |-> request.budget]

StudyInv ==
    /\ SkillsInv /\ OrderInv
    /\ pc \in {"load", "sort", "ancestors", "evaluate", "schedule", "done"}
    /\ pc = "load" => order = <<>>
    /\ pc = "sort" => CounterInv
    /\ pc \in {"ancestors", "evaluate", "schedule"} => Complete
    /\ pc \in {"load", "sort"} => place = 1 /\ DOMAIN ancestors = DOMAIN skills
    /\ pc \in {"load", "sort", "ancestors"} =>
           states = [s \in DOMAIN skills |-> "not_evaluated"]
    /\ pc \in {"load", "sort", "ancestors", "evaluate"} => EmptySchedule
    /\ pc = "ancestors" => TraceInv
    /\ pc \in {"evaluate", "schedule"} => KnownInv
    /\ pc = "evaluate" => EvaluateInv
    /\ pc = "schedule" => ScheduleInv
    /\ DOMAIN states = DOMAIN skills
    /\ outcome # None => pc = "done"
    /\ S!SortIsExact /\ S!PlanIsSound

LEMMA StudyCount == \A set : S!Cardinality(set) = Cardinality(set)
BY DEF S!Cardinality, Cardinality

\* What is sorted has its prerequisites sorted.
LEMMA SortedIsClosed ==
    ASSUME OrderInv, NEW s \in Sorted
    PROVE  S!Parents(s) \subseteq Sorted
<1>1. Len(order) \in Nat
  BY DEF OrderInv
<1>2. PICK i \in 1 .. Len(order) : order[i] = s
  BY DEF Sorted
<1>3. \A p \in S!Parents(s) : \E j \in 1 .. i - 1 : order[j] = p
  BY <1>2 DEF OrderInv
<1>4. 1 .. i - 1 \subseteq 1 .. Len(order)
  BY <1>1, <1>2
<1> QED BY <1>3, <1>4 DEF Sorted

\* The places of the order count what is sorted.
LEMMA SortedCount ==
    ASSUME OrderInv
    PROVE  /\ Sorted \subseteq DOMAIN skills
           /\ IsFiniteSet(Sorted) /\ Cardinality(Sorted) = Len(order)
<1>1. Len(order) \in Nat /\ DOMAIN order = 1 .. Len(order)
      /\ \A i \in 1 .. Len(order) : order[i] \in DOMAIN skills
  BY DEF OrderInv
<1>2. Sorted \subseteq DOMAIN skills
  BY <1>1 DEF Sorted
<1> DEFINE numbered == [i \in 1 .. Len(order) |-> order[i]]
<1>3. numbered \in Bijection(1 .. Len(order), Sorted)
  BY DEF OrderInv, Sorted, Bijection, Injection, Surjection, IsInjective
<1>4. IsFiniteSet(1 .. Len(order)) /\ Cardinality(1 .. Len(order)) = Len(order)
  BY <1>1, FS_Interval
<1>5. IsFiniteSet(Sorted) /\ Cardinality(Sorted) = Cardinality(1 .. Len(order))
  BY <1>3, <1>4, FS_Bijection DEF ExistsBijection
<1> QED BY <1>2, <1>4, <1>5

\* What a learner shows with a snapshot and asks for does not change.
LEMMA StudyFrame ==
    ASSUME skills' = skills, request' = request
    PROVE  /\ SkillsInv' <=> SkillsInv
           /\ S!Cyclic' <=> S!Cyclic
           /\ S!Ambiguous' <=> S!Ambiguous
           /\ \A s : /\ S!Basics(s)' = S!Basics(s)
                     /\ S!OfRevision(s)' = S!OfRevision(s)
                     /\ S!Mastered(s)' <=> S!Mastered(s)
                     /\ Ready(s)' <=> Ready(s)
                     /\ S!Trainable(s)' <=> S!Trainable(s)
                     /\ Time(s)' = Time(s)
<1> USE DEF S!Parents
<1>1. SkillsInv' <=> SkillsInv
  BY DEF SkillsInv
<1>2. S!Cyclic' <=> S!Cyclic
  BY DEF S!Cyclic
<1>3. S!Ambiguous' <=> S!Ambiguous
  BY DEF S!Ambiguous
<1>4. \A s : S!Basics(s)' = S!Basics(s)
  BY Zenon DEF S!Basics
<1>5. \A s : S!OfRevision(s)' = S!OfRevision(s)
  BY Zenon DEF S!OfRevision
<1>6. \A s : S!Mastered(s)' <=> S!Mastered(s)
  BY Zenon DEF S!Mastered
<1>7. \A s : Ready(s)' <=> Ready(s)
  BY <1>4, <1>6 DEF Ready
<1>8. \A s : S!Trainable(s)' <=> S!Trainable(s)
  BY <1>4, <1>6 DEF S!Trainable
<1>9. \A s : Time(s)' = Time(s)
  BY <1>5 DEF Time
<1> QED BY <1>1, <1>2, <1>3, <1>4, <1>5, <1>6, <1>7, <1>8, <1>9

\* The basics of a skill: its prerequisites, closed and least.
LEMMA BasicsClosed ==
    ASSUME Complete, NEW s \in DOMAIN skills
    PROVE  /\ S!Basics(s) \subseteq DOMAIN skills
           /\ S!Parents(s) \subseteq S!Basics(s)
           /\ \A c \in S!Basics(s) : S!Parents(c) \subseteq S!Basics(s)
<1>1. S!Basics(s) \subseteq DOMAIN skills
  BY DEF S!Basics
<1>2. S!Parents(s) \subseteq S!Basics(s)
  BY DEF S!Basics, Complete
<1>3. ASSUME NEW c \in S!Basics(s), NEW p \in S!Parents(c) PROVE p \in S!Basics(s)
  <2>1. p \in DOMAIN skills
    BY <1>1, <1>3 DEF Complete
  <2>2. ASSUME NEW C \in SUBSET DOMAIN skills, S!Parents(s) \subseteq C,
               \A d \in C : S!Parents(d) \subseteq C
        PROVE  p \in C
    <3>1. c \in C
      BY <1>3, <2>2 DEF S!Basics
    <3> QED BY <1>3, <2>2, <3>1
  <2> QED BY <2>1, <2>2 DEF S!Basics
<1> QED BY <1>1, <1>2, <1>3

LEMMA BasicsLeast ==
    ASSUME NEW s, NEW C \in SUBSET DOMAIN skills, S!Parents(s) \subseteq C,
           \A c \in C : S!Parents(c) \subseteq C
    PROVE  S!Basics(s) \subseteq C
BY DEF S!Basics

LEMMA BasicsOfBasics ==
    ASSUME Complete, NEW s \in DOMAIN skills, NEW a \in S!Basics(s)
    PROVE  S!Basics(a) \subseteq S!Basics(s)
BY BasicsClosed, BasicsLeast

\* As the loop over the ancestors puts them together.
LEMMA BasicsUnfold ==
    ASSUME Complete, NEW s \in DOMAIN skills
    PROVE  S!Basics(s) = S!Parents(s) \cup UNION {S!Basics(p) : p \in S!Parents(s)}
<1> DEFINE all == S!Parents(s) \cup UNION {S!Basics(p) : p \in S!Parents(s)}
<1>1. S!Parents(s) \subseteq DOMAIN skills
  BY DEF Complete
<1>2. all \subseteq S!Basics(s)
  BY BasicsClosed, BasicsOfBasics
<1>3. \A c \in all : S!Parents(c) \subseteq all
  <2> SUFFICES ASSUME NEW c \in all PROVE S!Parents(c) \subseteq all
    OBVIOUS
  <2>1. CASE c \in S!Parents(s)
    BY <2>1, <1>1, BasicsClosed
  <2>2. CASE \E p \in S!Parents(s) : c \in S!Basics(p)
    <3>1. PICK p \in S!Parents(s) : c \in S!Basics(p)
      BY <2>2
    <3>2. S!Parents(c) \subseteq S!Basics(p)
      BY <3>1, <1>1, BasicsClosed
    <3> QED BY <3>1, <3>2
  <2> QED BY <2>1, <2>2
<1>4. all \subseteq DOMAIN skills
  BY <1>2, BasicsClosed
<1>5. S!Basics(s) \subseteq all
  BY <1>3, <1>4, BasicsLeast
<1> QED BY <1>2, <1>5

\* The basics of a skill come before it.
LEMMA BasicsBefore ==
    ASSUME OrderInv, Complete, NEW k \in 1 .. Len(order)
    PROVE  \A a \in S!Basics(order[k]) : \E i \in 1 .. k - 1 : order[i] = a
<1> DEFINE before == {order[i] : i \in 1 .. k - 1}
<1>1. Len(order) \in Nat /\ \A i \in 1 .. k - 1 : i \in 1 .. Len(order)
  BY DEF OrderInv
<1>2. before \subseteq DOMAIN skills
  BY <1>1 DEF OrderInv
<1>3. S!Parents(order[k]) \subseteq before
  BY DEF OrderInv
<1>4. \A c \in before : S!Parents(c) \subseteq before
  <2> SUFFICES ASSUME NEW i \in 1 .. k - 1, NEW p \in S!Parents(order[i])
               PROVE  p \in before
    OBVIOUS
  <2>1. PICK j \in 1 .. i - 1 : order[j] = p
    BY <1>1 DEF OrderInv
  <2>2. j \in 1 .. k - 1
    BY <1>1
  <2> QED BY <2>1, <2>2
<1>5. S!Basics(order[k]) \subseteq before
  BY <1>2, <1>3, <1>4, BasicsLeast
<1> QED BY <1>5

\* Finitely many ratings have a latest one.
LEMMA LatestExists ==
    ASSUME NEW ratings, IsFiniteSet(ratings), ratings # {},
           \A a \in ratings : a.at \in Nat /\ a.id \in Nat
    PROVE  \E a \in ratings : \A b \in ratings : S!Later(a, b)
<1>0. \A a, b \in ratings : S!Later(a, b) \/ S!Later(b, a)
  BY DEF S!Later
<1>t. \A a, b, c \in ratings :
          S!Later(a, b) /\ S!Later(b, c) => S!Later(a, c)
  <2> SUFFICES ASSUME NEW a \in ratings, NEW b \in ratings, NEW c \in ratings,
                      S!Later(a, b), S!Later(b, c)
               PROVE  S!Later(a, c)
    OBVIOUS
  <2>1. {a.at, b.at, c.at, a.id, b.id, c.id} \subseteq Nat
    OBVIOUS
  <2> QED BY <2>1 DEF S!Later
<1> DEFINE Latest(set) == \E a \in set : \A b \in set : S!Later(a, b)
           sizes == {n \in Nat : \E set \in SUBSET ratings :
                        set # {} /\ Cardinality(set) = n /\ ~Latest(set)}
           less == {x \in Nat \X Nat : x[1] < x[2]}
<1> SUFFICES ASSUME ~Latest(ratings) PROVE FALSE
  OBVIOUS
<1>1. Cardinality(ratings) \in sizes
  BY FS_CardinalityType
<1>2. IsWellFoundedOn(less, Nat)
  BY NatLessThanWellFounded DEF OpToRel
<1>3. PICK n \in sizes : \A m \in sizes : <<m, n>> \notin less
  <2> HIDE DEF less
  <2>1. sizes \subseteq Nat /\ sizes # {}
    BY <1>1
  <2> HIDE DEF sizes
  <2> QED BY <1>2, <2>1, WFMin
<1>4. PICK set \in SUBSET ratings : set # {} /\ Cardinality(set) = n /\ ~Latest(set)
  BY <1>3
<1>5. PICK x \in set : TRUE
  BY <1>4
<1> DEFINE rest == set \ {x}
<1>6. S!Later(x, x)
  BY DEF S!Later
<1>7. rest # {}
  BY <1>4, <1>5, <1>6
<1>8. IsFiniteSet(set) /\ n \in Nat /\ Cardinality(rest) = n - 1 /\ Cardinality(rest) \in Nat
  <2>1. IsFiniteSet(set)
    BY <1>4, FS_Subset
  <2>2. Cardinality(rest) = n - 1 /\ IsFiniteSet(rest)
    BY <2>1, <1>4, <1>5, FS_RemoveElement
  <2> QED BY <2>1, <2>2, <1>3, FS_CardinalityType
<1>9. Latest(rest)
  <2>1. <<n - 1, n>> \in less
    BY <1>8
  <2>2. n - 1 \notin sizes
    BY <1>3, <2>1
  <2> QED BY <2>2, <1>7, <1>8
<1>10. PICK m \in rest : \A b \in rest : S!Later(m, b)
  BY <1>9
<1>11. m \in ratings /\ x \in ratings /\ rest \subseteq ratings
       /\ \A b \in set : b = x \/ b \in rest
  BY <1>4, <1>5, <1>10
<1> HIDE DEF rest
<1>12. CASE S!Later(m, x)
  <2>1. \A b \in set : S!Later(m, b)
    BY <1>10, <1>11, <1>12
  <2>2. m \in set
    BY <1>10 DEF rest
  <2> QED BY <1>4, <2>1, <2>2
<1>13. CASE S!Later(x, m)
  <2>1. \A b \in set : S!Later(x, b)
    BY <1>t, <1>6, <1>10, <1>11, <1>13
  <2> QED BY <1>4, <1>5, <2>1
<1> QED BY <1>0, <1>11, <1>12, <1>13

\* The score of the plan is the last word of the learner.
LEMMA ScoreDecides ==
    ASSUME SkillsInv, ~S!Ambiguous, NEW s \in DOMAIN skills
    PROVE  /\ S!OfRevision(s) = {} <=> S!Score(s) = S!Unrated
           /\ S!OfRevision(s) # {} => S!Score(s) \in Nat
           /\ S!Mastered(s) <=> /\ skills[s].on /\ S!OfRevision(s) # {}
                                /\ S!Score(s) >= TargetScore
<1>1. CASE S!OfRevision(s) = {}
  BY <1>1 DEF S!OfRevision, S!Score, S!Unrated, S!Mastered
<1>2. CASE S!OfRevision(s) # {}
  <2> DEFINE of == S!OfRevision(s)
             last == CHOOSE a \in of : \A b \in of : S!Later(a, b)
  <2>1. of \subseteq skills[s].ratings /\ of # {}
        /\ \A a \in of : a.at \in Nat /\ a.id \in Nat /\ a.score \in Nat
    BY <1>2 DEF S!OfRevision, SkillsInv
  <2>2. IsFiniteSet(of)
    BY <2>1, FS_Subset DEF SkillsInv
  <2>3. S!Score(s) = last.score
    BY <1>2 DEF S!Score
  <2>4. last \in of /\ \A b \in of : S!Later(last, b)
    <3>1. \E a \in of : \A b \in of : S!Later(a, b)
      BY <2>1, <2>2, LatestExists
    <3> HIDE DEF of
    <3> QED BY <3>1
  <2> HIDE DEF last
  <2>5. \A b \in of : b.at <= last.at
    BY <2>1, <2>4 DEF S!Later
  <2>6. ASSUME NEW a \in of, \A b \in of : b.at <= a.at
        PROVE  a.score = last.score
    <3>1. a.at = last.at
      BY <2>1, <2>4, <2>5, <2>6
    <3>2. a.revision = last.revision
      BY <2>4 DEF S!OfRevision
    <3> QED BY <2>1, <2>4, <3>1, <3>2 DEF S!Ambiguous
  <2>7. S!Mastered(s) <=>
            skills[s].on /\ \E a \in of : a.score >= TargetScore /\ \A b \in of : b.at <= a.at
    BY DEF S!Mastered, S!OfRevision
  <2>8. S!Mastered(s) <=> skills[s].on /\ S!Score(s) >= TargetScore
    BY <2>3, <2>4, <2>5, <2>6, <2>7
  <2>9. S!Score(s) \in Nat
    BY <2>1, <2>3, <2>4
  <2> HIDE DEF of
  <2> QED BY <1>2, <2>8, <2>9 DEF S!Unrated
<1> QED BY <1>1, <1>2

\* What a goal needs, and what that needs.
LEMMA RelevantClosed ==
    ASSUME KnownInv, Complete
    PROVE  /\ S!Relevant \subseteq DOMAIN skills
           /\ \A s : s \in S!Relevant <=>
                         \E g \in request.goals : s = g \/ s \in S!Basics(g)
           /\ \A s \in S!Relevant : S!Basics(s) \subseteq S!Relevant
<1>1. \A s : s \in S!Relevant <=> \E g \in request.goals : s = g \/ s \in S!Basics(g)
  BY DEF S!Relevant, KnownInv
<1>2. S!Relevant \subseteq DOMAIN skills
  BY <1>1, BasicsClosed DEF KnownInv
<1>3. ASSUME NEW s \in S!Relevant, NEW a \in S!Basics(s) PROVE a \in S!Relevant
  <2>1. PICK g \in request.goals : s = g \/ s \in S!Basics(g)
    BY <1>1
  <2>2. a \in S!Basics(g)
    BY <2>1, <1>3, BasicsOfBasics DEF KnownInv
  <2> QED BY <1>1, <2>2
<1> QED BY <1>1, <1>2, <1>3

\* The turn of one skill, once its basics had theirs.
LEMMA StateIsJudged ==
    ASSUME SkillsInv, Complete, KnownInv, NEW s \in DOMAIN skills,
           \A a \in S!Basics(s) : Judged(a)
    PROVE  /\ S!State(s) = "satisfied" <=> S!Mastered(s) /\ Ready(s)
           /\ S!State(s) \in {"needs_assessment", "needs_practice"}
                  <=> skills[s].on /\ ~S!Mastered(s) /\ Ready(s)
           /\ S!State(s) = "needs_assessment" => S!OfRevision(s) = {}
           /\ S!State(s) = "needs_practice" => S!OfRevision(s) # {}
<1>1. S!Blocking(s) = {} <=> Ready(s)
  <2>1. S!Blocking(s) = {} <=> \A a \in S!Basics(s) : states[a] = "satisfied"
    BY DEF S!Blocking, KnownInv
  <2>2. \A a \in S!Basics(s) : states[a] = "satisfied" <=> S!Mastered(a) /\ Ready(a)
    BY DEF Judged
  <2>3. Ready(s) => \A a \in S!Basics(s) : Ready(a)
    BY BasicsOfBasics DEF Ready
  <2> QED BY <2>1, <2>2, <2>3 DEF Ready
<1>2. /\ S!OfRevision(s) = {} <=> S!Score(s) = S!Unrated
      /\ S!OfRevision(s) # {} => S!Score(s) \in Nat
      /\ S!Mastered(s) <=> /\ skills[s].on /\ S!OfRevision(s) # {}
                           /\ S!Score(s) >= TargetScore
  BY ScoreDecides DEF KnownInv
<1>3. TargetScore \in Nat
  BY StudyAssumption
<1>4. CASE ~skills[s].on
  BY <1>2, <1>4 DEF S!State
<1>5. CASE skills[s].on /\ S!Blocking(s) # {}
  BY <1>1, <1>2, <1>5 DEF S!State
<1>6. CASE skills[s].on /\ S!Blocking(s) = {} /\ S!OfRevision(s) = {}
  BY <1>1, <1>2, <1>6 DEF S!State
<1>7. CASE skills[s].on /\ S!Blocking(s) = {} /\ S!OfRevision(s) # {}
  <2>1. S!State(s) = IF S!Score(s) < TargetScore THEN "needs_practice" ELSE "satisfied"
    BY <1>2, <1>7 DEF S!State
  <2> QED BY <1>1, <1>2, <1>3, <1>7, <2>1
<1> QED BY <1>4, <1>5, <1>6, <1>7

\* One more skill is sorted.
LEMMA VisitStep ==
    ASSUME StudyInv, S!Visit
    PROVE  StudyInv'
<1> USE DEF S!Parents
<1>1. PICK next \in ready :
          /\ order' = Append(order, next)
          /\ degree' = [s \in DOMAIN skills |->
                            degree[s] - IF next \in S!Parents(s) THEN 1 ELSE 0]
          /\ ready' = (ready \ {next})
                          \cup {s \in DOMAIN skills : S!LastParent(s, next)}
  BY DEF S!Visit
<1>2. /\ pc = "sort" /\ pc' = "sort" /\ outcome = None /\ outcome' = None
      /\ skills' = skills /\ request' = request /\ UNCHANGED S!loopVars
      /\ CounterInv /\ OrderInv /\ SkillsInv
  BY DEF S!Visit, StudyInv
<1>3. next \in DOMAIN skills /\ next \notin Sorted /\ S!Parents(next) \subseteq Sorted
  BY <1>1, <1>2 DEF CounterInv
<1>4. /\ Len(order) \in Nat /\ Len(order') = Len(order) + 1
      /\ order' \in Seq(DOMAIN skills)
      /\ \A i \in 1 .. Len(order) : order'[i] = order[i]
      /\ order'[Len(order) + 1] = next
  BY <1>1, <1>2, <1>3 DEF OrderInv
<1>5. Sorted' = Sorted \cup {next}
  <2>1. 1 .. Len(order') = (1 .. Len(order)) \cup {Len(order) + 1}
    BY <1>4
  <2> QED BY <1>4, <2>1 DEF Sorted
<1>6. OrderInv'
  <2>1. ASSUME NEW i \in 1 .. Len(order'), NEW j \in 1 .. Len(order'),
               order'[i] = order'[j]
        PROVE  i = j
    <3>1. CASE i \in 1 .. Len(order) /\ j \in 1 .. Len(order)
      BY <3>1, <2>1, <1>2, <1>4 DEF OrderInv
    <3>2. CASE i \in 1 .. Len(order) /\ j = Len(order) + 1
      BY <3>2, <2>1, <1>3, <1>4 DEF Sorted
    <3>3. CASE j \in 1 .. Len(order) /\ i = Len(order) + 1
      BY <3>3, <2>1, <1>3, <1>4 DEF Sorted
    <3>4. CASE i = Len(order) + 1 /\ j = Len(order) + 1
      BY <3>4
    <3> QED BY <3>1, <3>2, <3>3, <3>4, <1>4
  <2>2. ASSUME NEW i \in 1 .. Len(order'), NEW p \in S!Parents(order'[i])
        PROVE  \E j \in 1 .. i - 1 : order'[j] = p
    <3>1. CASE i \in 1 .. Len(order)
      <4>1. PICK j \in 1 .. i - 1 : order[j] = p
        BY <3>1, <2>2, <1>2, <1>4 DEF OrderInv
      <4>2. j \in 1 .. Len(order)
        BY <3>1, <1>4
      <4> QED BY <4>1, <4>2, <1>4
    <3>2. CASE i = Len(order) + 1
      <4>1. PICK j \in 1 .. Len(order) : order[j] = p
        BY <3>2, <2>2, <1>3, <1>4 DEF Sorted
      <4> QED BY <4>1, <3>2, <1>4
    <3> QED BY <3>1, <3>2, <1>4
  <2> QED BY <2>1, <2>2, <1>2, <1>4 DEF OrderInv
<1>7. CounterInv'
  <2>1. ASSUME NEW s \in DOMAIN skills
        PROVE  /\ degree[s] = Cardinality(S!Parents(s) \ Sorted)
               /\ IsFiniteSet(S!Parents(s) \ Sorted)
               /\ degree[s] \in Nat
    <3>1. IsFiniteSet(S!Parents(s) \ Sorted)
      BY <1>2, FS_Subset DEF SkillsInv
    <3> QED BY <3>1, <1>2, FS_CardinalityType DEF CounterInv
  <2>2. ASSUME NEW s \in DOMAIN skills
        PROVE  degree'[s] = Cardinality(S!Parents(s) \ Sorted')
    <3>1. CASE next \in S!Parents(s)
      <4>1. S!Parents(s) \ Sorted' = (S!Parents(s) \ Sorted) \ {next}
            /\ next \in S!Parents(s) \ Sorted
        BY <3>1, <1>3, <1>5
      <4>2. Cardinality((S!Parents(s) \ Sorted) \ {next})
                = Cardinality(S!Parents(s) \ Sorted) - 1
        BY <4>1, <2>1, FS_RemoveElement
      <4>3. degree'[s] = degree[s] - 1
        BY <3>1, <1>1
      <4> QED BY <4>1, <4>2, <4>3, <2>1
    <3>2. CASE next \notin S!Parents(s)
      <4>1. S!Parents(s) \ Sorted' = S!Parents(s) \ Sorted
        BY <3>2, <1>5
      <4>2. degree'[s] = degree[s] - 0
        BY <3>2, <1>1
      <4>3. \A n \in Nat : n - 0 = n
        OBVIOUS
      <4>4. degree'[s] = degree[s]
        BY <4>2, <4>3, <2>1, Zenon
      <4> QED BY <4>1, <4>4, <2>1
    <3> QED BY <3>1, <3>2
  <2>3. ASSUME NEW s \in DOMAIN skills, S!LastParent(s, next)
        PROVE  s \notin Sorted' /\ S!Parents(s) \subseteq Sorted'
    <3>1. next \in S!Parents(s) /\ degree[s] = 1
      BY <2>3 DEF S!LastParent
    <3>2. s \notin Sorted
      BY <3>1, <1>2, <1>3, SortedIsClosed
    <3>3. s # next
      BY <3>1, <1>3
    <3>4. PICK only : S!Parents(s) \ Sorted = {only}
      BY <3>1, <2>1, FS_Singleton
    <3> QED BY <3>1, <3>2, <3>3, <3>4, <1>3, <1>5
  <2>4. ASSUME NEW s \in DOMAIN skills \ Sorted', S!Parents(s) \subseteq Sorted'
        PROVE  s \in ready'
    <3>1. CASE S!Parents(s) \subseteq Sorted
      BY <3>1, <1>1, <1>2, <1>5 DEF CounterInv
    <3>2. CASE ~(S!Parents(s) \subseteq Sorted)
      <4>1. S!Parents(s) \ Sorted = {next}
        BY <3>2, <2>4, <1>5
      <4>2. degree[s] = 1
        BY <4>1, <2>1, FS_Singleton
      <4> QED BY <4>1, <4>2, <1>1 DEF S!LastParent
    <3> QED BY <3>1, <3>2
  <2>5. \A s \in ready \ {next} :
            s \in DOMAIN skills \ Sorted' /\ S!Parents(s) \subseteq Sorted'
    BY <1>2, <1>5 DEF CounterInv
  <2>6. ready' = {s \in DOMAIN skills \ Sorted' : S!Parents(s) \subseteq Sorted'}
    BY <2>3, <2>4, <2>5, <1>1
  <2>7. degree' = [s \in DOMAIN skills |-> Cardinality(S!Parents(s) \ Sorted')]
    BY <2>2, <1>1
  <2> QED BY <2>6, <2>7, <1>2 DEF CounterInv
<1>8. SkillsInv' /\ S!SortIsExact' /\ S!PlanIsSound'
  BY <1>2, StudyFrame DEF S!SortIsExact, S!PlanIsSound, S!Planned
<1>9. /\ place' = 1 /\ DOMAIN ancestors' = DOMAIN skills'
      /\ states' = [s \in DOMAIN skills' |-> "not_evaluated"]
      /\ EmptySchedule' /\ DOMAIN states' = DOMAIN skills'
  BY <1>2 DEF StudyInv, EmptySchedule, S!loopVars
<1> QED BY <1>2, <1>6, <1>7, <1>8, <1>9 DEF StudyInv

\* Skills that wait for each other are never sorted.
LEMMA NoCycleIsSorted ==
    ASSUME OrderInv, Sorted = DOMAIN skills
    PROVE  ~S!Cyclic
<1> SUFFICES ASSUME NEW knot \in (SUBSET DOMAIN skills) \ {{}},
                    \A s \in knot : S!Parents(s) \cap knot # {}
             PROVE  FALSE
  BY DEF S!Cyclic
<1> DEFINE places == {i \in 1 .. Len(order) : order[i] \in knot}
           less == {x \in Nat \X Nat : x[1] < x[2]}
<1>1. Len(order) \in Nat
  BY DEF OrderInv
<1>2. places # {} /\ places \subseteq Nat
  BY DEF Sorted
<1>3. IsWellFoundedOn(less, Nat)
  BY NatLessThanWellFounded DEF OpToRel
<1> HIDE DEF less
<1>4. PICK i \in places : \A j \in places : <<j, i>> \notin less
  BY <1>2, <1>3, WFMin
<1>5. PICK p \in knot : p \in S!Parents(order[i])
  BY <1>4
<1>6. PICK j \in 1 .. i - 1 : order[j] = p
  BY <1>4, <1>5 DEF OrderInv
<1>7. j \in places /\ j \in Nat /\ i \in Nat /\ j < i
  BY <1>1, <1>4, <1>5, <1>6
<1> QED BY <1>4, <1>7 DEF less

LEMMA LoadStep ==
    ASSUME StudyInv, S!Load
    PROVE  StudyInv'
<1>1. /\ pc = "load" /\ order = <<>> /\ order' = order /\ outcome = None
      /\ skills' = skills /\ request' = request /\ UNCHANGED S!loopVars
      /\ OrderInv /\ SkillsInv
  BY DEF S!Load, StudyInv
<1>2. OrderInv' /\ SkillsInv' /\ Sorted' = {}
  BY <1>1, StudyFrame DEF Sorted, OrderInv, S!Parents
<1>3. /\ place' = 1 /\ DOMAIN ancestors' = DOMAIN skills'
      /\ states' = [s \in DOMAIN skills' |-> "not_evaluated"]
      /\ EmptySchedule' /\ DOMAIN states' = DOMAIN skills'
  BY <1>1 DEF StudyInv, EmptySchedule, S!loopVars
<1>4. CASE pc' = "sort"
  <2>1. /\ \A s \in DOMAIN skills : S!Parents(s) \subseteq DOMAIN skills
        /\ degree' = [s \in DOMAIN skills |-> Cardinality(S!Parents(s))]
        /\ ready' = {s \in DOMAIN skills : S!Parents(s) = {}}
        /\ outcome' = None
    BY <1>1, <1>4, StudyCount DEF S!Load, S!Refuse, S!End, S!GoOn
  <2>2. CounterInv'
    BY <1>1, <1>2, <2>1 DEF CounterInv, S!Parents
  <2> QED BY <1>2, <1>3, <1>4, <2>1, <2>2
          DEF StudyInv, S!SortIsExact, S!PlanIsSound, S!Planned
<1>5. CASE pc' = "done" /\ outcome'.status = "invalid_prerequisite"
  BY <1>1, <1>2, <1>3, <1>5 DEF StudyInv, S!SortIsExact, S!PlanIsSound, S!Planned
<1> QED BY <1>4, <1>5 DEF S!Load, S!Refuse, S!End, S!GoOn

\* What the sort found when it stops.
LEMMA SortEndsStep ==
    ASSUME StudyInv, S!SortEnds
    PROVE  StudyInv'
<1>1. /\ pc = "sort" /\ ready = {} /\ outcome = None
      /\ skills' = skills /\ request' = request /\ order' = order /\ UNCHANGED S!loopVars
      /\ CounterInv /\ OrderInv /\ SkillsInv
  BY DEF S!SortEnds, StudyInv, S!sortVars
<1>2. Sorted' = Sorted /\ OrderInv' /\ SkillsInv'
  BY <1>1, StudyFrame DEF Sorted, OrderInv, S!Parents
<1>3. /\ place' = 1 /\ DOMAIN ancestors' = DOMAIN skills'
      /\ states' = [s \in DOMAIN skills' |-> "not_evaluated"]
      /\ EmptySchedule' /\ DOMAIN states' = DOMAIN skills'
  BY <1>1 DEF StudyInv, EmptySchedule, S!loopVars
<1>4. CASE /\ Len(order) # Cardinality(DOMAIN skills)
           /\ pc' = "done" /\ outcome' = [status |-> "cycle"]
  <2> DEFINE rest == DOMAIN skills \ Sorted
  <2>1. rest # {}
    BY <1>1, <1>4, SortedCount
  <2>2. \A s \in rest : S!Parents(s) \cap rest # {}
    BY <1>1 DEF CounterInv
  <2>3. S!Cyclic
    BY <2>1, <2>2 DEF S!Cyclic
  <2>4. S!Cyclic'
    BY <2>3, <1>1, StudyFrame
  <2> QED BY <1>1, <1>2, <1>3, <1>4, <2>4
          DEF StudyInv, S!SortIsExact, S!PlanIsSound, S!Planned
<1>5. CASE /\ Len(order) = Cardinality(DOMAIN skills)
           /\ pc' = "ancestors" /\ outcome' = None
  <2>1. Sorted = DOMAIN skills
    <3>1. Sorted \subseteq DOMAIN skills /\ Cardinality(Sorted) = Cardinality(DOMAIN skills)
      BY <1>1, <1>5, SortedCount
    <3> QED BY <3>1, <1>1, FS_Subset DEF SkillsInv
  <2>2. Complete'
    BY <2>1, <1>1, <1>2 DEF Complete, CounterInv, S!Parents
  <2>3. TraceInv'
    BY <1>1, <1>2, <1>3 DEF TraceInv, OrderInv
  <2> QED BY <1>1, <1>2, <1>3, <1>5, <2>2, <2>3
          DEF StudyInv, S!SortIsExact, S!PlanIsSound, S!Planned
<1> QED BY <1>1, <1>4, <1>5, StudyCount DEF S!SortEnds, S!Refuse, S!End, S!GoOn

LEMMA TraceStep ==
    ASSUME StudyInv, S!Trace
    PROVE  StudyInv'
<1> DEFINE s == order[place]
<1>1. /\ pc = "ancestors" /\ pc' = pc /\ outcome = None /\ outcome' = None
      /\ place <= Len(order) /\ place' = place + 1
      /\ skills' = skills /\ request' = request /\ order' = order
      /\ states' = states /\ schedule' = schedule
      /\ SkillsInv /\ OrderInv /\ Complete /\ TraceInv
      /\ ancestors' = [ancestors EXCEPT ![s] =
             S!Parents(s) \cup UNION {ancestors[p] : p \in S!Parents(s)}]
  BY DEF S!Trace, StudyInv, S!sortVars
<1>2. Sorted' = Sorted /\ OrderInv' /\ SkillsInv' /\ Complete'
  BY <1>1, StudyFrame DEF Sorted, OrderInv, Complete, S!Parents
<1>3. TraceInv'
  <2>1. place \in Nat /\ Len(order) \in Nat
    BY <1>1 DEF TraceInv, OrderInv
  <2>2. ASSUME NEW i \in 1 .. Len(order), i < place + 1
        PROVE  ancestors'[order[i]] = S!Basics(order[i])
    <3>1. CASE i < place
      <4>1. order[i] # s
        BY <3>1, <1>1, <2>1 DEF OrderInv
      <4>2. ancestors[order[i]] = S!Basics(order[i])
        BY <3>1, <1>1 DEF TraceInv
      <4> QED BY <1>1, <4>1, <4>2
    <3>2. CASE i = place
      <4>1. s \in DOMAIN skills
        BY <3>2, <1>1 DEF OrderInv
      <4>2. \A p \in S!Parents(s) : ancestors[p] = S!Basics(p)
        <5> SUFFICES ASSUME NEW p \in S!Parents(s) PROVE ancestors[p] = S!Basics(p)
          OBVIOUS
        <5>1. PICK j \in 1 .. place - 1 : order[j] = p
          BY <3>2, <1>1 DEF OrderInv
        <5>2. j \in 1 .. Len(order) /\ j < place
          BY <5>1, <1>1, <2>1
        <5> QED BY <5>1, <5>2, <1>1 DEF TraceInv
      <4>3. S!Basics(s) = S!Parents(s) \cup UNION {ancestors[p] : p \in S!Parents(s)}
        BY <4>1, <4>2, <1>1, BasicsUnfold
      <4>4. ancestors'[s] = S!Parents(s) \cup UNION {ancestors[p] : p \in S!Parents(s)}
        BY <4>1, <1>1 DEF TraceInv
      <4> QED BY <3>2, <4>3, <4>4
    <3> QED BY <3>1, <3>2, <2>1, <2>2
  <2>4. place' \in Nat \ {0} /\ DOMAIN ancestors' = DOMAIN skills'
    BY <1>1, <2>1 DEF TraceInv
  <2>5. \A i \in 1 .. Len(order) : S!Basics(order[i])' = S!Basics(order[i])
    BY <1>1, Zenon DEF S!Basics, S!Parents
  <2> QED BY <1>1, <2>2, <2>4, <2>5 DEF TraceInv
<1> QED BY <1>1, <1>2, <1>3
        DEF StudyInv, EmptySchedule, S!SortIsExact, S!PlanIsSound, S!Planned

LEMMA CheckStep ==
    ASSUME StudyInv, S!Check
    PROVE  StudyInv'
<1>1. /\ pc = "ancestors" /\ outcome = None
      /\ place > Len(order) /\ place' = 1
      /\ skills' = skills /\ request' = request /\ order' = order
      /\ states' = states /\ schedule' = schedule /\ ancestors' = ancestors
      /\ SkillsInv /\ OrderInv /\ Complete /\ TraceInv
  BY DEF S!Check, StudyInv, S!sortVars, TraceInv, OrderInv
<1>2. Sorted' = Sorted /\ OrderInv' /\ SkillsInv' /\ Complete'
  BY <1>1, StudyFrame, SMTT(60) DEF Sorted, OrderInv, Complete, S!Parents
<1>3. /\ states' = [s \in DOMAIN skills' |-> "not_evaluated"]
      /\ EmptySchedule' /\ DOMAIN states' = DOMAIN skills'
  BY <1>1 DEF StudyInv, EmptySchedule
<1>4. CASE pc' = "done" /\ outcome'.status \in {"ambiguous_assessment", "invalid_goal"}
  BY <1>1, <1>2, <1>3, <1>4 DEF StudyInv, S!SortIsExact, S!PlanIsSound, S!Planned
<1>5. CASE /\ pc' = "evaluate" /\ outcome' = None
           /\ ~S!Ambiguous /\ request.goals \subseteq DOMAIN skills
  <2>1. \A s \in DOMAIN skills : ancestors[s] = S!Basics(s)
    <3> SUFFICES ASSUME NEW s \in DOMAIN skills PROVE ancestors[s] = S!Basics(s)
      OBVIOUS
    <3>1. PICK i \in 1 .. Len(order) : order[i] = s
      BY <1>1 DEF Complete, Sorted
    <3>2. i < place
      BY <1>1 DEF TraceInv, OrderInv
    <3> QED BY <3>1, <3>2, <1>1 DEF TraceInv
  <2>2. KnownInv'
    BY <1>1, <1>5, <2>1, StudyFrame DEF KnownInv
  <2>3. EvaluateInv'
    <3>1. \A i \in 1 .. Len(order) : states[order[i]] = "not_evaluated" /\ ~(i < 1)
      BY <1>1 DEF StudyInv, OrderInv
    <3> QED BY <1>1, <3>1 DEF EvaluateInv
  <2> QED BY <1>1, <1>2, <1>3, <1>5, <2>2, <2>3
          DEF StudyInv, S!SortIsExact, S!PlanIsSound, S!Planned
<1> QED BY <1>1, <1>4, <1>5 DEF S!Check, S!Refuse, S!End, S!GoOn

\* A judgement stands as long as the state does.
LEMMA JudgedFrame ==
    ASSUME skills' = skills, request' = request, NEW s, NEW t,
           t = states'[s],
           /\ t = "satisfied" <=> S!Mastered(s) /\ Ready(s)
           /\ t \in {"needs_assessment", "needs_practice"}
                  <=> skills[s].on /\ ~S!Mastered(s) /\ Ready(s)
           /\ t = "needs_assessment" => S!OfRevision(s) = {}
           /\ t = "needs_practice" => S!OfRevision(s) # {}
    PROVE  Judged(s)'
<1>1. /\ S!OfRevision(s)' = S!OfRevision(s)
      /\ S!Mastered(s)' <=> S!Mastered(s)
      /\ Ready(s)' <=> Ready(s)
  BY StudyFrame
<1> QED BY <1>1 DEF Judged

LEMMA EvaluateStep ==
    ASSUME StudyInv, S!Evaluate
    PROVE  StudyInv'
<1>1. PICK s : s = order[place]
  OBVIOUS
<1>2. /\ pc = "evaluate" /\ pc' = pc /\ outcome = None /\ outcome' = None
      /\ place <= Len(order) /\ place' = place + 1
      /\ skills' = skills /\ request' = request /\ order' = order
      /\ ancestors' = ancestors /\ schedule' = schedule
      /\ SkillsInv /\ OrderInv /\ Complete /\ KnownInv /\ EvaluateInv
      /\ states' = IF s \in S!Relevant THEN [states EXCEPT ![s] = S!State(s)] ELSE states
      /\ DOMAIN states = DOMAIN skills
  BY <1>1 DEF S!Evaluate, StudyInv, S!sortVars
<1>3. /\ Sorted' = Sorted /\ OrderInv' /\ SkillsInv' /\ Complete' /\ KnownInv'
      /\ S!Relevant' = S!Relevant
  BY <1>2, StudyFrame, SMTT(60) DEF Sorted, OrderInv, Complete, KnownInv, S!Parents, S!Relevant
<1>4. /\ place \in 1 .. Len(order) /\ Len(order) \in Nat
      /\ s \in DOMAIN skills /\ DOMAIN states' = DOMAIN skills
  BY <1>1, <1>2 DEF EvaluateInv, OrderInv
<1>5. ASSUME s \in S!Relevant PROVE Judged(s)'
  <2>1. ASSUME NEW a \in S!Basics(s) PROVE Judged(a)
    <3>1. a \in S!Relevant
      BY <1>2, <1>5, <2>1, RelevantClosed
    <3>2. PICK j \in 1 .. place - 1 : order[j] = a
      BY <1>1, <1>2, <1>4, <2>1, BasicsBefore
    <3>3. j \in 1 .. Len(order) /\ j < place
      BY <1>4, <3>2
    <3> QED BY <1>2, <3>1, <3>2, <3>3 DEF EvaluateInv
  <2>2. states'[s] = S!State(s)
    BY <1>2, <1>4, <1>5
  <2>3. /\ S!State(s) = "satisfied" <=> S!Mastered(s) /\ Ready(s)
        /\ S!State(s) \in {"needs_assessment", "needs_practice"}
               <=> skills[s].on /\ ~S!Mastered(s) /\ Ready(s)
        /\ S!State(s) = "needs_assessment" => S!OfRevision(s) = {}
        /\ S!State(s) = "needs_practice" => S!OfRevision(s) # {}
    BY <1>2, <1>4, <2>1, StateIsJudged
  <2> QED BY <1>2, <2>2, <2>3, JudgedFrame
<1>6. ASSUME NEW i \in 1 .. Len(order)
      PROVE  IF i < place + 1 /\ order[i] \in S!Relevant THEN Judged(order[i])'
             ELSE states'[order[i]] = "not_evaluated"
  <2>1. CASE i = place
    <3>1. CASE s \in S!Relevant
      <4>1. Judged(order[i])'
        BY <1>1, <1>2, <1>5, <2>1, <3>1 DEF Judged
      <4> QED BY <1>1, <1>4, <2>1, <3>1, <4>1
    <3>2. CASE s \notin S!Relevant
      BY <1>1, <1>2, <2>1, <3>2 DEF EvaluateInv
    <3> QED BY <3>1, <3>2
  <2>2. CASE i # place
    <3>1. order[i] # s
      BY <1>1, <1>2, <1>4, <2>2 DEF OrderInv
    <3>2. states'[order[i]] = states[order[i]]
      BY <1>2, <3>1
    <3>3. i < place + 1 <=> i < place
      BY <1>4, <2>2
    <3>4. CASE i < place /\ order[i] \in S!Relevant
      <4>1. Judged(order[i])
        BY <1>2, <3>4 DEF EvaluateInv
      <4>2. PICK x : x = order[i]
        OBVIOUS
      <4>3. Judged(x)'
        BY <1>2, <3>2, <4>1, <4>2, JudgedFrame DEF Judged
      <4>4. Judged(order[i])'
        BY <1>2, <4>2, <4>3 DEF Judged
      <4> QED BY <3>3, <3>4, <4>4
    <3>5. CASE ~(i < place /\ order[i] \in S!Relevant)
      BY <1>2, <3>2, <3>3, <3>5 DEF EvaluateInv
    <3> QED BY <3>4, <3>5
  <2> QED BY <2>1, <2>2
<1>7. EvaluateInv'
  BY <1>2, <1>3, <1>4, <1>6 DEF EvaluateInv
<1> QED BY <1>2, <1>3, <1>4, <1>7
        DEF StudyInv, EmptySchedule, S!SortIsExact, S!PlanIsSound, S!Planned

\* Who is open can be trained, and the other way round.
LEMMA EvaluationEndsStep ==
    ASSUME StudyInv, S!EvaluationEnds
    PROVE  StudyInv'
<1>1. /\ pc = "evaluate" /\ pc' = "schedule" /\ outcome = None /\ outcome' = None
      /\ place > Len(order)
      /\ skills' = skills /\ request' = request /\ order' = order
      /\ ancestors' = ancestors /\ states' = states /\ schedule' = schedule
      /\ waiting' = S!Open /\ EmptySchedule
      /\ SkillsInv /\ OrderInv /\ Complete /\ KnownInv /\ EvaluateInv
      /\ DOMAIN states = DOMAIN skills
  BY DEF S!EvaluationEnds, S!GoOn, StudyInv, S!sortVars
<1>2. /\ Sorted' = Sorted /\ OrderInv' /\ SkillsInv' /\ Complete' /\ KnownInv'
  BY <1>1, StudyFrame DEF Sorted, OrderInv, Complete, KnownInv, S!Parents
<1>3. ASSUME NEW s \in DOMAIN skills
      PROVE  IF s \in S!Relevant THEN Judged(s) ELSE states[s] = "not_evaluated"
  <2>1. PICK i \in 1 .. Len(order) : order[i] = s
    BY <1>1 DEF Complete, Sorted
  <2>2. i < place
    BY <1>1 DEF EvaluateInv, OrderInv
  <2> QED BY <1>1, <2>1, <2>2 DEF EvaluateInv
<1>4. ASSUME NEW s \in DOMAIN skills
      PROVE  /\ s \in S!Open <=> S!Trainable(s)
             /\ s \in S!Open => S!Minutes(s) = Time(s)
  <2>1. s \in S!Relevant <=> \E g \in request.goals : s = g \/ s \in S!Basics(g)
    BY <1>1, RelevantClosed
  <2>2. S!Trainable(s) <=> /\ skills[s].on /\ ~S!Mastered(s) /\ Ready(s)
                           /\ s \in S!Relevant
    BY <2>1 DEF S!Trainable, Ready
  <2>3. CASE s \in S!Relevant
    BY <1>3, <2>2, <2>3 DEF Judged, S!Open, S!Minutes, Time
  <2>4. CASE s \notin S!Relevant
    BY <1>3, <2>2, <2>4 DEF S!Open
  <2> QED BY <2>3, <2>4
<1>5. ScheduleInv'
  <2>1. schedule' = [tasks |-> <<>>, remaining |-> request.budget]
        /\ request.budget \in Nat /\ MaxTasks \in Nat
    BY <1>1, StudyAssumption DEF EmptySchedule, SkillsInv
  <2>2. IsFiniteSet(UnitsOf(Spent')) /\ SumOf(Spent') = 0
    BY <2>1, SumOfZeros DEF Spent
  <2>3. Tasks' = {}
    BY <2>1 DEF Tasks
  <2>4. \A s : /\ S!Trainable(s)' <=> S!Trainable(s)
               /\ Time(s)' = Time(s) /\ S!Minutes(s)' = S!Minutes(s)
    BY <1>1, StudyFrame DEF S!Minutes
  <2>5. \A s \in waiting' : /\ s \in DOMAIN skills' /\ S!Trainable(s)'
                            /\ S!Minutes(s)' = Time(s)'
    BY <1>1, <1>4, <2>4 DEF S!Open
  <2>6. \A s \in DOMAIN skills' \ (Tasks' \cup waiting') : ~S!Trainable(s)'
    BY <1>1, <1>4, <2>3, <2>4
  <2>7. /\ schedule'.tasks \in Seq(DOMAIN skills') /\ Len(schedule'.tasks) <= MaxTasks
        /\ schedule'.remaining \in Nat
        /\ SumOf(Spent') + schedule'.remaining = request'.budget
        /\ Len(schedule'.tasks) = 0
    BY <1>1, <2>1, <2>2
  <2> QED BY <2>2, <2>3, <2>5, <2>6, <2>7 DEF ScheduleInv
<1> QED BY <1>1, <1>2, <1>5
        DEF StudyInv, S!SortIsExact, S!PlanIsSound, S!Planned

\* One more skill gets a task, or is passed over.
LEMMA ScheduleStep ==
    ASSUME StudyInv, S!Schedule
    PROVE  StudyInv'
<1>1. PICK next \in waiting :
          /\ waiting' = waiting \ {next}
          /\ schedule' = IF S!Fits(next)
                 THEN [tasks |-> Append(schedule.tasks, next),
                       remaining |-> schedule.remaining - S!Minutes(next)]
                 ELSE schedule
  BY DEF S!Schedule
<1>2. /\ pc = "schedule" /\ pc' = pc /\ outcome = None /\ outcome' = None
      /\ skills' = skills /\ request' = request /\ order' = order
      /\ ancestors' = ancestors /\ states' = states
      /\ SkillsInv /\ OrderInv /\ Complete /\ KnownInv /\ ScheduleInv
      /\ DOMAIN states = DOMAIN skills
  BY DEF S!Schedule, StudyInv, S!sortVars
<1>3. /\ Sorted' = Sorted /\ OrderInv' /\ SkillsInv' /\ Complete' /\ KnownInv'
  BY <1>2, StudyFrame DEF Sorted, OrderInv, Complete, KnownInv, S!Parents
<1>4. \A s : /\ S!Trainable(s)' <=> S!Trainable(s)
             /\ Time(s)' = Time(s) /\ S!Minutes(s)' = S!Minutes(s)
  BY <1>2, StudyFrame DEF S!Minutes
<1>5. /\ next \in DOMAIN skills /\ S!Trainable(next)
      /\ S!Minutes(next) = Time(next) /\ Time(next) \in Nat /\ next \notin Tasks
  BY <1>2, StudyAssumption DEF ScheduleInv, Time
<1>6. \A s \in waiting' : /\ s \in DOMAIN skills' /\ S!Trainable(s)'
                          /\ S!Minutes(s)' = Time(s)'
  BY <1>1, <1>2, <1>4 DEF ScheduleInv
<1>7. CASE ~S!Fits(next)
  <2>1. schedule' = schedule
    BY <1>1, <1>7
  <2>2. Tasks' = Tasks /\ Spent' = Spent
    BY <2>1, <1>4 DEF Tasks, Spent
  <2>3. Len(schedule.tasks) = MaxTasks \/ Time(next) > schedule.remaining
    BY <1>2, <1>5, <1>7, StudyAssumption DEF S!Fits, ScheduleInv
  <2>4. \A s \in DOMAIN skills' \ (Tasks' \cup waiting') :
            S!Trainable(s)' => \/ Len(schedule'.tasks) = MaxTasks
                               \/ Time(s)' > schedule'.remaining
    BY <1>1, <1>2, <1>4, <2>1, <2>2, <2>3 DEF ScheduleInv
  <2>5. \A s \in Tasks' : S!Trainable(s)' /\ s \notin waiting'
    BY <1>1, <1>2, <1>4, <2>2 DEF ScheduleInv
  <2>6. ScheduleInv'
    BY <1>2, <1>6, <2>1, <2>2, <2>4, <2>5 DEF ScheduleInv
  <2> QED BY <1>2, <1>3, <2>6 DEF StudyInv, S!SortIsExact, S!PlanIsSound, S!Planned
<1>8. CASE S!Fits(next)
  <2> DEFINE n == Len(schedule.tasks)
  <2>1. /\ schedule'.tasks = Append(schedule.tasks, next)
        /\ schedule'.remaining = schedule.remaining - Time(next)
        /\ n \in Nat /\ n < MaxTasks /\ Time(next) <= schedule.remaining
    BY <1>1, <1>2, <1>5, <1>8 DEF S!Fits, ScheduleInv
  <2>2. /\ schedule'.tasks \in Seq(DOMAIN skills) /\ Len(schedule'.tasks) = n + 1
        /\ \A i \in 1 .. n : schedule'.tasks[i] = schedule.tasks[i]
        /\ schedule'.tasks[n + 1] = next
        /\ 1 .. n + 1 = (1 .. n) \cup {n + 1}
        /\ DOMAIN schedule'.tasks = 1 .. n + 1 /\ DOMAIN schedule.tasks = 1 .. n
    BY <1>2, <1>5, <2>1 DEF ScheduleInv
  <2>3. Tasks' = Tasks \cup {next}
    BY <2>2, SMTT(60) DEF Tasks
  <2>4. /\ n + 1 <= MaxTasks /\ schedule'.remaining \in Nat
        /\ schedule'.remaining <= schedule.remaining
    BY <1>2, <1>5, <2>1, StudyAssumption DEF ScheduleInv
  <2>5. IsFiniteSet(UnitsOf(Spent')) /\ SumOf(Spent') = SumOf(Spent) + Time(next)
    <3>1. /\ Spent \in [1 .. n -> Nat] /\ Spent' \in [1 .. n + 1 -> Nat]
          /\ \A i \in 1 .. n : Spent'[i] = Spent[i]
          /\ Spent'[n + 1] = Time(next)
      BY <1>4, <2>2, StudyAssumption DEF Spent, Time
    <3>2. IsFiniteSet(UnitsOf(Spent)) /\ n \in Nat
      BY <1>2, <2>1 DEF ScheduleInv
    <3> HIDE DEF n
    <3>3. \A f, g : f \in [1 .. n -> Nat] /\ g \in [1 .. n + 1 -> Nat]
                   /\ (\A i \in 1 .. n : g[i] = f[i]) /\ IsFiniteSet(UnitsOf(f))
                   => /\ IsFiniteSet(UnitsOf(g))
                      /\ SumOf(g) = SumOf(f) + g[n + 1]
      BY <3>2, SumOfMore
    <3> QED BY <3>1, <3>2, <3>3
  <2>6. SumOf(Spent') + schedule'.remaining = request'.budget
    <3>1. SumOf(Spent) \in Nat
      BY <1>2, FS_CardinalityType DEF ScheduleInv, SumOf
    <3> QED BY <1>2, <1>5, <2>1, <2>5, <3>1 DEF ScheduleInv
  <2>7. ASSUME NEW i \in 1 .. n + 1, NEW j \in 1 .. n + 1,
               schedule'.tasks[i] = schedule'.tasks[j]
        PROVE  i = j
    <3>1. CASE i \in 1 .. n /\ j \in 1 .. n
      BY <1>2, <2>2, <2>7, <3>1 DEF ScheduleInv
    <3>2. CASE i \in 1 .. n /\ j = n + 1
      BY <1>5, <2>2, <2>7, <3>2 DEF Tasks
    <3>3. CASE j \in 1 .. n /\ i = n + 1
      BY <1>5, <2>2, <2>7, <3>3 DEF Tasks
    <3> QED BY <2>2, <3>1, <3>2, <3>3
  <2>8. \A s \in Tasks' : S!Trainable(s)' /\ s \notin waiting'
    BY <1>1, <1>2, <1>4, <1>5, <2>3 DEF ScheduleInv
  <2>9. \A s \in DOMAIN skills' \ (Tasks' \cup waiting') :
            S!Trainable(s)' => \/ Len(schedule'.tasks) = MaxTasks
                               \/ Time(s)' > schedule'.remaining
    <3> SUFFICES ASSUME NEW s \in DOMAIN skills' \ (Tasks' \cup waiting'), S!Trainable(s)'
                 PROVE  Time(s)' > schedule'.remaining
      OBVIOUS
    <3>1. s \in DOMAIN skills \ (Tasks \cup waiting) /\ S!Trainable(s)
      BY <1>1, <1>2, <1>4, <2>3
    <3>2. Time(s) > schedule.remaining
      BY <1>2, <2>1, <3>1, StudyAssumption DEF ScheduleInv
    <3>3. Time(s) \in Nat
      BY StudyAssumption DEF Time
    <3> QED BY <1>2, <1>4, <2>4, <3>2, <3>3 DEF ScheduleInv
  <2>10. ScheduleInv'
    BY <1>2, <1>6, <2>2, <2>4, <2>5, <2>6, <2>7, <2>8, <2>9 DEF ScheduleInv
  <2> QED BY <1>2, <1>3, <2>10 DEF StudyInv, S!SortIsExact, S!PlanIsSound, S!Planned
<1> QED BY <1>7, <1>8

LEMMA PlanStep ==
    ASSUME StudyInv, S!Plan
    PROVE  StudyInv'
<1>1. /\ pc = "schedule" /\ pc' = "done" /\ waiting = {}
      /\ outcome' = [status |-> "planned", schedule |-> schedule]
      /\ skills' = skills /\ request' = request /\ order' = order
      /\ states' = states
      /\ SkillsInv /\ OrderInv /\ Complete /\ KnownInv /\ ScheduleInv
      /\ DOMAIN states = DOMAIN skills
  BY DEF S!Plan, S!End, StudyInv, S!sortVars, S!loopVars
<1>2. OrderInv' /\ SkillsInv'
  BY <1>1, StudyFrame DEF OrderInv, S!Parents
<1>3. S!SortIsExact'
  <2>1. ~S!Cyclic'
    BY <1>1, StudyFrame, NoCycleIsSorted DEF Complete
  <2>2. Len(order') = S!Cardinality(DOMAIN skills')
    BY <1>1, SortedCount, StudyCount DEF Complete
  <2>3. \A i \in DOMAIN order : \A p \in skills[order[i]].parents :
            \E j \in 1 .. i - 1 : order[j] = p
    BY <1>1 DEF OrderInv, S!Parents
  <2> QED BY <1>1, <2>1, <2>2, <2>3 DEF S!SortIsExact, S!Planned, S!Parents
<1>4. S!PlanIsSound'
  <2>1. DOMAIN schedule.tasks = 1 .. Len(schedule.tasks) /\ Len(schedule.tasks) \in Nat
    BY <1>1 DEF ScheduleInv
  <2>2. Tasks = {schedule.tasks[i] : i \in DOMAIN schedule.tasks}
    BY <2>1 DEF Tasks
  <2>3. schedule.remaining = request.budget - S!SumOf(Spent)
    <3>1. S!SumOf(Spent) = SumOf(Spent)
      BY StudyCount DEF S!SumOf, SumOf, S!UnitsOf, UnitsOf
    <3>2. SumOf(Spent) \in Nat
      BY <1>1, FS_CardinalityType DEF ScheduleInv, SumOf
    <3> QED BY <1>1, <3>1, <3>2 DEF ScheduleInv
  <2>4. S!Cardinality(Tasks) = Len(schedule.tasks)
    <3> DEFINE at == [i \in 1 .. Len(schedule.tasks) |-> schedule.tasks[i]]
    <3>1. at \in Bijection(1 .. Len(schedule.tasks), Tasks)
      BY <1>1 DEF ScheduleInv, Tasks, Bijection, Injection, Surjection, IsInjective
    <3>2. /\ IsFiniteSet(1 .. Len(schedule.tasks))
          /\ Cardinality(1 .. Len(schedule.tasks)) = Len(schedule.tasks)
      BY <2>1, FS_Interval
    <3>3. Cardinality(Tasks) = Len(schedule.tasks)
      BY <3>1, <3>2, FS_Bijection DEF ExistsBijection
    <3> QED BY <3>3, StudyCount
  <2>5. \A s : S!Trainable(s)' <=> S!Trainable(s)
    BY <1>1, StudyFrame
  <2>6. \A s : S!OfRevision(s)' = S!OfRevision(s)
    BY <1>1, StudyFrame
  <2>7. outcome'.schedule = schedule /\ skills' = skills /\ request' = request
    BY <1>1
  <2> SUFFICES
        /\ \A s \in Tasks : S!Trainable(s)'
        /\ schedule.remaining >= 0
        /\ schedule.remaining = request.budget - S!SumOf(Spent)
        /\ S!Cardinality(Tasks) = Len(schedule.tasks) /\ Len(schedule.tasks) <= MaxTasks
        /\ \A s \in DOMAIN skills \ Tasks :
               S!Trainable(s)' =>
                   Len(schedule.tasks) = MaxTasks \/ Time(s) > schedule.remaining
    BY <1>1, <2>2, <2>6, <2>7 DEF S!PlanIsSound, Time, Spent
  <2> QED BY <1>1, <2>3, <2>4, <2>5 DEF ScheduleInv
<1> QED BY <1>1, <1>2, <1>3, <1>4 DEF StudyInv

LEMMA StudyInvInit == S!Init => StudyInv
<1> SUFFICES ASSUME S!Init PROVE StudyInv
  OBVIOUS
<1>1. SkillsInv
  BY StudyAssumption DEF S!Init, SkillsInv, S!Parents
<1>2. OrderInv
  BY DEF S!Init, OrderInv
<1> QED BY <1>1, <1>2
        DEF S!Init, StudyInv, EmptySchedule, S!SortIsExact, S!PlanIsSound, S!Planned

LEMMA StudyStays ==
    ASSUME StudyInv, S!Next \/ UNCHANGED studyVars
    PROVE  StudyInv'
<1>1. CASE S!Next
  BY <1>1, LoadStep, VisitStep, SortEndsStep, TraceStep, CheckStep, EvaluateStep,
     EvaluationEndsStep, ScheduleStep, PlanStep DEF S!Next
<1>2. CASE UNCHANGED studyVars
  <2>1. skills' = skills /\ request' = request /\ order' = order
    BY <1>2 DEF studyVars
  <2>2. Sorted' = Sorted
    BY <2>1 DEF Sorted
  <2>3. /\ SkillsInv' = SkillsInv /\ OrderInv' = OrderInv
        /\ CounterInv' = CounterInv /\ Complete' = Complete
    BY <1>2, <2>2 DEF studyVars, SkillsInv, OrderInv, CounterInv, Complete, S!Parents
  <2>4. S!Relevant' = S!Relevant
    BY <1>2 DEF studyVars, S!Relevant
  <2>6. TraceInv' <=> TraceInv
    <3>1. \A i \in 1 .. Len(order) : S!Basics(order[i])' = S!Basics(order[i])
      BY <2>1, Zenon DEF S!Basics, S!Parents
    <3> QED BY <1>2, <3>1 DEF studyVars, TraceInv
  <2>7. EvaluateInv' <=> EvaluateInv
    BY <1>2, <2>4 DEF studyVars, EvaluateInv, Judged, Ready, S!Mastered, S!Basics,
       S!OfRevision, S!Parents
  <2>8. KnownInv' <=> KnownInv
    BY <1>2, <2>1, StudyFrame DEF studyVars, KnownInv
  <2>9. ScheduleInv' <=> ScheduleInv
    BY <1>2 DEF studyVars, ScheduleInv, Spent, Tasks, Time, S!Trainable, S!Minutes,
       S!Mastered, S!Basics, S!OfRevision, S!Parents
  <2>10. S!SortIsExact' = S!SortIsExact
    BY <1>2 DEF studyVars, S!SortIsExact, S!Planned, S!Cyclic, S!Parents
  <2>11. S!PlanIsSound' = S!PlanIsSound
    BY <1>2 DEF studyVars, S!PlanIsSound, S!Planned, S!Trainable,
       S!Mastered, S!Basics, S!OfRevision, S!Parents
  <2> QED BY <1>2, <2>3, <2>6, <2>7, <2>8, <2>9, <2>10, <2>11
          DEF studyVars, StudyInv, EmptySchedule
<1> QED BY <1>1, <1>2

-----------------------------------------------------------------------------
(* The selection of a brief (BriefPlan), for all entries of a day.         *)

\* What was looked at is shown, or had no room when it was; room is not
\* gained.
BriefInv ==
    /\ IsFiniteSet(input.entries) /\ None \notin SUBSET input.entries
    /\ items \in Seq(B!Eligible) /\ Len(items) <= MaxItems
    /\ \A i, j \in 1 .. Len(items) : items[i].content = items[j].content => i = j
    /\ \A sub : B!Share(sub) <= MaxPerSubscription
    /\ ranked = None => items = <<>>
    /\ ranked # None =>
           /\ ranked \subseteq B!Eligible
           /\ \A e \in B!Eligible \ ranked :
                  \/ B!Shown(e) \/ Len(items) = MaxItems
                  \/ B!Share(e.sub) = MaxPerSubscription
    /\ plan # None => ranked = None \/ ranked = {}
    /\ B!BriefIsFair

LEMMA BriefCount == \A set : B!Cardinality(set) = Cardinality(set)
BY DEF B!Cardinality, Cardinality

\* The places of one subscription are counted.
LEMMA ShareType ==
    ASSUME items \in Seq(B!Eligible), NEW sub
    PROVE  /\ IsFiniteSet({i \in 1 .. Len(items) : items[i].sub = sub})
           /\ B!Share(sub) = Cardinality({i \in 1 .. Len(items) : items[i].sub = sub})
           /\ B!Share(sub) \in Nat
<1> DEFINE of == {i \in 1 .. Len(items) : items[i].sub = sub}
<1>1. Len(items) \in Nat /\ DOMAIN items = 1 .. Len(items)
  OBVIOUS
<1>2. IsFiniteSet(1 .. Len(items))
  BY <1>1, FS_Interval
<1>3. IsFiniteSet(of)
  BY <1>2, FS_Subset
<1>4. B!Share(sub) = Cardinality(of)
  BY <1>1, BriefCount DEF B!Share
<1> QED BY <1>3, <1>4, FS_CardinalityType

LEMMA BriefFrame ==
    ASSUME input' = input
    PROVE  B!Eligible' = B!Eligible
BY DEF B!Eligible

LEMMA BriefLoadStep ==
    ASSUME BriefInv, B!Load
    PROVE  BriefInv'
<1>1. /\ input' = input /\ items' = items /\ ranked = None /\ items = <<>>
      /\ \/ ranked' = None /\ plan'.status # "planned"
         \/ ranked' = B!Eligible /\ plan' = None /\ plan = None
  BY DEF B!Load, BriefInv
<1>2. B!Eligible' = B!Eligible
  BY <1>1, BriefFrame
<1>3. \A sub : B!Share(sub)' = B!Share(sub)
  BY <1>1 DEF B!Share
<1> QED BY <1>1, <1>2, <1>3 DEF BriefInv, B!BriefIsFair

\* The best entry is taken when its content is new and there is room.
LEMMA SelectStep ==
    ASSUME BriefInv, B!Select
    PROVE  BriefInv'
<1>1. PICK e \in ranked :
          /\ ranked' = ranked \ {e}
          /\ items' = IF ~B!Shown(e) /\ B!Fits(e) THEN Append(items, e) ELSE items
  BY DEF B!Select
<1>2. /\ ranked # None /\ ranked \subseteq B!Eligible
      /\ input' = input /\ plan' = plan /\ e \in B!Eligible
      /\ plan = None \/ ranked = {}
  BY <1>1 DEF B!Select, BriefInv
<1>3. plan = None /\ plan' = None
  BY <1>1, <1>2
<1>4. B!Eligible' = B!Eligible /\ ranked' # None
  <2>1. B!Eligible \subseteq input.entries
    BY DEF B!Eligible
  <2> QED BY <1>1, <1>2, <2>1, BriefFrame DEF BriefInv
<1>5. MaxItems \in Nat /\ MaxPerSubscription \in Nat
  BY BriefAssumption
<1>6. \A sub : B!Share(sub) \in Nat
  BY ShareType DEF BriefInv
<1>7. CASE B!Shown(e) \/ ~B!Fits(e)
  <2>1. items' = items
    BY <1>1, <1>7
  <2>2. /\ \A sub : B!Share(sub)' = B!Share(sub)
        /\ \A f : B!Shown(f)' <=> B!Shown(f)
    BY <2>1 DEF B!Share, B!Shown
  <2>3. Len(items) \in Nat
    BY DEF BriefInv
  <2>4. \/ B!Shown(e) \/ Len(items) = MaxItems
        \/ B!Share(e.sub) = MaxPerSubscription
    BY <1>5, <1>6, <1>7, <2>3 DEF B!Fits, BriefInv
  <2> QED BY <1>1, <1>2, <1>3, <1>4, <2>1, <2>2, <2>4 DEF BriefInv, B!BriefIsFair
<1>8. CASE ~B!Shown(e) /\ B!Fits(e)
  <2> DEFINE n == Len(items)
  <2>1. /\ n \in Nat /\ items' = Append(items, e) /\ items' \in Seq(B!Eligible)
        /\ Len(items') = n + 1 /\ items'[n + 1] = e
        /\ \A i \in 1 .. n : items'[i] = items[i]
        /\ 1 .. n + 1 = (1 .. n) \cup {n + 1}
        /\ DOMAIN items' = 1 .. n + 1 /\ DOMAIN items = 1 .. n
    BY <1>1, <1>2, <1>8 DEF BriefInv
  <2>2. n < MaxItems /\ B!Share(e.sub) < MaxPerSubscription
    BY <1>8 DEF B!Fits
  <2>3. ASSUME NEW sub
        PROVE  B!Share(sub)' = IF e.sub = sub THEN B!Share(sub) + 1 ELSE B!Share(sub)
    <3> DEFINE of == {i \in 1 .. n : items[i].sub = sub}
               ofn == {i \in 1 .. n + 1 : items'[i].sub = sub}
    <3>1. IsFiniteSet(of) /\ B!Share(sub) = Cardinality(of) /\ Cardinality(of) \in Nat
      <4>1. items \in Seq(B!Eligible)
        BY Zenon DEF BriefInv
      <4> HIDE DEF n, of
      <4>2. \A s : /\ IsFiniteSet({i \in 1 .. Len(items) : items[i].sub = s})
                  /\ B!Share(s) = Cardinality({i \in 1 .. Len(items) : items[i].sub = s})
                  /\ B!Share(s) \in Nat
        BY ONLY <4>1, ShareType, Zenon
      <4> QED BY <4>2, Zenon DEF n, of
    <3>2. B!Share(sub)' = Cardinality(ofn)
      BY <2>1, BriefCount DEF B!Share
    <3>3. CASE e.sub = sub
      <4>1. ofn = of \cup {n + 1} /\ n + 1 \notin of
        BY <2>1, <3>3
      <4>2. Cardinality(of \cup {n + 1}) = Cardinality(of) + 1
        BY <3>1, <4>1, FS_AddElement
      <4> QED BY <3>1, <3>2, <3>3, <4>1, <4>2
    <3>4. CASE e.sub # sub
      <4>1. ofn = of
        BY <2>1, <3>4
      <4> QED BY <3>1, <3>2, <3>4, <4>1
    <3> QED BY <3>3, <3>4
  <2>4. \A sub : /\ B!Share(sub)' <= MaxPerSubscription
                 /\ B!Share(sub)' >= B!Share(sub)
    BY <1>5, <1>6, <2>2, <2>3 DEF BriefInv
  <2>5. ASSUME NEW i \in 1 .. n + 1, NEW j \in 1 .. n + 1,
               items'[i].content = items'[j].content
        PROVE  i = j
    <3>1. CASE i \in 1 .. n /\ j \in 1 .. n
      BY <2>1, <2>5, <3>1 DEF BriefInv
    <3>2. CASE i \in 1 .. n /\ j = n + 1
      BY <1>8, <2>1, <2>5, <3>2 DEF B!Shown
    <3>3. CASE j \in 1 .. n /\ i = n + 1
      BY <1>8, <2>1, <2>5, <3>3 DEF B!Shown
    <3> QED BY <2>1, <3>1, <3>2, <3>3
  <2>6. \A f : B!Shown(f) => B!Shown(f)'
    BY <2>1 DEF B!Shown
  <2>7. B!Shown(e)'
    BY <2>1 DEF B!Shown
  <2>8. ASSUME NEW f \in B!Eligible \ ranked'
        PROVE  \/ B!Shown(f)' \/ Len(items') = MaxItems
               \/ B!Share(f.sub)' = MaxPerSubscription
    <3>1. CASE f = e
      BY <2>7, <3>1
    <3>2. CASE f # e
      <4>1. \/ B!Shown(f) \/ B!Share(f.sub) = MaxPerSubscription
        <5>1. f \in B!Eligible \ ranked
          BY <1>1, <3>2
        <5>2. Len(items) # MaxItems
          <6>1. \A a, b \in Nat : a < b => a # b
            OBVIOUS
          <6> QED BY <1>5, <2>1, <2>2, <6>1, Zenon
        <5> QED BY <1>2, <5>1, <5>2 DEF BriefInv
      <4>2. B!Share(e.sub)' = B!Share(e.sub) + 1
            /\ (e.sub # f.sub => B!Share(f.sub)' = B!Share(f.sub))
        BY <2>3
      <4>3. CASE B!Shown(f)
        BY <2>6, <4>3
      <4>4. CASE B!Share(f.sub) = MaxPerSubscription
        <5>1. e.sub # f.sub
          BY <1>5, <1>6, <2>2, <4>4
        <5> QED BY <4>2, <4>4, <5>1
      <4> QED BY <4>1, <4>3, <4>4
    <3> QED BY <3>1, <3>2
  <2>9. Len(items') <= MaxItems
    BY <1>5, <2>1, <2>2
  <2> QED BY <1>1, <1>2, <1>3, <1>4, <2>1, <2>4, <2>5, <2>8, <2>9
          DEF BriefInv, B!BriefIsFair
<1> QED BY <1>7, <1>8

\* The counts add up.
LEMMA CountStep ==
    ASSUME BriefInv, B!Plan
    PROVE  BriefInv'
<1> DEFINE eligible == Cardinality(B!Eligible)
           contents == B!Contents(B!Eligible)
           shown == {items[i].content : i \in DOMAIN items}
<1>1. /\ ranked = {} /\ UNCHANGED <<input, ranked, items>> /\ ranked # None
      /\ plan'.status = "planned"
      /\ plan'.duplicate = eligible - Cardinality(contents)
      /\ plan'.omitted = eligible - (eligible - Cardinality(contents)) - Len(items)
  BY BriefCount DEF B!Plan, BriefInv
<1>2. IsFiniteSet(B!Eligible)
  BY FS_Subset DEF BriefInv, B!Eligible
<1>3. IsFiniteSet(contents) /\ Cardinality(contents) <= eligible
  <2> DEFINE of == [e \in B!Eligible |-> e.content]
  <2>1. of \in Surjection(B!Eligible, contents)
    BY DEF Surjection, B!Contents
  <2> HIDE DEF of
  <2> QED BY <1>2, <2>1, FS_Surjection
<1>4. Len(items) \in Nat /\ DOMAIN items = 1 .. Len(items)
      /\ \A i \in 1 .. Len(items) : items[i] \in B!Eligible
  BY DEF BriefInv
<1>5. shown \subseteq contents
  BY <1>4 DEF B!Contents
<1>6. IsFiniteSet(shown) /\ Cardinality(shown) = Len(items)
  <2> DEFINE at == [i \in 1 .. Len(items) |-> items[i].content]
  <2>1. at \in Bijection(1 .. Len(items), shown)
    BY <1>4 DEF BriefInv, Bijection, Injection, Surjection, IsInjective
  <2>2. IsFiniteSet(1 .. Len(items)) /\ Cardinality(1 .. Len(items)) = Len(items)
    BY <1>4, FS_Interval
  <2> HIDE DEF at
  <2> QED BY <2>1, <2>2, FS_Bijection DEF ExistsBijection
<1>7. /\ Cardinality(contents) = Cardinality(shown) + Cardinality(contents \ shown)
      /\ Cardinality(contents \ shown) \in Nat /\ Cardinality(contents) \in Nat
      /\ eligible \in Nat
  <2> HIDE DEF shown, contents
  <2>1. IsFiniteSet(contents \ shown)
    BY <1>3, FS_Subset
  <2>2. contents = shown \cup (contents \ shown) /\ shown \cap (contents \ shown) = {}
    BY <1>5
  <2>3. Cardinality(shown \cup (contents \ shown))
            = Cardinality(shown) + Cardinality(contents \ shown)
    BY <1>6, <2>1, <2>2, DisjointUnion
  <2> QED BY <1>2, <1>3, <2>1, <2>2, <2>3, FS_CardinalityType
<1>8. plan'.duplicate >= 0 /\ plan'.omitted >= 0
      /\ plan'.omitted = Cardinality(contents \ shown)
  <2> HIDE DEF eligible, contents, shown
  <2> QED BY <1>1, <1>3, <1>4, <1>6, <1>7
<1>9. \A sub : B!Share(sub)' = B!Share(sub)
  BY <1>1 DEF B!Share
<1>10. \A e : B!Shown(e)' <=> B!Shown(e)
  BY <1>1 DEF B!Shown
<1>11. B!Eligible' = B!Eligible
  BY <1>1, BriefFrame
<1>12. B!BriefIsFair'
  <2>1. \A e \in B!Eligible :
            \/ B!Shown(e) \/ Len(items) = MaxItems
            \/ B!Share(e.sub) = MaxPerSubscription
    BY <1>1 DEF BriefInv
  <2>2. B!Cardinality(contents \ shown) = Cardinality(contents \ shown)
    BY BriefCount
  <2> QED BY <1>1, <1>4, <1>8, <1>9, <1>10, <1>11, <2>1, <2>2
          DEF B!BriefIsFair, BriefInv, B!Contents
<1> QED BY <1>1, <1>9, <1>10, <1>11, <1>12 DEF BriefInv

LEMMA BriefInvInit == B!Init => BriefInv
<1> SUFFICES ASSUME B!Init PROVE BriefInv
  OBVIOUS
<1>1. items = <<>> /\ ranked = None /\ plan = None
  BY DEF B!Init
<1>2. \A sub : B!Share(sub) = 0
  <2>1. \A sub : {i \in DOMAIN items : items[i].sub = sub} = {}
    BY <1>1
  <2> QED BY <2>1, BriefCount, FS_EmptySet DEF B!Share
<1>3. MaxItems \in Nat /\ MaxPerSubscription \in Nat
      /\ IsFiniteSet(input.entries) /\ None \notin SUBSET input.entries
  BY BriefAssumption DEF B!Init
<1> QED BY <1>1, <1>2, <1>3 DEF BriefInv, B!BriefIsFair

LEMMA BriefStays ==
    ASSUME BriefInv, B!Next \/ UNCHANGED briefVars
    PROVE  BriefInv'
<1>1. CASE B!Next
  BY <1>1, BriefLoadStep, SelectStep, CountStep DEF B!Next
<1>2. CASE UNCHANGED briefVars
  <2>1. /\ input' = input /\ ranked' = ranked /\ items' = items /\ plan' = plan
        /\ B!Eligible' = B!Eligible
    BY <1>2, BriefFrame DEF briefVars
  <2>2. /\ \A sub : B!Share(sub)' = B!Share(sub)
        /\ \A e : B!Shown(e)' <=> B!Shown(e)
    BY <2>1 DEF B!Share, B!Shown
  <2>3. B!BriefIsFair' <=> B!BriefIsFair
    BY <2>1, <2>2 DEF B!BriefIsFair
  <2> QED BY <2>1, <2>2, <2>3 DEF BriefInv
<1> QED BY <1>1, <1>2

\* For all skills, graphs between them, ratings and requests, and for all
\* entries of a day: the sort refuses a graph exactly when it has a cycle,
\* the tasks of a plan are what can be trained in the minutes asked for, and
\* a brief shows every content that has room once (planning.rs, brief.rs).
THEOREM PlansAreSoundHolds == MCSpec => []PlansAreSound
<1> DEFINE Inv == (part = "study" => StudyInv) /\ (part = "brief" => BriefInv)
<1>1. MCInit => Inv
  BY StudyInvInit, BriefInvInit DEF MCInit
<1>2. Inv /\ [MCNext]_allVars => Inv'
  <2> SUFFICES ASSUME Inv, [MCNext]_allVars PROVE Inv'
    OBVIOUS
  <2>1. /\ part' = part
        /\ part = "study" => S!Next \/ UNCHANGED studyVars
        /\ part = "brief" => B!Next \/ UNCHANGED briefVars
    BY DEF MCNext, allVars, planVars, BudgetStep, QuotesStep,
           StudyStep, BriefStep, StreamsStep, ExcerptsStep, RecoveryStep, VectorsStep
  <2> QED BY <2>1, StudyStays, BriefStays
<1>3. Inv => PlansAreSound
  BY DEF StudyInv, BriefInv, PlansAreSound
<1> QED BY <1>1, <1>2, <1>3, PTL DEF MCSpec

-----------------------------------------------------------------------------
(* What an answer may quote (Excerpts), for all passages, whatever the     *)
(* model returns.                                                          *)

\* The operators of the library as the instance names them.
LEMMA ExcerptCount == \A set : X!Cardinality(set) = Cardinality(set)
BY DEF X!Cardinality, Cardinality

LEMMA StagesOf ==
    /\ \A p \in X!Profiles : X!Range(X!Stages(p)) =
          CASE p = "free" -> {"write"}
            [] p = "select" -> {"select", "verify"}
            [] p = "question" -> {"plan", "verify"}
            [] OTHER -> {"plan", "select", "verify"}
    /\ \A p \in X!Profiles : X!Stages(p)[1] \in X!Range(X!Stages(p))
<1>1. /\ X!Range(<<"write">>) = {"write"}
      /\ X!Range(<<"select", "verify">>) = {"select", "verify"}
      /\ X!Range(<<"plan", "verify">>) = {"plan", "verify"}
  BY DEF X!Range
<1>2. X!Range(<<"plan", "select", "verify">>) = {"plan", "select", "verify"}
  BY DEF X!Range
<1> QED BY <1>1, <1>2 DEF X!Profiles, X!Stages

LEMMA FollowingStage ==
    ASSUME profile \in X!Profiles, NEW s \in {"plan", "select"},
           s \in X!Range(X!Stages(profile))
    PROVE  X!Following(s) \in X!Range(X!Stages(profile))
<1> DEFINE st == X!Stages(profile)
<1>0. \E n \in DOMAIN st : st[n] = s
  BY DEF X!Range
<1> DEFINE i == CHOOSE n \in DOMAIN st : st[n] = s
<1> HIDE DEF st
<1>1. i \in DOMAIN st /\ st[i] = s
  BY <1>0
<1> HIDE DEF i
<1>2. X!Following(s) = st[i + 1]
  BY DEF X!Following, st, i
<1>3. i + 1 \in DOMAIN st
  BY <1>1 DEF X!Stages, X!Profiles, st
<1> QED BY <1>2, <1>3 DEF X!Range, st

LEMMA BoundedSequence ==
    ASSUME NEW members, NEW n \in Nat, NEW s \in X!BoundedSeq(members, n)
    PROVE  /\ s \in Seq(members) /\ Len(s) \in Nat /\ Len(s) <= n
           /\ DOMAIN s = 1 .. Len(s) /\ \A i \in DOMAIN s : s[i] \in members
<1>1. PICK m \in 0 .. n : s \in [1 .. m -> members]
  BY DEF X!BoundedSeq, X!SeqOf
<1>2. m \in Nat /\ s \in Seq(members) /\ Len(s) = m
  BY <1>1
<1> QED BY <1>1, <1>2

\* A set of places of a text that is not empty has a first and a last one.
LEMMA Ends ==
    ASSUME NEW n \in Nat, NEW set \in SUBSET (1 .. n), set # {}
    PROVE  /\ X!Lowest(set) \in set /\ \A m \in set : X!Lowest(set) <= m
           /\ X!Highest(set) \in set /\ \A m \in set : X!Highest(set) >= m
<1> DEFINE less == {x \in Nat \X Nat : x[1] < x[2]}
<1>1. IsWellFoundedOn(less, Nat)
  BY NatLessThanWellFounded DEF OpToRel
<1> HIDE DEF less
<1>0. set \subseteq Nat
  OBVIOUS
<1>2. \E p \in set : \A q \in set : p <= q
  <2>1. PICK p \in set : \A q \in set : <<q, p>> \notin less
    BY <1>0, <1>1, WFMin
  <2>2. ASSUME NEW q \in set PROVE p <= q
    <3>1. q < p => <<q, p>> \in less
      BY DEF less
    <3> QED BY <2>1, <3>1
  <2> QED BY <2>2
<1>3. \E p \in set : \A q \in set : p >= q
  <2> DEFINE co == {n - q : q \in set}
  <2>1. co \subseteq Nat /\ co # {}
    <3>1. \A q \in set : q \in Nat /\ q <= n
      OBVIOUS
    <3>2. \A q \in set : n - q \in Nat
      BY <3>1
    <3> QED BY <3>2
  <2>2. PICK c \in co : \A d \in co : <<d, c>> \notin less
    BY <1>1, <2>1, WFMin
  <2>3. PICK p \in set : c = n - p
    OBVIOUS
  <2>4. ASSUME NEW q \in set PROVE p >= q
    <3>1. n - q \in co /\ n - q \in Nat /\ c \in Nat
      BY <2>1
    <3>2. n - q < c => <<n - q, c>> \in less
      BY <3>1 DEF less
    <3> QED BY <2>2, <2>3, <3>1, <3>2
  <2> QED BY <2>4
<1>4. X!Lowest(set) \in set /\ \A m \in set : X!Lowest(set) <= m
  BY <1>2 DEF X!Lowest
<1>5. X!Highest(set) \in set /\ \A m \in set : X!Highest(set) >= m
  BY <1>3 DEF X!Highest
<1> QED BY <1>4, <1>5

\* A quote that occurs once occurs nowhere else.
LEMMA OneOccurrence ==
    ASSUME NEW words, Len(words) \in Nat, NEW said, X!Unique(words, said)
    PROVE  \E p : X!Occurrences(words, said) = {p}
<1>1. IsFiniteSet(X!Occurrences(words, said))
  <2>1. X!Occurrences(words, said) \subseteq 1 .. Len(words)
    BY DEF X!Occurrences
  <2>2. IsFiniteSet(1 .. Len(words))
    BY FS_Interval
  <2> QED BY <2>1, <2>2, FS_Subset
<1>2. Cardinality(X!Occurrences(words, said)) = 1
  BY ExcerptCount DEF X!Unique
<1> QED BY <1>1, <1>2, FS_Singleton

\* What is put in order has every number once.
LEMMA OrderedOnce ==
    ASSUME NEW n \in Nat, NEW ids \in SUBSET (1 .. n)
    PROVE  LET list == X!InOrder(ids) IN
           /\ Cardinality(ids) \in Nat /\ Cardinality(ids) <= n
           /\ DOMAIN list = 1 .. Cardinality(ids)
           /\ X!Range(list) = ids
           /\ \A i, j \in DOMAIN list : list[i] = list[j] => i = j
<1> DEFINE rank == [m \in ids |-> Cardinality({k \in ids : k <= m})]
           size == Cardinality(ids)
           list == X!InOrder(ids)
<1>1. IsFiniteSet(ids) /\ size \in Nat /\ size <= n
  <2>1. IsFiniteSet(1 .. n) /\ Cardinality(1 .. n) = n
    BY FS_Interval
  <2> QED BY <2>1, FS_Subset, FS_CardinalityType
<1>2. \A m \in ids : IsFiniteSet({k \in ids : k <= m}) /\ rank[m] \in 1 .. size
  <2> SUFFICES ASSUME NEW m \in ids
               PROVE  IsFiniteSet({k \in ids : k <= m}) /\ rank[m] \in 1 .. size
    OBVIOUS
  <2> DEFINE below == {k \in ids : k <= m}
  <2>1. IsFiniteSet(below) /\ Cardinality(below) <= size
    BY <1>1, FS_Subset
  <2>2. m \in below
    OBVIOUS
  <2>3. Cardinality(below) \in Nat /\ Cardinality(below) # 0
    BY <2>1, <2>2, FS_CardinalityType, FS_EmptySet
  <2> HIDE DEF size
  <2> QED BY <1>1, <2>1, <2>3
<1>3. \A a, b \in ids : a < b => rank[a] < rank[b]
  <2> SUFFICES ASSUME NEW a \in ids, NEW b \in ids, a < b
               PROVE  rank[a] < rank[b]
    OBVIOUS
  <2> DEFINE low == {k \in ids : k <= a}
             high == {k \in ids : k <= b}
  <2>0. ids \subseteq Int /\ a \in Int /\ b \in Int
    OBVIOUS
  <2>1. low \subseteq high /\ b \in high /\ b \notin low
    <3>1. \A k \in ids : k <= a => k <= b
      BY <2>0
    <3>2. b <= b /\ ~(b <= a)
      BY <2>0
    <3> QED BY <3>1, <3>2
  <2>2. IsFiniteSet(high) /\ IsFiniteSet(low)
    BY <1>2
  <2>3. Cardinality(low) <= Cardinality(high) /\ Cardinality(low) # Cardinality(high)
    BY <2>1, <2>2, FS_Subset
  <2>4. Cardinality(low) \in Nat /\ Cardinality(high) \in Nat
    BY <2>2, FS_CardinalityType
  <2> QED BY <2>3, <2>4
<1>4. rank \in Injection(ids, 1 .. size)
  <2>1. rank \in [ids -> 1 .. size]
    BY <1>2
  <2>2. \A a, b \in ids : rank[a] = rank[b] => a = b
    <3> SUFFICES ASSUME NEW a \in ids, NEW b \in ids, rank[a] = rank[b], a # b
                 PROVE  FALSE
      OBVIOUS
    <3>1. a < b \/ b < a
      <4>1. a \in Int /\ b \in Int /\ a # b
        OBVIOUS
      <4> HIDE DEF rank
      <4> QED BY <4>1
    <3>2. rank[a] \in Int /\ rank[b] \in Int
      BY <1>2
    <3> HIDE DEF rank
    <3> QED BY <1>3, <3>1, <3>2
  <2> HIDE DEF rank
  <2> QED BY <2>1, <2>2 DEF Injection, IsInjective
<1>5. \A i \in 1 .. size : \E m \in ids : rank[m] = i
  <2>1. IsFiniteSet(1 .. size) /\ Cardinality(1 .. size) = size
    BY <1>1, FS_Interval
  <2> HIDE DEF rank
  <2>2. rank \in Surjection(ids, 1 .. size)
    BY <1>1, <1>4, <2>1, FS_Injection
  <2> QED BY <2>2 DEF Surjection
<1>6. DOMAIN list = 1 .. size
  BY ExcerptCount DEF X!InOrder
<1>7. \A i \in 1 .. size : list[i] \in ids /\ rank[list[i]] = i
  <2> SUFFICES ASSUME NEW i \in 1 .. size
               PROVE  list[i] \in ids /\ rank[list[i]] = i
    OBVIOUS
  <2>1. list[i] = CHOOSE m \in ids : X!Cardinality({k \in ids : k <= m}) = i
    BY ExcerptCount DEF X!InOrder
  <2>2. \E m \in ids : X!Cardinality({k \in ids : k <= m}) = i
    BY <1>5, ExcerptCount
  <2> QED BY <2>1, <2>2, ExcerptCount
<1> HIDE DEF list, rank, size
<1>8. \A m \in ids : list[rank[m]] = m
  <2> SUFFICES ASSUME NEW m \in ids PROVE list[rank[m]] = m
    OBVIOUS
  <2>1. rank[m] \in 1 .. size
    BY <1>2
  <2>2. rank[list[rank[m]]] = rank[m] /\ list[rank[m]] \in ids
    BY <1>7, <2>1
  <2> QED BY <2>2, <1>4 DEF Injection, IsInjective
<1>9. X!Range(list) = ids
  <2>1. DOMAIN list = 1 .. size
    BY <1>6
  <2>2. \A m \in ids : rank[m] \in 1 .. size /\ list[rank[m]] = m
    BY <1>2, <1>8
  <2>3. \A i \in 1 .. size : list[i] \in ids
    BY <1>7
  <2>4. ids \subseteq {list[i] : i \in 1 .. size}
    BY <2>2
  <2> QED BY <2>1, <2>3, <2>4 DEF X!Range
<1>10. DOMAIN list = 1 .. size /\ \A i, j \in DOMAIN list : list[i] = list[j] => i = j
  BY <1>6, <1>7
<1> QED BY <1>1, <1>9, <1>10 DEF list, size

\* A unit lies within its passage.
LEMMA UnitsWithin ==
    ASSUME NEW ps \in SourceSets, NEW k \in X!AllUnits(ps)
    PROVE  /\ k[1] \in DOMAIN ps
           /\ k[2][1] \in 1 .. Len(ps[k[1]]) /\ k[2][2] \in 1 .. Len(ps[k[1]])
           /\ k[2][1] <= k[2][2]
<1>1. PICK s \in DOMAIN ps : \E u \in X!Units(ps[s]) : k = <<s, u>>
  BY DEF X!AllUnits
<1>2. PICK u \in X!Units(ps[s]) : k = <<s, u>>
  BY <1>1
<1> QED BY <1>1, <1>2 DEF X!Units

LEMMA Passages ==
    ASSUME NEW ps \in SourceSets
    PROVE  /\ Len(ps) \in Nat /\ DOMAIN ps = 1 .. Len(ps)
           /\ \A s \in DOMAIN ps : Len(ps[s]) \in Nat /\ DOMAIN ps[s] = 1 .. Len(ps[s])
BY ExcerptsAssumption

\* The quote of chosen units occurs where the first of them begins, and but
\* for blanks it says what they say.
LEMMA QuoteOfUnits ==
    ASSUME NEW ps \in SourceSets, NEW keys \in SUBSET X!AllUnits(ps),
           NEW s, \E k \in keys : k[1] = s,
           X!GapsAreBlank(ps[s], X!Covered(keys, s)),
           X!Unique(ps[s], X!MergedQuote(ps, keys, s))
    PROVE  LET said == X!MergedQuote(ps, keys, s) IN
           \A p \in X!Occurrences(ps[s], said) :
              /\ X!Occurrences(ps[s], said) = {p}
              /\ X!NonBlank(ps[s], p .. p + Len(said) - 1)
                   = X!NonBlank(ps[s], X!Covered(keys, s))
<1> DEFINE words == ps[s]
           places == X!Covered(keys, s)
           lo == X!Lowest(places)
           hi == X!Highest(places)
           said == X!MergedQuote(ps, keys, s)
<1> SUFFICES ASSUME NEW p \in X!Occurrences(words, said)
             PROVE  /\ X!Occurrences(words, said) = {p}
                    /\ X!NonBlank(words, p .. p + Len(said) - 1)
                         = X!NonBlank(words, places)
  OBVIOUS
<1>1. s \in DOMAIN ps /\ Len(words) \in Nat /\ DOMAIN words = 1 .. Len(words)
  BY UnitsWithin, Passages
<1>2. places \in SUBSET (1 .. Len(words)) /\ places # {}
  <2>1. \A k \in {k \in keys : k[1] = s} :
           /\ k[2][1] \in 1 .. Len(words) /\ k[2][2] \in 1 .. Len(words)
           /\ k[2][1] <= k[2][2]
    BY UnitsWithin
  <2>2. PICK k \in keys : k[1] = s
    OBVIOUS
  <2>3. k[2][1] \in k[2][1] .. k[2][2]
    BY <2>1, <2>2
  <2>4. k[2][1] \in places
    BY <2>2, <2>3 DEF X!Covered
  <2>5. places \subseteq 1 .. Len(words)
    <3> SUFFICES ASSUME NEW i \in places PROVE i \in 1 .. Len(words)
      OBVIOUS
    <3>1. PICK c \in {k_1 \in keys : k_1[1] = s} : i \in c[2][1] .. c[2][2]
      BY DEF X!Covered
    <3>2. /\ c[2][1] \in 1 .. Len(words) /\ c[2][2] \in 1 .. Len(words)
      BY <2>1
    <3> QED BY <1>1, <3>1, <3>2
  <2> QED BY <2>4, <2>5
<1> HIDE DEF places
<1>3. /\ lo \in 1 .. Len(words) /\ hi \in 1 .. Len(words) /\ lo <= hi
      /\ lo \in places /\ hi \in places /\ \A i \in places : lo <= i /\ i <= hi
  BY <1>1, <1>2, Ends
<1>4. said = SubSeq(words, lo, hi)
  BY DEF X!MergedQuote, places
<1> HIDE DEF lo, hi
<1>5. Len(said) = hi - lo + 1
  <2>1. words \in Seq({words[i] : i \in DOMAIN words})
    BY <1>1, ExcerptsAssumption
  <2> HIDE DEF words, said
  <2> QED BY <1>1, <1>3, <1>4, <2>1
<1>6. lo \in X!Occurrences(words, said)
  <2>1. lo + Len(said) - 1 = hi
    BY <1>1, <1>3, <1>5
  <2>2. SubSeq(words, lo, lo + Len(said) - 1) = said
    BY <1>4, <2>1
  <2>3. lo + Len(said) - 1 <= Len(words)
    BY <1>1, <1>3, <2>1
  <2> HIDE DEF words, said
  <2> QED BY <1>3, <2>2, <2>3 DEF X!Occurrences
<1>7. X!Occurrences(words, said) = {p} /\ p = lo
  <2>1. \E q : X!Occurrences(words, said) = {q}
    BY <1>1, OneOccurrence
  <2> HIDE DEF words, said
  <2>2. p \in X!Occurrences(words, said)
    BY DEF words, said
  <2> QED BY <1>6, <2>1, <2>2
<1>8. p .. p + Len(said) - 1 = lo .. hi
  BY <1>1, <1>3, <1>5, <1>7
<1>9. \A i \in (lo .. hi) \ places : words[i] = "nl"
  BY DEF X!GapsAreBlank, places, lo, hi
<1>10. places \subseteq lo .. hi
  BY <1>1, <1>2, <1>3
<1>11. X!NonBlank(words, lo .. hi) = X!NonBlank(words, places)
  BY <1>9, <1>10 DEF X!NonBlank
<1> QED BY <1>7, <1>8, <1>11 DEF places

\* An answer that says what the chosen units say, once for each passage.
Backed(ps, keys, r) ==
    /\ r.outcome = "answered"
    /\ {c.id : c \in X!Range(r.citations)} = {k[1] : k \in keys}
    /\ \A c \in X!Range(r.citations) :
          /\ X!Occurrences(ps[c.id], c.quote) = {c.start}
          /\ X!NonBlank(ps[c.id], c.start .. c.start + Len(c.quote) - 1)
               = X!NonBlank(ps[c.id], X!Covered(keys, c.id))

\* What is decoded from chosen units passes the validation.
LEMMA CitedIsValid ==
    ASSUME NEW ps \in SourceSets, NEW keys \in SUBSET X!AllUnits(ps), keys # {}
    PROVE  LET r == X!Validated(ps, X!Citations(ps, keys)) IN
           r = X!FailedAnswer \/ Backed(ps, keys, r)
<1> DEFINE ids == {k[1] : k \in keys}
           cited == X!InOrder(ids)
           size == Cardinality(ids)
           list == [i \in DOMAIN cited |->
                       [id |-> cited[i], quote |-> X!MergedQuote(ps, keys, cited[i])]]
           decoded == X!Citations(ps, keys)
           r == X!Validated(ps, decoded)
           Sound(s) == /\ X!GapsAreBlank(ps[s], X!Covered(keys, s))
                       /\ X!Unique(ps[s], X!MergedQuote(ps, keys, s))
<1>1. /\ Len(ps) \in Nat /\ DOMAIN ps = 1 .. Len(ps)
      /\ \A s \in DOMAIN ps : Len(ps[s]) \in Nat
  BY Passages
<1>2. ids \in SUBSET (1 .. Len(ps)) /\ ids # {}
  BY <1>1, UnitsWithin
<1>3. /\ size \in Nat /\ size <= Len(ps) /\ DOMAIN cited = 1 .. size
      /\ X!Range(cited) = ids
      /\ \A i, j \in DOMAIN cited : cited[i] = cited[j] => i = j
  <2> HIDE DEF ids
  <2> QED BY <1>1, <1>2, OrderedOnce
<1>4. decoded = IF \A s \in ids : Sound(s)
                THEN [outcome |-> "answered", citations |-> list]
                ELSE X!FailedAnswer
  BY <1>3 DEF X!Citations
<1> HIDE DEF ids, cited, size
<1>5. CASE ~\A s \in ids : Sound(s)
  <2>1. decoded = X!FailedAnswer
    BY <1>4, <1>5
  <2> QED BY <2>1 DEF X!Validated, X!FailedAnswer
<1>6. CASE \A s \in ids : Sound(s)
  <2>1. decoded.outcome = "answered" /\ decoded.citations = list
    BY <1>4, <1>6
  <2>2. DOMAIN list = 1 .. size
    BY <1>3
  <2>3. \A i \in 1 .. size : /\ cited[i] \in ids
                             /\ list[i].id = cited[i]
                             /\ list[i].quote = X!MergedQuote(ps, keys, cited[i])
    BY <1>3 DEF X!Range
  <2>4. size # 0
    <3>1. PICK s \in ids : TRUE
      BY <1>2
    <3>2. \E i \in DOMAIN cited : cited[i] = s
      BY <1>3 DEF X!Range
    <3> QED BY <1>3, <3>2
  <2>5. Len(list) = size /\ list # <<>>
    <3> HIDE DEF list
    <3>1. list \in Seq({list[i] : i \in 1 .. size})
      <4>1. list = [i \in 1 .. size |-> list[i]]
        BY <2>2 DEF list
      <4> QED BY <4>1, <1>3
    <3> QED BY <1>3, <2>2, <2>4, <3>1
  <2>6. \A c \in X!Range(list) : c.id \in DOMAIN ps /\ X!Located(ps[c.id], c.quote)
    <3> SUFFICES ASSUME NEW i \in 1 .. size
                 PROVE  /\ list[i].id \in DOMAIN ps
                        /\ X!Located(ps[list[i].id], list[i].quote)
      <4> HIDE DEF list
      <4> QED BY <2>2 DEF X!Range
    <3> HIDE DEF list
    <3> QED BY <1>1, <1>2, <1>6, <2>3 DEF X!Located
  <2>7. \A i, j \in DOMAIN list : list[i].id = list[j].id => i = j
    <3> HIDE DEF list
    <3> QED BY <1>3, <2>2, <2>3
  <2> DEFINE shown == [i \in DOMAIN list |->
                 [id |-> list[i].id, quote |-> list[i].quote,
                  start |-> CHOOSE p \in X!Occurrences(ps[list[i].id], list[i].quote) :
                               TRUE]]
  <2>8. r.outcome = "answered" /\ r.citations = shown
    <3> HIDE DEF list, decoded
    <3>1. r = [decoded EXCEPT !.citations = shown]
      BY <1>3, <2>1, <2>5, <2>6, <2>7 DEF X!Validated
    <3>2. decoded = [outcome |-> "answered", citations |-> list]
      BY <1>4, <1>6 DEF decoded
    <3> HIDE DEF shown
    <3> QED BY <3>1, <3>2
  <2> HIDE DEF list, r
  <2>9. DOMAIN shown = 1 .. size
    BY <2>2
  <2>10. \A i \in 1 .. size :
            /\ shown[i].id = cited[i]
            /\ shown[i].quote = X!MergedQuote(ps, keys, cited[i])
            /\ shown[i].start =
                  CHOOSE p \in X!Occurrences(ps[cited[i]],
                                  X!MergedQuote(ps, keys, cited[i])) : TRUE
    BY <2>2, <2>3
  <2> HIDE DEF shown
  <2>11. {c.id : c \in X!Range(shown)} = ids
    <3>1. \A s \in ids : \E i \in 1 .. size : cited[i] = s
      BY <1>3 DEF X!Range
    <3> QED BY <2>3, <2>9, <2>10, <3>1 DEF X!Range
  <2>12. ASSUME NEW c \in X!Range(shown)
         PROVE  /\ X!Occurrences(ps[c.id], c.quote) = {c.start}
                /\ X!NonBlank(ps[c.id], c.start .. c.start + Len(c.quote) - 1)
                     = X!NonBlank(ps[c.id], X!Covered(keys, c.id))
    <3>1. PICK i \in 1 .. size : c = shown[i]
      BY <2>9, <2>12 DEF X!Range
    <3> DEFINE s == cited[i]
               said == X!MergedQuote(ps, keys, s)
    <3>2. s \in ids /\ Sound(s) /\ c.id = s /\ c.quote = said
      BY <1>6, <2>3, <2>10, <3>1
    <3>3. c.start = CHOOSE p \in X!Occurrences(ps[s], said) : TRUE
      BY <2>10, <3>1
    <3> HIDE DEF s, said
    <3>4. \E p : X!Occurrences(ps[s], said) = {p}
      <4>1. Len(ps[s]) \in Nat
        BY <1>1, <1>2, <3>2
      <4> QED BY <3>2, <4>1, OneOccurrence DEF said
    <3>5. c.start \in X!Occurrences(ps[s], said)
      BY <3>3, <3>4
    <3>6. /\ X!Occurrences(ps[s], said) = {c.start}
          /\ X!NonBlank(ps[s], c.start .. c.start + Len(said) - 1)
               = X!NonBlank(ps[s], X!Covered(keys, s))
      <4>1. \E k \in keys : k[1] = s
        BY <3>2 DEF ids
      <4> HIDE DEF said
      <4>2. X!GapsAreBlank(ps[s], X!Covered(keys, s)) /\ X!Unique(ps[s], said)
        BY <3>2 DEF said
      <4>3. \A p \in X!Occurrences(ps[s], said) :
               /\ X!Occurrences(ps[s], said) = {p}
               /\ X!NonBlank(ps[s], p .. p + Len(said) - 1)
                    = X!NonBlank(ps[s], X!Covered(keys, s))
        BY <4>1, <4>2, QuoteOfUnits DEF said
      <4> QED BY <3>5, <4>3
    <3> QED BY <3>2, <3>6
  <2> QED BY <2>8, <2>11, <2>12 DEF Backed, ids, r
<1> QED BY <1>5, <1>6

\* What a profile takes for an answer, of checks on units of the passages.
LEMMA DecidedMeans ==
    ASSUME NEW ps \in SourceSets, NEW asked, NEW cs, NEW keys, DOMAIN cs # {},
           \A i \in DOMAIN cs : cs[i].keys \in SUBSET X!AllUnits(ps)
    PROVE  LET d == X!Decided(ps, asked, cs, keys)
               r == X!Validated(ps, d) IN
           \/ r \in {X!FailedAnswer, X!Insufficient}
           \/ /\ Backed(ps, X!Used(cs), r) /\ d.outcome = "answered"
              /\ keys = X!Used(cs)
              /\ \A i \in DOMAIN cs :
                    cs[i].keys # {} /\ X!Met(asked[i], cs[i].verdict)
<1> DEFINE d == X!Decided(ps, asked, cs, keys)
           r == X!Validated(ps, d)
<1>1. CASE ~X!EvidenceNamed(cs)
  BY <1>1 DEF X!Decided, X!Validated, X!FailedAnswer
<1>2. CASE /\ X!EvidenceNamed(cs)
           /\ ~(/\ \A i \in DOMAIN cs : X!Met(asked[i], cs[i].verdict)
                /\ keys = X!Used(cs))
  BY <1>2 DEF X!Decided, X!Validated, X!Insufficient
<1>3. CASE /\ X!EvidenceNamed(cs) /\ keys = X!Used(cs)
           /\ \A i \in DOMAIN cs : X!Met(asked[i], cs[i].verdict)
  <2>1. \A i \in DOMAIN cs : cs[i].keys # {}
    <3>1. \A i \in DOMAIN cs : X!Support(cs[i].verdict) # "unsupported"
      BY <1>3 DEF X!Met
    <3> QED BY <1>3, <3>1 DEF X!EvidenceNamed, X!Range
  <2>2. X!Used(cs) \in SUBSET X!AllUnits(ps) /\ X!Used(cs) # {}
    <3>1. X!Used(cs) = UNION {cs[i].keys : i \in DOMAIN cs}
      BY DEF X!Used, X!Range
    <3> QED BY <2>1, <3>1
  <2>3. d = X!Citations(ps, keys)
    BY <1>3 DEF X!Decided
  <2>4. r = X!FailedAnswer \/ Backed(ps, keys, r)
    BY <1>3, <2>2, <2>3, CitedIsValid
  <2>5. r # X!FailedAnswer => d.outcome = "answered"
    <3>1. d = X!FailedAnswer \/ d.outcome = "answered"
      BY <2>3 DEF X!Citations
    <3>2. d = X!FailedAnswer => r = X!FailedAnswer
      BY DEF X!Validated, X!FailedAnswer
    <3> QED BY <3>1, <3>2
  <2> QED BY <1>3, <2>1, <2>4, <2>5
<1> QED BY <1>1, <1>2, <1>3

LEMMA WithoutAnswer ==
    /\ \A ps, r : r.outcome # "answered" => X!Validated(ps, r) = r
    /\ \A r \in {X!FailedAnswer, X!Insufficient} : r.outcome # "answered"
BY DEF X!Validated, X!FailedAnswer, X!Insufficient

ExcerptsInv == X!ExcerptsTypeOK /\ X!QuotesAreEvidence /\ X!RequirementsAreMet

LEMMA ExcerptsInvInit == X!ExcerptsInit => ExcerptsInv
<1> SUFFICES ASSUME X!ExcerptsInit PROVE ExcerptsInv
  OBVIOUS
<1>1. <<>> \in X!BoundedSeq(X!CheckKinds, MaxChecks) /\ Len(<<>>) <= MaxChecks
  <2>1. <<>> \in [1 .. 0 -> X!CheckKinds] /\ 0 \in 0 .. MaxChecks
    BY ExcerptsAssumption
  <2> QED BY <2>1, ExcerptsAssumption DEF X!BoundedSeq, X!SeqOf
<1> QED BY <1>1 DEF X!ExcerptsInit, X!Pending, ExcerptsInv, X!ExcerptsTypeOK,
        X!QuotesAreEvidence, X!RequirementsAreMet

\* The last request of a profile.
LEMMA VerifyStep ==
    ASSUME ExcerptsInv, X!VerifyAnswered
    PROVE  ExcerptsInv'
<1> DEFINE used == X!Used(checks')
<1>1. /\ profile' = profile /\ passages' = passages /\ kinds' = kinds
      /\ selection' = selection /\ stage' = "ended" /\ stage = "verify"
      /\ profile \in X!Profiles /\ passages \in SourceSets
  BY DEF X!VerifyAnswered, X!Conclude, ExcerptsInv, X!ExcerptsTypeOK
<1>2. profile \in {"select", "question", "guarded", "role"}
  <2>1. stage \in {"start", "ended"} \cup X!Range(X!Stages(profile))
    BY DEF ExcerptsInv, X!ExcerptsTypeOK
  <2> QED BY <1>1, <2>1, StagesOf DEF X!Profiles
<1>3. /\ Len(checks') <= MaxChecks /\ DOMAIN checks' = 1 .. Len(checks')
      /\ DOMAIN checks' # {}
      /\ \A i \in DOMAIN checks' : checks'[i].keys \in SUBSET X!AllUnits(passages)
  <2>1. checks' \in X!BoundedSeq(X!ChecksOf(profile, passages), MaxChecks)
        /\ checks' # <<>>
    BY DEF X!VerifyAnswered
  <2>2. /\ checks' \in Seq(X!ChecksOf(profile, passages)) /\ Len(checks') \in Nat
        /\ Len(checks') <= MaxChecks /\ DOMAIN checks' = 1 .. Len(checks')
        /\ \A i \in DOMAIN checks' : checks'[i] \in X!ChecksOf(profile, passages)
    BY <2>1, BoundedSequence, ExcerptsAssumption
  <2>3. Len(checks') # 0
    BY <2>1, <2>2
  <2>4. \A c \in X!ChecksOf(profile, passages) :
            c.keys \in SUBSET X!AllUnits(passages)
    BY <1>1 DEF X!ChecksOf, X!CatalogOf, X!Catalog
  <2> QED BY <2>2, <2>3, <2>4
<1>4. kinds \in X!BoundedSeq(X!CheckKinds, MaxChecks)
      /\ selection \subseteq X!AllUnits(passages)
  BY DEF ExcerptsInv, X!ExcerptsTypeOK
<1> DEFINE asked == IF profile = "select" THEN X!VerifierKinds(checks') ELSE kinds
           chosen == IF profile = "select" THEN selection ELSE used
           d == X!Decided(passages, asked, checks', chosen)
<1>5. \/ result' \in {X!FailedAnswer, X!Insufficient}
      \/ /\ result' = X!Validated(passages, d)
         /\ profile # "select" => Len(kinds) = Len(checks')
         /\ profile \in {"guarded", "role"} => selection = used
  <2>1. CASE profile = "select"
    BY <2>1 DEF X!VerifyAnswered, X!Conclude
  <2>2. CASE profile = "question"
    <3>1. result' = X!Validated(passages, X!Planned(passages, kinds, checks'))
      BY <2>2 DEF X!VerifyAnswered, X!Conclude
    <3>2. \/ X!Planned(passages, kinds, checks') \in {X!FailedAnswer, X!Insufficient}
          \/ /\ X!Planned(passages, kinds, checks') = d
             /\ Len(kinds) = Len(checks')
      BY <2>2 DEF X!Planned
    <3> HIDE DEF d
    <3> QED BY <2>2, <3>1, <3>2, WithoutAnswer
  <2>3. CASE profile \in {"guarded", "role"}
    <3>1. result' = X!Validated(passages,
                        X!Guarded(passages, kinds, checks', selection))
      BY <2>3 DEF X!VerifyAnswered, X!Conclude
    <3> DEFINE p == X!Planned(passages, kinds, checks')
    <3>2. \/ X!Guarded(passages, kinds, checks', selection) = X!Insufficient
          \/ /\ X!Guarded(passages, kinds, checks', selection) = p
             /\ p.outcome = "answered" => selection = used
      BY DEF X!Guarded
    <3>3. \/ p \in {X!FailedAnswer, X!Insufficient}
          \/ p = d /\ Len(kinds) = Len(checks')
      BY <2>3 DEF X!Planned
    <3>4. X!Validated(passages, d) \in {X!FailedAnswer, X!Insufficient}
          \/ d.outcome = "answered"
      BY <1>1, <1>3, DecidedMeans
    <3> HIDE DEF p, d, used
    <3> QED BY <2>3, <3>1, <3>2, <3>3, <3>4, WithoutAnswer
  <2> QED BY <1>2, <2>1, <2>2, <2>3
<1>6. \/ result' \in {X!FailedAnswer, X!Insufficient}
      \/ /\ Backed(passages, used, result') /\ chosen = used
         /\ profile # "select" => Len(kinds) = Len(checks')
         /\ profile \in {"guarded", "role"} => selection = used
         /\ \A i \in DOMAIN checks' :
               checks'[i].keys # {} /\ X!Met(asked[i], checks'[i].verdict)
  <2> DEFINE r == X!Validated(passages, d)
  <2>1. \/ r \in {X!FailedAnswer, X!Insufficient}
        \/ /\ Backed(passages, used, r) /\ chosen = used
           /\ \A i \in DOMAIN checks' :
                 checks'[i].keys # {} /\ X!Met(asked[i], checks'[i].verdict)
    <3> HIDE DEF asked, chosen
    <3> QED BY <1>1, <1>3, DecidedMeans
  <2> HIDE DEF r, d, chosen, asked, used
  <2>2. result' = X!Validated(passages, d) => result' = r
    BY DEF r
  <2> QED BY <1>5, <2>1, <2>2
<1>7. X!ExcerptsTypeOK'
  <2>1. result'.outcome \in {"failed", "insufficient", "answered"}
    BY <1>6 DEF Backed, X!FailedAnswer, X!Insufficient
  <2> QED BY <1>1, <1>3, <1>4, <2>1 DEF X!ExcerptsTypeOK
<1>8. X!QuotesAreEvidence'
  <2>1. CASE result' \in {X!FailedAnswer, X!Insufficient}
    BY <2>1 DEF X!QuotesAreEvidence, X!FailedAnswer, X!Insufficient
  <2>2. CASE /\ Backed(passages, used, result') /\ chosen = used
             /\ profile \in {"guarded", "role"} => selection = used
    <3>1. "select" \in X!Range(X!Stages(profile)) => selection = used
      BY <1>2, <2>2, StagesOf DEF X!Profiles
    <3> QED BY <1>1, <2>2, <3>1 DEF X!QuotesAreEvidence, Backed
  <2> QED BY <1>6, <2>1, <2>2
<1>9. X!RequirementsAreMet'
  <2>1. CASE result' \in {X!FailedAnswer, X!Insufficient}
    BY <2>1 DEF X!RequirementsAreMet, X!FailedAnswer, X!Insufficient
  <2>2. CASE /\ profile # "select" => Len(kinds) = Len(checks')
             /\ \A i \in DOMAIN checks' :
                   checks'[i].keys # {} /\ X!Met(asked[i], checks'[i].verdict)
    <3> DEFINE wanted == IF "plan" \in X!Range(X!Stages(profile)) THEN kinds
                         ELSE X!VerifierKinds(checks')
    <3>1. wanted = asked
      BY <1>2, StagesOf DEF X!Profiles
    <3>2. Len(asked) = Len(checks')
      <4>1. X!VerifierKinds(checks') = [i \in 1 .. Len(checks') |-> checks'[i].kind]
        BY <1>3 DEF X!VerifierKinds
      <4>2. Len(checks') \in Nat
        BY <1>3, BoundedSequence, ExcerptsAssumption DEF X!VerifyAnswered
      <4>3. Len(X!VerifierKinds(checks')) = Len(checks')
        BY <4>1, <4>2
      <4> QED BY <2>2, <4>3
    <3>3. \A i \in DOMAIN checks' :
             /\ X!Support(checks'[i].verdict) # "unsupported"
             /\ X!Support(checks'[i].verdict) = "unavailable"
                  => asked[i] = "availability"
      BY <2>2 DEF X!Met
    <3> HIDE DEF asked
    <3> QED BY <1>1, <2>2, <3>1, <3>2, <3>3 DEF X!RequirementsAreMet
  <2> QED BY <1>6, <2>1, <2>2
<1> QED BY <1>7, <1>8, <1>9 DEF ExcerptsInv

LEMMA WriteStep ==
    ASSUME ExcerptsInv, X!WriteAnswered
    PROVE  ExcerptsInv'
<1>1. /\ profile' = profile /\ passages' = passages /\ kinds' = kinds
      /\ selection' = selection /\ checks' = checks /\ stage = "write"
      /\ stage' = "ended"
      /\ profile \in X!Profiles /\ passages \in SourceSets
  BY DEF X!WriteAnswered, X!Conclude, ExcerptsInv, X!ExcerptsTypeOK
<1>2. profile = "free"
  <2>1. stage \in {"start", "ended"} \cup X!Range(X!Stages(profile))
    BY DEF ExcerptsInv, X!ExcerptsTypeOK
  <2> QED BY <1>1, <2>1, StagesOf DEF X!Profiles
<1>3. CASE result' = X!Insufficient
  BY <1>1, <1>2, <1>3 DEF ExcerptsInv, X!ExcerptsTypeOK, X!QuotesAreEvidence,
     X!RequirementsAreMet, X!Insufficient, X!Extractive
<1>4. CASE \E ids \in X!BoundedSeq(DOMAIN passages \cup {0}, 2) :
             \E quotes \in [DOMAIN ids -> X!Writable(passages)] :
               result' = X!Validated(passages, [outcome |-> "answered",
                   citations |-> [i \in DOMAIN ids |->
                                     [id |-> ids[i], quote |-> quotes[i]]]])
  <2>1. PICK list : result' = X!Validated(passages,
                                  [outcome |-> "answered", citations |-> list])
    BY <1>4
  <2>2. result'.outcome \in {"answered", "rejected"}
    BY <2>1 DEF X!Validated
  <2>3. ASSUME result'.outcome = "answered", NEW c \in X!Range(result'.citations)
        PROVE  X!Occurrences(passages[c.id], c.quote) = {c.start}
    <3>1. /\ \A b \in X!Range(list) :
                b.id \in DOMAIN passages /\ X!Located(passages[b.id], b.quote)
          /\ result'.citations = [i \in DOMAIN list |->
                 [id |-> list[i].id, quote |-> list[i].quote,
                  start |-> CHOOSE p \in
                      X!Occurrences(passages[list[i].id], list[i].quote) : TRUE]]
      BY <2>1, <2>3 DEF X!Validated
    <3>2. PICK i \in DOMAIN list : c = result'.citations[i]
      BY <2>3, <3>1 DEF X!Range
    <3>3. /\ c.id = list[i].id /\ c.quote = list[i].quote
          /\ c.start = CHOOSE p \in X!Occurrences(passages[c.id], c.quote) : TRUE
      BY <3>1, <3>2
    <3>4. c.id \in DOMAIN passages /\ X!Unique(passages[c.id], c.quote)
      BY <3>1, <3>3 DEF X!Range, X!Located
    <3>5. \E p : X!Occurrences(passages[c.id], c.quote) = {p}
      BY <1>1, <3>4, Passages, OneOccurrence
    <3> QED BY <3>3, <3>5
  <2>4. X!QuotesAreEvidence'
    BY <1>1, <1>2, <2>2, <2>3 DEF X!QuotesAreEvidence, X!Extractive
  <2>5. X!ExcerptsTypeOK'
    BY <1>1, <2>2 DEF ExcerptsInv, X!ExcerptsTypeOK
  <2>6. X!RequirementsAreMet'
    BY <1>1, <1>2 DEF X!RequirementsAreMet, X!Extractive
  <2> QED BY <2>4, <2>5, <2>6 DEF ExcerptsInv
<1> QED BY <1>3, <1>4 DEF X!WriteAnswered, X!Conclude

\* A request that ends nothing, or ends without an answer.
LEMMA RequestStep ==
    ASSUME ExcerptsInv,
           X!AskModel \/ X!RequestLost \/ X!PlanAnswered \/ X!SelectAnswered
    PROVE  ExcerptsInv'
<1>1. profile' = profile /\ passages' = passages /\ checks' = checks
      /\ profile \in X!Profiles /\ passages \in SourceSets /\ stage # "ended"
  BY StagesOf DEF X!AskModel, X!RequestLost, X!PlanAnswered, X!SelectAnswered,
     ExcerptsInv, X!ExcerptsTypeOK
<1>2. \/ stage' = "ended" /\ result' \in {X!FailedAnswer, X!Insufficient}
      \/ stage' \in X!Range(X!Stages(profile)) /\ result' = result
  <2>1. CASE X!AskModel
    BY <1>1, <2>1, StagesOf DEF X!AskModel, X!Conclude
  <2>2. CASE X!RequestLost
    BY <2>2 DEF X!RequestLost, X!Conclude
  <2>3. CASE X!PlanAnswered \/ X!SelectAnswered
    <3>1. stage \in X!Range(X!Stages(profile)) /\ stage \in {"plan", "select"}
          /\ stage' = X!Following(stage) /\ result' = result
      BY <2>3 DEF X!PlanAnswered, X!SelectAnswered, ExcerptsInv, X!ExcerptsTypeOK
    <3> QED BY <1>1, <3>1, FollowingStage
  <2> QED BY <2>1, <2>2, <2>3
<1>3. kinds' \in X!BoundedSeq(X!CheckKinds, MaxChecks)
      /\ selection' \subseteq X!AllUnits(passages)
  BY <1>1 DEF X!AskModel, X!RequestLost, X!PlanAnswered, X!SelectAnswered,
     ExcerptsInv, X!ExcerptsTypeOK, X!CatalogOf, X!Catalog
<1>4. result'.outcome \in {"pending", "failed", "insufficient"}
      /\ ((result'.outcome = "pending") <=> (stage' # "ended"))
  <2>1. result.outcome = "pending" /\ "ended" \notin X!Range(X!Stages(profile))
    BY <1>1, StagesOf DEF ExcerptsInv, X!ExcerptsTypeOK, X!Profiles
  <2> QED BY <1>2, <2>1 DEF X!FailedAnswer, X!Insufficient
<1>5. X!ExcerptsTypeOK'
  BY <1>1, <1>2, <1>3, <1>4 DEF ExcerptsInv, X!ExcerptsTypeOK
<1> QED BY <1>4, <1>5 DEF ExcerptsInv, X!QuotesAreEvidence, X!RequirementsAreMet

LEMMA ExcerptsStay ==
    ASSUME ExcerptsInv, X!ExcerptsNext \/ UNCHANGED excerptVars
    PROVE  ExcerptsInv'
<1>1. CASE UNCHANGED excerptVars
  BY <1>1 DEF excerptVars, ExcerptsInv, X!ExcerptsTypeOK, X!QuotesAreEvidence,
     X!RequirementsAreMet, X!Extractive
<1> QED BY <1>1, VerifyStep, WriteStep, RequestStep DEF X!ExcerptsNext

-----------------------------------------------------------------------------
(* How a text is read from the wire (TextStreams), for streams and texts   *)
(* of any length.                                                          *)

\* The places whose tokens are in the current line or the current event.
Waiting ==
    {i \in DOMAIN stream : i = from \/ \E k \in DOMAIN held : held[k] = i}

LineInv ==
    /\ from \in {Len(stream), Len(stream) + 1}
    /\ from = Len(stream) => stream[from] \notin T!Ends
    /\ from # Len(stream) /\ Len(stream) > 0 => stream[Len(stream)] \in T!Ends
    /\ cr <=> Len(stream) > 0 /\ stream[Len(stream)] = "CR"
    /\ T!InOrder(held) /\ \A k \in DOMAIN held : held[k] < from
    /\ protocol = "ndjson" => held = <<>>
    /\ protocol = "sse" => Len(held) <= 1
    /\ mark = "done" => held = <<>> /\ (protocol # "sse" => from = Len(stream) + 1)
    /\ protocol # "sse" => mark # "last"
    /\ protocol # "ndjson" => observed = text

\* Places of tokens of a kind that are neither applied to it nor waiting.
Lost(said, applied) ==
    {i \in DOMAIN stream : stream[i] \in said} \ (Waiting \cup applied)

\* Every token is applied, waiting, or one that says nothing.
BookInv ==
    /\ T!InOrder(text)
    /\ \A k \in DOMAIN text :
          /\ text[k] \in DOMAIN stream /\ stream[text[k]] \in T!Parts
          /\ \A i \in Waiting : text[k] < i
    /\ Lost(T!Parts, {text[k] : k \in DOMAIN text}) = {}
    /\ Lost({"bad"}, {}) = {}
    /\ mark # "done" => Lost({"done"}, {}) = {}
    /\ mark = "open" => Lost({"final"}, {}) = {}
    /\ mark # "open" =>
          \E end \in DOMAIN stream :
             /\ stream[end] = "final" /\ Lost({"final"}, {end}) = {}
             /\ \A i \in Waiting : end < i
             /\ \A k \in DOMAIN text : text[k] < end
             /\ mark = "done" /\ protocol = "sse" =>
                   \E d \in DOMAIN stream :
                      /\ stream[d] = "done" /\ Lost({"done"}, {d}) = {}
                      /\ end < d /\ \A i \in Waiting : d < i

\* A line of data is held until a blank line ends its event.
HeldInv ==
    protocol # "ndjson" =>
        \A i : (\E k \in DOMAIN held : held[k] = i) <=>
               i \in T!Data /\ i # from /\ \A b \in T!BlankLines : b < i

StreamsInv ==
    /\ T!StreamsTypeOK /\ T!ResultIsTheStream
    /\ reading = "receiving" => LineInv /\ BookInv /\ HeldInv

-----------------------------------------------------------------------------
(* One token more. *)

LEMMA StreamTypes ==
    ASSUME T!StreamsTypeOK
    PROVE  /\ Len(stream) \in Nat /\ DOMAIN stream = 1 .. Len(stream)
           /\ stream \in Seq(T!Alphabet(protocol))
           /\ Len(held) \in Nat /\ DOMAIN held = 1 .. Len(held) /\ held \in Seq(Nat)
           /\ Len(text) \in Nat /\ DOMAIN text = 1 .. Len(text) /\ text \in Seq(Nat)
           /\ \A k \in DOMAIN held : held[k] \in 1 .. MaxStream
           /\ \A k \in DOMAIN text : text[k] \in 1 .. MaxStream
           /\ from \in Nat \ {0}
BY StreamsAssumption DEF T!StreamsTypeOK

LEMMA LineIs ==
    ASSUME T!StreamsTypeOK, LineInv
    PROVE  T!Line = IF from = Len(stream) THEN <<stream[from]>> ELSE <<>>
<1>1. Len(stream) \in Nat /\ stream \in Seq(T!Alphabet(protocol))
      /\ from \in Nat \ {0} /\ from \in {Len(stream), Len(stream) + 1}
  BY StreamTypes DEF LineInv
<1>2. CASE from = Len(stream)
  <2> DEFINE line == SubSeq(stream, from, from)
  <2>1. \A i \in from .. from : stream[i] \in T!Alphabet(protocol)
    BY <1>1, <1>2
  <2>2. /\ line \in Seq(T!Alphabet(protocol)) /\ Len(line) = 1 /\ line[1] = stream[from]
    BY <1>1, <2>1
  <2> HIDE DEF line
  <2>3. line = <<stream[from]>>
    BY <2>2
  <2> QED BY <1>2, <2>3 DEF T!Line, line
<1>3. CASE from # Len(stream)
  <2>1. SubSeq(stream, from, Len(stream)) = <<>>
    BY <1>1, <1>3
  <2> QED BY <1>3, <2>1 DEF T!Line
<1> QED BY <1>2, <1>3

\* What becomes of a record.
LEMMA ApplyCases ==
    ASSUME NEW spot, T!Apply(spot)
    PROVE  \/ reading' = "failed"
           \/ /\ reading' = reading
              /\ \/ /\ stream[spot] \in T!Parts /\ mark = "open" /\ T!Fits
                    /\ text' = Append(text, spot) /\ mark' = mark
                    /\ protocol # "ndjson" => observed' = Append(observed, spot)
                    /\ protocol = "ndjson" => observed' = observed
                 \/ /\ \/ /\ stream[spot] = "final" /\ mark = "open"
                          /\ mark' = IF protocol = "sse" THEN "last" ELSE "done"
                       \/ stream[spot] = "done" /\ mark = "last" /\ mark' = "done"
                       \/ stream[spot] = "other" /\ mark' = mark
                    /\ text' = text /\ observed' = observed
BY DEF T!Apply, T!Parts, T!Deliver, T!Close

\* What becomes of a token that does not end the reading.
LEMMA PushCases ==
    ASSUME T!StreamsTypeOK, LineInv, NEW t \in T!Alphabet(protocol), T!Push(t)
    PROVE  /\ stream' = Append(stream, t) /\ protocol' = protocol
           /\ Len(stream) < MaxStream /\ reading = "receiving"
           /\ \/ reading' = "failed"
              \/ /\ reading' = reading
                 /\ t \notin T!Ends /\ from = Len(stream) + 1
                 /\ protocol = "sse" \/ mark # "done"
                 /\ UNCHANGED <<from, held, mark, text, observed>>
              \/ /\ reading' = reading
                 /\ t \in T!Ends /\ from' = Len(stream) + 2
                 /\ \/ from = Len(stream) /\ stream[from] = "note"
                    \/ from # Len(stream) /\ held = <<>>
                    \/ from # Len(stream) /\ T!SecondHalf(t)
                 /\ UNCHANGED <<held, mark, text, observed>>
              \/ /\ reading' = reading
                 /\ t \in T!Ends /\ from' = Len(stream) + 2
                 /\ from = Len(stream) /\ stream[from] # "note"
                 /\ held' = Append(held, from) /\ protocol # "ndjson"
                 /\ protocol = "sse" => held = <<>> /\ mark # "done"
                 /\ UNCHANGED <<mark, text, observed>>
              \/ /\ t \in T!Ends /\ from' = Len(stream) + 2 /\ held' = <<>>
                 /\ \E spot :
                       /\ T!Apply(spot)
                       /\ \/ /\ from = Len(stream) /\ spot = from /\ held = <<>>
                             /\ protocol = "ndjson"
                          \/ /\ from # Len(stream) /\ held # <<>>
                             /\ spot = held[Len(held)]
                             /\ protocol # "ndjson" /\ (protocol = "events" => ~T!SecondHalf(t))
                             /\ \A k \in 1 .. Len(held) - 1 : stream[held[k]] = "head"
<1>1. /\ stream' = Append(stream, t) /\ protocol' = protocol
      /\ Len(stream) < MaxStream /\ reading = "receiving"
  BY DEF T!Push
<1>2. T!Line = IF from = Len(stream) THEN <<stream[from]>> ELSE <<>>
  BY LineIs
<1>3. /\ Len(stream) \in Nat /\ Len(held) \in Nat /\ held \in Seq(Nat)
      /\ from \in {Len(stream), Len(stream) + 1}
  BY StreamTypes DEF LineInv
<1>4. /\ T!Line = <<>> => from # Len(stream)
      /\ T!Line # <<>> => from = Len(stream)
      /\ T!Line = <<"note">> <=> from = Len(stream) /\ stream[from] = "note"
  BY <1>2
<1>5. held # <<>> /\ Len(held) <= 1 => Len(held) = 1 /\ 1 .. Len(held) - 1 = {}
  <2>1. held # <<>> => Len(held) # 0
    BY <1>3
  <2>2. \A m \in Nat : m # 0 /\ m <= 1 => m = 1 /\ 1 .. m - 1 = {}
    OBVIOUS
  <2> QED BY <1>3, <2>1, <2>2
<1>6. CASE t \notin T!Ends
  <2>1. T!Line = <<>> /\ T!Content
    BY <1>6 DEF T!Push
  <2> QED BY <1>1, <1>3, <1>4, <1>6, <2>1 DEF T!Content, T!Fail, T!Skip
<1>7. CASE t \in T!Ends /\ protocol = "sse"
  <2>1. T!SseLine
    BY <1>7 DEF T!Push
  <2>2. Len(held) <= 1
    BY <1>7 DEF LineInv
  <2>3. T!Skip => UNCHANGED <<mark, text, observed, reading>>
    BY DEF T!Skip
  <2>4. T!Line \notin {<<>>, <<"note">>} =>
            from = Len(stream) /\ stream[from] # "note"
    BY <1>4
  <2>5. held = <<>> => <<from>> = Append(held, from)
    OBVIOUS
  <2> HIDE DEF T!Skip
  <2>6. CASE T!Line = <<>> /\ held # <<>> /\ T!Apply(held[1]) /\ held' = <<>>
    BY <1>1, <1>4, <1>5, <1>7, <2>1, <2>2, <2>6 DEF T!SseLine
  <2>7. CASE T!Line = <<>> /\ held = <<>> /\ T!Skip /\ UNCHANGED held
    BY <1>1, <1>4, <1>7, <2>1, <2>3, <2>7 DEF T!SseLine
  <2>8. CASE T!Line = <<"note">> /\ mark # "done" /\ T!Skip /\ UNCHANGED held
    BY <1>1, <1>4, <1>7, <2>1, <2>3, <2>8 DEF T!SseLine
  <2>9. CASE /\ T!Line \notin {<<>>, <<"note">>} /\ held = <<>> /\ mark # "done"
             /\ held' = <<from>> /\ T!Skip
    BY <1>1, <1>7, <2>1, <2>3, <2>4, <2>5, <2>9 DEF T!SseLine
  <2> QED BY <1>1, <2>1, <2>6, <2>7, <2>8, <2>9 DEF T!SseLine
<1>8. CASE t \in T!Ends /\ protocol = "ndjson"
  <2>1. T!JsonLine /\ held = <<>>
    BY <1>8 DEF T!Push, LineInv
  <2>2. T!Fail => reading' = "failed"
    BY DEF T!Fail
  <2> QED BY <1>1, <1>4, <1>8, <2>1, <2>2 DEF T!JsonLine
<1>9. CASE t \in T!Ends /\ protocol = "events"
  <2>1. T!EventLine(t)
    BY <1>9 DEF T!Push
  <2>2. T!SecondHalf(t) => from # Len(stream)
    BY DEF T!SecondHalf, LineInv, T!Ends
  <2>3. T!Skip => UNCHANGED <<mark, text, observed, reading>>
    BY DEF T!Skip
  <2>4. T!Line \notin {<<>>, <<"note">>} =>
            from = Len(stream) /\ stream[from] # "note"
    BY <1>4
  <2>5. from' = Len(stream) + 2
    BY <2>1 DEF T!EventLine
  <2>6. CASE T!SecondHalf(t) /\ T!Skip /\ UNCHANGED held
    BY <1>1, <1>9, <2>2, <2>3, <2>5, <2>6
  <2>7. CASE T!Line = <<>> /\ held = <<>> /\ T!Skip /\ UNCHANGED held
    BY <1>1, <1>4, <1>9, <2>3, <2>5, <2>7
  <2>8. CASE T!Line = <<>> /\ held # <<>> /\ T!Dispatch /\ ~T!SecondHalf(t)
    <3>1. CASE T!Whole /\ T!Apply(T!Last(held)) /\ held' = <<>>
      <4>1. T!Last(held) = held[Len(held)] /\ from # Len(stream)
        BY <1>4, <2>8 DEF T!Last
      <4>2. \A k \in 1 .. Len(held) - 1 : stream[held[k]] = "head"
        BY <1>3, <3>1 DEF T!Whole
      <4> QED BY <1>1, <1>9, <2>5, <2>8, <3>1, <4>1, <4>2
    <3>2. CASE reading' = "failed"
      BY <1>1, <3>2
    <3> QED BY <2>8, <3>1, <3>2 DEF T!Dispatch
  <2>9. CASE T!Line = <<"note">> /\ T!Skip /\ UNCHANGED held
    BY <1>1, <1>4, <1>9, <2>3, <2>5, <2>9
  <2>10. CASE /\ T!Line \notin {<<>>, <<"note">>}
              /\ held' = Append(held, from) /\ T!Skip
    BY <1>1, <1>9, <2>3, <2>4, <2>5, <2>10
  <2> QED BY <1>1, <2>1, <2>6, <2>7, <2>8, <2>9, <2>10 DEF T!EventLine
<1>10. protocol \in {"sse", "ndjson", "events"}
  BY DEF T!StreamsTypeOK, T!Protocols
<1> QED BY <1>6, <1>7, <1>8, <1>9, <1>10

\* Tokens are kept that are not dropped with their line, and of those that
\* are dropped nothing is to be said.
LEMMA KeptBook ==
    ASSUME T!StreamsTypeOK, BookInv, NEW t \in T!Alphabet(protocol),
           stream' = Append(stream, t), text' = text, mark' = mark,
           protocol' = protocol, Waiting' \subseteq Waiting \cup {Len(stream) + 1},
           \A i \in Waiting \ Waiting' : stream[i] \in {"note", "head", "other"},
           Len(stream) + 1 \in Waiting' \/ t \in T!Ends
    PROVE  BookInv'
<1> DEFINE n == Len(stream)
<1>1. /\ n \in Nat /\ DOMAIN stream = 1 .. n /\ DOMAIN stream' = 1 .. n + 1
      /\ \A i \in 1 .. n : stream'[i] = stream[i]
      /\ stream'[n + 1] = t
      /\ \A k \in DOMAIN text : text[k] \in Nat
  BY StreamTypes
<1> HIDE DEF n
<1>2. \A said, applied :
         /\ Lost(said, applied) = {}
         /\ said \cap {"note", "head", "other"} = {} /\ said \cap T!Ends = {}
         => Lost(said, applied)' = {}
  <2> SUFFICES ASSUME NEW said, NEW applied, Lost(said, applied) = {},
                      said \cap {"note", "head", "other"} = {}, said \cap T!Ends = {},
                      NEW i \in 1 .. n + 1, stream'[i] \in said,
                      i \notin Waiting', i \notin applied
               PROVE  FALSE
    BY <1>1 DEF Lost
  <2>1. CASE i = n + 1
    BY <1>1, <2>1 DEF n
  <2>2. CASE i # n + 1
    <3>1. i \in 1 .. n /\ stream[i] \in said
      BY <1>1, <2>2
    <3>2. i \in Waiting
      BY <1>1, <3>1 DEF Lost
    <3> QED BY <3>1, <3>2
  <2> QED BY <2>1, <2>2
<1>3. Waiting' \subseteq Waiting \cup {n + 1} /\ \A k \in DOMAIN text : text[k] \in 1 .. n
  BY <1>1 DEF BookInv, n
<1>4. T!InOrder(text)' /\ \A k \in DOMAIN text' :
          /\ text'[k] \in DOMAIN stream' /\ stream'[text'[k]] \in T!Parts
          /\ \A i \in Waiting' : text'[k] < i
  <2>1. T!InOrder(text)'
    BY DEF BookInv, T!InOrder
  <2>2. ASSUME NEW k \in DOMAIN text
        PROVE  /\ text[k] \in DOMAIN stream' /\ stream'[text[k]] \in T!Parts
               /\ \A i \in Waiting' : text[k] < i
    <3>1. text[k] \in 1 .. n /\ stream[text[k]] \in T!Parts
          /\ \A i \in Waiting : text[k] < i
      BY <1>1, <1>3 DEF BookInv
    <3>2. text[k] < n + 1
      BY <1>1, <3>1
    <3> QED BY <1>1, <1>3, <3>1, <3>2
  <2> QED BY <2>1, <2>2
<1>5. /\ Lost(T!Parts, {text[k] : k \in DOMAIN text})' = {}
      /\ Lost({"bad"}, {})' = {}
      /\ mark # "done" => Lost({"done"}, {})' = {}
      /\ mark = "open" => Lost({"final"}, {})' = {}
  <2> DEFINE applied == {text[k] : k \in DOMAIN text}
  <2>1. Lost(T!Parts, applied)' = {}
    <3>1. applied' = applied /\ Lost(T!Parts, applied) = {}
      BY DEF BookInv
    <3> HIDE DEF applied
    <3> QED BY <1>2, <3>1 DEF T!Parts, T!Ends, Lost
  <2> QED BY <1>2, <2>1 DEF T!Ends, BookInv
<1>6. ASSUME mark # "open"
      PROVE  \E end \in DOMAIN stream' :
             /\ stream'[end] = "final" /\ Lost({"final"}, {end})' = {}
             /\ \A i \in Waiting' : end < i
             /\ \A k \in DOMAIN text' : text'[k] < end
             /\ mark = "done" /\ protocol = "sse" =>
                   \E d \in DOMAIN stream' :
                      /\ stream'[d] = "done" /\ Lost({"done"}, {d})' = {}
                      /\ end < d /\ \A i \in Waiting' : d < i
  <2>1. PICK end \in 1 .. n :
             /\ stream[end] = "final" /\ Lost({"final"}, {end}) = {}
             /\ \A i \in Waiting : end < i
             /\ \A k \in DOMAIN text : text[k] < end
             /\ mark = "done" /\ protocol = "sse" =>
                   \E d \in 1 .. n :
                      /\ stream[d] = "done" /\ Lost({"done"}, {d}) = {}
                      /\ end < d /\ \A i \in Waiting : d < i
    BY <1>1, <1>6 DEF BookInv
  <2>2. end \in 1 .. n + 1 /\ stream'[end] = "final" /\ end < n + 1
    BY <1>1, <2>1
  <2>3. Lost({"final"}, {end})' = {}
    BY <1>2, <2>1 DEF T!Ends
  <2>4. \A i \in Waiting' : end < i
    BY <1>3, <2>1, <2>2
  <2>5. mark = "done" /\ protocol = "sse" =>
           \E d \in DOMAIN stream' :
              /\ stream'[d] = "done" /\ Lost({"done"}, {d})' = {} /\ end < d
              /\ \A i \in Waiting' : d < i
    <3> SUFFICES ASSUME mark = "done", protocol = "sse"
                 PROVE  \E d \in DOMAIN stream' :
                          /\ stream'[d] = "done" /\ Lost({"done"}, {d})' = {}
                          /\ end < d /\ \A i \in Waiting' : d < i
      OBVIOUS
    <3>1. PICK d \in 1 .. n : /\ stream[d] = "done" /\ Lost({"done"}, {d}) = {}
                              /\ end < d /\ \A i \in Waiting : d < i
      BY <2>1
    <3>2. Lost({"done"}, {d})' = {}
      BY <1>2, <3>1 DEF T!Ends
    <3>3. d \in DOMAIN stream' /\ stream'[d] = "done" /\ d < n + 1
      BY <1>1, <3>1
    <3>4. \A i \in Waiting' : d < i
      BY <1>3, <3>1, <3>3
    <3> QED BY <3>1, <3>2, <3>3, <3>4
  <2> QED BY <1>1, <2>1, <2>2, <2>3, <2>4, <2>5
<1> QED BY <1>4, <1>5, <1>6 DEF BookInv

\* A record that is applied says a part, an end, or nothing.
LEMMA AppliedBook ==
    ASSUME T!StreamsTypeOK, LineInv, BookInv, NEW t \in T!Alphabet(protocol) \cap T!Ends,
           stream' = Append(stream, t), protocol' = protocol,
           NEW spot, T!Apply(spot), reading' = reading, reading = "receiving",
           spot \in DOMAIN stream, spot \in Waiting, Waiting' = {},
           \A i \in Waiting : i = spot \/ stream[i] = "head"
    PROVE  BookInv'
<1> DEFINE n == Len(stream)
<1>1. /\ n \in Nat /\ DOMAIN stream = 1 .. n /\ DOMAIN stream' = 1 .. n + 1
      /\ \A i \in 1 .. n : stream'[i] = stream[i]
      /\ stream'[n + 1] \in T!Ends /\ spot \in 1 .. n
  BY StreamTypes
<1>2. /\ Len(text) \in Nat /\ DOMAIN text = 1 .. Len(text) /\ text \in Seq(Nat)
      /\ \A k \in DOMAIN text : text[k] \in 1 .. n /\ text[k] < spot
  <2>1. \A k \in DOMAIN text : text[k] \in DOMAIN stream /\ text[k] < spot
    BY DEF BookInv
  <2> QED BY <1>1, <2>1, StreamTypes
<1> HIDE DEF n
<1>3. \A said, applied :
         /\ Lost(said, applied) = {} /\ said \cap T!Ends = {} /\ "head" \notin said
         => /\ Lost(said, applied \cup {spot})' = {}
            /\ stream[spot] \notin said => Lost(said, applied)' = {}
  <2> SUFFICES ASSUME NEW said, NEW applied, Lost(said, applied) = {},
                      said \cap T!Ends = {}, "head" \notin said,
                      NEW i \in 1 .. n + 1, stream'[i] \in said, i \notin applied
               PROVE  i = spot /\ stream[spot] \in said
    BY <1>1 DEF Lost
  <2>1. i \in 1 .. n /\ stream[i] \in said
    BY <1>1
  <2> QED BY <1>1, <2>1 DEF Lost
<1> DEFINE places == {text[k] : k \in DOMAIN text}
<1>4. /\ T!InOrder(text) /\ \A k \in DOMAIN text : stream[text[k]] \in T!Parts
      /\ Lost(T!Parts, places) = {} /\ Lost({"bad"}, {}) = {}
      /\ mark # "done" => Lost({"done"}, {}) = {}
      /\ mark = "open" => Lost({"final"}, {}) = {}
  BY DEF BookInv
<1>5. CASE /\ stream[spot] \in T!Parts /\ mark = "open"
           /\ text' = Append(text, spot) /\ mark' = mark
  <2>1. /\ Len(text') = Len(text) + 1 /\ DOMAIN text' = 1 .. Len(text) + 1
        /\ \A k \in 1 .. Len(text) : text'[k] = text[k]
        /\ text'[Len(text) + 1] = spot
    BY <1>1, <1>2, <1>5
  <2>2. \A k \in DOMAIN text' :
           text'[k] \in DOMAIN stream' /\ stream'[text'[k]] \in T!Parts
    <3> SUFFICES ASSUME NEW k \in 1 .. Len(text) + 1
                 PROVE  text'[k] \in 1 .. n /\ stream[text'[k]] \in T!Parts
      BY <1>1, <2>1
    <3>1. CASE k = Len(text) + 1
      BY <1>1, <1>5, <2>1, <3>1
    <3>2. CASE k \in 1 .. Len(text)
      BY <1>2, <1>4, <2>1, <3>2
    <3> QED BY <1>2, <3>1, <3>2
  <2>3. T!InOrder(text)'
    <3> SUFFICES ASSUME NEW i \in 1 .. Len(text) + 1, NEW j \in 1 .. Len(text) + 1,
                        i < j
                 PROVE  text'[i] < text'[j]
      BY <2>1 DEF T!InOrder
    <3>1. i \in 1 .. Len(text) /\ text'[i] = text[i]
      BY <1>2, <2>1
    <3>2. CASE j = Len(text) + 1
      BY <1>2, <2>1, <3>1, <3>2
    <3>3. CASE j \in 1 .. Len(text)
      BY <1>2, <1>4, <2>1, <3>1, <3>3 DEF T!InOrder
    <3> QED BY <1>2, <3>2, <3>3, SMTT(60)
  <2>4. {text'[k] : k \in DOMAIN text'} = places \cup {spot}
    <3>1. \A k \in DOMAIN text' : text'[k] \in places \cup {spot}
      <4> SUFFICES ASSUME NEW k \in 1 .. Len(text) + 1
                   PROVE  text'[k] \in places \cup {spot}
        BY <2>1
      <4>1. k = Len(text) + 1 \/ k \in 1 .. Len(text)
        BY <1>2
      <4> QED BY <1>2, <2>1, <4>1
    <3>2. \A k \in DOMAIN text : k \in DOMAIN text' /\ text'[k] = text[k]
      BY <1>2, <2>1
    <3>3. Len(text) + 1 \in DOMAIN text'
      BY <1>2, <2>1
    <3> QED BY <2>1, <3>1, <3>2, <3>3
  <2>5. Lost(T!Parts, {text[k] : k \in DOMAIN text})' = {}
    <3> HIDE DEF places
    <3>1. PICK was : was = places
      OBVIOUS
    <3>2. Lost(T!Parts, was) = {}
      BY <1>4, <3>1 DEF places
    <3>3. T!Parts \cap T!Ends = {} /\ "head" \notin T!Parts
      BY DEF T!Parts, T!Ends
    <3>4. Lost(T!Parts, was \cup {spot})' = {}
      BY <1>3, <3>2, <3>3
    <3>5. places' = was \cup {spot}
      BY <2>4, <3>1 DEF places
    <3>6. Lost(T!Parts, places)' = {}
      BY <3>4, <3>5 DEF Lost
    <3> QED BY <3>6 DEF places
  <2>6. /\ Lost({"bad"}, {})' = {} /\ Lost({"done"}, {})' = {}
        /\ Lost({"final"}, {})' = {}
    <3>1. stream[spot] \notin {"bad", "done", "final"}
      BY <1>5 DEF T!Parts
    <3>2. /\ {"bad"} \cap T!Ends = {} /\ {"done"} \cap T!Ends = {}
          /\ {"final"} \cap T!Ends = {}
      BY DEF T!Ends
    <3>3. Lost({"bad"}, {}) = {} /\ Lost({"done"}, {}) = {} /\ Lost({"final"}, {}) = {}
      BY <1>4, <1>5
    <3>4. Lost({"bad"}, {})' = {}
      BY <1>3, <3>1, <3>2, <3>3
    <3>5. Lost({"done"}, {})' = {}
      BY <1>3, <3>1, <3>2, <3>3
    <3>6. Lost({"final"}, {})' = {}
      BY <1>3, <3>1, <3>2, <3>3
    <3> QED BY <3>4, <3>5, <3>6
  <2> QED BY <1>5, <2>2, <2>3, <2>5, <2>6 DEF BookInv
<1>6. ASSUME stream[spot] \notin T!Parts, text' = text, stream[spot] # "bad"
      PROVE  /\ T!InOrder(text)' /\ \A k \in DOMAIN text' :
                   text'[k] \in DOMAIN stream' /\ stream'[text'[k]] \in T!Parts
             /\ Lost(T!Parts, {text[k] : k \in DOMAIN text})' = {}
             /\ Lost({"bad"}, {})' = {}
  <2>1. \A k \in DOMAIN text : text[k] \in 1 .. n + 1 /\ stream'[text[k]] \in T!Parts
    BY <1>1, <1>2, <1>4
  <2>2. T!InOrder(text)'
    BY <1>4, <1>6 DEF T!InOrder
  <2>3. Lost(T!Parts, places)' = {}
    <3>1. places' = places
      BY <1>6
    <3> HIDE DEF places
    <3> QED BY <1>3, <1>4, <1>6, <3>1 DEF T!Parts, T!Ends, Lost
  <2>4. Lost({"bad"}, {})' = {}
    BY <1>3, <1>4, <1>6, ZenonT(60) DEF T!Ends
  <2> QED BY <1>1, <1>6, <2>1, <2>2, <2>3, <2>4
<1>7. CASE /\ stream[spot] = "final" /\ mark = "open" /\ text' = text
           /\ mark' = IF protocol = "sse" THEN "last" ELSE "done"
  <2>1. Lost({"final"}, {spot})' = {}
    BY <1>3, <1>4, <1>7 DEF T!Ends
  <2>2. Lost({"done"}, {})' = {}
    BY <1>3, <1>4, <1>7, ZenonT(60) DEF T!Ends
  <2>3. spot \in DOMAIN stream' /\ stream'[spot] = "final"
    BY <1>1, <1>7
  <2>4. \A k \in DOMAIN text' : text'[k] < spot
    BY <1>2, <1>7
  <2>5. mark' # "open" /\ ~(mark' = "done" /\ protocol' = "sse")
    BY <1>7
  <2>6. stream[spot] \notin T!Parts /\ stream[spot] # "bad"
    BY <1>7 DEF T!Parts
  <2> QED BY <1>6, <1>7, <2>1, <2>2, <2>3, <2>4, <2>5, <2>6 DEF BookInv
<1>8. CASE stream[spot] = "done" /\ mark = "last" /\ mark' = "done" /\ text' = text
  <2>1. PICK end \in 1 .. n :
             /\ stream[end] = "final" /\ Lost({"final"}, {end}) = {}
             /\ end < spot
             /\ \A k \in DOMAIN text : text[k] < end
    BY <1>1, <1>8 DEF BookInv
  <2>2. Lost({"final"}, {end})' = {}
    BY <1>3, <1>8, <2>1 DEF T!Ends
  <2>3. Lost({"done"}, {spot})' = {}
    BY <1>3, <1>4, <1>8 DEF T!Ends
  <2>4. /\ spot \in DOMAIN stream' /\ stream'[spot] = "done"
        /\ end \in DOMAIN stream' /\ stream'[end] = "final"
    BY <1>1, <1>8, <2>1
  <2>5. stream[spot] \notin T!Parts /\ stream[spot] # "bad"
    BY <1>8 DEF T!Parts
  <2> QED BY <1>6, <1>8, <2>1, <2>2, <2>3, <2>4, <2>5 DEF BookInv
<1>9. CASE stream[spot] = "other" /\ mark' = mark /\ text' = text
  BY <1>9, KeptBook
<1> QED BY <1>5, <1>7, <1>8, <1>9, ApplyCases

LEMMA StreamGrows ==
    ASSUME T!StreamsTypeOK, NEW t \in T!Alphabet(protocol), stream' = Append(stream, t)
    PROVE  /\ Len(stream') = Len(stream) + 1 /\ Len(stream) \in Nat
           /\ DOMAIN stream' = 1 .. Len(stream) + 1 /\ DOMAIN stream = 1 .. Len(stream)
           /\ \A i \in 1 .. Len(stream) : stream'[i] = stream[i]
           /\ stream'[Len(stream) + 1] = t
BY StreamTypes

LEMMA HeldGrows ==
    ASSUME T!StreamsTypeOK, held' = Append(held, from)
    PROVE  /\ Len(held') = Len(held) + 1
           /\ DOMAIN held' = 1 .. Len(held) + 1 /\ DOMAIN held = 1 .. Len(held)
           /\ \A k \in 1 .. Len(held) : held'[k] = held[k]
           /\ held'[Len(held) + 1] = from
BY StreamTypes

\* How lines and events hold and release the places of tokens.
LEMMA PushKeepsBooks ==
    ASSUME T!StreamsTypeOK, LineInv, BookInv,
           NEW t \in T!Alphabet(protocol), T!Push(t), reading' # "failed"
    PROVE  LineInv' /\ BookInv' /\ reading' = "receiving"
<1> DEFINE n == Len(stream)
<1>1. /\ stream' = Append(stream, t) /\ protocol' = protocol
      /\ reading = "receiving"
  BY PushCases
<1>2. /\ n \in Nat /\ Len(stream') = n + 1 /\ DOMAIN stream = 1 .. n
      /\ DOMAIN stream' = 1 .. n + 1 /\ stream'[n + 1] = t
      /\ \A i \in 1 .. n : stream'[i] = stream[i]
  BY <1>1, StreamGrows
<1>3. /\ DOMAIN held = 1 .. Len(held) /\ Len(held) \in Nat
      /\ \A k \in DOMAIN held : held[k] \in Nat \ {0} /\ held[k] < from
      /\ from \in Nat \ {0} /\ from \in {n, n + 1}
      /\ from = n => stream[from] \notin T!Ends
  BY StreamTypes DEF LineInv
<1>4. \A i : i \in Waiting <=>
             i \in 1 .. n /\ (i = from \/ \E k \in DOMAIN held : held[k] = i)
  BY <1>2 DEF Waiting
<1>5. \A i : i \in Waiting' <=>
             i \in 1 .. n + 1 /\ (i = from' \/ \E k \in DOMAIN held' : held'[k] = i)
  BY <1>2 DEF Waiting
<1>6. cr' <=> Len(stream') > 0 /\ stream'[Len(stream')] = "CR"
  <2>1. protocol # "events" => "CR" \notin T!Alphabet(protocol)
    BY DEF T!Alphabet, T!StreamsTypeOK, T!Protocols, T!Parts
  <2>2. protocol # "events" => ~cr
    <3>1. Len(stream) > 0 => stream[Len(stream)] \in T!Alphabet(protocol)
      <4>1. Len(stream) > 0 => Len(stream) \in 1 .. Len(stream)
        BY <1>2
      <4> QED BY <4>1, StreamTypes
    <3> QED BY <2>1, <3>1 DEF LineInv
  <2>3. cr' <=> t = "CR"
    <3>1. CASE t \notin T!Ends
      BY <3>1, PushCases DEF T!Push, T!Content, T!Fail, T!Ends
    <3>2. CASE t \in T!Ends /\ protocol = "sse"
      BY <2>1, <2>2, <3>2 DEF T!Push, T!SseLine
    <3>3. CASE t \in T!Ends /\ protocol = "ndjson"
      BY <2>1, <2>2, <3>3 DEF T!Push, T!JsonLine, T!Fail
    <3>4. CASE t \in T!Ends /\ protocol = "events"
      BY <3>4 DEF T!Push, T!EventLine, T!SecondHalf
    <3> QED BY <3>1, <3>2, <3>3, <3>4 DEF T!StreamsTypeOK, T!Protocols
  <2>4. Len(stream') > 0 /\ stream'[Len(stream')] = t
    BY <1>2
  <2> QED BY <2>3, <2>4
<1> HIDE DEF n
<1>7. CASE /\ reading' = reading /\ t \notin T!Ends /\ from = n + 1
           /\ protocol = "sse" \/ mark # "done"
           /\ UNCHANGED <<from, held, mark, text, observed>>
  <2>1. T!InOrder(held)' <=> T!InOrder(held)
    BY <1>7 DEF T!InOrder
  <2>2. LineInv'
    BY <1>1, <1>2, <1>6, <1>7, <2>1 DEF LineInv
  <2>3. /\ Waiting' \subseteq Waiting \cup {n + 1} /\ n + 1 \in Waiting'
        /\ Waiting \subseteq Waiting'
    BY <1>2, <1>4, <1>5, <1>7
  <2> QED BY <1>1, <1>7, <2>2, <2>3, KeptBook DEF n
<1>8. CASE /\ reading' = reading /\ t \in T!Ends /\ from' = n + 2
           /\ from = n => stream[from] = "note"
           /\ UNCHANGED <<held, mark, text, observed>>
  <2>1. LineInv'
    <3>1. \A k \in DOMAIN held' : held'[k] < from'
      BY <1>2, <1>3, <1>8
    <3>2. T!InOrder(held)' <=> T!InOrder(held)
      BY <1>8 DEF T!InOrder
    <3>3. from' = Len(stream') + 1 /\ from' # Len(stream') /\ stream'[Len(stream')] \in T!Ends
      BY <1>2, <1>8
    <3> QED BY <1>1, <1>6, <1>8, <3>1, <3>2, <3>3 DEF LineInv
  <2>2. Waiting' \subseteq Waiting
    <3> SUFFICES ASSUME NEW i \in Waiting' PROVE i \in Waiting
      OBVIOUS
    <3>1. PICK k \in DOMAIN held : held[k] = i
      BY <1>2, <1>5, <1>8
    <3>2. i \in 1 .. n
      BY <1>2, <1>3, <3>1
    <3> QED BY <1>4, <3>1, <3>2
  <2>3. \A i \in Waiting \ Waiting' : stream[i] = "note"
    <3> SUFFICES ASSUME NEW i \in Waiting, i \notin Waiting' PROVE stream[i] = "note"
      OBVIOUS
    <3>1. i \in 1 .. n /\ i \in 1 .. n + 1
      BY <1>2, <1>4
    <3>2. i = from
      BY <1>4, <1>5, <1>8, <3>1
    <3> QED BY <1>2, <1>3, <1>8, <3>1, <3>2
  <2> QED BY <1>1, <1>8, <2>1, <2>2, <2>3, KeptBook DEF n
<1>9. CASE /\ reading' = reading /\ t \in T!Ends /\ from' = n + 2
           /\ from = n /\ stream[from] # "note"
           /\ held' = Append(held, from) /\ protocol # "ndjson"
           /\ protocol = "sse" => held = <<>> /\ mark # "done"
           /\ UNCHANGED <<mark, text, observed>>
  <2>1. /\ Len(held') = Len(held) + 1 /\ DOMAIN held' = 1 .. Len(held) + 1
        /\ \A k \in 1 .. Len(held) : held'[k] = held[k]
        /\ held'[Len(held) + 1] = from
    BY <1>9, HeldGrows
  <2>2. mark # "done"
    <3>1. CASE protocol = "sse"
      BY <1>9, <3>1
    <3>2. CASE protocol # "sse"
      <4>1. mark = "done" => from = n + 1
        BY <3>2 DEF LineInv, n
      <4>2. n # n + 1
        BY <1>2
      <4> QED BY <1>9, <4>1, <4>2
    <3> QED BY <3>1, <3>2
  <2>3. LineInv'
    <3>1. \A k \in DOMAIN held' : held'[k] < from'
      <4> SUFFICES ASSUME NEW k \in 1 .. Len(held) + 1 PROVE held'[k] < from'
        BY <2>1
      <4>1. CASE k = Len(held) + 1
        BY <1>2, <1>3, <1>9, <2>1, <4>1
      <4>2. CASE k \in 1 .. Len(held)
        BY <1>2, <1>3, <1>9, <2>1, <4>2
      <4> QED BY <1>3, <4>1, <4>2
    <3>2. protocol' = "sse" => Len(held') <= 1
      BY <1>1, <1>9, <2>1
    <3>3. from' = Len(stream') + 1
      BY <1>2, <1>9
    <3>4. from' # Len(stream') /\ stream'[Len(stream')] \in T!Ends
      BY <1>2, <1>9, <3>3
    <3>5. T!InOrder(held)'
      <4> SUFFICES ASSUME NEW i \in 1 .. Len(held) + 1, NEW j \in 1 .. Len(held) + 1,
                          i < j
                   PROVE  held'[i] < held'[j]
        BY <2>1 DEF T!InOrder
      <4>1. i \in 1 .. Len(held) /\ held'[i] = held[i] /\ i \in DOMAIN held
        BY <1>3, <2>1
      <4>2. CASE j = Len(held) + 1
        BY <1>3, <2>1, <4>1, <4>2
      <4>3. CASE j \in 1 .. Len(held)
        <5>1. held[i] < held[j]
          BY <1>3, <4>1, <4>3 DEF LineInv, T!InOrder
        <5> QED BY <2>1, <4>1, <4>3, <5>1
      <4> QED BY <1>3, <4>2, <4>3
    <3> QED BY <1>1, <1>6, <1>9, <2>2, <3>1, <3>2, <3>3, <3>4, <3>5 DEF LineInv
  <2>4. Waiting' \subseteq Waiting
    <3> SUFFICES ASSUME NEW i \in Waiting' PROVE i \in Waiting
      OBVIOUS
    <3>1. PICK k \in 1 .. Len(held) + 1 : held'[k] = i
      BY <1>2, <1>5, <1>9, <2>1
    <3>2. CASE k = Len(held) + 1
      BY <1>2, <1>3, <1>4, <1>9, <2>1, <3>1, <3>2
    <3>3. CASE k \in 1 .. Len(held)
      <4>1. held[k] = i /\ i \in 1 .. n /\ k \in DOMAIN held
        BY <1>2, <1>3, <1>9, <2>1, <3>1, <3>3
      <4> QED BY <1>4, <4>1
    <3> QED BY <1>3, <3>2, <3>3
  <2>5. Waiting \subseteq Waiting'
    <3> SUFFICES ASSUME NEW i \in Waiting PROVE i \in Waiting'
      OBVIOUS
    <3>1. i \in 1 .. n + 1
      BY <1>2, <1>4
    <3>2. CASE i = from
      <4>1. Len(held) + 1 \in DOMAIN held' /\ held'[Len(held) + 1] = i
        BY <1>3, <2>1, <3>2
      <4> QED BY <1>5, <3>1, <4>1
    <3>3. ASSUME NEW k \in DOMAIN held, held[k] = i PROVE i \in Waiting'
      <4>1. k \in DOMAIN held' /\ held'[k] = i
        BY <1>3, <2>1, <3>3
      <4> QED BY <1>5, <3>1, <4>1
    <3> QED BY <1>4, <3>2, <3>3
  <2> QED BY <1>1, <1>9, <2>3, <2>4, <2>5, KeptBook DEF n
<1>10. CASE /\ t \in T!Ends /\ from' = n + 2 /\ held' = <<>>
            /\ \E spot :
                  /\ T!Apply(spot)
                  /\ \/ from = n /\ spot = from /\ held = <<>>
                     \/ /\ from # n /\ held # <<>> /\ spot = held[Len(held)]
                        /\ \A k \in 1 .. Len(held) - 1 : stream[held[k]] = "head"
  <2>1. PICK spot : /\ T!Apply(spot)
                    /\ \/ from = n /\ spot = from /\ held = <<>>
                       \/ /\ from # n /\ held # <<>> /\ spot = held[Len(held)]
                          /\ \A k \in 1 .. Len(held) - 1 : stream[held[k]] = "head"
    BY <1>10
  <2>2. reading' = reading
    BY <2>1, ApplyCases
  <2>3. /\ spot \in 1 .. n /\ spot \in Waiting
        /\ \A i \in Waiting : i = spot \/ stream[i] = "head"
    <3>1. CASE from = n /\ spot = from /\ held = <<>>
      BY <1>2, <1>3, <1>4, <3>1
    <3>2. CASE /\ from # n /\ held # <<>> /\ spot = held[Len(held)]
               /\ \A k \in 1 .. Len(held) - 1 : stream[held[k]] = "head"
      <4>1. Len(held) # 0
        BY <3>2, StreamTypes
      <4>2. Len(held) \in DOMAIN held /\ from = n + 1 /\ from \notin 1 .. n
        BY <1>2, <1>3, <3>2, <4>1
      <4>3. spot \in 1 .. n
        BY <1>2, <1>3, <3>2, <4>2
      <4>4. \A k \in DOMAIN held : k = Len(held) \/ k \in 1 .. Len(held) - 1
        BY <1>3
      <4> QED BY <1>4, <3>2, <4>2, <4>3, <4>4
    <3> QED BY <2>1, <3>1, <3>2
  <2>5. Waiting' = {}
    <3>1. from' \notin 1 .. n + 1 /\ DOMAIN held' = {}
      BY <1>2, <1>10
    <3> QED BY <1>5, <3>1
  <2>6. LineInv'
    <3>1. from' = Len(stream') + 1 /\ from' # Len(stream') /\ stream'[Len(stream')] \in T!Ends
      BY <1>2, <1>10
    <3>2. Len(held') <= 1 /\ DOMAIN held' = {} /\ T!InOrder(held)'
      BY <1>10 DEF T!InOrder
    <3>3. protocol # "sse" => mark' # "last"
      BY <2>1, <2>2, ApplyCases DEF LineInv
    <3>4. protocol # "ndjson" => observed' = text'
      <4>1. protocol # "ndjson" => observed = text
        BY DEF LineInv
      <4>2. reading' # "failed" /\ T!Apply(spot)
        BY <2>1
      <4> QED BY <4>1, <4>2, ApplyCases
    <3> QED BY <1>1, <1>6, <1>10, <3>1, <3>2, <3>3, <3>4 DEF LineInv
  <2>7. BookInv'
    BY <1>1, <1>2, <1>10, <2>1, <2>2, <2>3, <2>5, AppliedBook
  <2> QED BY <1>1, <2>2, <2>6, <2>7
<1> QED BY <1>1, <1>7, <1>8, <1>9, <1>10, PushCases DEF n

-----------------------------------------------------------------------------
(* A stream that keeps to its protocol. *)

\* What one token adds to the data and to the blank lines.
LEMMA MarksGrow ==
    ASSUME T!StreamsTypeOK, NEW t \in T!Alphabet(protocol), stream' = Append(stream, t)
    PROVE  LET n == Len(stream)
               blank == /\ t \in T!Ends
                        /\ n > 0 => stream[n] \in T!Ends /\ ~(t = "LF" /\ stream[n] = "CR")
           IN
           /\ T!Data \subseteq 1 .. n /\ T!BlankLines \subseteq 1 .. n
           /\ \A i : i \in T!Data' <=>
                    i \in T!Data \/ (i = n + 1 /\ t \notin T!Ends \cup {"note"})
           /\ \A i : i \in T!BlankLines' <=> i \in T!BlankLines \/ (i = n + 1 /\ blank)
<1> DEFINE n == Len(stream)
<1>1. /\ n \in Nat /\ DOMAIN stream = 1 .. n /\ DOMAIN stream' = 1 .. n + 1
      /\ \A i \in 1 .. n : stream'[i] = stream[i]
      /\ stream'[n + 1] = t
  BY StreamGrows
<1> HIDE DEF n
<1>2. \A i : i \in T!Data' <=>
               i \in T!Data \/ (i = n + 1 /\ t \notin T!Ends \cup {"note"})
  BY <1>1 DEF T!Data
<1>3. \A i : i \in T!BlankLines' <=> i \in T!BlankLines \/
               (i = n + 1 /\ t \in T!Ends /\
                (n > 0 => stream[n] \in T!Ends /\ ~(t = "LF" /\ stream[n] = "CR")))
  <2> SUFFICES ASSUME NEW i
               PROVE  i \in T!BlankLines' <=> i \in T!BlankLines \/
                         (i = n + 1 /\ t \in T!Ends /\
                          (n > 0 => stream[n] \in T!Ends
                                    /\ ~(t = "LF" /\ stream[n] = "CR")))
    OBVIOUS
  <2>1. CASE i \in 1 .. n
    <3>1. i # n + 1 /\ (i > 1 => i - 1 \in 1 .. n)
      BY <1>1, <2>1
    <3> QED BY <1>1, <2>1, <3>1 DEF T!BlankLines, T!Places
  <2>2. CASE i = n + 1
    <3>1. i \notin 1 .. n /\ (i > 1 <=> n > 0) /\ i - 1 = n /\ (n > 0 => n \in 1 .. n)
      BY <1>1, <2>2
    <3> QED BY <1>1, <2>2, <3>1 DEF T!BlankLines, T!Places
  <2>3. CASE i \notin 1 .. n + 1
    <3>1. i \notin 1 .. n /\ i # n + 1
      BY <1>1, <2>3
    <3> QED BY <1>1, <2>3, <3>1 DEF T!BlankLines, T!Places
  <2> QED BY <1>1, <2>1, <2>2, <2>3
<1>4. T!Data \subseteq 1 .. n /\ T!BlankLines \subseteq 1 .. n
  BY <1>1 DEF T!Data, T!BlankLines, T!Places
<1> QED BY <1>2, <1>3, <1>4 DEF n

\* A blank line is one whose end finds the line empty.
LEMMA WhatIsBlank ==
    ASSUME T!StreamsTypeOK, LineInv, NEW t \in T!Alphabet(protocol),
           stream' = Append(stream, t)
    PROVE  /\ Len(stream) + 1 \in T!BlankLines' <=>
                 t \in T!Ends /\ from # Len(stream) /\ ~T!SecondHalf(t)
           /\ protocol # "events" => ~T!SecondHalf(t)
<1> DEFINE n == Len(stream)
<1>1. /\ n \in Nat /\ from \in {n, n + 1} /\ from \in Nat \ {0}
      /\ from = n => stream[n] \notin T!Ends
      /\ from # n /\ n > 0 => stream[n] \in T!Ends
      /\ cr <=> n > 0 /\ stream[n] = "CR"
  BY StreamTypes DEF LineInv
<1>2. /\ T!BlankLines \subseteq 1 .. n
      /\ n + 1 \in T!BlankLines' <=>
            \/ n + 1 \in T!BlankLines
            \/ t \in T!Ends /\ (n > 0 => stream[n] \in T!Ends
                                        /\ ~(t = "LF" /\ stream[n] = "CR"))
  BY MarksGrow
<1>3. protocol # "events" => ~cr
  <2>1. n > 0 => n \in 1 .. n /\ stream[n] \in T!Alphabet(protocol)
    BY StreamTypes
  <2>2. protocol # "events" => "CR" \notin T!Alphabet(protocol)
    BY DEF T!Alphabet, T!StreamsTypeOK, T!Protocols, T!Parts
  <2> QED BY <1>1, <2>1, <2>2
<1> HIDE DEF n
<1>4. n + 1 \notin T!BlankLines /\ (from = n => n > 0)
  BY <1>1, <1>2
<1>5. n + 1 \in T!BlankLines' <=> t \in T!Ends /\ from # n /\ ~(t = "LF" /\ cr)
  BY <1>1, <1>2, <1>4
<1> QED BY <1>3, <1>5 DEF n, T!SecondHalf

\* What is held stays the data of the event that is open.
LEMMA PushKeepsHeld ==
    ASSUME T!StreamsTypeOK, LineInv, HeldInv,
           NEW t \in T!Alphabet(protocol), T!Push(t), reading' # "failed"
    PROVE  HeldInv'
<1> DEFINE n == Len(stream)
<1>1. /\ stream' = Append(stream, t) /\ protocol' = protocol
      /\ n \in Nat /\ from \in {n, n + 1} /\ DOMAIN stream = 1 .. n
      /\ from = n => stream[from] \notin T!Ends
  BY PushCases, StreamTypes DEF LineInv
<1>2. /\ T!Data \subseteq 1 .. n /\ T!BlankLines \subseteq 1 .. n
      /\ \A i : i \in T!Data' <=>
               i \in T!Data \/ (i = n + 1 /\ t \notin T!Ends \cup {"note"})
      /\ \A i : i \in T!BlankLines' =>
               i \in T!BlankLines \/ (i = n + 1 /\ i \in T!BlankLines')
      /\ \A i : i \in T!BlankLines => i \in T!BlankLines'
  BY <1>1, MarksGrow
<1>3. n + 1 \in T!BlankLines' <=> t \in T!Ends /\ from # n /\ ~T!SecondHalf(t)
  BY <1>1, WhatIsBlank
<1>4. SUFFICES ASSUME protocol # "ndjson"
               PROVE  \A i : (\E k \in DOMAIN held' : held'[k] = i) <=>
                         i \in T!Data' /\ i # from' /\ \A b \in T!BlankLines' : b < i
  BY <1>1 DEF HeldInv
<1> DEFINE Open(i) == \A b \in T!BlankLines : b < i
<1>5. \A i : (\E k \in DOMAIN held : held[k] = i) <=> i \in T!Data /\ i # from /\ Open(i)
  BY <1>4 DEF HeldInv
<1>6. from = n => from \in 1 .. n /\ Open(from) /\ (from \in T!Data <=> stream[from] # "note")
  <2> SUFFICES ASSUME from = n
               PROVE  from \in 1 .. n /\ Open(from)
                      /\ (from \in T!Data <=> stream[from] # "note")
    OBVIOUS
  <2>1. from \in 1 .. n
    BY <1>1, StreamTypes
  <2>2. \A b \in T!BlankLines : b # n
    BY <1>1, <2>1 DEF T!BlankLines, T!Places
  <2>3. Open(from)
    BY <1>1, <1>2, <2>2
  <2> QED BY <1>1, <2>1, <2>3 DEF T!Data
<1> HIDE DEF n
<1>7. CASE t \notin T!Ends /\ from = n + 1 /\ UNCHANGED <<from, held>>
  <2>1. \A i : i \in T!BlankLines' <=> i \in T!BlankLines
    BY <1>2, <1>3, <1>7
  <2>2. \A i : i \in T!Data' /\ i # from' <=> i \in T!Data /\ i # from
    BY <1>1, <1>2, <1>7
  <2> QED BY <1>5, <1>7, <2>1, <2>2
<1>8. CASE /\ t \in T!Ends /\ from' = n + 2 /\ UNCHANGED held
           /\ \/ from = n /\ stream[from] = "note"
              \/ from # n /\ T!SecondHalf(t)
  <2>1. \A i : i \in T!BlankLines' <=> i \in T!BlankLines
    BY <1>2, <1>3, <1>8
  <2>2. \A i : i \in T!Data' /\ i # from' <=> i \in T!Data /\ i # from
    <3>1. \A i : i \in T!Data' <=> i \in T!Data
      BY <1>2, <1>8
    <3>2. \A i \in T!Data : i # n + 2 /\ i # n + 1
      BY <1>1, <1>2
    <3> QED BY <1>1, <1>6, <1>8, <3>1, <3>2
  <2> QED BY <1>5, <1>8, <2>1, <2>2
<1>9. CASE /\ t \in T!Ends /\ from # n /\ held' = <<>> /\ ~T!SecondHalf(t)
  <2>1. n + 1 \in T!BlankLines'
    BY <1>3, <1>9
  <2>2. \A i \in T!Data' : ~(n + 1 < i)
    <3> SUFFICES ASSUME NEW i \in T!Data' PROVE ~(n + 1 < i)
      OBVIOUS
    <3>1. i \in T!Data
      BY <1>2, <1>9
    <3>2. i \in 1 .. n
      BY <1>2, <3>1
    <3> QED BY <1>1, <3>2
  <2>3. DOMAIN held' = {}
    BY <1>9
  <2> QED BY <2>1, <2>2, <2>3
<1>10. CASE /\ t \in T!Ends /\ from' = n + 2 /\ from = n /\ stream[from] # "note"
            /\ held' = Append(held, from)
  <2>1. /\ DOMAIN held' = 1 .. Len(held) + 1 /\ DOMAIN held = 1 .. Len(held)
        /\ Len(held) \in Nat
        /\ \A k \in 1 .. Len(held) : held'[k] = held[k]
        /\ held'[Len(held) + 1] = from
    BY <1>10, HeldGrows, StreamTypes
  <2>2. \A i : (\E k \in DOMAIN held' : held'[k] = i) <=>
               i = from \/ \E k \in DOMAIN held : held[k] = i
    <3> SUFFICES ASSUME NEW i
                 PROVE  (\E k \in DOMAIN held' : held'[k] = i) <=>
                            i = from \/ \E k \in DOMAIN held : held[k] = i
      OBVIOUS
    <3>1. ASSUME NEW k \in DOMAIN held', held'[k] = i
          PROVE  i = from \/ \E m \in DOMAIN held : held[m] = i
      <4>1. k = Len(held) + 1 \/ k \in 1 .. Len(held)
        BY <2>1
      <4> QED BY <2>1, <3>1, <4>1
    <3>2. ASSUME NEW k \in DOMAIN held, held[k] = i
          PROVE  \E m \in DOMAIN held' : held'[m] = i
      <4>1. k \in DOMAIN held'
        BY <2>1
      <4> QED BY <2>1, <3>2, <4>1
    <3>3. Len(held) + 1 \in DOMAIN held'
      BY <2>1
    <3> QED BY <2>1, <3>1, <3>2, <3>3
  <2>3. \A i : i \in T!BlankLines' <=> i \in T!BlankLines
    BY <1>2, <1>3, <1>10
  <2>4. \A i : i \in T!Data' /\ i # from' <=> i \in T!Data
    <3>1. \A i : i \in T!Data' <=> i \in T!Data
      BY <1>2, <1>10
    <3>2. \A i \in T!Data : i # n + 2
      BY <1>1, <1>2
    <3> QED BY <1>10, <3>1, <3>2
  <2>5. from \in T!Data /\ Open(from)
    BY <1>6, <1>10
  <2> HIDE DEF Open
  <2>6. \A i : (\E k \in DOMAIN held' : held'[k] = i) <=> i \in T!Data /\ Open(i)
    BY <1>5, <2>2, <2>5
  <2>7. \A i : Open(i) <=> \A b \in T!BlankLines' : b < i
    BY <2>3 DEF Open
  <2> QED BY <2>4, <2>6, <2>7
<1>11. \/ t \notin T!Ends /\ from = n + 1 /\ UNCHANGED <<from, held>>
       \/ /\ t \in T!Ends /\ from' = n + 2
          /\ \/ UNCHANGED held /\ from = n /\ stream[from] = "note"
             \/ UNCHANGED held /\ from # n /\ T!SecondHalf(t)
             \/ from # n /\ held' = <<>> /\ ~T!SecondHalf(t)
             \/ from = n /\ stream[from] # "note" /\ held' = Append(held, from)
  <2>1. protocol # "events" => ~T!SecondHalf(t)
    BY <1>1, WhatIsBlank
  <2> QED BY <1>4, <2>1, PushCases DEF n
<1> QED BY <1>7, <1>8, <1>9, <1>10, <1>11

\* The places of a text are as many as its parts.
LEMMA TextCounts ==
    ASSUME NEW ps \in Seq(Nat), T!InOrder(ps)
    PROVE  /\ IsFiniteSet({ps[k] : k \in DOMAIN ps})
           /\ Cardinality({ps[k] : k \in DOMAIN ps}) = Len(ps)
<1> DEFINE dom == 1 .. Len(ps)
           places == {ps[k] : k \in DOMAIN ps}
           f == [k \in dom |-> ps[k]]
<1>1. DOMAIN ps = dom /\ Len(ps) \in Nat /\ \A k \in dom : ps[k] \in Nat
  OBVIOUS
<1>2. IsFiniteSet(dom) /\ Cardinality(dom) = Len(ps)
  BY <1>1, FS_Interval
<1>3. ASSUME NEW i \in dom, NEW j \in dom, f[i] = f[j] PROVE i = j
  <2>1. i < j => ps[i] < ps[j]
    BY <1>1 DEF T!InOrder
  <2>2. j < i => ps[j] < ps[i]
    BY <1>1 DEF T!InOrder
  <2>3. ps[i] = ps[j] /\ ps[i] \in Nat
    BY <1>1, <1>3
  <2> QED BY <2>1, <2>2, <2>3
<1>4. f \in Bijection(dom, places)
  <2>1. f \in [dom -> places] /\ \A r \in places : \E k \in dom : f[k] = r
    BY <1>1
  <2> QED BY <1>3, <2>1 DEF Bijection, Injection, Surjection, IsInjective
<1> HIDE DEF dom, places, f
<1>5. IsFiniteSet(places) /\ Cardinality(places) = Cardinality(dom)
  BY <1>2, <1>4, FS_Bijection DEF ExistsBijection
<1> QED BY <1>2, <1>5 DEF places

-----------------------------------------------------------------------------
(* Every step of a reader. *)

LEMMA StreamsTypesStay ==
    ASSUME T!StreamsTypeOK, LineInv, NEW t \in T!Alphabet(protocol), T!Push(t)
    PROVE  T!StreamsTypeOK'
<1>1. /\ Len(stream) \in Nat /\ MaxStream \in Nat /\ Len(stream) < MaxStream
      /\ stream \in Seq(T!Alphabet(protocol)) /\ stream' = Append(stream, t)
      /\ protocol' = protocol /\ protocol \in T!Protocols
      /\ from \in {Len(stream), Len(stream) + 1} /\ from \in Nat \ {0}
      /\ reading = "receiving"
  BY StreamTypes, StreamsAssumption DEF T!Push, T!StreamsTypeOK, LineInv
<1>2. /\ stream' \in Seq(T!Alphabet(protocol)) /\ Len(stream') <= MaxStream
      /\ T!Alphabet(protocol)' = T!Alphabet(protocol)
  <2>1. \A A : stream \in Seq(A) /\ t \in A =>
            /\ Append(stream, t) \in Seq(A)
            /\ Len(Append(stream, t)) = Len(stream) + 1
    OBVIOUS
  <2>2. stream' \in Seq(T!Alphabet(protocol)) /\ Len(stream') = Len(stream) + 1
    BY <1>1, <2>1
  <2>3. T!Alphabet(protocol)' = T!Alphabet(protocol)
    BY <1>1 DEF T!Alphabet
  <2> QED BY <1>1, <2>2, <2>3
<1>3. from \in 1 .. MaxStream + 1 /\ Len(stream) + 2 \in 1 .. MaxStream + 1
  BY <1>1
<1>4. T!Line \notin {<<>>, <<"note">>} \/ T!Line # <<>> => from \in 1 .. MaxStream
  BY <1>1, LineIs
<1>5. /\ held \in Seq(1 .. MaxStream) /\ cr \in BOOLEAN
      /\ mark \in {"open", "last", "done"}
      /\ text \in Seq(1 .. MaxStream) /\ observed \in Seq(1 .. MaxStream)
  BY DEF T!StreamsTypeOK
<1> DEFINE Rest == /\ mark' \in {"open", "last", "done"}
                   /\ text' \in Seq(1 .. MaxStream)
                   /\ observed' \in Seq(1 .. MaxStream)
                   /\ reading' \in {"receiving", "failed"}
           Place == from' \in 1 .. MaxStream + 1 /\ held' \in Seq(1 .. MaxStream)
                    /\ cr' \in BOOLEAN
<1>6. UNCHANGED <<mark, text, observed>> /\ reading' \in {reading, "failed"} => Rest
  BY <1>1, <1>5
<1>7. ASSUME NEW spot \in 1 .. MaxStream, T!Apply(spot) PROVE Rest
  <2>1. Append(text, spot) \in Seq(1 .. MaxStream)
        /\ Append(observed, spot) \in Seq(1 .. MaxStream)
    BY <1>5
  <2>2. /\ mark' \in {mark, "last", "done"} /\ text' \in {text, Append(text, spot)}
        /\ observed' \in {observed, Append(observed, spot)}
        /\ reading' \in {reading, "failed"}
    BY <1>7 DEF T!Apply, T!Parts, T!Deliver, T!Close
  <2> QED BY <1>1, <1>5, <2>1, <2>2
<1>8. T!Skip => Rest
  BY <1>6 DEF T!Skip
<1>9. Len(held) = 1 \/ held # <<>> => held[1] \in 1 .. MaxStream
  <2>1. held # <<>> => Len(held) # 0 /\ Len(held) \in Nat
    BY <1>5
  <2>2. Len(held) = 1 \/ held # <<>> => 1 \in 1 .. Len(held)
    BY <2>1
  <2>3. \A k \in 1 .. Len(held) : held[k] \in 1 .. MaxStream
    BY StreamTypes
  <2> QED BY <2>2, <2>3
<1>10. /\ from \in 1 .. MaxStream => Append(held, from) \in Seq(1 .. MaxStream)
       /\ from \in 1 .. MaxStream => <<from>> \in Seq(1 .. MaxStream)
       /\ <<>> \in Seq(1 .. MaxStream)
  BY <1>5
<1> HIDE DEF Rest
<1>11. T!Fail => Rest /\ Place
  BY <1>3, <1>5, <1>6 DEF T!Fail
<1>12. CASE t \notin T!Ends
  <2>1. T!Content
    BY <1>12 DEF T!Push
  <2> QED BY <1>1, <1>2, <1>3, <1>5, <1>8, <1>11, <2>1
          DEF T!Content, T!StreamsTypeOK, Rest
<1>13. CASE t \in T!Ends /\ protocol = "sse"
  <2>1. T!SseLine
    BY <1>13 DEF T!Push
  <2>2. cr' = cr /\ from' = Len(stream) + 2
    BY <2>1 DEF T!SseLine
  <2>3. held' \in Seq(1 .. MaxStream)
    BY <1>4, <1>5, <1>10, <2>1 DEF T!SseLine
  <2>4. Rest
    BY <1>6, <1>7, <1>8, <1>9, <2>1 DEF T!SseLine
  <2> QED BY <1>1, <1>2, <1>3, <1>5, <2>2, <2>3, <2>4 DEF T!StreamsTypeOK, Rest
<1>14. CASE t \in T!Ends /\ protocol = "ndjson"
  <2>1. T!JsonLine
    BY <1>14 DEF T!Push
  <2>2. CASE T!Fail
    BY <1>1, <1>2, <1>11, <2>2 DEF T!StreamsTypeOK, Rest
  <2>3. CASE /\ T!Line # <<>> /\ T!Apply(from)
             /\ from' = Len(stream) + 2 /\ UNCHANGED <<held, cr>>
    BY <1>1, <1>2, <1>3, <1>4, <1>5, <1>7, <2>3 DEF T!StreamsTypeOK, Rest
  <2> QED BY <2>1, <2>2, <2>3 DEF T!JsonLine
<1>15. CASE t \in T!Ends /\ protocol = "events"
  <2>1. T!EventLine(t)
    BY <1>15 DEF T!Push
  <2>2. cr' \in BOOLEAN /\ from' = Len(stream) + 2
    BY <2>1 DEF T!EventLine
  <2>3. T!Dispatch => \/ held' = <<>> /\ T!Apply(held[Len(held)])
                      \/ reading' = "failed" /\ UNCHANGED <<held, mark, text, observed>>
    BY DEF T!Dispatch, T!Last
  <2>4. held # <<>> => held[Len(held)] \in 1 .. MaxStream
    <3>1. held # <<>> => Len(held) \in 1 .. Len(held)
      BY <1>5
    <3> QED BY <3>1, StreamTypes
  <2>5. \/ T!Skip /\ UNCHANGED held
        \/ held # <<>> /\ T!Dispatch
        \/ T!Line # <<>> /\ held' = Append(held, from) /\ T!Skip
    BY <2>1 DEF T!EventLine
  <2>6. held' \in Seq(1 .. MaxStream)
    BY <1>4, <1>5, <1>10, <2>3, <2>5
  <2>7. Rest
    BY <1>6, <1>7, <1>8, <2>3, <2>4, <2>5
  <2> QED BY <1>1, <1>2, <1>3, <2>2, <2>6, <2>7 DEF T!StreamsTypeOK, Rest
<1> QED BY <1>1, <1>12, <1>13, <1>14, <1>15 DEF T!Protocols

\* A reader that has come to the end of its stream has a part for every one
\* that was sent, and one end behind them.
LEMMA FinishedIsWhole ==
    ASSUME T!StreamsTypeOK, LineInv, BookInv, T!Finished
    PROVE  /\ T!InOrder(text) /\ T!Range(text) = T!Places(T!Parts)
           /\ protocol # "ndjson" => observed = text
           /\ T!EndsOnce
<1>1. /\ DOMAIN stream = 1 .. Len(stream) /\ Len(stream) \in Nat
      /\ from \in {Len(stream), Len(stream) + 1}
  BY StreamTypes DEF LineInv
<1>2. held = <<>> /\ from = Len(stream) + 1 /\ mark = "done"
  <2>1. CASE protocol = "events"
    BY <2>1 DEF T!Finished, LineInv
  <2>2. CASE protocol # "events"
    <3>1. T!Line = <<>> /\ held = <<>> /\ mark = "done"
      BY <2>2 DEF T!Finished
    <3>2. from # Len(stream)
      BY <3>1, LineIs
    <3> QED BY <1>1, <3>1, <3>2
  <2> QED BY <2>1, <2>2
<1>3. Waiting = {}
  <2>1. from \notin DOMAIN stream /\ DOMAIN held = {}
    BY <1>1, <1>2
  <2> QED BY <2>1 DEF Waiting
<1>4. \A said, applied : Lost(said, applied) = {} => T!Places(said) \subseteq applied
  BY <1>3 DEF Lost, T!Places
<1>5. T!Range(text) = T!Places(T!Parts)
  <2>1. T!Range(text) = {text[k] : k \in DOMAIN text}
    BY DEF T!Range
  <2>2. {text[k] : k \in DOMAIN text} \subseteq T!Places(T!Parts)
    BY DEF BookInv, T!Places
  <2> QED BY <1>4, <2>1, <2>2 DEF BookInv
<1>6. T!Places({"bad"}) = {}
  BY <1>4 DEF BookInv
<1>7. PICK end \in DOMAIN stream :
         /\ stream[end] = "final" /\ Lost({"final"}, {end}) = {}
         /\ \A k \in DOMAIN text : text[k] < end
         /\ protocol = "sse" =>
               \E d \in DOMAIN stream :
                  stream[d] = "done" /\ Lost({"done"}, {d}) = {} /\ end < d
  BY <1>2 DEF BookInv
<1>8. T!Places({"final"}) = {end}
  <2>1. end \in T!Places({"final"})
    BY <1>7 DEF T!Places
  <2> QED BY <1>4, <1>7, <2>1
<1>9. \A i \in T!Places(T!Parts) : i < end
  <2>1. T!Range(text) = {text[k] : k \in DOMAIN text}
    BY DEF T!Range
  <2> QED BY <1>5, <1>7, <2>1
<1>10. ASSUME protocol = "sse"
       PROVE  \E d \in T!Places({"done"}) : T!Places({"done"}) = {d} /\ end < d
  <2>1. PICK d \in DOMAIN stream :
           stream[d] = "done" /\ Lost({"done"}, {d}) = {} /\ end < d
    BY <1>7, <1>10
  <2>2. d \in T!Places({"done"})
    BY <2>1 DEF T!Places
  <2>3. T!Places({"done"}) = {d}
    BY <1>4, <2>1, <2>2
  <2> QED BY <2>1, <2>2, <2>3
<1>11. T!InOrder(text) /\ (protocol # "ndjson" => observed = text)
  BY DEF BookInv, LineInv
<1> QED BY <1>5, <1>6, <1>8, <1>9, <1>10, <1>11 DEF T!EndsOnce

\* What is to be refused in a record.
LEMMA ApplyFails ==
    ASSUME NEW spot, T!Apply(spot), reading' = "failed", reading = "receiving"
    PROVE  \/ stream[spot] \in T!Parts /\ mark # "open"
           \/ stream[spot] \in T!Parts /\ ~T!Fits
           \/ stream[spot] = "final" /\ mark # "open"
           \/ stream[spot] = "done" /\ mark # "last"
           \/ stream[spot] \notin T!Parts \cup {"final", "done", "other"}
BY DEF T!Apply, T!Parts, T!Deliver, T!Close

\* Why a reader gives its stream up.
LEMMA FailCases ==
    ASSUME T!StreamsTypeOK, LineInv, NEW t \in T!Alphabet(protocol), T!Push(t),
           reading' = "failed"
    PROVE  \/ t \notin T!Ends /\ protocol # "sse" /\ mark = "done"
           \/ /\ t \in T!Ends /\ protocol = "sse" /\ from = Len(stream)
              /\ mark = "done" \/ (held # <<>> /\ stream[from] # "note")
           \/ t \in T!Ends /\ protocol = "ndjson" /\ from # Len(stream)
           \/ /\ t \in T!Ends /\ protocol = "events" /\ from # Len(stream)
              /\ ~T!SecondHalf(t) /\ held # <<>> /\ ~T!Whole
           \/ /\ t \in T!Ends /\ protocol = "ndjson" /\ from = Len(stream)
              /\ T!Apply(from)
           \/ /\ t \in T!Ends /\ protocol # "ndjson" /\ from # Len(stream)
              /\ held # <<>> /\ T!Apply(held[Len(held)])
              /\ protocol = "events" => T!Whole
<1>1. /\ reading = "receiving" /\ protocol \in {"sse", "ndjson", "events"}
      /\ from \in {Len(stream), Len(stream) + 1}
      /\ mark = "done" /\ protocol # "sse" => from = Len(stream) + 1
      /\ protocol = "sse" => Len(held) <= 1
      /\ Len(stream) \in Nat /\ Len(held) \in Nat /\ held \in Seq(Nat)
  BY StreamTypes DEF T!Push, T!StreamsTypeOK, T!Protocols, LineInv
<1>2. /\ T!Line = <<>> <=> from # Len(stream)
      /\ T!Line = <<"note">> <=> from = Len(stream) /\ stream[from] = "note"
  <2>1. T!Line = IF from = Len(stream) THEN <<stream[from]>> ELSE <<>>
    BY LineIs
  <2> QED BY <2>1
<1>3. T!Skip => reading' = reading
  BY DEF T!Skip
<1> HIDE DEF T!Skip
<1>4. CASE t \notin T!Ends
  BY <1>1, <1>3, <1>4 DEF T!Push, T!Content
<1>5. CASE t \in T!Ends /\ protocol = "sse"
  <2>1. T!SseLine
    BY <1>5 DEF T!Push
  <2>2. held # <<>> => Len(held) = 1
    <3>1. held # <<>> => Len(held) # 0
      BY <1>1
    <3>2. \A m \in Nat : m # 0 /\ m <= 1 => m = 1
      OBVIOUS
    <3> QED BY <1>1, <1>5, <3>1, <3>2
  <2>3. CASE T!Line = <<>> /\ held # <<>> /\ T!Apply(held[1])
    BY <1>2, <1>5, <2>2, <2>3
  <2>4. CASE /\ T!Line # <<>> /\ (T!Line = <<"note">> => mark = "done")
             /\ (held # <<>> /\ T!Line # <<"note">>) \/ mark = "done"
    BY <1>2, <1>5, <2>4
  <2> QED BY <1>1, <1>3, <2>1, <2>3, <2>4 DEF T!SseLine
<1>6. CASE t \in T!Ends /\ protocol = "ndjson"
  <2>1. T!JsonLine
    BY <1>6 DEF T!Push
  <2>2. mark = "done" => from # Len(stream)
    BY <1>1, <1>6
  <2> QED BY <1>1, <1>2, <1>6, <2>1, <2>2 DEF T!JsonLine
<1>7. CASE t \in T!Ends /\ protocol = "events"
  <2>1. T!EventLine(t)
    BY <1>7 DEF T!Push
  <2>2. T!Line = <<>> /\ held # <<>> /\ T!Dispatch /\ ~T!SecondHalf(t)
    BY <1>1, <1>3, <2>1 DEF T!EventLine
  <2> QED BY <1>2, <1>7, <2>2 DEF T!Dispatch, T!Last
<1> QED BY <1>1, <1>4, <1>5, <1>6, <1>7

\* A record that is applied is one that was waiting, behind all others.
LEMMA SpotIs ==
    ASSUME T!StreamsTypeOK, LineInv, HeldInv, NEW spot,
           \/ protocol = "ndjson" /\ from = Len(stream) /\ spot = from
           \/ /\ protocol # "ndjson" /\ from # Len(stream)
              /\ held # <<>> /\ spot = held[Len(held)]
    PROVE  /\ spot \in DOMAIN stream /\ spot \in Waiting
           /\ stream[spot] \notin T!Ends \cup {"note"}
           /\ \A i \in Waiting : i <= spot
           /\ protocol = "sse" => Waiting = {spot}
           /\ protocol # "ndjson" => spot \in T!Data /\ \A b \in T!BlankLines : b < spot
<1>1. /\ Len(stream) \in Nat /\ DOMAIN stream = 1 .. Len(stream) /\ from \in Nat \ {0}
      /\ from \in {Len(stream), Len(stream) + 1}
      /\ from = Len(stream) => stream[from] \notin T!Ends
  BY StreamTypes DEF LineInv
<1>2. CASE protocol = "ndjson" /\ from = Len(stream) /\ spot = from
  <2>0. held = <<>>
    BY <1>2 DEF LineInv
  <2>1. from \in DOMAIN stream
    <3> DEFINE n == Len(stream)
    <3>1. n \in Nat /\ DOMAIN stream = 1 .. n /\ from = n /\ from # 0
      BY <1>1, <1>2
    <3> HIDE DEF n
    <3> QED BY <3>1
  <2>2. spot \in DOMAIN stream /\ Waiting = {spot}
    BY <1>2, <2>0, <2>1 DEF Waiting
  <2>3. stream[spot] \in T!Alphabet(protocol)
    BY <2>2, StreamTypes
  <2>4. stream[spot] # "note"
    BY <1>2, <2>3 DEF T!Alphabet, T!Parts
  <2> QED BY <1>1, <1>2, <2>2, <2>4
<1>3. CASE /\ protocol # "ndjson" /\ from # Len(stream)
           /\ held # <<>> /\ spot = held[Len(held)]
  <2>0. /\ Len(held) \in Nat /\ DOMAIN held = 1 .. Len(held)
        /\ \A k \in DOMAIN held : held[k] \in Nat
    BY StreamTypes
  <2>1. Len(held) \in DOMAIN held
    <3>1. Len(held) # 0
      BY <1>3, StreamTypes
    <3> QED BY <2>0, <3>1
  <2>2. spot \in T!Data /\ \A b \in T!BlankLines : b < spot
    BY <1>3, <2>1 DEF HeldInv
  <2>3. spot \in DOMAIN stream /\ stream[spot] \notin T!Ends \cup {"note"}
    BY <2>2 DEF T!Data
  <2>4. spot \in Waiting
    BY <1>3, <2>1, <2>3 DEF Waiting
  <2>5. ASSUME NEW i \in Waiting
        PROVE  i <= spot /\ \E k \in DOMAIN held : held[k] = i
    <3>1. i # from
      <4> DEFINE n == Len(stream)
      <4>1. n \in Nat /\ DOMAIN stream = 1 .. n /\ from = n + 1
        BY <1>1, <1>3
      <4> HIDE DEF n
      <4>2. from \notin DOMAIN stream
        BY <4>1
      <4> QED BY <4>2 DEF Waiting
    <3>2. PICK k \in DOMAIN held : held[k] = i
      BY <3>1 DEF Waiting
    <3>3. k = Len(held) \/ k < Len(held)
      BY <2>0, <3>2
    <3>4. k < Len(held) => held[k] < held[Len(held)]
      BY <2>1, <3>2 DEF LineInv, T!InOrder
    <3>5. held[k] \in Nat /\ held[Len(held)] \in Nat
      BY <2>0, <2>1, <3>2
    <3> QED BY <1>3, <3>2, <3>3, <3>4, <3>5
  <2>6. protocol = "sse" => Waiting = {spot}
    <3> SUFFICES ASSUME protocol = "sse" PROVE Waiting = {spot}
      OBVIOUS
    <3>1. Len(held) <= 1
      BY DEF LineInv
    <3>2. DOMAIN held = {Len(held)}
      BY <2>0, <2>1, <3>1
    <3> QED BY <1>3, <2>4, <2>5, <3>2
  <2> QED BY <1>3, <2>2, <2>3, <2>4, <2>5, <2>6
<1> QED BY <1>2, <1>3

\* No stream that keeps to its protocol is given up before its end.
LEMMA KeptIsTaken ==
    ASSUME T!StreamsTypeOK, LineInv, BookInv, HeldInv,
           NEW t \in T!Alphabet(protocol), T!Push(t), reading' = "failed"
    PROVE  ~T!KeepsToProtocol'
<1> DEFINE n == Len(stream)
<1>1. /\ stream' = Append(stream, t) /\ protocol' = protocol /\ reading = "receiving"
      /\ MaxParts \in Nat /\ protocol \in {"sse", "ndjson", "events"}
  BY StreamsAssumption DEF T!Push, T!StreamsTypeOK, T!Protocols
<1>2. /\ n \in Nat /\ DOMAIN stream = 1 .. n /\ DOMAIN stream' = 1 .. n + 1
      /\ \A i \in 1 .. n : stream'[i] = stream[i]
      /\ stream'[n + 1] = t
  BY <1>1, StreamGrows
<1>3. /\ from \in {n, n + 1} /\ from \in Nat \ {0}
      /\ from = n => stream[from] \notin T!Ends
  BY StreamTypes DEF LineInv
<1>4. /\ T!Data \subseteq 1 .. n /\ T!BlankLines \subseteq 1 .. n
      /\ \A i : i \in T!Data' <=>
               i \in T!Data \/ (i = n + 1 /\ t \notin T!Ends \cup {"note"})
      /\ \A i : i \in T!BlankLines' =>
               i \in T!BlankLines \/ (i = n + 1 /\ i \in T!BlankLines')
      /\ \A i : i \in T!BlankLines => i \in T!BlankLines'
  BY <1>1, MarksGrow
<1>5. n + 1 \in T!BlankLines' <=> t \in T!Ends /\ from # n /\ ~T!SecondHalf(t)
  BY <1>1, WhatIsBlank
<1> SUFFICES ASSUME T!KeepsToProtocol' PROVE FALSE
  OBVIOUS
<1>6. \A said, i : i \in T!Places(said)' <=> i \in 1 .. n + 1 /\ stream'[i] \in said
  BY <1>2 DEF T!Places
<1>7. /\ T!Places({"bad"})' = {} /\ Cardinality(T!Places(T!Parts)') <= MaxParts
      /\ \A said \in {"done", "final"} : said = (IF protocol = "sse" THEN "done" ELSE "final") =>
            \A i \in T!Places({said})', j \in 1 .. n + 1 : i < j => stream'[j] \in T!Ends
  <2>1. T!EndsOnce' /\ T!Cardinality(T!Places(T!Parts)') <= MaxParts
    BY DEF T!KeepsToProtocol, T!Parts
  <2>2. \A set : T!Cardinality(set) = Cardinality(set)
    BY DEF T!Cardinality, Cardinality
  <2>3. T!Places({"bad"})' = {}
    BY <2>1 DEF T!EndsOnce
  <2>4. \A i \in T!Places({T!LastRecord})', j \in 1 .. n + 1 : i < j => stream'[j] \in T!Ends
    BY <1>2 DEF T!KeepsToProtocol, T!Ends
  <2>5. T!LastRecord' = IF protocol = "sse" THEN "done" ELSE "final"
    BY <1>1 DEF T!LastRecord
  <2> QED BY <2>1, <2>2, <2>3, <2>4, <2>5 DEF T!Places
<1>8. PICK last \in T!Places({"final"})' :
         /\ T!Places({"final"})' = {last}
         /\ \A i \in T!Places(T!Parts)' : i < last
         /\ protocol = "sse" =>
               \E d \in T!Places({"done"})' : T!Places({"done"})' = {d} /\ last < d
  <2>1. T!EndsOnce'
    BY DEF T!KeepsToProtocol
  <2> QED BY <1>1, <2>1 DEF T!EndsOnce, T!Parts
<1>9. /\ protocol = "ndjson" => T!BlankLines' = {}
      /\ protocol # "ndjson" =>
            /\ \A i \in T!Data' : stream'[i] # "head" =>
                  \E b \in T!BlankLines' :
                      i < b /\ ~\E k \in T!Data' : i < k /\ k < b
            /\ \A i \in T!Places({"head"})' : \E j \in T!Data' :
                   i < j /\ ~\E k \in T!BlankLines' : i < k /\ k < j
  <2>1. T!RecordsAreWhole'
    BY DEF T!KeepsToProtocol
  <2> QED BY <1>1, <2>1 DEF T!RecordsAreWhole, T!Between, T!Places
<1>10. mark # "open" => \E end \in 1 .. n :
             /\ stream[end] = "final" /\ \A i \in Waiting : end < i
             /\ mark = "done" /\ protocol = "sse" =>
                   \E d \in 1 .. n : stream[d] = "done" /\ \A i \in Waiting : d < i
  BY <1>2 DEF BookInv
<1>11. \A i \in 1 .. n : i \in 1 .. n + 1 /\ i < n + 1 /\ i \in Nat
  BY <1>2
<1> HIDE DEF n
<1>12. from = n => from \in 1 .. n /\ from \in Waiting
  BY <1>2, <1>3 DEF Waiting
\* Something behind the last record.
<1>13. CASE t \notin T!Ends /\ protocol # "sse" /\ mark = "done"
  <2>1. PICK end \in 1 .. n : stream[end] = "final"
    BY <1>10, <1>13
  <2>2. end \in T!Places({"final"})'
    BY <1>2, <1>6, <1>11, <2>1
  <2>3. n + 1 \in 1 .. n + 1
    BY <1>2
  <2>4. end < n + 1 /\ stream'[n + 1] \notin T!Ends
    BY <1>2, <1>11, <1>13
  <2> QED BY <1>7, <1>13, <2>2, <2>3, <2>4
<1>14. CASE t \in T!Ends /\ protocol = "sse" /\ from = n /\ mark = "done"
  <2>1. PICK d \in 1 .. n : stream[d] = "done" /\ d < from
    BY <1>10, <1>12, <1>14
  <2>2. d \in T!Places({"done"})' /\ from \in 1 .. n + 1
    BY <1>2, <1>6, <1>11, <1>12, <1>14, <2>1
  <2>3. stream'[from] \in T!Ends
    BY <1>7, <1>14, <2>1, <2>2
  <2> QED BY <1>2, <1>3, <1>12, <1>14, <2>3
\* An event of "sse" with a second line.
<1>15. CASE /\ t \in T!Ends /\ protocol = "sse" /\ from = n
            /\ held # <<>> /\ stream[from] # "note"
  <2>1. 1 \in DOMAIN held
    <3>1. Len(held) # 0 /\ Len(held) \in Nat /\ DOMAIN held = 1 .. Len(held)
      BY <1>15, StreamTypes
    <3> QED BY <3>1
  <2>2. held[1] \in T!Data /\ held[1] # from /\ \A b \in T!BlankLines : b < held[1]
    BY <1>15, <2>1 DEF HeldInv
  <2>3. held[1] \in T!Data' /\ held[1] \in 1 .. n /\ stream'[held[1]] = stream[held[1]]
    BY <1>2, <1>4, <2>2
  <2>4. stream[held[1]] # "head"
    <3>1. stream[held[1]] \in T!Alphabet(protocol)
      BY <1>2, <2>3, StreamTypes
    <3> QED BY <1>15, <3>1 DEF T!Alphabet, T!Parts
  <2>5. PICK b \in T!BlankLines' : held[1] < b
    BY <1>9, <1>15, <2>3, <2>4
  <2>6. b \in T!BlankLines
    BY <1>4, <1>5, <1>15
  <2> QED BY <1>4, <1>11, <2>2, <2>3, <2>5, <2>6
\* A blank line between records of "ndjson".
<1>16. CASE t \in T!Ends /\ protocol = "ndjson" /\ from # n
  <2>1. ~T!SecondHalf(t)
    BY <1>1, <1>16, WhatIsBlank
  <2> QED BY <1>5, <1>9, <1>16, <2>1
\* An event that is no record.
<1>17. CASE /\ t \in T!Ends /\ protocol = "events" /\ from # n
            /\ ~T!SecondHalf(t) /\ held # <<>> /\ ~T!Whole
  <2>1. /\ Len(held) \in Nat /\ DOMAIN held = 1 .. Len(held) /\ Len(held) # 0
        /\ held \in Seq(Nat) /\ T!InOrder(held)
    BY <1>17, StreamTypes DEF LineInv
  <2>2. PICK k \in DOMAIN held : ~(stream[held[k]] = "head" <=> k < Len(held))
    BY <1>17 DEF T!Whole
  <2>3. \A m \in DOMAIN held : /\ held[m] \in T!Data /\ held[m] \in 1 .. n
                                /\ \A b \in T!BlankLines : b < held[m]
    BY <1>4, <1>17 DEF HeldInv
  <2>4. \A i \in T!Data : (\A b \in T!BlankLines : b < i) => \E m \in DOMAIN held : held[m] = i
    <3>1. \A i \in T!Data : i # from
      BY <1>3, <1>4, <1>11, <1>17
    <3> QED BY <1>17, <3>1 DEF HeldInv
  <2>5. \A i : i \in T!Data' <=> i \in T!Data
    BY <1>4, <1>17
  <2>6. held[k] \in T!Data' /\ stream'[held[k]] = stream[held[k]]
    BY <1>2, <2>2, <2>3, <2>5
  <2>7. CASE stream[held[k]] # "head" /\ k < Len(held)
    <3>1. PICK b \in T!BlankLines' :
             held[k] < b /\ ~\E i \in T!Data' : held[k] < i /\ i < b
      BY <1>9, <1>17, <2>6, <2>7
    <3>2. b = n + 1
      <4>1. b \notin T!BlankLines
        <5>1. b \in T!BlankLines => b < held[k] /\ b \in 1 .. n
          BY <1>4, <2>2, <2>3
        <5> QED BY <1>11, <2>2, <2>3, <3>1, <5>1
      <4> QED BY <1>4, <4>1
    <3>3. k + 1 \in DOMAIN held /\ k < k + 1
      BY <2>1, <2>2, <2>7
    <3>4. held[k] < held[k + 1]
      BY <2>1, <2>2, <3>3 DEF T!InOrder
    <3>5. held[k + 1] \in T!Data' /\ held[k + 1] < n + 1
      BY <1>11, <2>3, <2>5, <3>3
    <3> QED BY <3>1, <3>2, <3>4, <3>5
  <2>8. CASE stream[held[k]] = "head" /\ ~(k < Len(held))
    <3>1. k = Len(held)
      BY <2>1, <2>2, <2>8
    <3>2. held[k] \in T!Places({"head"})'
      BY <1>6, <1>11, <2>2, <2>3, <2>6, <2>8
    <3>3. PICK j \in T!Data' : held[k] < j
      BY <1>9, <1>17, <3>2
    <3>4. j \in T!Data /\ j \in 1 .. n
      BY <1>4, <2>5
    <3>5. \A b \in T!BlankLines : b < j
      <4> SUFFICES ASSUME NEW b \in T!BlankLines PROVE b < j
        OBVIOUS
      <4>1. b < held[k] /\ b \in Nat /\ held[k] \in Nat /\ j \in Nat
        BY <1>4, <1>11, <2>2, <2>3, <3>4
      <4> QED BY <3>3, <4>1
    <3>6. PICK m \in DOMAIN held : held[m] = j
      BY <2>4, <3>4, <3>5
    <3>7. m = k \/ m < k
      BY <2>1, <3>1, <3>6
    <3>8. m < k => held[m] < held[k]
      BY <2>1, <2>2, <3>6 DEF T!InOrder
    <3>9. held[k] \in Nat /\ j \in Nat
      BY <1>11, <2>2, <2>3, <3>4
    <3> QED BY <3>3, <3>6, <3>7, <3>8, <3>9
  <2> QED BY <2>2, <2>7, <2>8
\* A record that is refused.
<1>18. ASSUME NEW spot, T!Apply(spot), t \in T!Ends,
              \/ protocol = "ndjson" /\ from = n /\ spot = from
              \/ /\ protocol # "ndjson" /\ from # n
                 /\ held # <<>> /\ spot = held[Len(held)]
                 /\ protocol = "events" => T!Whole
       PROVE  FALSE
  <2>1. /\ spot \in 1 .. n /\ spot \in Waiting /\ stream[spot] \notin T!Ends \cup {"note"}
        /\ protocol = "sse" => Waiting = {spot}
    BY <1>2, <1>18, SpotIs DEF n
  <2>2. /\ stream'[spot] = stream[spot] /\ spot \in 1 .. n + 1 /\ spot \in Nat
        /\ stream[spot] \in T!Alphabet(protocol)
    BY <1>2, <1>11, <2>1, StreamTypes
  <2>3. stream[spot] # "head"
    <3>1. CASE protocol = "events"
      <4>1. held # <<>> /\ spot = held[Len(held)] /\ T!Whole
        BY <1>18, <3>1
      <4>2. Len(held) \in Nat /\ Len(held) # 0 /\ DOMAIN held = 1 .. Len(held)
        BY <4>1, StreamTypes
      <4>3. Len(held) \in DOMAIN held /\ ~(Len(held) < Len(held))
        BY <4>2
      <4> QED BY <4>1, <4>3 DEF T!Whole
    <3>2. CASE protocol # "events"
      <4>1. "head" \notin T!Alphabet(protocol)
        BY <1>1, <3>2 DEF T!Alphabet, T!Parts
      <4> QED BY <2>2, <4>1
    <3> QED BY <3>1, <3>2
  <2>4. stream[spot] # "bad"
    BY <1>6, <1>7, <2>2
  <2>5. stream[spot] \in T!Parts \cup {"final", "done", "other"}
    BY <1>1, <2>1, <2>2, <2>3, <2>4 DEF T!Alphabet, T!Noise, T!Parts, T!Ends
  <2>6. ASSUME mark # "open"
        PROVE  stream[spot] \notin T!Parts \cup {"final"}
    <3>1. PICK end \in 1 .. n : stream[end] = "final" /\ end < spot
      BY <1>10, <2>1, <2>6
    <3>2. end \in T!Places({"final"})' /\ end \in Nat
      BY <1>2, <1>6, <1>11, <3>1
    <3>3. end = last /\ ~(spot < last)
      BY <1>8, <2>2, <3>1, <3>2
    <3>4. stream[spot] \notin T!Parts
      BY <1>6, <1>8, <2>2, <3>3
    <3>5. stream[spot] # "final"
      BY <1>6, <1>8, <2>2, <3>1, <3>3
    <3> QED BY <3>4, <3>5
  <2>7. CASE stream[spot] \in T!Parts /\ ~T!Fits
    <3> DEFINE applied == {text[k] : k \in DOMAIN text}
               parts == T!Places(T!Parts)'
    <3>1. text \in Seq(Nat) /\ Len(text) \in Nat /\ T!InOrder(text)
      BY StreamTypes DEF BookInv
    <3>2. IsFiniteSet(applied) /\ Cardinality(applied) = Len(text)
      BY <3>1, TextCounts
    <3>3. applied \cup {spot} \subseteq parts /\ spot \notin applied
      <4>1. \A k \in DOMAIN text : /\ text[k] \in 1 .. n /\ stream[text[k]] \in T!Parts
                                     /\ text[k] < spot
        BY <1>2, <2>1 DEF BookInv
      <4>2. \A k \in DOMAIN text : text[k] \in parts /\ text[k] # spot
        BY <1>2, <1>6, <1>11, <2>2, <4>1
      <4>3. spot \in parts
        BY <1>6, <2>2, <2>7
      <4> QED BY <4>2, <4>3
    <3>4. parts \subseteq 1 .. n + 1 /\ IsFiniteSet(1 .. n + 1)
      BY <1>2, <1>6, FS_Interval
    <3> HIDE DEF applied, parts
    <3>5. IsFiniteSet(parts)
      BY <3>4, FS_Subset
    <3>6. Cardinality(applied \cup {spot}) = Len(text) + 1
      BY <3>2, <3>3, FS_AddElement
    <3>7. Cardinality(applied \cup {spot}) <= Cardinality(parts)
      BY <3>3, <3>5, FS_Subset
    <3>8. Cardinality(parts) <= MaxParts /\ Cardinality(parts) \in Nat
      BY <1>7, <3>5, FS_CardinalityType DEF parts
    <3>9. ~(Len(text) < MaxParts)
      BY <2>7 DEF T!Fits
    <3> QED BY <1>1, <3>1, <3>6, <3>7, <3>8, <3>9
  <2>8. CASE stream[spot] = "done" /\ mark # "last"
    <3>1. protocol = "sse"
      BY <1>1, <2>2, <2>8 DEF T!Alphabet, T!Noise, T!Parts
    <3>2. PICK d : T!Places({"done"})' = {d} /\ last < d
      BY <1>8, <3>1
    <3>3. d = spot
      BY <1>6, <2>2, <2>8, <3>2
    <3>4. CASE mark = "open"
      <4>1. last \in 1 .. n + 1 /\ stream'[last] = "final"
        BY <1>6
      <4>2. last # n + 1
        BY <1>2, <1>18, <4>1 DEF T!Ends
      <4>3. last \in 1 .. n /\ stream[last] = "final"
        BY <1>2, <4>1, <4>2
      <4>4. last \in Waiting
        BY <1>2, <3>4, <4>3 DEF BookInv, Lost
      <4> QED BY <2>1, <2>8, <3>1, <4>3, <4>4
    <3>5. CASE mark = "done"
      <4>1. PICK e \in 1 .. n : stream[e] = "done" /\ e < spot
        BY <1>10, <2>1, <3>1, <3>5
      <4>2. e \in T!Places({"done"})' /\ e \in Nat
        BY <1>2, <1>6, <1>11, <4>1
      <4> QED BY <2>2, <3>2, <3>3, <4>1, <4>2
    <3> QED BY <2>8, <3>4, <3>5 DEF T!StreamsTypeOK
  <2> QED BY <1>1, <1>18, <2>5, <2>6, <2>7, <2>8, ApplyFails
<1> QED BY <1>13, <1>14, <1>15, <1>16, <1>17, <1>18, FailCases DEF n

\* At the end of such a stream its text is complete.
LEMMA KeptIsFinished ==
    ASSUME T!StreamsTypeOK, LineInv, BookInv, HeldInv, T!KeepsToProtocol
    PROVE  T!Finished
<1> DEFINE n == Len(stream)
           m == Len(held)
<1>1. /\ n \in Nat /\ DOMAIN stream = 1 .. n
      /\ from \in {n, n + 1} /\ from \in Nat \ {0}
      /\ from = n => stream[from] \notin T!Ends
      /\ mark = "done" => protocol = "sse" \/ from = n + 1
  BY StreamTypes DEF LineInv
<1>0. /\ m \in Nat /\ DOMAIN held = 1 .. m /\ (held # <<>> => m # 0)
      /\ \A k \in DOMAIN held : held[k] \in Nat
      /\ protocol = "ndjson" => held = <<>>
  BY StreamTypes DEF LineInv
<1>2. /\ protocol = "ndjson" => \A i \in T!Data : i < n
      /\ protocol # "ndjson" =>
            /\ \A i \in T!Data : stream[i] # "head" => \E b \in T!BlankLines : i < b
            /\ \A i \in T!Data : stream[i] = "head" =>
                   \E j \in T!Data : i < j /\ ~\E k \in T!BlankLines : i < k /\ k < j
  BY DEF T!KeepsToProtocol, T!RecordsAreWhole, T!Between, T!Places, T!Data
<1>3. \A i : i \in T!Data \/ i \in T!BlankLines => i \in Nat /\ i >= 1 /\ i <= n
  <2>1. T!Data \cup T!BlankLines \subseteq DOMAIN stream
    BY DEF T!Data, T!BlankLines, T!Places
  <2> HIDE DEF n, m
  <2> QED BY <1>1, <2>1
<1> HIDE DEF n, m
<1>4. from = n => \A b \in T!BlankLines : b < from
  <2> SUFFICES ASSUME from = n, NEW b \in T!BlankLines PROVE b < from
    OBVIOUS
  <2>1. b # from
    BY <1>1 DEF T!BlankLines, T!Places
  <2>2. b \in Nat /\ b <= n
    BY <1>3
  <2> QED BY <1>1, <2>1, <2>2
\* No data is left behind the last blank line.
<1>5. ASSUME protocol # "ndjson", NEW i \in T!Data, \A b \in T!BlankLines : b < i,
             \A j \in T!Data : (\A b \in T!BlankLines : b < j) => j <= i
      PROVE  FALSE
  <2>1. i \in Nat /\ \A j \in T!Data : j \in Nat
    BY <1>3
  <2>2. \A b \in T!BlankLines : ~(i < b) /\ b \in Nat
    BY <1>3, <1>5, <2>1
  <2>3. stream[i] = "head"
    BY <1>2, <1>5, <2>2
  <2>4. PICK j \in T!Data : i < j
    BY <1>2, <1>5, <2>3
  <2>5. \A b \in T!BlankLines : b < j
    BY <1>5, <2>1, <2>2, <2>4
  <2>6. j <= i
    BY <1>5, <2>4, <2>5
  <2> QED BY <2>1, <2>4, <2>6
<1>6. from \notin T!Data
  <2> SUFFICES ASSUME from \in T!Data PROVE FALSE
    OBVIOUS
  <2>1. from = n
    <3>1. from <= n
      BY <1>3
    <3> QED BY <1>1, <3>1
  <2>2. CASE protocol = "ndjson"
    <3>1. from < n
      BY <1>2, <2>2
    <3> QED BY <1>1, <2>1, <3>1
  <2>3. CASE protocol # "ndjson"
    <3>1. \A j \in T!Data : j <= from
      BY <1>1, <1>3, <2>1
    <3> QED BY <1>4, <1>5, <2>1, <2>3, <3>1
  <2> QED BY <2>2, <2>3
<1>7. held = <<>>
  <2> SUFFICES ASSUME held # <<>> PROVE FALSE
    OBVIOUS
  <2>1. m # 0 /\ protocol # "ndjson"
    BY <1>0
  <2>2. m \in DOMAIN held
    BY <1>0, <2>1
  <2>3. held[m] \in T!Data /\ \A b \in T!BlankLines : b < held[m]
    BY <2>1, <2>2 DEF HeldInv
  <2>4. ASSUME NEW j \in T!Data, \A b \in T!BlankLines : b < j
        PROVE  j <= held[m]
    <3>1. PICK k \in DOMAIN held : held[k] = j
      BY <1>6, <2>1, <2>4 DEF HeldInv
    <3>2. k = m \/ k < m
      BY <1>0, <3>1
    <3>3. k < m => held[k] < held[m]
      BY <2>2, <3>1 DEF LineInv, T!InOrder
    <3>4. held[k] \in Nat /\ held[m] \in Nat
      BY <1>0, <2>2, <3>1
    <3> QED BY <3>1, <3>2, <3>3, <3>4
  <2> QED BY <1>5, <2>1, <2>3, <2>4
<1>8. \A i \in Waiting : i = from /\ i \in DOMAIN stream /\ stream[i] = "note"
  <2>1. \A i \in Waiting : i = from /\ i \in DOMAIN stream
    BY <1>7 DEF Waiting
  <2>2. from \in DOMAIN stream => from = n
    BY <1>1
  <2>3. from \in DOMAIN stream => stream[from] = "note"
    BY <1>1, <1>6, <2>2 DEF T!Data
  <2> QED BY <2>1, <2>3
<1>9. PICK end \in DOMAIN stream :
         /\ stream[end] = "final"
         /\ protocol = "sse" => \E d \in DOMAIN stream : stream[d] = "done"
  BY DEF T!KeepsToProtocol, T!EndsOnce, T!Places
<1>10. mark = "done"
  <2>1. mark # "open"
    <3>1. mark = "open" => end \in Waiting
      BY <1>9 DEF BookInv, Lost
    <3> QED BY <1>8, <1>9, <3>1
  <2>2. CASE mark = "last"
    <3>1. protocol = "sse"
      BY <2>2 DEF LineInv
    <3>2. PICK d \in DOMAIN stream : stream[d] = "done"
      BY <1>9, <3>1
    <3>3. d \in Waiting
      BY <2>2, <3>2 DEF BookInv, Lost
    <3> QED BY <1>8, <3>2, <3>3
  <2> QED BY <2>1, <2>2 DEF T!StreamsTypeOK
<1>11. protocol # "events" => from # n
  <2>1. CASE protocol = "sse"
    <3> SUFFICES ASSUME from = n PROVE FALSE
      BY <2>1
    <3>1. from \in DOMAIN stream /\ from \in Waiting
      BY <1>1 DEF Waiting
    <3>2. PICK d \in DOMAIN stream : stream[d] = "done" /\ d < from
      BY <1>10, <2>1, <3>1 DEF BookInv
    <3>3. stream[from] \in T!Ends
      BY <2>1, <3>1, <3>2 DEF T!KeepsToProtocol, T!LastRecord, T!Places
    <3> QED BY <1>1, <3>3
  <2>2. CASE protocol # "sse"
    <3>1. from = n + 1 /\ n # n + 1
      BY <1>1, <1>10, <2>2
    <3> QED BY <3>1
  <2> QED BY <2>1, <2>2
<1>12. T!Speaks
  <2>1. PICK i \in DOMAIN stream : stream[i] = "delta"
    BY DEF T!KeepsToProtocol, T!Places
  <2>2. i \notin Waiting
    BY <1>8, <2>1
  <2>3. i \in {text[k] : k \in DOMAIN text}
    BY <2>1, <2>2 DEF BookInv, Lost, T!Parts
  <2>4. PICK k \in 1 .. Len(text) : text[k] = i
    BY <2>3, StreamTypes
  <2> QED BY <2>1, <2>4 DEF T!Speaks
<1>13. T!Line = IF from = n THEN <<stream[from]>> ELSE <<>>
  BY LineIs DEF n
<1> QED BY <1>7, <1>10, <1>11, <1>12, <1>13 DEF T!Finished, n

LEMMA StreamsInvInit == T!StreamsInit => StreamsInv
<1> SUFFICES ASSUME T!StreamsInit PROVE StreamsInv
  OBVIOUS
<1>1. /\ protocol \in T!Protocols /\ stream = <<>> /\ from = 1 /\ held = <<>>
      /\ cr = FALSE /\ mark = "open" /\ text = <<>> /\ observed = <<>>
      /\ reading = "receiving"
  BY DEF T!StreamsInit
<1>2. T!StreamsTypeOK
  <2>1. /\ \A A : <<>> \in Seq(A) /\ Len(<<>>) = 0
        /\ 0 <= MaxStream /\ 1 \in 1 .. MaxStream + 1
    BY StreamsAssumption
  <2> QED BY <1>1, <2>1 DEF T!StreamsTypeOK
<1>3. LineInv
  <2>1. Len(stream) = 0 /\ Len(held) = 0 /\ DOMAIN held = {}
    BY <1>1
  <2> QED BY <1>1, <2>1 DEF LineInv, T!InOrder
<1>4. BookInv
  <2>1. DOMAIN stream = {} /\ DOMAIN text = {}
    BY <1>1
  <2>2. \A said, applied : Lost(said, applied) = {}
    BY <2>1 DEF Lost
  <2> QED BY <1>1, <2>1, <2>2 DEF BookInv, T!InOrder
<1>5. HeldInv
  <2>1. T!Data = {} /\ DOMAIN held = {}
    BY <1>1 DEF T!Data
  <2> QED BY <2>1 DEF HeldInv
<1> QED BY <1>1, <1>2, <1>3, <1>4, <1>5 DEF StreamsInv, T!ResultIsTheStream

LEMMA StreamFrame ==
    ASSUME protocol' = protocol, stream' = stream
    PROVE  /\ T!Alphabet(protocol)' = T!Alphabet(protocol)
           /\ \A said : T!Places(said)' = T!Places(said)
           /\ T!EndsOnce' <=> T!EndsOnce
           /\ T!Data' = T!Data /\ T!BlankLines' = T!BlankLines
           /\ T!KeepsToProtocol' <=> T!KeepsToProtocol
<1>1. /\ T!Alphabet(protocol)' = T!Alphabet(protocol)
      /\ \A said : T!Places(said)' = T!Places(said)
      /\ T!Data' = T!Data
  BY DEF T!Alphabet, T!Places, T!Data
<1>2. T!BlankLines' = T!BlankLines
  BY DEF T!BlankLines, T!Places
<1>3. T!EndsOnce' <=> T!EndsOnce
  BY DEF T!EndsOnce, T!Places
<1>4. T!RecordsAreWhole' <=> T!RecordsAreWhole
  BY DEF T!RecordsAreWhole, T!Between, T!BlankLines, T!Data, T!Places
<1>5. T!KeepsToProtocol' <=> T!KeepsToProtocol
  BY <1>3, <1>4 DEF T!KeepsToProtocol, T!LastRecord, T!Places
<1> QED BY <1>1, <1>2, <1>3, <1>5

LEMMA StreamsStay ==
    ASSUME StreamsInv, T!StreamsNext \/ UNCHANGED streamVars
    PROVE  StreamsInv'
<1>1. CASE UNCHANGED streamVars
  <2>1. /\ protocol' = protocol /\ stream' = stream /\ from' = from /\ held' = held
        /\ cr' = cr /\ mark' = mark /\ text' = text /\ observed' = observed
        /\ reading' = reading
    BY <1>1 DEF streamVars
  <2>2. T!StreamsTypeOK' /\ T!ResultIsTheStream'
    <3>1. T!StreamsTypeOK'
      BY <2>1, StreamFrame DEF StreamsInv, T!StreamsTypeOK
    <3>2. T!InOrder(text)' = T!InOrder(text) /\ T!Range(text)' = T!Range(text)
      BY <2>1 DEF T!InOrder, T!Range
    <3>3. T!Places(T!Parts)' = T!Places(T!Parts)
      BY <2>1 DEF T!Places, T!Parts
    <3>4. (T!EndsOnce' <=> T!EndsOnce) /\ (T!KeepsToProtocol' <=> T!KeepsToProtocol)
      BY <2>1, StreamFrame
    <3> QED BY <2>1, <3>1, <3>2, <3>3, <3>4 DEF StreamsInv, T!ResultIsTheStream
  <2>3. ASSUME reading = "receiving" PROVE LineInv' /\ BookInv' /\ HeldInv'
    <3>1. LineInv /\ BookInv /\ HeldInv
      BY <2>3 DEF StreamsInv
    <3>2. LineInv'
      BY <2>1, <3>1 DEF LineInv, T!InOrder
    <3>3. BookInv'
      BY <2>1, <3>1 DEF BookInv, Lost, Waiting, T!InOrder
    <3>4. T!Data' = T!Data /\ T!BlankLines' = T!BlankLines
      BY <2>1, StreamFrame
    <3>5. HeldInv'
      BY <2>1, <3>1, <3>4 DEF HeldInv
    <3> QED BY <3>2, <3>3, <3>5
  <2> QED BY <2>1, <2>2, <2>3 DEF StreamsInv
<1>2. ASSUME T!StreamsNext PROVE reading = "receiving"
  BY <1>2 DEF T!StreamsNext, T!Push, T!Eof, T!Cut
<1>3. ASSUME T!StreamsNext PROVE T!StreamsTypeOK /\ LineInv /\ BookInv /\ HeldInv
  BY <1>2, <1>3 DEF StreamsInv
<1>4. ASSUME NEW t \in T!Alphabet(protocol), T!Push(t) PROVE StreamsInv'
  <2>1. T!StreamsTypeOK /\ LineInv /\ BookInv /\ HeldInv
    BY <1>3, <1>4 DEF T!StreamsNext
  <2>2. T!StreamsTypeOK'
    BY <1>4, <2>1, StreamsTypesStay
  <2>3. reading' = "failed" \/ reading' = "receiving"
    BY <1>4, <2>1, PushKeepsBooks
  <2>4. CASE reading' = "failed"
    <3>1. ~T!KeepsToProtocol'
      BY <1>4, <2>1, <2>4, KeptIsTaken
    <3> QED BY <2>2, <2>4, <3>1 DEF StreamsInv, T!ResultIsTheStream
  <2>5. CASE reading' = "receiving"
    <3>1. LineInv' /\ BookInv' /\ HeldInv'
      BY <1>4, <2>1, <2>5, PushKeepsBooks, PushKeepsHeld
    <3> QED BY <2>2, <2>5, <3>1 DEF StreamsInv, T!ResultIsTheStream
  <2> QED BY <2>3, <2>4, <2>5
<1>5. ASSUME T!Eof \/ T!Cut PROVE StreamsInv'
  <2>1. /\ T!StreamsTypeOK /\ LineInv /\ BookInv /\ HeldInv
        /\ reading' \in {"completed", "failed", "cut"}
        /\ reading' = "completed" => T!Finished
        /\ reading' = "failed" => ~T!Finished
    BY <1>3, <1>5 DEF T!StreamsNext, T!Eof, T!Cut
  <2>2. /\ protocol' = protocol /\ stream' = stream /\ from' = from /\ held' = held
        /\ cr' = cr /\ mark' = mark /\ text' = text /\ observed' = observed
    BY <1>5 DEF T!Eof, T!Cut
  <2>3. T!StreamsTypeOK'
    BY <2>1, <2>2, StreamFrame DEF T!StreamsTypeOK
  <2>4. reading' = "completed" =>
          /\ T!InOrder(text) /\ T!Range(text) = T!Places(T!Parts)
          /\ protocol # "ndjson" => observed = text
          /\ T!EndsOnce
    BY <2>1, FinishedIsWhole
  <2>5. reading' = "failed" => ~T!KeepsToProtocol
    BY <2>1, KeptIsFinished
  <2>6. /\ T!InOrder(text)' = T!InOrder(text) /\ T!Range(text)' = T!Range(text)
        /\ T!Places(T!Parts)' = T!Places(T!Parts)
        /\ (T!EndsOnce' <=> T!EndsOnce) /\ (T!KeepsToProtocol' <=> T!KeepsToProtocol)
    BY <2>2, StreamFrame DEF T!InOrder, T!Range, T!Places, T!Parts
  <2>7. T!ResultIsTheStream'
    BY <2>2, <2>4, <2>5, <2>6 DEF T!ResultIsTheStream
  <2> QED BY <2>1, <2>3, <2>7 DEF StreamsInv
<1> QED BY <1>1, <1>4, <1>5 DEF T!StreamsNext

\* For all passages a question offers, whatever the model returns, and for
\* texts and streams of any length: a text is taken for an answer only when
\* its stream came whole, a stream that keeps to its protocol is always
\* taken, the application quotes what was chosen and nothing else, and each
\* requirement has a check with evidence (lib.rs, ollama_answer.rs and
\* stream.rs of the model crates; answer.rs of the knowledge crate).
THEOREM AnswersAreBackedHolds == MCSpec => []AnswersAreBacked
<1> DEFINE Inv ==
        (part = "streams" => StreamsInv) /\ (part = "excerpts" => ExcerptsInv)
<1>1. MCInit => Inv
  BY StreamsInvInit, ExcerptsInvInit DEF MCInit
<1>2. Inv /\ [MCNext]_allVars => Inv'
  <2> SUFFICES ASSUME Inv, [MCNext]_allVars PROVE Inv'
    OBVIOUS
  <2>1. /\ part' = part
        /\ part = "streams" => T!StreamsNext \/ UNCHANGED streamVars
        /\ part = "excerpts" => X!ExcerptsNext \/ UNCHANGED excerptVars
    BY DEF MCNext, allVars, readerVars, BudgetStep, QuotesStep,
           StudyStep, BriefStep, StreamsStep, ExcerptsStep, RecoveryStep, VectorsStep
  <2> QED BY <2>1, StreamsStay, ExcerptsStay
<1>3. Inv => AnswersAreBacked
  BY DEF StreamsInv, ExcerptsInv, AnswersAreBacked
<1> QED BY <1>1, <1>2, <1>3, PTL DEF MCSpec
=============================================================================

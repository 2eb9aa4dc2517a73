--------------------------- MODULE MCModelPlanning ---------------------------
(* Instances of ModelPlanning for TLC. *)
EXTENDS ModelPlanning, TLC

CONSTANTS c1, q1, s1, s2, v1, b1, b2, usd

OneCost == b1 :> 1
OneLimit == b1 :> 1
TwoCalls == b1 :> 2
TwoCosts == b1 :> 1 @@ b2 :> 2
TwoLimits == b1 :> 3 @@ b2 :> 3
BothCalls == b1 :> 2 @@ b2 :> 2
TwoCurrencies == b1 :> usd @@ b2 :> usd
OneCurrency == b1 :> usd
OneDeployment == {[version |-> v1, budget |-> b1]}
TwoDeployments == {[version |-> v1, budget |-> b] : b \in {b1, b2}}
AnyKey == Conversations \X Requests
=============================================================================

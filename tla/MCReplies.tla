------------------------------ MODULE MCReplies ------------------------------
(* Instances of Replies for TLC. *)
EXTENDS Replies, TLC

CONSTANTS c1, q1, q2, s1, s2, r1, b1, usd

OneCost == b1 :> 2
OneLimit == b1 :> 3
AmpleLimit == b1 :> 4
OneCurrency == b1 :> usd

OpenAi(b) == [mode |-> "openai", revision |-> r1, budget |-> b]
FixtureMode == [mode |-> "fixture", revision |-> None, budget |-> None]

RequestSymmetry == Permutations({s1, s2}) \union Permutations({q1, q2})

PaidOnly == {OpenAi(b1)}
PaidOrFixture == {OpenAi(b1), FixtureMode}
=============================================================================

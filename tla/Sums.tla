--------------------------------- MODULE Sums ---------------------------------
(***************************************************************************)
(* Sums of natural amounts, for the ledgers.  The sum is the number of its *)
(* units, so that the theorems about cardinalities apply to it; the fold   *)
(* of the community modules computes the same.                             *)
(***************************************************************************)
EXTENDS Naturals, FiniteSets

\* The units of the amounts of f, those of each key told apart.
UnitsOf(f) == UNION {{k} \X (1 .. f[k]) : k \in DOMAIN f}

\* The sum of f[k] over the domain of f, when only finitely many amounts
\* are not zero.
SumOf(f) == Cardinality(UnitsOf(f))
=============================================================================

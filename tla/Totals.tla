------------------------------- MODULE Totals -------------------------------
(***************************************************************************)
(* Sums of token amounts, as the number of coins they are made of.  A sum  *)
(* defined this way needs no recursion, so that what is true of it can be  *)
(* proved from facts about finite sets.                                    *)
(***************************************************************************)
EXTENDS Integers, FiniteSets

\* The amount f[x] as that many coins, for every x of S.
Coins(f, S) == UNION {{x} \X (1..f[x]) : x \in S}
Total(f, S) == Cardinality(Coins(f, S))
=============================================================================

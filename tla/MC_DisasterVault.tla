-------------------------- MODULE MC_DisasterVault --------------------------
(***************************************************************************)
(* A vault with three signers, a donor of four tokens and a cap of half    *)
(* the pool.  Ledgers are one or two time units apart and a day is three.  *)
(***************************************************************************)
EXTENDS DisasterVault, TLC

CONSTANTS sari, tono, umi, relief, donor

SignerSymmetry == Permutations(Signers)
=============================================================================

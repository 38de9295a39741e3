---------------------------- MODULE MCWalletFile ----------------------------
(* WalletFile with processes that may change places. *)
EXTENDS WalletFile, TLC

Symmetry == Permutations(Procs)
=============================================================================

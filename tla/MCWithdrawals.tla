---------------------------- MODULE MCWithdrawals ----------------------------
(***************************************************************************)
(* Small instances of Withdrawals for TLC.                                 *)
(***************************************************************************)
EXTENDS Withdrawals, TLC

MCSymmetry == Permutations(Callers) \cup Permutations(WithdrawalIds)
                \cup Permutations(Proofs)

=============================================================================

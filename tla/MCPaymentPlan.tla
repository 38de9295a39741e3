--------------------------- MODULE MCPaymentPlan ---------------------------
(***************************************************************************)
(* Small instance of PaymentPlan: every wallet of up to five coins from a  *)
(* few sizes around the dust floor, every amount up to what they hold, two *)
(* fee rates and a fixed fee.                                              *)
(***************************************************************************)
EXTENDS PaymentPlan, SequencesExt

MCCap == 2
MCDust == 3
MCWallets == BoundedSeq({1, 4, 6, 9}, 5)
MCAmounts == 0..26

\* fee_for(n, 2, feerate) grows with every input; --fee is the same for all n.
MCFeeSchedules == { [n \in 1..MCCap |-> 1 + n], [n \in 1..MCCap |-> 3 * n], [n \in 1..MCCap |-> 2] }
=============================================================================

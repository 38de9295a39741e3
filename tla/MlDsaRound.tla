----------------------------- MODULE MlDsaRound -----------------------------
(***************************************************************************)
(* Rounding in ML-DSA, ml-dsa-65/rounding.c and the norm check of poly.c,  *)
(* on one coefficient with the code's own constants.  A signature commits  *)
(* to the high bits of w; the verifier knows w only up to c * t0 and       *)
(* repairs its high bits with one hint bit per coefficient.                *)
(***************************************************************************)
EXTENDS Integers

Prime == 8380417
D      == 13
GAMMA1 == 524288
GAMMA2 == (Prime - 1) \div 32
ETA    == 4
TAU    == 49
BETA   == 196

Field == INSTANCE MlDsaReduce
           WITH Q <- Prime, Word <- 2 ^ 32, QInv <- 58728449, Step <- 2 ^ 23

\* power2round: a = High * 2^D + Low.
Power2High(a) == (a + 2 ^ (D - 1) - 1) \div 2 ^ D
Power2Low(a)  == a - Power2High(a) * 2 ^ D

\* decompose: a = HighBits * 2 * GAMMA2 + LowBits modulo Q, the last interval folded
\* onto high bits 0.
HighBits(a) == ((((a + 127) \div 128) * 1025 + 2 ^ 21) \div 2 ^ 22) % 16
LowBits(a)  ==
  LET a0 == a - HighBits(a) * 2 * GAMMA2
  IN  IF a0 > (Prime - 1) \div 2 THEN a0 - Prime ELSE a0

MakeHint(a0, a1) ==
  IF a0 > GAMMA2 \/ a0 < -GAMMA2 \/ (a0 = -GAMMA2 /\ a1 # 0) THEN 1 ELSE 0

UseHint(a, hint) ==
  IF hint = 0 THEN HighBits(a)
  ELSE IF LowBits(a) > 0 THEN (HighBits(a) + 1) % 16
  ELSE (HighBits(a) - 1) % 16

\* poly_chknorm on one coefficient: 1 when it reaches the bound.
Magnitude(a)  == IF a < 0 THEN -a ELSE a
ChkNorm(a, B) == B > (Prime - 1) \div 8 \/ Magnitude(a) >= B
=============================================================================

----------------------------- MODULE MlDsaReduce -----------------------------
(***************************************************************************)
(* Arithmetic on the coefficients of ML-DSA, ml-dsa-65/reduce.c.  The code *)
(* keeps a coefficient as any small representative of its class modulo Q   *)
(* and says for each function how small: nothing is reduced that need not  *)
(* be.  The constants of the code are Q = 8380417, Word = 2^32,            *)
(* QInv = 58728449 and Step = 2^23.                                        *)
(***************************************************************************)
EXTENDS Integers

CONSTANTS
  Q,       \* the modulus
  Word,    \* values of a coefficient's type, int32_t
  QInv,    \* the inverse of Q modulo Word
  Step     \* the power of two nearest to Q, of which reduce32 takes multiples

ASSUME ReduceAssumption ==
  /\ Q \in Nat \ {0} /\ QInv \in Nat
  /\ Word \in Nat \ {0} /\ Word % 2 = 0
  /\ (Q * QInv) % Word = 1
  /\ Step \in Nat \ {0} /\ Step % 2 = 0

\* (int32_t) of an unsigned product: the value that fits the word.
Signed(x) == ((x + Word \div 2) % Word) - Word \div 2

\* a * Word^-1 modulo Q, between -Q and Q.
MontgomeryReduce(a)   == (a - Signed(a * QInv) * Q) \div Word

Reduce32(a) == a - ((a + Step \div 2) \div Step) * Q

Caddq(a) == IF a < 0 THEN a + Q ELSE a

Freeze(a) == Caddq(Reduce32(a))

FitsWord(a) == -(Word \div 2) <= a /\ a < Word \div 2
=============================================================================

------------------------------ MODULE MlDsaNtt ------------------------------
(***************************************************************************)
(* Products of polynomials in ML-DSA: ntt.c and the functions of poly.c    *)
(* and polyvec.c that carry coefficients to and from it.  sign.c computes  *)
(*   - c times a vector: both transformed, multiplied, transformed back;   *)
(*   - a row of the matrix times a vector: products summed, reduced, back; *)
(*   - that minus c times t1 * 2^D: subtracted, reduced, back.             *)
(* A behaviour is one such computation, one pass over the coefficients at  *)
(* a time.  The transforms reduce nothing they need not, so coefficients   *)
(* grow: what is checked is that they still fit their word and that the    *)
(* result is the product modulo X^N + 1.                                   *)
(***************************************************************************)
EXTENDS MlDsaReduce, Sequences, FiniteSetsExt

CONSTANTS
  N,       \* coefficients of a polynomial, a power of two (256)
  Root,    \* a root of unity of order 2 * N modulo Q (1753)
  Jobs     \* bound: the computations, [row |-> pairs of polynomials, less |-> pairs]

NttAssumption == N \in Nat \ {0} /\ Root \in 1..(Q - 1)
ASSUME NttAssumption
-----------------------------------------------------------------------------
Index == 0..(N - 1)

Power(x, n) == LET p[i \in 0..n] == IF i = 0 THEN 1 ELSE (p[i - 1] * x) % Q IN p[n]

Centered(x) == IF x > Q \div 2 THEN x - Q ELSE x

\* Levels of the transform, and an index below N with its bits in reverse.
Levels == CHOOSE l \in 0..N : 2 ^ l = N
Reversed(k) == MapThenSumSet(LAMBDA i : ((k \div 2 ^ i) % 2) * 2 ^ (Levels - 1 - i), 0..(Levels - 1))

\* zetas[]: powers of the root in bit-reversed order, times the Montgomery factor, the
\* representative near zero.
Zetas == [k \in 1..(N - 1) |-> Centered((Word % Q) * Power(Root, Reversed(k)) % Q)]

\* f = mont^2 / N (41978).
Unscale == CHOOSE f \in 0..(Q - 1) : (f * N) % Q = ((Word % Q) * (Word % Q)) % Q

\* One pass of ntt(): butterflies between coefficients len apart, one zeta per block.
Zeta(j, len)  == Zetas[N \div (2 * len) + j \div (2 * len)]
Lower(j, len) == j % (2 * len) < len

NttPass(x, len) ==
  [j \in Index |->
     IF Lower(j, len) THEN x[j] + MontgomeryReduce(Zeta(j, len) * x[j + len])
     ELSE x[j - len] - MontgomeryReduce(Zeta(j, len) * x[j])]

\* One pass of invntt_tomont(): the zetas in the opposite order, negated.
BackZeta(j, len) == -Zetas[N \div len - 1 - j \div (2 * len)]

\* Mutant: the zetas in the order of the forward transform.
SameZetas(x, len) ==
  [j \in Index |->
     IF Lower(j, len) THEN x[j] + x[j + len]
     ELSE MontgomeryReduce(-Zeta(j, len) * (x[j - len] - x[j]))]
BackPass(x, len) ==
  [j \in Index |->
     IF Lower(j, len) THEN x[j] + x[j + len]
     ELSE MontgomeryReduce(BackZeta(j, len) * (x[j - len] - x[j]))]

Tomont(x) == [j \in Index |-> MontgomeryReduce(Unscale * x[j])]

PointwiseMontgomery(x, y) == [j \in Index |-> MontgomeryReduce(x[j] * y[j])]
PolyAdd(x, y)    == [j \in Index |-> x[j] + y[j]]
PolySub(x, y)    == [j \in Index |-> x[j] - y[j]]
PolyReduce(x)    == [j \in Index |-> Reduce32(x[j])]

\* polyvecl_pointwise_acc_montgomery: the products of a row, summed.
PointwiseAcc(pairs) ==
  LET sum[i \in 1..Len(pairs)] ==
        LET p == PointwiseMontgomery(pairs[i][1], pairs[i][2])
        IN  IF i = 1 THEN p ELSE PolyAdd(sum[i - 1], p)
  IN  sum[Len(pairs)]
-----------------------------------------------------------------------------
VARIABLES
  job,     \* the computation
  row,     \* its operands as they are transformed: pairs of the matrix row
  less,    \*   and the challenge with its partner
  acc,     \* the result
  len,     \* distance of the next butterflies
  stage    \* "forward", "multiply", "back", "done"

nttVars == <<job, row, less, acc, len, stage>>

\* A matrix entry is sampled as a transform, in 0..Q-1: here, that of the job's polynomial.
NttInit ==
  /\ job \in Jobs
  /\ row = job.row /\ less = job.less
  /\ acc = [j \in Index |-> 0]
  /\ len = N \div 2 /\ stage = "forward"

Each(pairs, F(_)) == [i \in DOMAIN pairs |-> <<F(pairs[i][1]), F(pairs[i][2])>>]

\* ntt() of every operand.
Forward ==
  /\ stage = "forward" /\ len > 0
  /\ row' = Each(row, LAMBDA x : NttPass(x, len)) /\ less' = Each(less, LAMBDA x : NttPass(x, len))
  /\ len' = len \div 2
  /\ UNCHANGED <<job, acc, stage>>

Sampled(pairs) == [i \in DOMAIN pairs |-> <<[j \in Index |-> Freeze(pairs[i][1][j])], pairs[i][2]>>]

\* polyvecl_pointwise_poly_montgomery on its own, or the row, less the challenge's
\* product, reduced.
\* Mutant: the sum is not reduced.
MultiplyOnly ==
  /\ stage = "forward" /\ len = 0
  /\ acc' = IF row = <<>> THEN PointwiseMontgomery(less[1][1], less[1][2])
            ELSE IF less = <<>> THEN PointwiseAcc(Sampled(row))
            ELSE PolySub(PointwiseAcc(Sampled(row)), PointwiseMontgomery(less[1][1], less[1][2]))
  /\ len' = 1 /\ stage' = "back"
  /\ UNCHANGED <<job, row, less>>
Multiply ==
  /\ stage = "forward" /\ len = 0
  /\ acc' = LET product == PointwiseMontgomery(less[1][1], less[1][2])
                sum     == PointwiseAcc(Sampled(row))
            IN  IF row = <<>> THEN product
                ELSE PolyReduce(IF less = <<>> THEN sum ELSE PolySub(sum, product))
  /\ len' = 1 /\ stage' = "back"
  /\ UNCHANGED <<job, row, less>>

Back ==
  /\ stage = "back" /\ len < N
  /\ acc' = BackPass(acc, len) /\ len' = 2 * len
  /\ UNCHANGED <<job, row, less, stage>>

Finish ==
  /\ stage = "back" /\ len = N
  /\ acc' = Tomont(acc) /\ stage' = "done"
  /\ UNCHANGED <<job, row, less, len>>

NttNext == Forward \/ Multiply \/ Back \/ Finish

NttSpec == NttInit /\ [][NttNext]_nttVars
-----------------------------------------------------------------------------
\* The product modulo X^N + 1 by its definition.
Times(x, y) ==
  [j \in Index |->
     MapThenSumSet(LAMBDA i : IF i <= j THEN x[i] * y[j - i] ELSE -(x[i] * y[N + j - i]), Index)]

Expected ==
  [j \in Index |->
     LET of(pairs) == MapThenSumSet(LAMBDA i : Times(pairs[i][1], pairs[i][2])[j], DOMAIN pairs)
     IN  of(job.row) + (IF job.row = <<>> THEN of(job.less) ELSE -of(job.less))]

Polys(pairs) == {pairs[i][1] : i \in DOMAIN pairs} \cup {pairs[i][2] : i \in DOMAIN pairs}

\* What sign.c computes by transforms is the product modulo X^N + 1, below Q in absolute
\* value (ntt.c:73), and no coefficient leaves int32_t on the way, although the passes
\* reduce nothing and the way back lets them grow to N * Q.
ProductIsNegacyclic ==
  /\ stage = "done" => \A j \in Index : /\ (acc[j] - Expected[j]) % Q = 0
                                         /\ -Q < acc[j] /\ acc[j] < Q
  /\ \A x \in Polys(row) \cup Polys(less) \cup {acc} : \A j \in Index : FitsWord(x[j])
=============================================================================

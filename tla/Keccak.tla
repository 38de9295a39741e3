------------------------------- MODULE Keccak -------------------------------
(***************************************************************************)
(* The permutation under SHA-3 and SHAKE, KeccakF1600_StatePermute in      *)
(* common/fips202.c.  The code unrolls two rounds, keeps the 25 lanes in   *)
(* named locals and folds three of the standard's five steps into one list *)
(* of lanes and rotations; the standard (FIPS 202, 3.2) defines the steps  *)
(* by coordinates and the constants by a feedback register.  Both run side *)
(* by side here.                                                           *)
(***************************************************************************)
EXTENDS Integers, FiniteSetsExt

CONSTANT Starts   \* permuted states checked, each a function 0..24 -> SUBSET Bits

W == 64

\* A lane is the set of its bits that are 1.
Bits  == 0..(W - 1)
Lanes == 0..24

Rol(a, n) == {(b + n) % W : b \in a}
Not(a)    == Bits \ a
-----------------------------------------------------------------------------
\* KeccakF_RoundConstants, by the bits that are 1.
RoundConstants == <<
  {0}, {1, 7, 15}, {1, 3, 7, 15, 63}, {15, 31, 63}, {0, 1, 3, 7, 15}, {0, 31},
  {0, 7, 15, 31, 63}, {0, 3, 15, 63}, {1, 3, 7}, {3, 7}, {0, 3, 15, 31}, {1, 3, 31},
  {0, 1, 3, 7, 15, 31}, {0, 1, 3, 7, 63}, {0, 3, 7, 15, 63}, {0, 1, 15, 63},
  {1, 15, 63}, {7, 63}, {1, 3, 15}, {1, 3, 31, 63}, {0, 7, 15, 31, 63}, {7, 15, 63},
  {0, 31}, {3, 15, 31, 63} >>

\* Which lanes the unrolled code collects into BCa..BCu for each row it writes, and
\* by how much it rotates each: lane 5 * row + column, columns a e i o u, rows b g k m s.
Gather == <<
  << << 0,  0>>, << 6, 44>>, <<12, 43>>, <<18, 21>>, <<24, 14>> >>,
  << << 3, 28>>, << 9, 20>>, <<10,  3>>, <<16, 45>>, <<22, 61>> >>,
  << << 1,  1>>, << 7,  6>>, <<13, 25>>, <<19,  8>>, <<20, 18>> >>,
  << << 4, 27>>, << 5, 36>>, <<11, 10>>, <<17, 15>>, <<23, 56>> >>,
  << << 2, 62>>, << 8, 55>>, <<14, 39>>, <<15, 41>>, <<21,  2>> >> >>

\* prepareTheta: BCa..BCu are the column parities, Da..Du the value each column is
\* xored with.
Parity(A, c) == SymDiff(SymDiff(SymDiff(SymDiff(A[c], A[5 + c]), A[10 + c]), A[15 + c]), A[20 + c])

\* Mutant: the neighbours swapped.
ThetaSwapped(A) == [c \in 0..4 |-> SymDiff(Parity(A, (c + 1) % 5), Rol(Parity(A, (c + 4) % 5), 1))]
ThetaOf(A) == [c \in 0..4 |-> SymDiff(Parity(A, (c + 4) % 5), Rol(Parity(A, (c + 1) % 5), 1))]

\* One row of a round: xor D into the five lanes, rotate, and combine neighbours.
Row(A, D, r) ==
  LET BC == [c \in 0..4 |-> LET g == Gather[r + 1][c + 1]
                            IN  Rol(SymDiff(A[g[1]], D[g[1] % 5]), g[2])]
  IN  [c \in 0..4 |-> SymDiff(BC[c], Not(BC[(c + 1) % 5]) \cap BC[(c + 2) % 5])]

\* thetaRhoPiChiIota, which the code spells out for an even round (A to E) and again
\* for the odd one (E to A).
Round(A, n) ==
  LET D == ThetaOf(A)
      E == [r \in 0..4 |-> Row(A, D, r)]
  IN  [l \in Lanes |-> IF l = 0 THEN SymDiff(E[0][0], RoundConstants[n + 1])
                       ELSE E[l \div 5][l % 5]]
-----------------------------------------------------------------------------
\* FIPS 202, the reference: lane (x, y) of the standard is lane 5 * y + x.
StdTheta(A) ==
  LET C == [x \in 0..4 |-> Parity(A, x)]
  IN  [l \in Lanes |-> SymDiff(A[l], SymDiff(C[(l + 4) % 5], Rol(C[(l + 1) % 5], 1)))]

\* Rho walks (x, y) to (y, 2x + 3y) and rotates the t-th lane met by (t + 1)(t + 2) / 2.
RhoPath[t \in 0..23] ==
  IF t = 0 THEN <<1, 0>>
  ELSE LET p == RhoPath[t - 1] IN <<p[2], (2 * p[1] + 3 * p[2]) % 5>>
RhoOffset == [l \in Lanes |->
  IF l = 0 THEN 0
  ELSE LET t == CHOOSE t \in 0..23 : RhoPath[t] = <<l % 5, l \div 5>>
       IN  ((t + 1) * (t + 2)) \div 2]
StdRho(A) == [l \in Lanes |-> Rol(A[l], RhoOffset[l] % W)]

StdPi(A)  == [l \in Lanes |-> LET x == l % 5  y == l \div 5 IN A[5 * x + ((x + 3 * y) % 5)]]

StdChi(A) == [l \in Lanes |->
  LET x == l % 5  y == 5 * (l \div 5)
  IN  SymDiff(A[l], Not(A[y + ((x + 1) % 5)]) \cap A[y + ((x + 2) % 5)])]

\* The round constants: bit 2^j - 1 is output j + 7n of the register 1 + x^4 + x^5 + x^6 + x^8.
Register[t \in 0..167] ==
  IF t = 0 THEN {0}
  ELSE LET shifted == {b + 1 : b \in Register[t - 1]}
       IN  IF 8 \in shifted THEN SymDiff(shifted \ {8}, {0, 4, 5, 6}) ELSE shifted
StdConstant(n) == {2^j - 1 : j \in {i \in 0..6 : 0 \in Register[i + 7 * n]}}

StdRound(A, n) ==
  LET B == StdChi(StdPi(StdRho(StdTheta(A))))
  IN  [B EXCEPT ![0] = SymDiff(@, StdConstant(n))]
-----------------------------------------------------------------------------
VARIABLES state, standard, round

keccakVars == <<state, standard, round>>

KeccakInit == state \in Starts /\ standard = state /\ round = 0

\* The loop body: round += 2.
Permute ==
  /\ round < 24
  /\ state' = Round(Round(state, round), round + 1)
  /\ standard' = StdRound(StdRound(standard, round), round + 1)
  /\ round' = round + 2

KeccakSpec == KeccakInit /\ [][Permute]_keccakVars
-----------------------------------------------------------------------------
\* "The Keccak F1600 Permutation" (fips202.c:69): after every pair of rounds the
\* unrolled code holds the 25 lanes that the standard's five steps give, constants
\* included, whatever the state it began from.
PermutesAsStandard == state = standard
=============================================================================

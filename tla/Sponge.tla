------------------------------- MODULE Sponge -------------------------------
(***************************************************************************)
(* SHAKE and SHA-3 over the Keccak permutation, common/fips202.c.  The     *)
(* code offers every function twice: in one call (keccak_absorb and        *)
(* keccak_squeezeblocks) and incrementally (keccak_inc_absorb and so on),  *)
(* where the 26th word of the context counts the bytes absorbed since the  *)
(* last permutation and, after finalize, the bytes not yet squeezed.       *)
(* Signing and verification use both, so they must be the same function    *)
(* however a message is cut.                                               *)
(*                                                                         *)
(* A byte of the state is the set of the atoms xored into it since the     *)
(* last permutation: the index of a message byte, Suffix for the domain    *)
(* separator, LastBit for the 128 of the last byte.  The permutation       *)
(* itself is Keccak's; here a state is known by all that was xored in      *)
(* before each permutation, so equal histories mean equal states.          *)
(***************************************************************************)
EXTENDS Integers, Sequences

CONSTANTS
  Functions,    \* the functions checked: records of a rate and a digest length
  Pieces(_),    \* bound: lengths of the calls to absorb and squeeze, by rate
  MaxFed(_),    \* bound: message bytes, by rate
  MaxOut(_)     \* bound: output bytes, by rate

ASSUME SpongeAssumption ==
  /\ \A f \in Functions : f.rate \in Nat \ {0} /\ f.digest \in Nat /\ f.digest <= f.rate
  /\ \A f \in Functions : /\ Pieces(f.rate) \subseteq Nat
                           /\ MaxFed(f.rate) \in Nat /\ MaxOut(f.rate) \in Nat

Suffix  == -1    \* the domain separator: 0x1F of SHAKE, 0x06 of SHA-3
LastBit == -2    \* 128: no bit in common with Suffix, so or and xor agree where they meet

Xor(a, b) == (a \ b) \cup (b \ a)

\* The functions of fips202.c.  SHAKE squeezes any length, SHA-3 its digest.
Shake128 == [rate |-> 168, digest |-> 0]
Shake256 == [rate |-> 136, digest |-> 0]
Sha3_256 == [rate |-> 136, digest |-> 32]
Sha3_384 == [rate |-> 104, digest |-> 48]
Sha3_512 == [rate |-> 72, digest |-> 64]
-----------------------------------------------------------------------------
\* The one-call form, in closed form: what keccak_absorb xors in before the k-th
\* permutation of a message of m bytes, and the state and position that output byte
\* j of shake256() is read from.
OneCallBlock(r, m, k) ==
  [i \in 0..(r - 1) |->
     IF k <= m \div r THEN {(k - 1) * r + i}
     ELSE IF k > m \div r + 1 THEN {}
     ELSE (IF i < m % r THEN {(m \div r) * r + i} ELSE {})
            \cup (IF i = m % r THEN {Suffix} ELSE {})
            \cup (IF i = r - 1 THEN {LastBit} ELSE {})]

OneCallByte(r, m, j) == <<m \div r + 1 + j \div r, j % r>>
-----------------------------------------------------------------------------
VARIABLES
  fn,       \* the function of this context
  hist,     \* what was xored in before each permutation so far
  cur,      \* what was xored in since the last one
  left,     \* ctx[25]
  fed,      \* message bytes absorbed (history)
  out,      \* output bytes: <<permutations before it, position read>> (history)
  todo,     \* bytes the running call has still to absorb or squeeze
  phase     \* "absorb", "squeeze", "released"

spongeVars == <<fn, hist, cur, left, fed, out, todo, phase>>

r == fn.rate
Zero == [i \in 0..(r - 1) |-> {}]
ZeroOf(f) == [i \in 0..(f.rate - 1) |-> {}]

\* keccak_inc_init.
SpongeInit ==
  /\ fn \in Functions
  /\ hist = <<>> /\ cur = ZeroOf(fn) /\ left = 0
  /\ fed = 0 /\ out = <<>> /\ todo = 0 /\ phase = "absorb"

\* n message bytes xored into the state from position left on.
XorBytes(n) ==
  [i \in 0..(r - 1) |-> IF left <= i /\ i < left + n THEN Xor(cur[i], {fed + i - left}) ELSE cur[i]]

PermuteAfter(block) == hist' = Append(hist, block) /\ cur' = Zero

\* A call of *_inc_absorb.
CallAbsorb ==
  /\ phase = "absorb" /\ todo = 0
  /\ \E n \in Pieces(r) : n > 0 /\ fed + n <= MaxFed(r) /\ todo' = n
  /\ UNCHANGED <<fn, hist, cur, left, fed, out, phase>>

\* The loop of keccak_inc_absorb: while mlen + ctx[25] >= r.
\* Mutant: one byte too late.
FillsLate == todo + left > r
Fills     == todo + left >= r

AbsorbFull ==
  /\ phase = "absorb" /\ todo > 0 /\ Fills
  /\ PermuteAfter(XorBytes(r - left))
  /\ todo' = todo - (r - left) /\ fed' = fed + (r - left) /\ left' = 0
  /\ UNCHANGED <<fn, out, phase>>

AbsorbRest ==
  /\ phase = "absorb" /\ todo > 0 /\ ~Fills
  /\ cur' = XorBytes(todo)
  /\ left' = left + todo /\ fed' = fed + todo /\ todo' = 0
  /\ UNCHANGED <<fn, hist, out, phase>>

Padded == [i \in 0..(r - 1) |->
             Xor(Xor(cur[i], IF i = left THEN {Suffix} ELSE {}), IF i = r - 1 THEN {LastBit} ELSE {})]

\* keccak_inc_finalize of a SHAKE context.
Finalize ==
  /\ phase = "absorb" /\ todo = 0 /\ fn.digest = 0
  /\ cur' = Padded /\ left' = 0 /\ phase' = "squeeze"
  /\ UNCHANGED <<fn, hist, fed, out, todo>>

\* sha3_*_inc_finalize: finalize, one block out, its first bytes the digest, release.
Sha3Finalize ==
  /\ phase = "absorb" /\ todo = 0 /\ fn.digest > 0
  /\ hist' = Append(hist, Padded)
  /\ out' = [j \in 1..fn.digest |-> <<Len(hist) + 1, j - 1>>]
  /\ cur' = Zero /\ left' = 0 /\ phase' = "released"
  /\ UNCHANGED <<fn, fed, todo>>

\* A call of *_inc_squeeze.
CallSqueeze ==
  /\ phase = "squeeze" /\ todo = 0
  /\ \E n \in Pieces(r) : n > 0 /\ Len(out) + n <= MaxOut(r) /\ todo' = n
  /\ UNCHANGED <<fn, hist, cur, left, fed, out, phase>>

Least(a, b) == IF a < b THEN a ELSE b

\* n bytes of the state after k permutations, from position first on.
Read(k, first, n) == [j \in 1..n |-> <<k, first + j - 1>>]

\* First consume the bytes the call before left over.
SqueezeLeftover ==
  /\ phase = "squeeze" /\ todo > 0 /\ left > 0
  /\ LET n == Least(todo, left)
     IN  /\ out' = out \o Read(Len(hist), r - left, n)
         /\ left' = left - n /\ todo' = todo - n
  /\ UNCHANGED <<fn, hist, cur, fed, phase>>

\* Then squeeze the remaining blocks.
SqueezeBlock ==
  /\ phase = "squeeze" /\ todo > 0 /\ left = 0
  /\ PermuteAfter(cur)
  /\ LET n == Least(todo, r)
     IN  /\ out' = out \o Read(Len(hist) + 1, 0, n)
         /\ left' = r - n /\ todo' = todo - n
  /\ UNCHANGED <<fn, fed, phase>>

\* *_inc_ctx_release: the context is cleansed.
Release ==
  /\ phase = "squeeze" /\ todo = 0
  /\ cur' = Zero /\ left' = 0 /\ phase' = "released"
  /\ UNCHANGED <<fn, hist, fed, out, todo>>

SpongeNext ==
  \/ CallAbsorb \/ AbsorbFull \/ AbsorbRest \/ Finalize \/ Sha3Finalize
  \/ CallSqueeze \/ SqueezeLeftover \/ SqueezeBlock \/ Release

SpongeSpec == SpongeInit /\ [][SpongeNext]_spongeVars
-----------------------------------------------------------------------------
\* "Incremental keccak absorb" and "can be called on byte-level" (fips202.c:429, 488):
\* however a message is cut into calls, and however its output is, every permutation
\* sees the block that the one-call form gives it and every output byte is the one it
\* returns: none skipped, none twice, none from a stale state.
StreamIsOne ==
  /\ \A k \in 1..Len(hist) : hist[k] = OneCallBlock(r, fed, k)
  /\ \A j \in 1..Len(out) : out[j] = OneCallByte(r, fed, j - 1)
=============================================================================

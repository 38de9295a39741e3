---------------------------- MODULE PrimitivesProofs ----------------------------
(***************************************************************************)
(* StreamIsOne of Sponge, for every rate, every message, every cut of it   *)
(* into calls and every sequence of squeezes; SignedVerifies,              *)
(* MasksAreFresh and NoSecretLeft of MlDsaSign, for every matrix, key,     *)
(* mask and challenge; SampledInOrder of MlDsaSample, for every rate;      *)
(* EncodingIsCanonical of MlDsaPack, for every coefficient and all hints;  *)
(* and AddressesApart of SlhDsa, for every size that fits an address.      *)
(*                                                                         *)
(* Sponge: the invariant says what the 26th word means.  While absorbing,  *)
(* it is what is left of the message after whole blocks, and the pending   *)
(* bytes are those; while squeezing, it is what is missing from a whole    *)
(* number of blocks squeezed.                                              *)
(*                                                                         *)
(* ML-DSA: every step of an attempt is followed modulo Prime (Same), and   *)
(* three comparisons turn classes into numbers: the two norm checks leave  *)
(* only one representative, and the bound on the hints' argument is what   *)
(* one hint bit can repair.  Products are sums of L terms, linear by       *)
(* induction on the number of terms.                                       *)
(*                                                                         *)
(* Sampling: the buffer is a window of the stream, what was read is the    *)
(* stream up to a place in the window, and a refill moves the window under *)
(* that place.                                                             *)
(*                                                                         *)
(* Encodings: bytes and coefficients are two ways to cut one stream of     *)
(* bits.  Of hints, the list of places is read by ranks: the n-th one of a *)
(* row is the one with n below it, and where a row begins is a sum.        *)
(*                                                                         *)
(* SLH-DSA: every call is of one of eight kinds, with the address the      *)
(* layout gives to its place; the setters are followed up to that form,    *)
(* and the form gives the place back.  Powers of two are counted as        *)
(* subsets, which is where their laws come from.                           *)
(***************************************************************************)
EXTENDS Sponge, MlDsaSign, MlDsaSample, MlDsaPack, SlhDsa,
        SequenceTheorems, FiniteSetTheorems, NaturalsInduction, WellFoundedInduction, TLAPS

FullBlock(k) == [i \in 0..(r - 1) |-> {(k - 1) * r + i}]
Pending(k)   == [i \in 0..(r - 1) |-> IF i < left THEN {k * r + i} ELSE {}]

Types ==
  /\ r \in Nat \ {0} /\ fn.digest \in Nat /\ fn.digest <= r
  /\ hist \in Seq([0..(r - 1) -> SUBSET Int])
  /\ out \in Seq(Nat \X Nat)
  /\ left \in 0..(r - 1) /\ fed \in Nat /\ todo \in Nat
  /\ phase \in {"absorb", "squeeze", "released"}

Absorbing ==
  phase = "absorb" =>
    /\ out = <<>>
    /\ fed = Len(hist) * r + left
    /\ cur = Pending(Len(hist))
    /\ \A k \in 1..Len(hist) : hist[k] = FullBlock(k)

Squeezing ==
  phase = "squeeze" =>
    /\ Len(hist) >= fed \div r
    /\ Len(out) = (Len(hist) - fed \div r) * r - left
    /\ cur = OneCallBlock(r, fed, Len(hist) + 1)

IInv == Types /\ Absorbing /\ Squeezing /\ StreamIsOne
-----------------------------------------------------------------------------
\* Division with rest is unique.
LEMMA DivMod ==
  ASSUME NEW d \in Nat \ {0}, NEW q \in Nat, NEW p \in 0..(d - 1)
  PROVE  (q * d + p) \div d = q /\ (q * d + p) % d = p
<1> DEFINE n == q * d + p
           k == n \div d
<1>1. n \in Nat
  BY SMT
<1>2. n = d * k + (n % d) /\ n % d \in 0..(d - 1) /\ k \in Int
  BY <1>1, SMT
<1>3. d * (q - k) = (n % d) - p
  BY <1>1, <1>2, SMT
<1>4. CASE q >= k + 1
  <2>1. d * (q - k) >= d
    BY <1>2, <1>4, SMT
  <2>. QED BY <2>1, <1>2, <1>3, SMT
<1>5. CASE k >= q + 1
  <2>1. d * (k - q) >= d
    BY <1>2, <1>5, SMT
  <2>2. d * (k - q) = -(d * (q - k))
    BY <1>2, SMT
  <2>. QED BY <2>1, <2>2, <1>2, <1>3, SMT
<1>6. CASE k = q
  BY <1>2, <1>3, <1>6, SMT
<1>. QED BY <1>2, <1>4, <1>5, <1>6, SMT

LEMMA DivNat ==
  ASSUME NEW n \in Nat, NEW d \in Nat \ {0}
  PROVE  n \div d \in Nat
OBVIOUS

LEMMA DivSmall ==
  ASSUME NEW d \in Nat \ {0}, NEW p \in 0..(d - 1)
  PROVE  p \div d = 0 /\ p % d = p
<1>1. \A q \in Nat : (q * d + p) \div d = q /\ (q * d + p) % d = p
  BY DivMod
<1>2. (0 * d + p) \div d = 0 /\ (0 * d + p) % d = p
  BY <1>1
<1>3. 0 * d + p = p
  OBVIOUS
<1>. QED BY <1>2, <1>3, Zenon

\* A function on 1..n is the sequence of its values.
LEMMA Listed ==
  ASSUME NEW S, NEW n \in Nat, NEW f \in [1..n -> S]
  PROVE  f \in Seq(S) /\ Len(f) = n
OBVIOUS

LEMMA RateIsPositive ==
  ASSUME NEW f \in Functions
  PROVE  f.rate \in Nat \ {0} /\ f.digest \in Nat /\ f.digest <= f.rate
BY SpongeAssumption

LEMMA PiecesAreNat ==
  ASSUME Types, fn \in Functions, NEW n \in Pieces(r)
  PROVE  n \in Nat
BY SpongeAssumption DEF r

\* While absorbing, the blocks so far are those of the one-call form.
LEMMA FullBlocksAreOneCall ==
  ASSUME Types, NEW h \in Nat, NEW l \in 0..(r - 1), NEW k \in 1..h
  PROVE  OneCallBlock(r, h * r + l, k) = FullBlock(k)
<1>1. (h * r + l) \div r = h
  BY DivMod DEF Types
<1>. QED BY <1>1 DEF OneCallBlock, FullBlock

\* The last block of the message, padded, is the one-call form's.
LEMMA PaddedIsOneCall ==
  ASSUME Types, NEW h \in Nat, fed = h * r + left, cur = Pending(h)
  PROVE  Padded = OneCallBlock(r, fed, h + 1)
<1>1. fed \div r = h /\ fed % r = left
  BY DivMod DEF Types
<1>. DEFINE B(i) == (IF i < left THEN {h * r + i} ELSE {})
                      \cup (IF i = left THEN {Suffix} ELSE {})
                      \cup (IF i = r - 1 THEN {LastBit} ELSE {})
<1>2. OneCallBlock(r, fed, h + 1) = [i \in 0..(r - 1) |-> B(i)]
  BY <1>1 DEF OneCallBlock
<1>3. ASSUME NEW i \in 0..(r - 1)
      PROVE  Xor(Xor(cur[i], IF i = left THEN {Suffix} ELSE {}), IF i = r - 1 THEN {LastBit} ELSE {}) = B(i)
  <2>. DEFINE x == h * r + i
  <2>1. cur[i] = IF i < left THEN {x} ELSE {}
    BY DEF Pending
  <2>2. x \in Nat
    <3>1. r \in Nat
      BY DEF Types
    <3>2. h * r \in Nat
      BY <3>1
    <3>. QED BY <3>1, <3>2
  <2>. HIDE DEF x
  <2>3. x # Suffix /\ x # LastBit /\ Suffix # LastBit
    BY <2>2 DEF Suffix, LastBit
  <2>4. B(i) = (IF i < left THEN {x} ELSE {}) \cup (IF i = left THEN {Suffix} ELSE {})
                 \cup (IF i = r - 1 THEN {LastBit} ELSE {})
    BY DEF x
  <2>5. ~(i < left /\ i = left)
    BY DEF Types
  <2>. HIDE DEF B
  <2>. QED BY ZenonT(40), <2>1, <2>3, <2>4, <2>5 DEF Xor
<1>. QED BY ZenonT(40), <1>2, <1>3 DEF Padded

\* Filling the pending block from position left adds the next bytes of the message.
LEMMA XorBytesFills ==
  ASSUME Types, NEW h \in Nat, fed = h * r + left, cur = Pending(h), NEW n \in Nat, left + n <= r
  PROVE  XorBytes(n) = [i \in 0..(r - 1) |-> IF i < left + n THEN {h * r + i} ELSE {}]
<1>1. ASSUME NEW i \in 0..(r - 1)
      PROVE  (IF left <= i /\ i < left + n THEN Xor(cur[i], {fed + i - left}) ELSE cur[i])
               = IF i < left + n THEN {h * r + i} ELSE {}
  <2>1. cur[i] = IF i < left THEN {h * r + i} ELSE {}
    BY DEF Pending
  <2>2. fed + i - left = h * r + i /\ r \in Nat /\ left \in Nat
    BY DEF Types
  <2>3. CASE i < left
    BY <2>1, <2>2, <2>3
  <2>4. CASE left <= i
    <3>1. cur[i] = {}
      BY <2>1, <2>2, <2>4
    <3>2. Xor(cur[i], {h * r + i}) = {h * r + i}
      BY Zenon, <3>1 DEF Xor
    <3>. QED BY <2>2, <2>4, <3>1, <3>2
  <2>. QED BY <2>2, <2>3, <2>4
<1>. QED BY <1>1 DEF XorBytes
-----------------------------------------------------------------------------
THEOREM InitGood == SpongeInit => fn \in Functions /\ IInv
<1>. SUFFICES ASSUME SpongeInit PROVE fn \in Functions /\ IInv
  OBVIOUS
<1>1. r \in Nat \ {0} /\ fn.digest \in Nat /\ fn.digest <= r
  BY RateIsPositive DEF SpongeInit, r
<1>2. Types
  BY <1>1 DEF SpongeInit, Types
<1>3. cur = Pending(0)
  BY <1>1 DEF SpongeInit, ZeroOf, Pending, r
<1>4. 0 * r = 0
  BY <1>1
<1>. QED BY <1>1, <1>2, <1>3, <1>4 DEF SpongeInit, IInv, Absorbing, Squeezing, StreamIsOne

\* Steps that move neither the blocks nor the output.
LEMMA CallsKeepIt ==
  ASSUME fn \in Functions, IInv, CallAbsorb \/ CallSqueeze
  PROVE  IInv'
<1>. fn' = fn /\ hist' = hist /\ cur' = cur /\ left' = left /\ fed' = fed /\ out' = out
       /\ phase' = phase /\ r' = r
  BY DEF CallAbsorb, CallSqueeze, r
<1>1. todo' \in Nat
  BY PiecesAreNat DEF CallAbsorb, CallSqueeze, IInv
<1>2. Types'
  BY <1>1 DEF IInv, Types
<1>3. Absorbing' /\ Squeezing' /\ StreamIsOne'
  BY DEF IInv, Absorbing, Squeezing, StreamIsOne, Pending, FullBlock
<1>. QED BY <1>2, <1>3 DEF IInv

LEMMA AbsorbFullKeepsIt ==
  ASSUME fn \in Functions, IInv, AbsorbFull
  PROVE  IInv'
<1>. DEFINE h == Len(hist)
<1>1. /\ Types /\ r' = r /\ r \in Nat \ {0} /\ h \in Nat /\ left \in 0..(r - 1) /\ todo \in Nat
      /\ fed = h * r + left /\ cur = Pending(h) /\ out = <<>> /\ phase = "absorb"
      /\ hist \in Seq([0..(r - 1) -> SUBSET Int]) /\ fn.digest \in Nat /\ fn.digest <= r
      /\ \A k \in 1..h : hist[k] = FullBlock(k)
  BY DEF AbsorbFull, IInv, Types, Absorbing, r
<1>. HIDE DEF h
<1>2. XorBytes(r - left) = FullBlock(h + 1)
  <2>. DEFINE n == r - left
  <2>1. n \in Nat /\ left + n = r /\ left + n <= r
    BY <1>1
  <2>2. XorBytes(n) = [i \in 0..(r - 1) |-> IF i < left + n THEN {h * r + i} ELSE {}]
    <3>. HIDE DEF n
    <3>. QED BY <1>1, <2>1, XorBytesFills
  <2>3. XorBytes(n) = [i \in 0..(r - 1) |-> {h * r + i}]
    <3>. HIDE DEF n
    <3>. QED BY <1>1, <2>1, <2>2
  <2>4. (h + 1) - 1 = h
    BY <1>1
  <2>. QED BY <2>3, <2>4 DEF FullBlock
<1>3. hist' = Append(hist, FullBlock(h + 1)) /\ left' = 0 /\ cur' = Zero /\ out' = <<>>
        /\ phase' = "absorb" /\ fn' = fn
  BY <1>1, <1>2 DEF AbsorbFull, PermuteAfter
<1>4. fed' = (h + 1) * r /\ fed' \in Nat /\ todo' \in Nat
  <2>1. fed' = fed + (r - left) /\ todo' = todo - (r - left) /\ todo + left >= r
    BY DEF AbsorbFull, Fills
  <2>2. h * r + r = (h + 1) * r /\ (h + 1) * r \in Nat
    BY <1>1
  <2>. QED BY <2>1, <2>2, <1>1
<1>5. FullBlock(h + 1) \in [0..(r - 1) -> SUBSET Int]
  BY <1>1 DEF FullBlock
<1>6. Len(hist') = h + 1 /\ hist' \in Seq([0..(r - 1) -> SUBSET Int])
        /\ \A k \in 1..(h + 1) : hist'[k] = FullBlock(k)
  BY <1>1, <1>3, <1>5 DEF h
<1>7. Types'
  BY SMTT(20), <1>1, <1>3, <1>4, <1>6 DEF Types
<1>8. Absorbing'
  <2>1. cur' = [i \in 0..(r - 1) |-> IF i < left' THEN {(h + 1) * r + i} ELSE {}]
    BY <1>1, <1>3 DEF Zero
  <2>2. fed' = (h + 1) * r + 0
    BY <1>1, <1>4
  <2>3. \A k \in 1..(h + 1) : hist'[k] = [i \in 0..(r - 1) |-> {(k - 1) * r + i}]
    BY <1>6 DEF FullBlock
  <2>4. cur' = Pending(Len(hist))'
    BY <2>1, <1>1, <1>6 DEF Pending
  <2>5. \A k \in 1..Len(hist') : hist'[k] = FullBlock(k)'
    BY <2>3, <1>1, <1>6 DEF FullBlock
  <2>6. fed' = Len(hist') * r' + left'
    BY <2>2, <1>1, <1>3, <1>6
  <2>. QED BY <2>4, <2>5, <2>6, <1>3 DEF Absorbing
<1>9. Squeezing'
  BY <1>3 DEF Squeezing
<1>10. StreamIsOne'
  <2>1. ASSUME NEW k \in 1..(h + 1) PROVE OneCallBlock(r, fed', k) = FullBlock(k)
    <3>1. OneCallBlock(r, (h + 1) * r + 0, k) = FullBlock(k)
      <4>1. h + 1 \in Nat /\ 0 \in 0..(r - 1)
        BY <1>1
      <4>. QED BY <4>1, <1>1, FullBlocksAreOneCall
    <3>2. (h + 1) * r + 0 = fed'
      BY <1>4, <1>1
    <3>. QED BY <3>1, <3>2
  <2>. QED BY SMTT(20), <2>1, <1>1, <1>3, <1>6 DEF StreamIsOne
<1>. QED BY <1>7, <1>8, <1>9, <1>10 DEF IInv

LEMMA AbsorbRestKeepsIt ==
  ASSUME fn \in Functions, IInv, AbsorbRest
  PROVE  IInv'
<1>. DEFINE h == Len(hist)
<1>1. /\ Types /\ r' = r /\ r \in Nat \ {0} /\ h \in Nat /\ left \in 0..(r - 1) /\ todo \in Nat
      /\ fed = h * r + left /\ cur = Pending(h) /\ out = <<>> /\ phase = "absorb" /\ fed \in Nat
      /\ \A k \in 1..h : hist[k] = FullBlock(k)
  BY DEF AbsorbRest, IInv, Types, Absorbing, r
<1>. HIDE DEF h
<1>2. hist' = hist /\ out' = out /\ phase' = phase /\ fn' = fn /\ todo' = 0 /\ fed' = fed + todo
        /\ left' = left + todo /\ left + todo < r /\ cur' = XorBytes(todo)
  BY <1>1 DEF AbsorbRest, Fills
<1>3. cur' = [i \in 0..(r - 1) |-> IF i < left + todo THEN {h * r + i} ELSE {}]
  <2>1. left + todo <= r
    BY <1>1, <1>2
  <2>. QED BY <2>1, <1>1, <1>2, XorBytesFills
<1>4. left' \in 0..(r - 1) /\ fed' \in Nat /\ todo' \in Nat
  BY <1>1, <1>2
<1>5. Types'
  BY <1>1, <1>2, <1>4 DEF Types
<1>6. fed' = h * r + left'
  <2>1. h * r \in Nat
    BY <1>1
  <2>. QED BY <2>1, <1>1, <1>2
<1>7. Absorbing'
  <2>1. cur' = Pending(h)'
    BY <1>1, <1>2, <1>3 DEF Pending, h
  <2>2. \A k \in 1..h : hist'[k] = FullBlock(k)'
    BY <1>1, <1>2 DEF FullBlock
  <2>3. Len(hist') = h /\ r' = r /\ out' = <<>>
    BY <1>1, <1>2 DEF h
  <2>. QED BY <1>6, <2>1, <2>2, <2>3 DEF Absorbing, h
<1>8. Squeezing'
  BY <1>1, <1>2 DEF Squeezing
<1>9. StreamIsOne'
  <2>1. ASSUME NEW k \in 1..h PROVE OneCallBlock(r, fed', k) = FullBlock(k)
    BY <1>1, <1>4, <1>6, FullBlocksAreOneCall
  <2>. QED BY <2>1, <1>1, <1>2 DEF StreamIsOne, h
<1>. QED BY <1>5, <1>7, <1>8, <1>9 DEF IInv

LEMMA FinalizeKeepsIt ==
  ASSUME fn \in Functions, IInv, Finalize
  PROVE  IInv'
<1>. DEFINE h == Len(hist)
<1>1. /\ Types /\ r' = r /\ r \in Nat \ {0} /\ h \in Nat /\ left \in 0..(r - 1) /\ fed \in Nat
      /\ fed = h * r + left /\ cur = Pending(h) /\ out = <<>>
      /\ \A k \in 1..h : hist[k] = FullBlock(k)
  BY DEF Finalize, IInv, Types, Absorbing, r
<1>2. hist' = hist /\ out' = out /\ phase' = "squeeze" /\ fn' = fn /\ todo' = todo /\ fed' = fed
        /\ left' = 0 /\ cur' = Padded
  BY DEF Finalize
<1>3. Types'
  BY <1>1, <1>2 DEF Types
<1>. HIDE DEF h
<1>4. fed \div r = h
  BY <1>1, DivMod
<1>5. Squeezing'
  <2>1. Padded = OneCallBlock(r, fed, h + 1)
    BY <1>1, PaddedIsOneCall
  <2>2. (h - h) * r - 0 = 0
    BY <1>1
  <2>. QED BY <2>1, <2>2, <1>1, <1>2, <1>4 DEF Squeezing, h
<1>6. StreamIsOne'
  BY <1>1, <1>2 DEF StreamIsOne, IInv
<1>7. Absorbing'
  BY <1>2 DEF Absorbing
<1>. QED BY <1>3, <1>5, <1>6, <1>7 DEF IInv

LEMMA Sha3FinalizeKeepsIt ==
  ASSUME fn \in Functions, IInv, Sha3Finalize
  PROVE  IInv'
<1>. DEFINE h == Len(hist)
<1>1. /\ Types /\ r' = r /\ r \in Nat \ {0} /\ h \in Nat /\ left \in 0..(r - 1) /\ fed \in Nat
      /\ fed = h * r + left /\ cur = Pending(h) /\ hist \in Seq([0..(r - 1) -> SUBSET Int])
      /\ fn.digest \in Nat /\ fn.digest <= r
      /\ \A k \in 1..h : hist[k] = OneCallBlock(r, fed, k)
  BY DEF Sha3Finalize, IInv, Types, Absorbing, r, StreamIsOne
<1>2. hist' = Append(hist, Padded) /\ phase' = "released" /\ fn' = fn /\ todo' = todo /\ fed' = fed
        /\ left' = 0 /\ out' = [j \in 1..fn.digest |-> <<h + 1, j - 1>>]
  BY DEF Sha3Finalize
<1>3. Padded = OneCallBlock(r, fed, h + 1)
  <2>. HIDE DEF h
  <2>. QED BY <1>1, PaddedIsOneCall
<1>4. OneCallBlock(r, fed, h + 1) \in [0..(r - 1) -> SUBSET Int]
  <2>1. fed \div r \in Int /\ fed % r \in Nat
    BY <1>1
  <2>2. \A i \in 0..(r - 1) : (h + 1 - 1) * r + i \in Int /\ (fed \div r) * r + i \in Int
    BY <1>1, <2>1
  <2>3. {Suffix} \subseteq Int /\ {LastBit} \subseteq Int
    BY DEF Suffix, LastBit
  <2>. QED BY <2>2, <2>3 DEF OneCallBlock
<1>5. hist' \in Seq([0..(r - 1) -> SUBSET Int]) /\ Len(hist') = h + 1
        /\ \A k \in 1..(h + 1) : hist'[k] = OneCallBlock(r, fed, k)
  BY <1>1, <1>2, <1>3, <1>4
<1>6. out' \in Seq(Nat \X Nat) /\ Len(out') = fn.digest
        /\ \A j \in 1..fn.digest : out'[j] = <<h + 1, j - 1>>
  <2>. HIDE DEF h
  <2>1. \A j \in 1..fn.digest : <<h + 1, j - 1>> \in Nat \X Nat
    BY <1>1
  <2>2. out' \in [1..fn.digest -> Nat \X Nat]
    BY <2>1, <1>2
  <2>3. out' \in Seq(Nat \X Nat) /\ Len(out') = fn.digest
    BY <2>2, <1>1, Listed
  <2>. QED BY <2>3, <1>2
<1>7. Types'
  BY <1>1, <1>2, <1>5, <1>6 DEF Types
<1>8. fed \div r = h
  <2>. HIDE DEF h
  <2>. QED BY <1>1, DivMod
<1>9. ASSUME NEW j \in 1..fn.digest
      PROVE  out'[j] = OneCallByte(r, fed, j - 1)
  <2>1. (j - 1) \div r = 0 /\ (j - 1) % r = j - 1
    <3>1. j - 1 \in 0..(r - 1)
      BY <1>1
    <3>. QED BY <3>1, <1>1, DivSmall
  <2>2. out'[j] = <<h + 1, j - 1>>
    BY <1>6
  <2>. HIDE DEF h
  <2>3. OneCallByte(r, fed, j - 1) = <<h + 1 + 0, j - 1>>
    BY <2>1, <1>8 DEF OneCallByte
  <2>4. h + 1 + 0 = h + 1
    BY <1>1
  <2>. QED BY <2>2, <2>3, <2>4
<1>10. StreamIsOne'
  BY <1>1, <1>2, <1>5, <1>6, <1>9 DEF StreamIsOne
<1>11. Absorbing' /\ Squeezing'
  BY <1>2 DEF Absorbing, Squeezing
<1>. QED BY <1>7, <1>10, <1>11 DEF IInv

\* Reading n bytes from position first of a state after k permutations extends the
\* output by the bytes the one-call form has there.
ReadPlace(k, first, n, y) ==
  /\ k > fed \div r /\ first + n <= r
  /\ y = (k - fed \div r - 1) * r /\ Len(out) = y + first

ReadGood(o, l) ==
  /\ o \in Seq(Nat \X Nat) /\ Len(o) = l
  /\ \A j \in 1..Len(o) : o[j] = OneCallByte(r, fed, j - 1)

LEMMA ReadExtends ==
  ASSUME Types, NEW k \in Nat, NEW first \in Nat, NEW n \in Nat, NEW y \in Nat,
         ReadPlace(k, first, n, y),
         \A j \in 1..Len(out) : out[j] = OneCallByte(r, fed, j - 1)
  PROVE  ReadGood(out \o Read(k, first, n), y + (first + n))
<1>. DEFINE m == fed \div r
            l == Len(out)
            q == k - m - 1
            o == out \o Read(k, first, n)
<1>1. /\ r \in Nat \ {0} /\ out \in Seq(Nat \X Nat) /\ fed \in Nat /\ l \in Nat
  BY DEF Types
<1>2. m \in Nat
  BY <1>1, DivNat
<1>0. k > m
  BY Zenon DEF ReadPlace
<1>. HIDE DEF m
<1>3. q \in Nat /\ m + 1 + q = k
  BY <1>0, <1>2
<1>4. Read(k, first, n) \in Seq(Nat \X Nat) /\ Len(Read(k, first, n)) = n
        /\ \A j \in 1..n : Read(k, first, n)[j] = <<k, first + j - 1>>
  <2>1. \A j \in 1..n : <<k, first + j - 1>> \in Nat \X Nat
    OBVIOUS
  <2>2. Read(k, first, n) \in [1..n -> Nat \X Nat]
    BY <2>1 DEF Read
  <2>3. Read(k, first, n) \in Seq(Nat \X Nat) /\ Len(Read(k, first, n)) = n
    BY <2>2, Listed
  <2>. QED BY <2>3 DEF Read
<1>5. /\ o \in Seq(Nat \X Nat) /\ Len(o) = l + n
      /\ \A j \in 1..(l + n) : o[j] = IF j <= l THEN out[j] ELSE Read(k, first, n)[j - l]
  BY ZenonT(40), <1>1, <1>4, ConcatProperties
<1>6. y = q * r
  BY DEF ReadPlace, m
<1>7. l = y + first /\ first + n <= r /\ l \in Nat /\ r \in Nat
  BY <1>1 DEF ReadPlace
<1>. HIDE DEF q, l, o
<1>8. ASSUME NEW j \in (l + 1)..(l + n)
      PROVE  OneCallByte(r, fed, j - 1) = <<k, first + (j - l) - 1>>
  <2>. DEFINE p == first + (j - l) - 1
              x == j - 1
  <2>1. p \in 0..(r - 1)
    BY <1>7
  <2>2. y + p = x
    BY <1>7
  <2>. HIDE DEF p, x
  <2>3. (q * r + p) \div r = q /\ (q * r + p) % r = p
    BY <2>1, <1>1, <1>3, DivMod
  <2>4. x \div r = q /\ x % r = p
    BY <2>2, <2>3, <1>6, Zenon
  <2>5. OneCallByte(r, fed, x) = <<k, p>>
    BY <2>4, <1>3 DEF OneCallByte, m
  <2>. QED BY <2>5 DEF p, x
<1>9. ASSUME NEW j \in 1..(l + n)
      PROVE  o[j] = OneCallByte(r, fed, j - 1)
  <2>1. CASE j <= l
    <3>1. j \in 1..Len(out) /\ j <= l
      BY <2>1, <1>7 DEF l
    <3>2. o[j] = out[j]
      BY <3>1, <1>5
    <3>3. out[j] = OneCallByte(r, fed, j - 1)
      BY <3>1
    <3>. QED BY <3>2, <3>3, Zenon
  <2>2. CASE j > l
    <3>1. j - l \in 1..n /\ j \in (l + 1)..(l + n)
      BY <2>2, <1>7
    <3>2. o[j] = <<k, first + (j - l) - 1>>
      <4>1. Read(k, first, n)[j - l] = <<k, first + (j - l) - 1>>
        BY <3>1, <1>4
      <4>2. ~(j <= l)
        BY <2>2, <1>7
      <4>. QED BY <4>1, <4>2, <1>5
    <3>3. OneCallByte(r, fed, j - 1) = <<k, first + (j - l) - 1>>
      BY <3>1, <1>8
    <3>. QED BY <3>2, <3>3
  <2>3. j <= l \/ j > l
    BY <1>7
  <2>. QED BY <2>1, <2>2, <2>3, Zenon
<1>10. Len(o) = y + (first + n)
  BY <1>5, <1>7
<1>. QED BY <1>5, <1>7, <1>9, <1>10 DEF ReadGood, o

LEMMA SqueezeLeftoverKeepsIt ==
  ASSUME fn \in Functions, IInv, SqueezeLeftover
  PROVE  IInv'
<1>. DEFINE h == Len(hist)
            m == fed \div r
            n == Least(todo, left)
<1>1. /\ Types /\ r' = r /\ r \in Nat \ {0} /\ h \in Nat /\ left \in 1..(r - 1) /\ fed \in Nat
      /\ todo \in Nat /\ todo > 0 /\ Len(out) \in Nat
      /\ h >= m /\ Len(out) = (h - m) * r - left /\ cur = OneCallBlock(r, fed, h + 1)
      /\ \A k \in 1..h : hist[k] = OneCallBlock(r, fed, k)
      /\ \A j \in 1..Len(out) : out[j] = OneCallByte(r, fed, j - 1)
  BY DEF SqueezeLeftover, IInv, Types, Squeezing, StreamIsOne, r
<1>2. /\ hist' = hist /\ cur' = cur /\ fed' = fed /\ phase' = "squeeze" /\ fn' = fn
      /\ out' = out \o Read(h, r - left, n) /\ left' = left - n /\ todo' = todo - n
  BY DEF SqueezeLeftover
<1>3. n \in 1..left /\ n <= todo
  BY <1>1 DEF Least
<1>. HIDE DEF h, n
<1>4. m \in Nat
  BY <1>1
<1>. HIDE DEF m
<1>5. h > m
  <2>1. CASE h = m
    <3>1. (h - m) * r = 0
      BY <1>1, <1>4, <2>1
    <3>. QED BY <3>1, <1>1
  <2>. QED BY <2>1, <1>1, <1>4
<1>6. (h - m - 1) * r \in Nat /\ (h - m) * r = (h - m - 1) * r + r
  BY <1>1, <1>4, <1>5
<1>7. Len(out) = (h - m - 1) * r + (r - left) /\ r - left \in Nat /\ (r - left) + n <= r
  BY <1>1, <1>3, <1>6
<1>. DEFINE y == (h - m - 1) * r
            f == r - left
<1>8. /\ out' \in Seq(Nat \X Nat) /\ Len(out') = y + (f + n)
      /\ \A j \in 1..Len(out') : out'[j] = OneCallByte(r, fed, j - 1)
  <2>1. f \in Nat /\ n \in Nat /\ f + n <= r /\ Len(out) = y + f /\ y \in Nat /\ out' = out \o Read(h, f, n)
    BY <1>2, <1>3, <1>6, <1>7
  <2>2. ReadPlace(h, f, n, y)
    BY <2>1, <1>5 DEF m, ReadPlace
  <2>. HIDE DEF f, y
  <2>3. ReadGood(out \o Read(h, f, n), y + (f + n))
    <3>1. Types /\ h \in Nat /\ f \in Nat /\ n \in Nat /\ y \in Nat
            /\ \A j \in 1..Len(out) : out[j] = OneCallByte(r, fed, j - 1)
      BY <2>1, <1>1
    <3>. QED BY <2>2, <3>1, ReadExtends
  <2>. QED BY <2>1, <2>3 DEF ReadGood
<1>9. left' \in 0..(r - 1) /\ todo' \in Nat
  BY <1>1, <1>2, <1>3
<1>10. Types'
  BY <1>1, <1>2, <1>8, <1>9 DEF Types
<1>11. Squeezing'
  <2>1. Len(out') = (h - m) * r - left'
    BY SMTT(15), <1>1, <1>2, <1>3, <1>6, <1>8
  <2>. QED BY <2>1, <1>1, <1>2 DEF Squeezing, h, m
<1>12. StreamIsOne'
  BY <1>1, <1>2, <1>8 DEF StreamIsOne, h
<1>13. Absorbing'
  BY <1>2 DEF Absorbing
<1>. QED BY <1>10, <1>11, <1>12, <1>13 DEF IInv

LEMMA SqueezeBlockKeepsIt ==
  ASSUME fn \in Functions, IInv, SqueezeBlock
  PROVE  IInv'
<1>. DEFINE h == Len(hist)
            m == fed \div r
            n == Least(todo, r)
<1>1. /\ Types /\ r' = r /\ r \in Nat \ {0} /\ h \in Nat /\ left = 0 /\ fed \in Nat
      /\ todo \in Nat /\ todo > 0 /\ hist \in Seq([0..(r - 1) -> SUBSET Int])
      /\ h >= m /\ Len(out) = (h - m) * r - 0 /\ cur = OneCallBlock(r, fed, h + 1)
      /\ \A k \in 1..h : hist[k] = OneCallBlock(r, fed, k)
      /\ \A j \in 1..Len(out) : out[j] = OneCallByte(r, fed, j - 1)
  BY DEF SqueezeBlock, IInv, Types, Squeezing, StreamIsOne, r
<1>2. /\ hist' = Append(hist, cur) /\ cur' = Zero /\ fed' = fed /\ phase' = "squeeze" /\ fn' = fn
      /\ out' = out \o Read(h + 1, 0, n) /\ left' = r - n /\ todo' = todo - n
  BY DEF SqueezeBlock, PermuteAfter
<1>3. n \in 1..r /\ n <= todo
  BY <1>1 DEF Least
<1>4. m \in Nat
  <2>1. fed \in Nat /\ r \in Nat \ {0}
    BY <1>1
  <2>. QED BY <2>1
<1>5. OneCallBlock(r, fed, h + 1) \in [0..(r - 1) -> SUBSET Int]
  <2>1. fed % r \in Nat
    BY <1>1
  <2>2. \A i \in 0..(r - 1) : (h + 1 - 1) * r + i \in Int /\ m * r + i \in Int
    BY <1>1, <1>4
  <2>3. {Suffix} \subseteq Int /\ {LastBit} \subseteq Int
    BY DEF Suffix, LastBit
  <2>. QED BY <2>2, <2>3 DEF OneCallBlock
<1>6. hist' \in Seq([0..(r - 1) -> SUBSET Int]) /\ Len(hist') = h + 1
        /\ \A k \in 1..(h + 1) : hist'[k] = OneCallBlock(r, fed, k)
  <2>1. hist \in Seq([0..(r - 1) -> SUBSET Int]) /\ cur \in [0..(r - 1) -> SUBSET Int]
          /\ hist' = Append(hist, cur)
    BY <1>1, <1>2, <1>5
  <2>2. /\ hist' \in Seq([0..(r - 1) -> SUBSET Int]) /\ Len(hist') = h + 1
        /\ \A k \in 1..h : hist'[k] = hist[k]
        /\ hist'[h + 1] = cur
    BY <2>1
  <2>3. h \in Nat
    BY <1>1
  <2>. HIDE DEF h, m, n
  <2>4. ASSUME NEW k \in 1..(h + 1) PROVE hist'[k] = OneCallBlock(r, fed, k)
    <3>1. CASE k \in 1..h
      BY <3>1, <2>2, <1>1
    <3>2. CASE k = h + 1
      BY <3>2, <2>2, <1>1
    <3>. QED BY <2>3, <3>1, <3>2
  <2>. QED BY <2>2, <2>4
<1>. HIDE DEF h, n
<1>7. Zero = OneCallBlock(r, fed, h + 2)
  <2>1. ~(h + 2 <= m) /\ h + 2 > m + 1
    BY <1>1, <1>4
  <2>. HIDE DEF m
  <2>. QED BY <2>1 DEF Zero, OneCallBlock, m
<1>. HIDE DEF m
<1>8. (h - m) * r \in Nat /\ (h - m + 1) * r = (h - m) * r + r
  BY <1>1, <1>4
<1>. DEFINE y == (h - m) * r
<1>9. /\ out' \in Seq(Nat \X Nat) /\ Len(out') = y + n
      /\ \A j \in 1..Len(out') : out'[j] = OneCallByte(r, fed, j - 1)
  <2>. DEFINE k == h + 1
  <2>1. k \in Nat /\ k > m /\ 0 \in Nat /\ n \in Nat /\ 0 + n <= r /\ k - m - 1 = h - m /\ 0 + n = n
    BY <1>1, <1>3, <1>4
  <2>2. Len(out) = y + 0 /\ y \in Nat
    BY <1>1, <1>8
  <2>3. ReadPlace(k, 0, n, y)
    BY <2>1, <2>2 DEF m, ReadPlace
  <2>4. out' = out \o Read(k, 0, n)
    BY <1>2
  <2>. HIDE DEF y, k
  <2>5. Len(out') = y + (0 + n) /\ out' \in Seq(Nat \X Nat)
          /\ \A j \in 1..Len(out') : out'[j] = OneCallByte(r, fed, j - 1)
    <3>1. Types /\ \A j \in 1..Len(out) : out[j] = OneCallByte(r, fed, j - 1)
      BY <1>1
    <3>2. ReadGood(out \o Read(k, 0, n), y + (0 + n))
      BY <2>1, <2>2, <2>3, <3>1, ReadExtends
    <3>. QED BY <2>4, <3>2 DEF ReadGood
  <2>. QED BY <2>1, <2>5
<1>10. left' \in 0..(r - 1) /\ todo' \in Nat
  BY <1>1, <1>2, <1>3
<1>11. Types'
  BY <1>1, <1>2, <1>6, <1>9, <1>10 DEF Types
<1>12. Squeezing'
  <2>1. Len(out') = ((h + 1) - m) * r - left'
    <3>1. (h + 1) - m = h - m + 1
      BY <1>1, <1>4
    <3>2. (h - m + 1) * r = y + r /\ y \in Nat /\ left' = r - n
      BY <1>2, <1>8
    <3>3. Len(out') = (h - m + 1) * r - left'
      <4>. HIDE DEF y
      <4>. QED BY <3>2, <1>1, <1>3, <1>9
    <3>. QED BY <3>1, <3>3
  <2>2. cur' = OneCallBlock(r, fed, (h + 1) + 1)
    BY <1>1, <1>2, <1>7
  <2>3. h + 1 >= m
    BY <1>1, <1>4
  <2>4. Len(hist') = h + 1 /\ fed' = fed /\ r' = r /\ phase' = "squeeze"
          /\ h + 1 \in Nat /\ fed' \div r' = m
    BY <1>1, <1>2, <1>6 DEF m
  <2>. HIDE DEF y
  <2>5. Len(hist') >= fed' \div r'
    BY <2>3, <2>4
  <2>6. Len(out') = (Len(hist') - (fed' \div r')) * r' - left'
    <3>1. (h + 1) - m = Len(hist') - (fed' \div r')
      <4>1. Len(hist') = h + 1 /\ fed' \div r' = m
        BY <2>4
      <4>. QED BY <4>1, Zenon
    <3>2. ((h + 1) - m) * r = (Len(hist') - (fed' \div r')) * r'
      BY <3>1, <2>4, Zenon
    <3>. QED BY <3>2, <2>1, Zenon
  <2>7. cur' = OneCallBlock(r', fed', Len(hist') + 1)
    BY <2>2, <2>4
  <2>. QED BY <2>5, <2>6, <2>7, Zenon DEF Squeezing
<1>13. StreamIsOne'
  BY <1>1, <1>2, <1>6, <1>9 DEF StreamIsOne
<1>14. Absorbing'
  BY <1>2 DEF Absorbing
<1>. QED BY <1>11, <1>12, <1>13, <1>14 DEF IInv
-----------------------------------------------------------------------------
THEOREM StepGood ==
  ASSUME fn \in Functions, IInv, [SpongeNext]_spongeVars
  PROVE  (fn \in Functions)' /\ IInv'
<1>1. (fn \in Functions)'
  BY DEF SpongeNext, spongeVars, CallAbsorb, AbsorbFull, AbsorbRest, Finalize, Sha3Finalize,
         CallSqueeze, SqueezeLeftover, SqueezeBlock, Release
<1>2. CASE CallAbsorb \/ CallSqueeze
  BY <1>1, <1>2, CallsKeepIt
<1>3. CASE AbsorbFull
  BY <1>1, <1>3, AbsorbFullKeepsIt
<1>4. CASE AbsorbRest
  BY <1>1, <1>4, AbsorbRestKeepsIt
<1>5. CASE Finalize
  BY <1>1, <1>5, FinalizeKeepsIt
<1>6. CASE Sha3Finalize
  BY <1>1, <1>6, Sha3FinalizeKeepsIt
<1>7. CASE SqueezeLeftover
  BY <1>1, <1>7, SqueezeLeftoverKeepsIt
<1>8. CASE SqueezeBlock
  BY <1>1, <1>8, SqueezeBlockKeepsIt
<1>9. CASE Release
  <2>1. hist' = hist /\ out' = out /\ fn' = fn /\ fed' = fed /\ todo' = todo /\ left' = 0
          /\ phase' = "released" /\ r' = r
    BY <1>9 DEF Release, r
  <2>2. 0 \in 0..(r - 1) /\ Types /\ StreamIsOne
    BY DEF IInv, Types
  <2>3. Types'
    BY <2>1, <2>2 DEF Types
  <2>4. Absorbing' /\ Squeezing'
    BY <2>1 DEF Absorbing, Squeezing
  <2>5. StreamIsOne'
    BY <2>1, <2>2 DEF StreamIsOne
  <2>. QED BY <1>1, <2>3, <2>4, <2>5 DEF IInv
<1>10. CASE UNCHANGED spongeVars
  <2>1. hist' = hist /\ out' = out /\ fn' = fn /\ fed' = fed /\ todo' = todo /\ left' = left
          /\ phase' = phase /\ cur' = cur /\ r' = r
    BY <1>10 DEF spongeVars, r
  <2>2. Types /\ Absorbing /\ Squeezing /\ StreamIsOne
    BY DEF IInv
  <2>3. Types'
    BY <2>1, <2>2 DEF Types
  <2>4. Absorbing'
    BY <2>1, <2>2 DEF Absorbing, Pending, FullBlock
  <2>5. Squeezing'
    BY <2>1, <2>2 DEF Squeezing
  <2>6. StreamIsOne'
    BY <2>1, <2>2 DEF StreamIsOne
  <2>. QED BY <1>1, <2>3, <2>4, <2>5, <2>6 DEF IInv
<1>. QED BY <1>1, <1>2, <1>3, <1>4, <1>5, <1>6, <1>7, <1>8, <1>9, <1>10 DEF SpongeNext

\* However a message and its output are cut into calls, the incremental functions of
\* fips202.c return the bytes of the one-call functions.
THEOREM IncrementalIsOneCall == SpongeSpec => []StreamIsOne
<1>1. SpongeInit => fn \in Functions /\ IInv
  BY InitGood
<1>2. fn \in Functions /\ IInv /\ [SpongeNext]_spongeVars => (fn \in Functions /\ IInv)'
  BY StepGood
<1>3. IInv => StreamIsOne
  BY DEF IInv
<1>. QED BY <1>1, <1>2, <1>3, PTL DEF SpongeSpec
-----------------------------------------------------------------------------
\* Induction over the naturals for a set: no natural number is the least one missing.
Below == {p \in Nat \X Nat : p[1] < p[2]}

LEMMA BelowIsWellFounded == IsWellFoundedOn(Below, Nat)
  BY Zenon, NatLessThanWellFounded DEF Below, OpToRel

LEMMA Induction ==
  ASSUME NEW S, 0 \in S, \A n \in Nat : n \in S => n + 1 \in S
  PROVE  Nat \subseteq S
<1> DEFINE Missing == Nat \ S
<1> SUFFICES ASSUME Missing # {} PROVE FALSE
  OBVIOUS
<1>1. PICK least \in Missing : \A n \in Missing : <<n, least>> \notin Below
  <2>1. Missing \subseteq Nat
    OBVIOUS
  <2>2. IsWellFoundedOn(Below, Nat) /\ Missing # {}
    BY BelowIsWellFounded
  <2> HIDE DEF Missing
  <2>. QED BY <2>1, <2>2, WFMin
<1>2. least \in Nat /\ least # 0
  OBVIOUS
<1>3. least - 1 \in Nat /\ least - 1 \in S
  <2>1. least - 1 \in Nat
    BY <1>2
  <2>2. <<least - 1, least>> \in Below
    BY <1>2, <2>1 DEF Below
  <2>. QED BY <1>1, <2>1, <2>2
<1>. QED BY <1>2, <1>3, least - 1 + 1 = least
-----------------------------------------------------------------------------
\* One row times a vector.  The sums of the loop exist ...
LEMMA AccumulatedIs ==
  ASSUME NEW row, NEW v
  PROVE  Accumulated(row, v) =
           [j \in 0..L |-> IF j = 0 THEN 0 ELSE Accumulated(row, v)[j - 1] + row[j] * v[j]]
<1> DEFINE Sums(w, n) == w = [j \in 0..n |-> IF j = 0 THEN 0 ELSE w[j - 1] + row[j] * v[j]]
           Done == {n \in Nat : \E w : Sums(w, n)}
<1>1. 0 \in Done
  <2> DEFINE w == [j \in 0..0 |-> 0]
  <2>1. Sums(w, 0)
    OBVIOUS
  <2>. QED BY <2>1
<1>2. ASSUME NEW n \in Nat, n \in Done PROVE n + 1 \in Done
  <2>1. PICK w : Sums(w, n)
    BY <1>2
  <2> DEFINE x == [j \in 0..(n + 1) |-> IF j = 0 THEN 0 ELSE w[j - 1] + row[j] * v[j]]
  <2>2. \A j \in 0..n : x[j] = w[j]
    BY <2>1
  <2>3. \A j \in 0..(n + 1) : j # 0 => j - 1 \in 0..n
    OBVIOUS
  <2>4. Sums(x, n + 1)
    <3>1. \A j \in 0..(n + 1) : (IF j = 0 THEN 0 ELSE w[j - 1] + row[j] * v[j])
                                  = IF j = 0 THEN 0 ELSE x[j - 1] + row[j] * v[j]
      BY <2>2, <2>3
    <3> DEFINE y == [j \in 0..(n + 1) |-> IF j = 0 THEN 0 ELSE x[j - 1] + row[j] * v[j]]
    <3>2. x = y
      BY <3>1
    <3> HIDE DEF x
    <3>. QED BY <3>2
  <2>5. \E g : Sums(g, n + 1)
    BY <2>4
  <2> HIDE DEF Sums, x
  <2>. QED BY <2>5
<1> HIDE DEF Done
<1>3. L \in Done
  BY <1>1, <1>2, Induction, SignAssumption
<1>4. PICK w : Sums(w, L)
  BY <1>3 DEF Done
<1>5. Accumulated(row, v) = CHOOSE g : Sums(g, L)
  BY DEF Accumulated
<1>. QED BY <1>4, <1>5

LEMMA AccumulatedStep ==
  ASSUME NEW row, NEW v
  PROVE  /\ Accumulated(row, v)[0] = 0
         /\ \A j \in 1..L : Accumulated(row, v)[j] = Accumulated(row, v)[j - 1] + row[j] * v[j]
<1> DEFINE W == Accumulated(row, v)
<1>1. W = [j \in 0..L |-> IF j = 0 THEN 0 ELSE W[j - 1] + row[j] * v[j]]
  BY AccumulatedIs
<1> HIDE DEF W
<1>2. 0 \in 0..L /\ \A j \in 1..L : j \in 0..L /\ j # 0
  BY SignAssumption
<1>3. W[0] = 0 /\ \A j \in 1..L : W[j] = W[j - 1] + row[j] * v[j]
  BY <1>1, <1>2
<1>. QED BY <1>3 DEF W

Vectors == [1..L -> Int]

\* ... are numbers, ...
LEMMA AccumulatedType ==
  ASSUME NEW row \in Vectors, NEW v \in Vectors
  PROVE  \A j \in 0..L : Accumulated(row, v)[j] \in Int
<1> DEFINE W == Accumulated(row, v)
           Good == {n \in Nat : n <= L => W[n] \in Int}
<1>1. W[0] = 0 /\ \A j \in 1..L : W[j] = W[j - 1] + row[j] * v[j]
  BY AccumulatedStep
<1> HIDE DEF W
<1>2. 0 \in Good
  BY <1>1
<1>3. ASSUME NEW n \in Nat, n \in Good PROVE n + 1 \in Good
  <2> SUFFICES ASSUME n + 1 <= L PROVE W[n + 1] \in Int
    OBVIOUS
  <2>1. W[n] \in Int /\ n + 1 \in 1..L /\ (n + 1) - 1 = n
    BY <1>3, SignAssumption
  <2>2. W[n + 1] = W[n] + row[n + 1] * v[n + 1]
    BY <1>1, <2>1
  <2>. QED BY <2>1, <2>2 DEF Vectors
<1> HIDE DEF Good
<1>4. Nat \subseteq Good
  BY <1>2, <1>3, Induction
<1>. QED BY <1>4, SignAssumption DEF Good, W

\* ... and each is linear in the vector.
Plus(u, c, v) == [i \in 1..L |-> u[i] + c * v[i]]

LEMMA AccumulatedLinear ==
  ASSUME NEW row \in Vectors, NEW u \in Vectors, NEW v \in Vectors, NEW c \in Int
  PROVE  /\ Plus(u, c, v) \in Vectors
         /\ RowTimes(row, Plus(u, c, v)) = RowTimes(row, u) + c * RowTimes(row, v)
<1> DEFINE x == Plus(u, c, v)
<1>0. x \in Vectors /\ \A i \in 1..L : x[i] = u[i] + c * v[i]
  BY DEF Vectors, Plus
<1> HIDE DEF x
<1> DEFINE X == Accumulated(row, x)
           U == Accumulated(row, u)
           V == Accumulated(row, v)
           Good == {n \in Nat : n <= L => X[n] = U[n] + c * V[n]}
<1>1. /\ X[0] = 0 /\ \A j \in 1..L : X[j] = X[j - 1] + row[j] * x[j]
      /\ U[0] = 0 /\ \A j \in 1..L : U[j] = U[j - 1] + row[j] * u[j]
      /\ V[0] = 0 /\ \A j \in 1..L : V[j] = V[j - 1] + row[j] * v[j]
  BY AccumulatedStep
<1>2. \A j \in 0..L : X[j] \in Int /\ U[j] \in Int /\ V[j] \in Int
  BY <1>0, AccumulatedType
<1> HIDE DEF X, U, V
<1>3. 0 \in Good
  BY <1>1
<1>4. ASSUME NEW n \in Nat, n \in Good PROVE n + 1 \in Good
  <2> SUFFICES ASSUME n + 1 <= L PROVE X[n + 1] = U[n + 1] + c * V[n + 1]
    OBVIOUS
  <2>1. n \in 0..L /\ n + 1 \in 1..L /\ (n + 1) - 1 = n
    BY SignAssumption
  <2> DEFINE e == row[n + 1]
             a == u[n + 1]
             b == v[n + 1]
  <2>2. X[n + 1] = X[n] + e * x[n + 1] /\ U[n + 1] = U[n] + e * a /\ V[n + 1] = V[n] + e * b
    BY <1>1, <2>1
  <2>3. X[n] = U[n] + c * V[n] /\ x[n + 1] = a + c * b
    BY <1>0, <1>4, <2>1, SignAssumption
  <2>4. e \in Int /\ a \in Int /\ b \in Int /\ U[n] \in Int /\ V[n] \in Int
    BY <1>2, <2>1 DEF Vectors
  <2> HIDE DEF e, a, b
  <2>5. e * (a + c * b) = e * a + c * (e * b)
    BY <2>4
  <2>6. c * (V[n] + e * b) = c * V[n] + c * (e * b)
    BY <2>4
  <2>. QED BY <2>2, <2>3, <2>4, <2>5, <2>6
<1> HIDE DEF Good
<1>5. Nat \subseteq Good
  BY <1>3, <1>4, Induction
<1>6. X[L] = U[L] + c * V[L]
  BY <1>5, SignAssumption DEF Good
<1>. QED BY <1>0, <1>6 DEF RowTimes, X, U, V, x

LEMMA ProductType ==
  ASSUME NEW row \in Vectors, NEW v \in Vectors
  PROVE  RowTimes(row, v) \in Int
  BY AccumulatedType, SignAssumption DEF RowTimes
-----------------------------------------------------------------------------
\* Two numbers of one class modulo Prime.
Same(x, y) == \E k \in Int : x = y + k * Prime

LEMMA Constants ==
  /\ Prime = 8380417 /\ GAMMA1 = 524288 /\ GAMMA2 = 261888 /\ BETA = 196 /\ ETA = 4 /\ TAU = 49
  /\ Prime \div 2 = 4190208 /\ (Prime - 1) \div 8 = 1047552 /\ ZBound = 524092
  /\ GAMMA2 - BETA = 261692 /\ 2 * GAMMA2 = 523776
  BY SMT DEF Prime, GAMMA1, GAMMA2, BETA, ETA, TAU, ZBound

LEMMA SameRest ==
  ASSUME NEW x \in Int, NEW y \in Int, Same(x, y)
  PROVE  x % Prime = y % Prime
  BY SMT DEF Same, Prime

LEMMA RestIsSame ==
  ASSUME NEW x \in Int
  PROVE  x % Prime \in Int /\ 0 <= x % Prime /\ x % Prime <= 8380416 /\ Same(x % Prime, x)
<1> DEFINE k == x \div 8380417
           m == x % 8380417
<1>1. k \in Int /\ x = k * 8380417 + m /\ m \in Int /\ 0 <= m /\ m <= 8380416
  BY SMT
<1>2. x % Prime = m
  BY SMT, Constants
<1> HIDE DEF k, m
<1>3. m = x + (-k) * Prime /\ -k \in Int
  BY SMT, <1>1, Constants
<1>. QED BY SMT, <1>1, <1>2, <1>3 DEF Same

\* Representatives the transforms leave, and those reduce32 leaves, keep the class.
LEMMA NearestIsSame ==
  ASSUME NEW x \in Int
  PROVE  Nearest(x) \in Int /\ Same(Nearest(x), x) /\ Nearest(x) % Prime = x % Prime
<1> DEFINE m == x % Prime
<1>1. m \in Int /\ Same(m, x)
  BY SMT, RestIsSame
<1>2. Nearest(x) = m \/ Nearest(x) = m - Prime
  BY SMT DEF Nearest
<1> HIDE DEF m
<1>3. PICK k \in Int : m = x + k * Prime
  BY SMT, <1>1 DEF Same
<1>4. m - Prime = x + (k - 1) * Prime /\ k - 1 \in Int /\ m - Prime \in Int
  BY SMT, <1>1, <1>3, Constants
<1>5. Nearest(x) \in Int /\ Same(Nearest(x), x)
  BY SMT, <1>1, <1>2, <1>3, <1>4 DEF Same
<1>. QED BY SMT, <1>5, SameRest

LEMMA LeftIsSame ==
  ASSUME NEW x \in Int, NEW rep \in Left(x)
  PROVE  rep \in Int /\ Same(rep, x) /\ -(Prime \div 2 + Slack) <= rep /\ rep <= Prime \div 2 + Slack
<1>1. Nearest(x) \in Int /\ Same(Nearest(x), x)
  BY SMT, NearestIsSame
<1>2. /\ rep = Nearest(x) - Prime \/ rep = Nearest(x) \/ rep = Nearest(x) + Prime
      /\ Magnitude(rep) <= Prime \div 2 + Slack
  BY SMT DEF Left
<1>3. PICK k \in Int : Nearest(x) = x + k * Prime
  BY SMT, <1>1 DEF Same
<1>4. /\ Nearest(x) - Prime = x + (k - 1) * Prime /\ k - 1 \in Int
      /\ Nearest(x) + Prime = x + (k + 1) * Prime /\ k + 1 \in Int
  BY SMT, <1>1, <1>3, Constants
<1>5. rep \in Int /\ Same(rep, x)
  <2>1. rep = x + (k - 1) * Prime \/ rep = x + k * Prime \/ rep = x + (k + 1) * Prime
    BY SMT, <1>2, <1>3, <1>4
  <2>2. rep \in Int
    BY SMT, <1>1, <1>2, Constants
  <2>. QED BY SMT, <1>4, <2>1, <2>2 DEF Same
<1>6. Slack \in Nat
  BY SMT, SignAssumption
<1>. QED BY SMT, <1>2, <1>5, <1>6, Constants DEF Magnitude

LEMMA LeftVecIsSame ==
  ASSUME NEW n \in Nat, NEW v, DOMAIN v = 1..n, \A i \in 1..n : v[i] \in Int, NEW w \in LeftVec(v)
  PROVE  /\ DOMAIN w = 1..n
         /\ \A i \in 1..n : /\ w[i] \in Int /\ Same(w[i], v[i])
                            /\ -(Prime \div 2 + Slack) <= w[i] /\ w[i] <= Prime \div 2 + Slack
<1>1. DOMAIN w = 1..n /\ \A i \in 1..n : w[i] \in Left(v[i])
  BY SMT DEF LeftVec
<1>. QED BY SMT, <1>1, LeftIsSame

LEMMA ReduceIsSame ==
  ASSUME NEW a \in Int
  PROVE  Field!Reduce32(a) \in Int /\ Same(Field!Reduce32(a), a)
<1> DEFINE k == (a + 2 ^ 23 \div 2) \div 2 ^ 23
<1>1. k \in Int
  BY SMT
<1>2. Field!Reduce32(a) = a - k * Prime
  BY SMT DEF Field!Reduce32
<1> HIDE DEF k
<1>3. Field!Reduce32(a) \in Int /\ Field!Reduce32(a) = a + (-k) * Prime /\ -k \in Int
  BY SMT, <1>1, <1>2, Constants
<1>. QED BY SMT, <1>3 DEF Same

LEMMA NotExceeding ==
  ASSUME NEW v, NEW B \in Int, B <= 1047552, ~Exceeds(v, B), NEW i \in DOMAIN v, v[i] \in Int
  PROVE  -B < v[i] /\ v[i] < B
<1>1. ~ChkNorm(v[i], B)
  BY SMT DEF Exceeds
<1>. QED BY SMT, <1>1, Constants DEF ChkNorm, Magnitude
-----------------------------------------------------------------------------
\* decompose, with its constants.
LEMMA HighIs ==
  ASSUME NEW a \in Int
  PROVE  /\ HighBits(a) = ((((a + 127) \div 128) * 1025 + 2097152) \div 4194304) % 16
         /\ HighBits(a) \in Int /\ 0 <= HighBits(a) /\ HighBits(a) <= 15
  BY SMT DEF HighBits

LEMMA LowIs ==
  ASSUME NEW a \in Int, HighBits(a) \in Int
  PROVE  LowBits(a) = IF a - HighBits(a) * 523776 > 4190208 THEN a - HighBits(a) * 523776 - 8380417
                                                             ELSE a - HighBits(a) * 523776
  BY SMT DEF LowBits, Prime, GAMMA2

\* The low bits are within GAMMA2, and give the class back together with the high bits.
LEMMA Decomposed ==
  ASSUME NEW a \in Int, 0 <= a, a <= 8380416
  PROVE  /\ LowBits(a) \in Int /\ -261888 <= LowBits(a) /\ LowBits(a) <= 261888
         /\ Same(HighBits(a) * 523776 + LowBits(a), a)
<1> DEFINE h == HighBits(a)
           l == LowBits(a)
<1>1. h = ((((a + 127) \div 128) * 1025 + 2097152) \div 4194304) % 16
  BY SMT, HighIs
<1>2. h \in Int
  BY SMT, HighIs
<1>3. l = IF a - h * 523776 > 4190208 THEN a - h * 523776 - 8380417 ELSE a - h * 523776
  BY SMT, <1>2, LowIs
<1> HIDE DEF h, l
<1>4. l \in Int /\ -261888 <= l /\ l <= 261888
  BY SMT, <1>1, <1>2, <1>3
<1>5. h * 523776 + l = a \/ h * 523776 + l = a - 8380417
  BY SMT, <1>2, <1>3
<1>6. h * 523776 + l = a + 0 * Prime \/ h * 523776 + l = a + (-1) * Prime
  BY SMT, <1>5, <1>2, <1>4, Constants
<1>. QED BY SMT, <1>4, <1>6 DEF Same, h, l

\* High and low bits are the only ones of their class: with the low bits, the high bits
\* do not change as long as they stay within their interval ...
LEMMA DecomposedOnce ==
  ASSUME NEW h \in Int, 0 <= h, h <= 15, NEW l \in Int, -261888 <= l, l <= 261888, l = -261888 => h = 0,
         NEW a \in Int, 0 <= a, a <= 8380416, h * 523776 + l = a \/ h * 523776 + l = a - 8380417
  PROVE  HighBits(a) = h /\ LowBits(a) = l
<1> DEFINE x == (a + 127) \div 128
           y == (x * 1025 + 2097152) \div 4194304
<1>1. x \in Int /\ 128 * x <= a + 127 /\ a + 127 < 128 * x + 128
  BY SMT
<1>2. y \in Int /\ 4194304 * y <= x * 1025 + 2097152 /\ x * 1025 + 2097152 < 4194304 * y + 4194304
  BY SMT, <1>1
<1>3. HighBits(a) = y % 16
  BY SMT, HighIs
<1> HIDE DEF x, y
<1>4. y >= 0 /\ y <= 16
  BY SMT, <1>1, <1>2
<1>5. y % 16 = h
  BY SMTT(60), <1>1, <1>2, <1>4
<1>6. HighBits(a) = h
  BY SMT, <1>3, <1>5
<1>. QED BY SMT, <1>6, LowIs

LEMMA HighStays ==
  ASSUME NEW h \in Int, 0 <= h, h <= 15, NEW l \in Int, -261888 < l, l <= 261888,
         NEW a \in Int, 0 <= a, a <= 8380416, Same(h * 523776 + l, a)
  PROVE  HighBits(a) = h
<1>1. h * 523776 + l = a \/ h * 523776 + l = a - 8380417
  BY SMT DEF Same, Prime
<1>. QED BY SMTT(20), <1>1, DecomposedOnce

\* ... and one hint bit repairs them when they leave it for the next one: for every low
\* part that two additions of less than GAMMA2 can reach, use_hint of make_hint's bit gives
\* the high bits back, over the corner where decompose wraps around.
THEOREM HintRepairs ==
  ASSUME NEW h \in Int, 0 <= h, h <= 15, NEW l \in Int, -523776 < l, l < 523776,
         NEW a \in Int, 0 <= a, a <= 8380416, Same(h * 523776 + l, a)
  PROVE  UseHint(a, MakeHint(l, h)) = h
<1>1. UseHint(a, 0) = HighBits(a)
  BY SMT DEF UseHint
<1>2. UseHint(a, 1) = IF LowBits(a) > 0 THEN (HighBits(a) + 1) % 16 ELSE (HighBits(a) - 1) % 16
  BY SMT DEF UseHint
<1>3. h * 523776 + l = a \/ h * 523776 + l = a - 8380417
  BY SMT DEF Same, Prime
<1>4. CASE (-261888 < l /\ l <= 261888) \/ (l = -261888 /\ h = 0)
  <2>1. MakeHint(l, h) = 0
    BY SMT, <1>4, Constants DEF MakeHint
  <2>. QED BY SMT, <2>1, <1>1, <1>3, <1>4, DecomposedOnce
<1>5. CASE l > 261888
  <2> DEFINE up   == IF h = 15 THEN 0 ELSE h + 1
             rest == IF h = 15 THEN l - 523777 ELSE l - 523776
  <2>1. MakeHint(l, h) = 1
    BY SMT, <1>5, Constants DEF MakeHint
  <2>2. /\ up \in Int /\ 0 <= up /\ up <= 15 /\ rest \in Int /\ -261888 <= rest /\ rest <= 0
        /\ rest = -261888 => up = 0
        /\ up * 523776 + rest = a \/ up * 523776 + rest = a - 8380417
        /\ (up - 1) % 16 = h
    BY SMT, <1>3, <1>5
  <2> HIDE DEF up, rest
  <2>3. HighBits(a) = up /\ LowBits(a) = rest
    BY SMTT(20), <2>2, DecomposedOnce
  <2>. QED BY SMT, <2>1, <2>2, <2>3, <1>2
<1>6. CASE l < -261888 \/ (l = -261888 /\ h # 0)
  <2> DEFINE down == IF h = 0 THEN 15 ELSE h - 1
             rest == IF h = 0 THEN l + 523777 ELSE l + 523776
  <2>1. MakeHint(l, h) = 1
    BY SMT, <1>6, Constants DEF MakeHint
  <2>2. /\ down \in Int /\ 0 <= down /\ down <= 15 /\ rest \in Int /\ 0 < rest /\ rest <= 261888
        /\ down * 523776 + rest = a \/ down * 523776 + rest = a - 8380417
        /\ (down + 1) % 16 = h
    BY SMT, <1>3, <1>6
  <2> HIDE DEF down, rest
  <2>3. HighBits(a) = down /\ LowBits(a) = rest
    BY SMT, <2>2, DecomposedOnce
  <2>. QED BY SMT, <2>1, <2>2, <2>3, <1>2
<1>. QED BY SMT, <1>4, <1>5, <1>6
-----------------------------------------------------------------------------
LEMMA SameTrans ==
  ASSUME NEW x \in Int, NEW y \in Int, NEW z \in Int, Same(x, y), Same(y, z)
  PROVE  Same(x, z)
<1>1. PICK j \in Int : x = y + j * Prime
  BY SMT DEF Same
<1>2. PICK k \in Int : y = z + k * Prime
  BY SMT DEF Same
<1>3. x = z + (j + k) * Prime /\ j + k \in Int
  BY SMT, <1>1, <1>2, Constants
<1>. QED BY SMT, <1>3 DEF Same

LEMMA SameTurned ==
  ASSUME NEW x \in Int, NEW y \in Int, Same(x, y)
  PROVE  Same(y, x)
<1>1. PICK k \in Int : x = y + k * Prime
  BY SMT DEF Same
<1>2. y = x + (-k) * Prime /\ -k \in Int
  BY SMT, <1>1, Constants
<1>. QED BY SMT, <1>2 DEF Same

LEMMA SameSum ==
  ASSUME NEW x \in Int, NEW y \in Int, NEW u \in Int, NEW v \in Int, Same(x, y), Same(u, v)
  PROVE  Same(x + u, y + v) /\ Same(x - u, y - v)
<1>1. PICK j \in Int : x = y + j * Prime
  BY SMT DEF Same
<1>2. PICK k \in Int : u = v + k * Prime
  BY SMT DEF Same
<1>3. /\ x + u = (y + v) + (j + k) * Prime /\ j + k \in Int
      /\ x - u = (y - v) + (j - k) * Prime /\ j - k \in Int
  BY SMT, <1>1, <1>2, Constants
<1>. QED BY SMT, <1>3 DEF Same

LEMMA SameTimes ==
  ASSUME NEW x \in Int, NEW y \in Int, NEW c \in Int, Same(x, y)
  PROVE  Same(c * x, c * y)
<1>1. PICK k \in Int : x = y + k * Prime
  BY SMT DEF Same
<1>2. c * (k * Prime) = (c * k) * Prime /\ c * k \in Int
  BY SMT, Constants
<1>3. Prime \in Int
  BY SMT, Constants
<1> DEFINE p == k * Prime
<1>4. p \in Int
  BY SMT, <1>3
<1>5. x = y + p /\ c * p = (c * k) * Prime
  BY SMT, <1>1, <1>2
<1> HIDE DEF p
<1>6. c * x = c * y + c * p
  BY SMT, <1>4, <1>5
<1>7. c * x = c * y + (c * k) * Prime
  BY SMT, <1>5, <1>6
<1>. QED BY SMT, <1>2, <1>7 DEF Same

LEMMA SameTimesSum ==
  ASSUME NEW x \in Int, NEW y \in Int, NEW u \in Int, NEW c \in Int, Same(x, y + u)
  PROVE  Same(c * x, c * y + c * u)
<1> DEFINE sum == y + u
<1>1. sum \in Int /\ Same(x, sum) /\ c * sum = c * y + c * u
  OBVIOUS
<1> HIDE DEF sum
<1>2. Same(c * x, c * sum)
  BY Zenon, <1>1, SameTimes
<1>. QED BY <1>1, <1>2

LEMMA RestOf ==
  ASSUME NEW x \in Int, 0 <= x, x < Prime, NEW y \in Int, Same(x, y)
  PROVE  x = y % Prime
<1>1. x % Prime = x
  BY SMT, Constants
<1>. QED BY SMT, <1>1, SameRest

\* A product keeps its class when the vector does.
LEMMA ProductSame ==
  ASSUME NEW row \in Vectors, NEW u \in Vectors, NEW z \in Vectors,
         \A j \in 1..L : Same(z[j], u[j])
  PROVE  Same(RowTimes(row, z), RowTimes(row, u))
<1> DEFINE F(j) == CHOOSE k \in Int : z[j] = u[j] + k * Prime
           q == [j \in 1..L |-> F(j)]
<1>0. \A j \in 1..L : F(j) \in Int /\ z[j] = u[j] + F(j) * Prime
  BY SMT DEF Same
<1> HIDE DEF F
<1>1. \A j \in 1..L : q[j] \in Int /\ z[j] = u[j] + q[j] * Prime
  BY SMT, <1>0
<1>2. q \in Vectors
  BY SMT, <1>0 DEF Vectors
<1> HIDE DEF q
<1>3. Prime \in Int
  BY SMT, Constants
<1>4. z = Plus(u, Prime, q)
  <2>1. \A j \in 1..L : z[j] = u[j] + Prime * q[j]
    <3> TAKE j \in 1..L
    <3>1. q[j] \in Int /\ z[j] = u[j] + q[j] * Prime
      BY SMT, <1>1
    <3>. QED BY SMT, <3>1, Constants
  <2>. QED BY <2>1 DEF Plus, Vectors
<1>5. RowTimes(row, z) = RowTimes(row, u) + Prime * RowTimes(row, q)
  BY <1>2, <1>3, <1>4, AccumulatedLinear
<1>6. RowTimes(row, q) \in Int /\ RowTimes(row, u) \in Int
  BY SMT, <1>2, ProductType
<1>7. Prime * RowTimes(row, q) = RowTimes(row, q) * Prime
  BY SMT, <1>6, Constants
<1>. QED BY SMT, <1>5, <1>6, <1>7 DEF Same

LEMMA ProductCombines ==
  ASSUME NEW row \in Vectors, NEW s1 \in Vectors, NEW y \in Vectors, NEW z \in Vectors,
         NEW c \in Int, \A j \in 1..L : Same(z[j], c * s1[j] + y[j])
  PROVE  Same(RowTimes(row, z), RowTimes(row, y) + c * RowTimes(row, s1))
<1> DEFINE u == Plus(y, c, s1)
<1>1. \A j \in 1..L : u[j] = y[j] + c * s1[j]
  BY DEF Plus
<1>2. \A j \in 1..L : c * s1[j] + y[j] = y[j] + c * s1[j]
  BY SMT DEF Vectors
<1>3. u \in Vectors /\ RowTimes(row, u) = RowTimes(row, y) + c * RowTimes(row, s1)
  BY AccumulatedLinear
<1> HIDE DEF u
<1>4. \A j \in 1..L : Same(z[j], u[j])
  BY Zenon, <1>1, <1>2
<1>5. Same(RowTimes(row, z), RowTimes(row, u))
  BY Zenon, <1>3, <1>4, ProductSame
<1>. QED BY Zenon, <1>3, <1>5

\* One row of an attempt whose z is c * s1 + y in every class, and whose low bits survive
\* the subtraction of c * s2.
RowTried(row, s1, y, z, c, s2, t0, t1, w) ==
  /\ row \in Vectors /\ s1 \in Vectors /\ y \in Vectors /\ z \in Vectors
  /\ c \in Int /\ s2 \in Int /\ t0 \in Int /\ t1 \in Int
  /\ \A j \in 1..L : Same(z[j], c * s1[j] + y[j])
  /\ Same(t1 * 2 ^ D + t0, RowTimes(row, s1) + s2)
  /\ w = RowTimes(row, y) % Prime
  /\ -(GAMMA2 - BETA) < LowBits(w) - c * s2 /\ LowBits(w) - c * s2 < GAMMA2 - BETA

\* The low part a hint is made from.
Hintable(l, c, s2, t0, w) ==
  /\ l \in Int /\ -(2 * GAMMA2) < l /\ l < 2 * GAMMA2 /\ Same(l, LowBits(w) - c * s2 + c * t0)

\* The commitment is that of A z - c t, and the verifier, who has A z - c t1 * 2^D only,
\* finds it with the hints.
RowStands(row, z, c, s2, t0, t1, w) ==
  /\ HighBits((RowTimes(row, z) - c * (t1 * 2 ^ D + t0)) % Prime) = HighBits(w)
  /\ \A l : Hintable(l, c, s2, t0, w) =>
       UseHint(Nearest(RowTimes(row, z) - (c * 2 ^ D) * t1) % Prime, MakeHint(l, HighBits(w)))
         = HighBits(w)

\* A row that sign.c lets through is one that verify finds the commitment of, whichever
\* representatives the transforms and reductions left on either side.
THEOREM RowVerifies ==
  ASSUME NEW row, NEW s1, NEW y, NEW z, NEW c, NEW s2, NEW t0, NEW t1, NEW w,
         RowTried(row, s1, y, z, c, s2, t0, t1, w)
  PROVE  RowStands(row, z, c, s2, t0, t1, w)
<1> DEFINE S == RowTimes(row, s1)
           Y == RowTimes(row, y)
           Zr == RowTimes(row, z)
           h == HighBits(w)
           rest == LowBits(w)
           T == t1 * 2 ^ D + t0
<1>0. 2 ^ D = 8192 /\ GAMMA2 - BETA = 261692 /\ 2 * GAMMA2 = 523776
  BY SMT, Constants DEF D
<1>1. S \in Int /\ Y \in Int /\ Zr \in Int /\ T \in Int /\ c \in Int /\ s2 \in Int /\ t0 \in Int /\ t1 \in Int
  BY SMT, <1>0, ProductType DEF RowTried
<1>2. Same(Zr, Y + c * S)
  <2>1. /\ row \in Vectors /\ s1 \in Vectors /\ y \in Vectors /\ z \in Vectors /\ c \in Int
        /\ \A j \in 1..L : Same(z[j], c * s1[j] + y[j])
    BY DEF RowTried
  <2>. QED BY <2>1, ProductCombines
<1>3. w \in Int /\ 0 <= w /\ w <= 8380416 /\ Same(w, Y)
  BY SMT, <1>1, RestIsSame DEF RowTried
<1>4. h \in Int /\ 0 <= h /\ h <= 15
  BY SMT, <1>3, HighIs
<1>5. rest \in Int /\ Same(h * 523776 + rest, w)
  BY SMT, <1>3, Decomposed
<1>4a. T = t1 * 8192 + t0
  BY SMT, <1>0
<1>4b. Same(T, S + s2)
  BY DEF RowTried
<1> HIDE DEF T
<1> DEFINE cS == c * S
           cs2 == c * s2
           ct0 == c * t0
           cT == c * T
           ct1 == (c * 2 ^ D) * t1
<1>6. cS \in Int /\ cs2 \in Int /\ ct0 \in Int /\ cT \in Int /\ ct1 \in Int
  BY SMT, <1>0, <1>1
<1>7. Same(cT, cS + cs2)
  <2>1. Same(T, S + s2)
    BY Zenon, <1>4b
  <2>2. S \in Int /\ T \in Int /\ c \in Int /\ s2 \in Int
    BY Zenon, <1>1
  <2> HIDE DEF S
  <2>. QED BY Zenon, <2>1, <2>2, SameTimesSum
<1>8. ct1 = cT - ct0
  <2>1. c * (t1 * 8192 + t0) = (c * 8192) * t1 + c * t0
    BY SMT, <1>1
  <2>2. cT = ct1 + ct0
    BY SMT, <1>0, <1>1, <1>4a, <2>1
  <2>. QED BY SMT, <1>6, <2>2
<1>9. Same(Zr, Y + cS) /\ -261692 < rest - cs2 /\ rest - cs2 < 261692
  BY SMT, <1>0, <1>2 DEF RowTried
<1> HIDE DEF S, Y, Zr, h, rest, cS, cs2, ct0, cT, ct1
<1>10. Same(h * 523776 + (rest - cs2), Zr - cT)
  <2>1. Same(h * 523776 + rest, Y)
    BY SMT, <1>1, <1>3, <1>4, <1>5, SameTrans
  <2>2. Same(Zr - cT, (Y + cS) - (cS + cs2))
    BY SMT, <1>1, <1>6, <1>7, <1>9, SameSum
  <2>3. (Y + cS) - (cS + cs2) = Y - cs2
    BY SMT, <1>1, <1>6
  <2>4. Same(Zr - cT, Y - cs2)
    BY SMT, <2>2, <2>3
  <2>5. Same(Y - cs2, Zr - cT)
    BY SMT, <1>1, <1>6, <2>4, SameTurned
  <2>6. Same(cs2, cs2)
    <3>1. cs2 = cs2 + 0 * Prime
      BY SMT, <1>6, Constants
    <3>. QED BY SMT, <3>1 DEF Same
  <2>7. Same((h * 523776 + rest) - cs2, Y - cs2)
    BY SMT, <1>1, <1>4, <1>5, <1>6, <2>1, <2>6, SameSum
  <2>8. (h * 523776 + rest) - cs2 = h * 523776 + (rest - cs2)
    BY SMT, <1>4, <1>5, <1>6
  <2>. QED BY SMT, <1>1, <1>4, <1>5, <1>6, <2>5, <2>7, <2>8, SameTrans
<1>11. HighBits((Zr - cT) % Prime) = h
  <2> DEFINE d == Zr - cT
             a == d % Prime
  <2>0. d \in Int /\ d = Zr - cT
    BY SMT, <1>1, <1>6
  <2> HIDE DEF d
  <2>1. a \in Int /\ 0 <= a /\ a <= 8380416 /\ Same(a, d)
    BY SMT, <2>0, RestIsSame
  <2> HIDE DEF a
  <2>2. Same(h * 523776 + (rest - cs2), a)
    BY SMT, <1>4, <1>5, <1>6, <1>10, <2>0, <2>1, SameTurned, SameTrans
  <2> DEFINE l == rest - cs2
  <2>3. l \in Int /\ -261692 < l /\ l < 261692 /\ Same(h * 523776 + l, a)
    BY SMT, <1>5, <1>6, <1>9, <2>2
  <2> HIDE DEF l
  <2>4. HighBits(a) = h
    <3>1. -261888 < l /\ l <= 261888
      BY SMT, <2>3
    <3>. QED BY SMT, <1>4, <2>1, <2>3, <3>1, HighStays
  <2>. QED BY SMT, <2>4 DEF a, d
<1>12. ASSUME NEW l \in Int, -523776 < l, l < 523776, Same(l, rest - cs2 + ct0)
       PROVE  UseHint(Nearest(Zr - ct1) % Prime, MakeHint(l, h)) = h
  <2> DEFINE d == Zr - ct1
             a == d % Prime
  <2>0. d \in Int /\ d = Zr - ct1
    BY SMT, <1>1, <1>6
  <2> HIDE DEF d
  <2>1. a \in Int /\ 0 <= a /\ a <= 8380416 /\ Same(a, d) /\ Nearest(d) % Prime = a
    BY SMT, <2>0, RestIsSame, NearestIsSame
  <2> HIDE DEF a
  <2>2. Same(ct0, ct0) /\ Same(h * 523776, h * 523776)
    <3>1. ct0 = ct0 + 0 * Prime /\ h * 523776 = h * 523776 + 0 * Prime
      BY SMT, <1>4, <1>6, Constants
    <3>. QED BY SMT, <3>1 DEF Same
  <2>3. Same(h * 523776 + (rest - cs2) + ct0, (Zr - cT) + ct0)
    BY SMT, <1>1, <1>4, <1>5, <1>6, <1>10, <2>2, SameSum
  <2>4. Same(h * 523776 + l, h * 523776 + (rest - cs2 + ct0))
    BY SMT, <1>4, <1>5, <1>6, <1>12, <2>2, SameSum
  <2>5. (Zr - cT) + ct0 = Zr - ct1 /\ h * 523776 + (rest - cs2 + ct0) = h * 523776 + (rest - cs2) + ct0
    BY SMT, <1>1, <1>4, <1>5, <1>6, <1>8
  <2>6. Same(h * 523776 + l, Zr - ct1)
    BY SMT, <1>1, <1>4, <1>5, <1>6, <2>3, <2>4, <2>5, SameTrans
  <2>7. Same(h * 523776 + l, a)
    BY SMT, <1>4, <2>0, <2>1, <2>6, SameTurned, SameTrans
  <2>8. UseHint(a, MakeHint(l, h)) = h
    BY SMT, <1>4, <1>12, <2>1, <2>7, HintRepairs
  <2>. QED BY SMT, <2>0, <2>1, <2>8
<1>13. HighBits((Zr - c * (t1 * 2 ^ D + t0)) % Prime) = h
  BY Zenon, <1>11 DEF cT, T
<1>14. ASSUME NEW l, Hintable(l, c, s2, t0, w)
       PROVE  UseHint(Nearest(Zr - (c * 2 ^ D) * t1) % Prime, MakeHint(l, h)) = h
  <2>1. l \in Int /\ -523776 < l /\ l < 523776
    BY SMT, <1>0, <1>14 DEF Hintable
  <2>2. Same(l, rest - cs2 + ct0)
    BY Zenon, <1>14 DEF Hintable, rest, cs2, ct0
  <2>. QED BY SMT, <1>12, <2>1, <2>2 DEF ct1
<1>. QED BY Zenon, <1>13, <1>14 DEF Zr, h, RowStands
-----------------------------------------------------------------------------
\* The coefficient that t1 and t0 are cut from.
Whole(A, s1, s2, i) == (RowTimes(A[i], s1) + s2[i]) % Prime

\* t1 and t0 make up A s1 + s2, and t1 is the same for every representative.
KeyOK == key # NoKey =>
  /\ key.A \in [1..K -> Vectors] /\ key.s1 \in Vectors /\ key.s2 \in [1..K -> -ETA..ETA]
  /\ key.t0 \in [1..K -> Int] /\ key.t1 \in [1..K -> Int] /\ key.tr = <<key.A, key.t1>>
  /\ \A i \in 1..K : Same(key.t1[i] * 2 ^ D + key.t0[i], RowTimes(key.A[i], key.s1) + key.s2[i])
  /\ \A as1 \in LeftVec(Product(key.A, key.s1)) : PublicOf(key.A, as1, key.s2).t1 = key.t1

Unfinished == {"check z", "check w0", "check h", "write"}
Owned == pc \in Unfinished \cup {"unpacked", "reject"} \/ sig # NoSig => key # NoKey

\* A running attempt: w commits, and LowRest is w's low bits less c * s2.
Commitment(i) == RowTimes(key.A[i], try.y) % Prime
LowRest(i)       == LowBits(Commitment(i)) - try.c * key.s2[i]

Tried == pc \in Unfinished =>
  /\ try = [y |-> try.y, c |-> try.c, h |-> try.h, w1 |-> try.w1, w0 |-> try.w0, z |-> try.z]
  /\ try.y \in Vectors /\ try.c \in -TAU..TAU /\ try.z \in Vectors
  /\ \A j \in 1..L : Same(try.z[j], try.c * key.s1[j] + try.y[j])
  /\ try.w1 = [i \in 1..K |-> HighBits(Commitment(i))]
  /\ try.w0 \in [1..K -> Int]
FirstLow  == pc \in {"check z", "check w0"} => \A i \in 1..K : try.w0[i] = LowBits(Commitment(i))
ZSmall    == pc \in {"check w0", "check h", "write"} => ~Exceeds(try.z, ZBound)
RestSmall == pc \in {"check h", "write"} =>
  \A i \in 1..K : -(GAMMA2 - BETA) < LowRest(i) /\ LowRest(i) < GAMMA2 - BETA
LowRestKept  == pc = "check h" => \A i \in 1..K : try.w0[i] = LowRest(i)
Hinted    == pc = "write" => \A i \in 1..K :
  /\ -(2 * GAMMA2) < try.w0[i] /\ try.w0[i] < 2 * GAMMA2
  /\ Same(try.w0[i], LowRest(i) + try.c * key.t0[i])
  /\ try.h[i] = MakeHint(try.w0[i], try.w1[i])

\* A written signature stands by itself, whatever becomes of the attempt.
SigOK == sig # NoSig =>
  /\ sig.c = <<sig.c[1], sig.c[2]>> /\ ~Exceeds(sig.z, ZBound)
  /\ CommitmentStands /\ Recovered = sig.c[2]

PublicOK == public # <<>> => key # NoKey /\ public = key.tr

SignInv == KeyOK /\ Owned /\ Tried /\ FirstLow /\ ZSmall /\ RestSmall /\ LowRestKept /\ Hinted /\ SigOK /\ PublicOK
-----------------------------------------------------------------------------
LEMMA Constrained ==
  /\ Matrices \subseteq [1..K -> Vectors] /\ Masks \subseteq Int /\ Challenges \subseteq -TAU..TAU
  /\ \A s \in Secrets : s.s1 \in Vectors /\ s.s2 \in [1..K -> -ETA..ETA]
  /\ K \in Nat /\ L \in Nat
  /\ Messages \subseteq Seq(Nat) \X Seq(Nat)
<1>1. ETA = 4
  BY SMT, Constants
<1>2. \A s \in Secrets : s.s1 \in [1..L -> -ETA..ETA] /\ s.s2 \in [1..K -> -ETA..ETA]
  BY SMT, SignAssumption
<1>3. \A s \in Secrets : s.s1 \in Vectors
  <2> SUFFICES ASSUME NEW s \in Secrets PROVE s.s1 \in [1..L -> Int]
    BY DEF Vectors
  <2>1. s.s1 \in [1..L -> -4..4]
    BY SMT, <1>1, <1>2
  <2>. QED BY SMT, <2>1
<1>4. Masks \subseteq Int
  <2> DEFINE least == -(GAMMA1 - 1)
             most  == GAMMA1
  <2>1. least \in Int /\ most \in Int
    BY SMT, Constants
  <2>2. Masks \subseteq least..most
    BY SMT, SignAssumption
  <2> HIDE DEF least, most
  <2>. QED BY <2>1, <2>2
<1>6. Matrices \subseteq [1..K -> [1..L -> Int]]
  BY SMT, SignAssumption
<1>7. K \in Nat /\ L \in Nat /\ Messages \subseteq Seq(Nat) \X Seq(Nat) /\ Challenges \subseteq -TAU..TAU
  BY SMT, SignAssumption
<1>. QED BY <1>2, <1>3, <1>4, <1>6, <1>7 DEF Vectors

LEMMA SlackSmall == Slack \in Nat /\ Slack + 4 < 4190208
<1>1. Slack \in Nat /\ Slack + ETA < Prime \div 2
  BY SMT, SignAssumption
<1>. QED BY SMT, <1>1, Constants

LEMMA SmallNumbers == -ETA..ETA \subseteq Int /\ -TAU..TAU \subseteq Int
  BY SMT DEF ETA, TAU

LEMMA Powers ==
  ASSUME NEW a \in Int
  PROVE  /\ Power2High(a) \in Int /\ Power2Low(a) \in Int
         /\ Power2High(a) * 2 ^ D + Power2Low(a) = a
<1>1. 2 ^ D = 8192 /\ 2 ^ (D - 1) = 4096
  BY SMT DEF D
<1>2. Power2High(a) = (a + 4095) \div 8192
  BY SMT, <1>1 DEF Power2High
<1>3. Power2High(a) \in Int
  BY SMT, <1>2
<1>4. Power2Low(a) = a - Power2High(a) * 8192
  BY SMT, <1>1 DEF Power2Low
<1>. QED BY SMT, <1>1, <1>3, <1>4

\* The public key does not depend on the representatives of A * s1.
LEMMA PublicIs ==
  ASSUME NEW A \in [1..K -> Vectors], NEW s1 \in Vectors, NEW s2 \in [1..K -> -ETA..ETA],
         NEW as1 \in LeftVec(Product(A, s1))
  PROVE  /\ PublicOf(A, as1, s2).t1 = [i \in 1..K |-> Power2High(Whole(A, s1, s2, i))]
         /\ PublicOf(A, as1, s2).t0 = [i \in 1..K |-> Power2Low(Whole(A, s1, s2, i))]
<1> DEFINE t == CaddqVec(AddVec(as1, s2))
<1>1. \A i \in 1..K : RowTimes(A[i], s1) \in Int
  BY Zenon, ProductType
<1>2. /\ DOMAIN as1 = 1..K
      /\ \A i \in 1..K : /\ as1[i] \in Int /\ Same(as1[i], RowTimes(A[i], s1))
                         /\ -(Prime \div 2 + Slack) <= as1[i] /\ as1[i] <= Prime \div 2 + Slack
  <2> DEFINE v == Product(A, s1)
  <2>1. DOMAIN v = 1..K /\ \A i \in 1..K : v[i] = RowTimes(A[i], s1)
    BY DEF Product
  <2>2. K \in Nat /\ \A i \in 1..K : v[i] \in Int
    BY <1>1, <2>1, Constrained
  <2> HIDE DEF v
  <2>3. as1 \in LeftVec(v)
    BY DEF v
  <2>. QED BY <2>1, <2>2, <2>3, LeftVecIsSame
<1>3. ASSUME NEW i \in 1..K PROVE t[i] = Whole(A, s1, s2, i)
  <2> DEFINE p == RowTimes(A[i], s1)
             x == as1[i]
             e == s2[i]
  <2>1. p \in Int /\ x \in Int /\ Same(x, p) /\ e \in -4..4
    BY SMT, <1>1, <1>2, Constants
  <2>2a. -(4190208 + Slack) <= x /\ x <= 4190208 + Slack
    BY SMT, <1>2, Constants
  <2>3. t[i] = Field!Caddq(x + e)
    BY <1>2 DEF CaddqVec, AddVec
  <2>4. Whole(A, s1, s2, i) = (p + e) % Prime
    BY DEF Whole
  <2> HIDE DEF p, x, e, t
  <2>2. -8380416 < x + e /\ x + e < 8380416
    BY SMT, <2>1, <2>2a, SlackSmall
  <2>5. Same(x + e, p + e)
    <3>1. e = e + 0 * Prime
      BY SMT, <2>1, Constants
    <3>2. Same(e, e) /\ e \in Int
      BY SMT, <3>1, <2>1 DEF Same
    <3>. QED BY SMT, <2>1, <3>2, SameSum
  <2>6. t[i] = x + e \/ t[i] = x + e + Prime
    BY SMT, <2>3 DEF Field!Caddq
  <2>7. t[i] \in Int /\ 0 <= t[i] /\ t[i] < Prime
    BY SMT, <2>1, <2>2, <2>3, Constants DEF Field!Caddq
  <2>8. Same(t[i], p + e)
    <3>1. PICK k \in Int : x + e = (p + e) + k * Prime
      BY SMT, <2>5 DEF Same
    <3>2. x + e + Prime = (p + e) + (k + 1) * Prime /\ k + 1 \in Int
      BY SMT, <2>1, <3>1, Constants
    <3>. QED BY SMT, <2>6, <3>1, <3>2 DEF Same
  <2>9. p + e \in Int
    BY SMT, <2>1
  <2>. QED BY SMT, <2>4, <2>7, <2>8, <2>9, RestOf
<1>4. PublicOf(A, as1, s2) = [t1 |-> [i \in 1..K |-> Power2High(t[i])], t0 |-> [i \in 1..K |-> Power2Low(t[i])]]
  BY DEF PublicOf
<1> HIDE DEF t
<1>. QED BY <1>3, <1>4
-----------------------------------------------------------------------------
LEMMA TakenOver ==
  ASSUME SignInv, UNCHANGED <<key, sig, public>>,
         pc' \in Unfinished \cup {"unpacked", "reject"} => key # NoKey
  PROVE  KeyOK' /\ Owned' /\ SigOK' /\ PublicOK'
<1>1. key' = key /\ sig' = sig /\ public' = public
  OBVIOUS
<1>2. KeyOK'
  BY <1>1 DEF SignInv, KeyOK
<1>3. Owned'
  BY <1>1 DEF SignInv, Owned
<1>4. PublicOK'
  BY <1>1 DEF SignInv, PublicOK
<1>5. CommitmentStands' = CommitmentStands /\ Recovered' = Recovered
  BY <1>1 DEF CommitmentStands, Recovered
<1>6. SigOK'
  BY <1>1, <1>5 DEF SignInv, SigOK
<1>. QED BY <1>2, <1>3, <1>4, <1>6

\* Outside an attempt nothing is said of it.
LEMMA OutsideAttempt ==
  ASSUME SignInv, UNCHANGED <<key, sig, public>>, pc' \notin Unfinished,
         pc' \in {"unpacked", "reject"} => key # NoKey
  PROVE  SignInv'
<1>1. KeyOK' /\ Owned' /\ SigOK' /\ PublicOK'
  BY TakenOver
<1>2. Tried' /\ FirstLow' /\ ZSmall' /\ RestSmall' /\ LowRestKept' /\ Hinted'
  BY DEF Unfinished, Tried, FirstLow, ZSmall, RestSmall, LowRestKept, Hinted
<1>. QED BY <1>1, <1>2 DEF SignInv

LEMMA GenerateStep == ASSUME SignInv, Generate PROVE SignInv'
<1>1. PICK A \in Matrices, s \in Secrets : \E as1 \in LeftVec(Product(A, s.s1)) :
        key' = [A |-> A, s1 |-> s.s1, s2 |-> s.s2, t0 |-> PublicOf(A, as1, s.s2).t0,
                t1 |-> PublicOf(A, as1, s.s2).t1, tr |-> <<A, PublicOf(A, as1, s.s2).t1>>]
  BY DEF Generate
<1>2. PICK as1 \in LeftVec(Product(A, s.s1)) :
        key' = [A |-> A, s1 |-> s.s1, s2 |-> s.s2, t0 |-> PublicOf(A, as1, s.s2).t0,
                t1 |-> PublicOf(A, as1, s.s2).t1, tr |-> <<A, PublicOf(A, as1, s.s2).t1>>]
  BY <1>1
<1>3. A \in [1..K -> Vectors] /\ s.s1 \in Vectors /\ s.s2 \in [1..K -> -ETA..ETA]
  BY Constrained
<1>4. /\ key'.A = A /\ key'.s1 = s.s1 /\ key'.s2 = s.s2 /\ key'.tr = <<key'.A, key'.t1>>
      /\ key'.t1 = [i \in 1..K |-> Power2High(Whole(A, s.s1, s.s2, i))]
      /\ key'.t0 = [i \in 1..K |-> Power2Low(Whole(A, s.s1, s.s2, i))]
  BY <1>2, <1>3, PublicIs
<1>5. \A i \in 1..K : /\ Whole(A, s.s1, s.s2, i) \in Int
                      /\ Same(Whole(A, s.s1, s.s2, i), RowTimes(A[i], s.s1) + s.s2[i])
  <2> SUFFICES ASSUME NEW i \in 1..K
               PROVE  /\ Whole(A, s.s1, s.s2, i) \in Int
                      /\ Same(Whole(A, s.s1, s.s2, i), RowTimes(A[i], s.s1) + s.s2[i])
    OBVIOUS
  <2> DEFINE x == RowTimes(A[i], s.s1) + s.s2[i]
  <2>1. RowTimes(A[i], s.s1) \in Int
    BY <1>3, ProductType
  <2>2. s.s2[i] \in Int
    BY <1>3, SmallNumbers
  <2>3. x \in Int
    BY <2>1, <2>2
  <2> HIDE DEF x
  <2>4. x % Prime \in Int /\ Same(x % Prime, x)
    BY SMT, <2>3, RestIsSame
  <2>5. Whole(A, s.s1, s.s2, i) = x % Prime
    BY DEF x, Whole
  <2>6. Same(Whole(A, s.s1, s.s2, i), x)
    BY Zenon, <2>4, <2>5
  <2>. QED BY Zenon, <2>4, <2>5, <2>6 DEF x
<1>6. KeyOK'
  <2>1. key'.t1 \in [1..K -> Int] /\ key'.t0 \in [1..K -> Int]
    BY ZenonT(40), <1>4, <1>5, Powers
  <2>2. \A i \in 1..K : key'.t1[i] * 2 ^ D + key'.t0[i] = Whole(A, s.s1, s.s2, i)
    <3> SUFFICES ASSUME NEW i \in 1..K
                 PROVE  key'.t1[i] * 2 ^ D + key'.t0[i] = Whole(A, s.s1, s.s2, i)
      OBVIOUS
    <3> DEFINE x == Whole(A, s.s1, s.s2, i)
    <3>1. x \in Int /\ key'.t1[i] = Power2High(x) /\ key'.t0[i] = Power2Low(x)
      BY <1>4, <1>5
    <3> HIDE DEF x
    <3>2. Power2High(x) * 2 ^ D + Power2Low(x) = x
      BY <3>1, Powers
    <3> QED
      BY Zenon, <3>1, <3>2 DEF x
  <2>3. \A l \in LeftVec(Product(key'.A, key'.s1)) : PublicOf(key'.A, l, key'.s2).t1 = key'.t1
    BY SMTT(20), <1>3, <1>4, PublicIs
  <2>. QED BY <1>3, <1>4, <1>5, <2>1, <2>2, <2>3 DEF KeyOK
<1>7. sig = NoSig /\ public = <<>> /\ sig' = sig /\ public' = public /\ pc' = "keypair"
  BY DEF Generate, SignInv, Owned, PublicOK
<1>8. Owned' /\ SigOK' /\ PublicOK'
  BY <1>7 DEF Owned, SigOK, PublicOK, Unfinished, NoSig
<1>9. Tried' /\ FirstLow' /\ ZSmall' /\ RestSmall' /\ LowRestKept' /\ Hinted'
  BY <1>7 DEF Unfinished, Tried, FirstLow, ZSmall, RestSmall, LowRestKept, Hinted
<1>. QED BY <1>6, <1>8, <1>9 DEF SignInv

LEMMA RecoverPublicStep == ASSUME SignInv, RecoverPublic PROVE SignInv'
<1>1. PICK as1 \in LeftVec(Product(key.A, key.s1)) :
        public' = <<key.A, PublicOf(key.A, as1, key.s2).t1>>
  BY DEF RecoverPublic
<1>2. key # NoKey /\ key' = key /\ sig' = sig /\ pc' = "public"
  BY DEF RecoverPublic
<1>3. public' = key.tr
  BY <1>1, <1>2 DEF SignInv, KeyOK
<1>4. KeyOK'
  BY <1>2 DEF SignInv, KeyOK
<1>5. CommitmentStands' = CommitmentStands /\ Recovered' = Recovered
  BY <1>2 DEF CommitmentStands, Recovered
<1>6. SigOK'
  BY <1>2, <1>5 DEF SignInv, SigOK
<1>7. Owned' /\ PublicOK'
  BY <1>2, <1>3 DEF Owned, PublicOK, Unfinished
<1>8. Tried' /\ FirstLow' /\ ZSmall' /\ RestSmall' /\ LowRestKept' /\ Hinted'
  BY <1>2 DEF Unfinished, Tried, FirstLow, ZSmall, RestSmall, LowRestKept, Hinted
<1>. QED BY <1>4, <1>6, <1>7, <1>8 DEF SignInv
-----------------------------------------------------------------------------
\* Vectors of representatives, added and reduced.
LEMMA Reduced ==
  ASSUME NEW n \in Nat, NEW v, DOMAIN v = 1..n, \A i \in 1..n : v[i] \in Int
  PROVE  /\ ReduceVec(v) \in [1..n -> Int]
         /\ \A i \in 1..n : ReduceVec(v)[i] \in Int /\ Same(ReduceVec(v)[i], v[i])
<1>1. ReduceVec(v) = [i \in 1..n |-> Field!Reduce32(v[i])]
  BY DEF ReduceVec
<1>2. \A i \in 1..n : Field!Reduce32(v[i]) \in Int /\ Same(Field!Reduce32(v[i]), v[i])
  BY ReduceIsSame
<1>. QED BY <1>1, <1>2

LEMMA SameSelf == ASSUME NEW x \in Int PROVE Same(x, x)
<1>1. x = x + 0 * Prime
  BY SMT, Constants
<1>. QED BY SMT, <1>1 DEF Same

LEMMA SmallSame ==
  ASSUME NEW x \in Int, NEW y \in Int, Same(x, y), -4000000 < x, x < 4000000, -4000000 < y, y < 4000000
  PROVE  x = y
  BY SMT DEF Same, Prime

LEMMA AttemptStep == ASSUME SignInv, Attempt PROVE SignInv'
<1>1. PICK y \in [1..L -> Masks], c \in Challenges :
        \E cs1 \in LeftVec(Scale(c, key.s1)) :
          try' = [y |-> y, c |-> c, h |-> <<>>,
                  w1 |-> [i \in 1..K |-> HighBits([k \in 1..K |-> Nearest(Product(key.A, y)[k]) % Prime][i])],
                  w0 |-> [i \in 1..K |-> LowBits([k \in 1..K |-> Nearest(Product(key.A, y)[k]) % Prime][i])],
                  z |-> ReduceVec(AddVec(cs1, y))]
  BY DEF Attempt
<1>2. PICK cs1 \in LeftVec(Scale(c, key.s1)) :
          try' = [y |-> y, c |-> c, h |-> <<>>,
                  w1 |-> [i \in 1..K |-> HighBits([k \in 1..K |-> Nearest(Product(key.A, y)[k]) % Prime][i])],
                  w0 |-> [i \in 1..K |-> LowBits([k \in 1..K |-> Nearest(Product(key.A, y)[k]) % Prime][i])],
                  z |-> ReduceVec(AddVec(cs1, y))]
  BY <1>1
<1>3. UNCHANGED <<key, sig, public>> /\ pc' = "check z" /\ key # NoKey
  BY DEF Attempt, SignInv, Owned
<1>4. key.A \in [1..K -> Vectors] /\ key.s1 \in Vectors /\ key.s2 \in [1..K -> -ETA..ETA]
  BY <1>3 DEF SignInv, KeyOK
<1>5. y \in Vectors /\ c \in -TAU..TAU /\ c \in Int /\ L \in Nat
  <2>1. y \in [1..L -> Int]
    BY Constrained
  <2>2. c \in -TAU..TAU /\ L \in Nat
    BY Constrained
  <2>3. c \in Int
    BY SMT, <2>2, Constants
  <2>. QED BY <2>1, <2>2, <2>3 DEF Vectors
<1>6. \A i \in 1..K : RowTimes(key.A[i], y) \in Int
  BY Zenon, <1>4, <1>5, ProductType
<1>7. \A i \in 1..K : Nearest(Product(key.A, y)[i]) % Prime = RowTimes(key.A[i], y) % Prime
  BY <1>6, NearestIsSame DEF Product
<1>8. /\ try'.y = y /\ try'.c = c /\ try'.z = ReduceVec(AddVec(cs1, y))
      /\ try'.w1 = [i \in 1..K |-> HighBits(RowTimes(key.A[i], y) % Prime)]
      /\ try'.w0 = [i \in 1..K |-> LowBits(RowTimes(key.A[i], y) % Prime)]
  BY <1>2, <1>7
<1>9. try'.z \in Vectors /\ \A j \in 1..L : Same(try'.z[j], c * key.s1[j] + y[j])
  <2> DEFINE v == Scale(c, key.s1)
  <2>1. DOMAIN v = 1..L /\ \A j \in 1..L : v[j] = c * key.s1[j] /\ v[j] \in Int
    BY <1>4, <1>5 DEF Scale, Vectors
  <2>2. cs1 \in LeftVec(v)
    OBVIOUS
  <2> HIDE DEF v
  <2>3. DOMAIN cs1 = 1..L /\ \A j \in 1..L : cs1[j] \in Int /\ Same(cs1[j], v[j])
    BY <1>5, <2>1, <2>2, LeftVecIsSame
  <2> DEFINE sum == AddVec(cs1, y)
  <2>4. DOMAIN sum = 1..L /\ \A j \in 1..L : sum[j] = cs1[j] + y[j]
    BY <2>3 DEF AddVec
  <2> HIDE DEF sum
  <2>5. \A j \in 1..L : y[j] \in Int
    BY <1>5 DEF Vectors
  <2>6. \A j \in 1..L : sum[j] \in Int
    BY <2>3, <2>4, <2>5
  <2>7. ReduceVec(sum) \in [1..L -> Int] /\ \A j \in 1..L : Same(ReduceVec(sum)[j], sum[j])
    BY <1>5, <2>4, <2>6, Reduced
  <2>8. \A j \in 1..L : Same(sum[j], c * key.s1[j] + y[j])
    BY <2>1, <2>3, <2>4, <2>5, SameSelf, SameSum
  <2>9. \A j \in 1..L : Same(ReduceVec(sum)[j], c * key.s1[j] + y[j])
    <3> TAKE j \in 1..L
    <3>1. ReduceVec(sum)[j] \in Int /\ c * key.s1[j] + y[j] \in Int
      BY <2>1, <2>5, <2>7
    <3>. QED BY <2>6, <2>7, <2>8, <3>1, SameTrans
  <2>. QED BY <1>8, <2>7, <2>9 DEF sum, Vectors
<1>10. \A i \in 1..K : HighBits(RowTimes(key.A[i], y) % Prime) \in Int /\ LowBits(RowTimes(key.A[i], y) % Prime) \in Int
  <2> TAKE i \in 1..K
  <2> DEFINE p == RowTimes(key.A[i], y)
             w == p % Prime
  <2>1. p \in Int
    BY <1>6
  <2> HIDE DEF p
  <2>2. w \in Int /\ 0 <= w /\ w <= 8380416
    BY SMTT(20), <2>1, RestIsSame
  <2> HIDE DEF w
  <2>3. HighBits(w) \in Int
    BY SMT, <2>2, HighIs
  <2>4. LowBits(w) \in Int
    BY SMT, <2>2, Decomposed
  <2>. QED BY SMT, <2>3, <2>4 DEF p, w
<1>11. Tried'
  <2>1. try' = [y |-> try'.y, c |-> try'.c, h |-> try'.h, w1 |-> try'.w1, w0 |-> try'.w0, z |-> try'.z]
    BY <1>2
  <2>. QED BY <1>3, <1>5, <1>8, <1>9, <1>10, <2>1 DEF Tried, Commitment
<1>12. FirstLow'
  BY <1>3, <1>8 DEF FirstLow, Commitment
<1>13. ZSmall' /\ RestSmall' /\ LowRestKept' /\ Hinted'
  BY <1>3 DEF ZSmall, RestSmall, LowRestKept, Hinted
<1>14. KeyOK' /\ Owned' /\ SigOK' /\ PublicOK'
  BY <1>3, TakenOver
<1>. QED BY <1>11, <1>12, <1>13, <1>14 DEF SignInv
-----------------------------------------------------------------------------
\* In an attempt the commitment and the rest are those of the unchanged key and mask.
LEMMA CommitmentType ==
  ASSUME SignInv, pc \in Unfinished, NEW i \in 1..K
  PROVE  /\ HighBits(Commitment(i)) \in Int /\ LowBits(Commitment(i)) \in Int /\ LowRest(i) \in Int
         /\ key.s2[i] \in -ETA..ETA /\ try.c \in -TAU..TAU /\ key.s2[i] \in Int /\ try.c \in Int
         /\ -GAMMA2 <= LowBits(Commitment(i)) /\ LowBits(Commitment(i)) <= GAMMA2
<1>1. key # NoKey
  BY SMT DEF SignInv, Owned
<1>2. key.A[i] \in Vectors /\ try.y \in Vectors /\ key.s2[i] \in -ETA..ETA /\ try.c \in -TAU..TAU
  <2>1. key.A \in [1..K -> Vectors] /\ key.s2 \in [1..K -> -ETA..ETA]
    BY <1>1 DEF SignInv, KeyOK
  <2>2. try.y \in Vectors /\ try.c \in -TAU..TAU
    BY DEF SignInv, Tried
  <2>. QED BY <2>1, <2>2
<1> DEFINE p == RowTimes(key.A[i], try.y)
           w == p % Prime
<1>3. p \in Int
  BY SMT, <1>2, ProductType
<1> HIDE DEF p
<1>4. w \in Int /\ 0 <= w /\ w <= 8380416
  BY SMT, <1>3, RestIsSame
<1>5. w = Commitment(i)
  BY SMT DEF p, Commitment
<1> HIDE DEF w
<1>6. HighBits(w) \in Int
  BY SMT, <1>4, HighIs
<1>7. LowBits(w) \in Int /\ -GAMMA2 <= LowBits(w) /\ LowBits(w) <= GAMMA2
  BY SMT, <1>4, Decomposed, Constants
<1>8. key.s2[i] \in Int /\ try.c \in Int
  BY <1>2, SmallNumbers
<1>9. try.c * key.s2[i] \in Int
  BY <1>8
<1>. QED BY <1>2, <1>5, <1>6, <1>7, <1>8, <1>9 DEF LowRest

LEMMA CheckZStep == ASSUME SignInv, CheckZ PROVE SignInv'
<1>1. UNCHANGED <<key, sig, public>> /\ key # NoKey /\ pc \in Unfinished
  BY DEF CheckZ, SignInv, Owned, Unfinished
<1>2. CASE Exceeds(try.z, ZBound)
  BY <1>1, <1>2, OutsideAttempt DEF CheckZ, Reject, Unfinished
<1>3. CASE ~Exceeds(try.z, ZBound)
  <2>1. try' = try /\ pc' = "check w0" /\ pc = "check z"
    BY <1>3 DEF CheckZ
  <2>2. \A i : Commitment(i)' = Commitment(i)
    BY <1>1, <2>1 DEF Commitment
  <2>3. Tried'
    BY <1>1, <2>1, <2>2 DEF SignInv, Tried, Unfinished
  <2>4. FirstLow'
    BY <2>1, <2>2 DEF SignInv, FirstLow
  <2>5. ZSmall' /\ RestSmall' /\ LowRestKept' /\ Hinted'
    BY <1>3, <2>1 DEF ZSmall, RestSmall, LowRestKept, Hinted
  <2>6. KeyOK' /\ Owned' /\ SigOK' /\ PublicOK'
    BY <1>1, TakenOver
  <2>. QED BY <2>3, <2>4, <2>5, <2>6 DEF SignInv
<1>. QED BY <1>2, <1>3

\* A rest that passes is the rest itself, not another of its class.
LEMMA CheckW0Step == ASSUME SignInv, CheckW0 PROVE SignInv'
<1>1. UNCHANGED <<key, sig, public>> /\ key # NoKey /\ pc = "check w0" /\ pc \in Unfinished
  BY DEF CheckW0, SignInv, Owned, Unfinished
<1>2. PICK cs2 \in LeftVec(Scale(try.c, key.s2)) :
        IF Exceeds(ReduceVec(SubVec(try.w0, cs2)), GAMMA2 - BETA) THEN Reject
        ELSE pc' = "check h" /\ try' = [try EXCEPT !.w0 = ReduceVec(SubVec(try.w0, cs2))]
  BY DEF CheckW0
<1> DEFINE w0 == ReduceVec(SubVec(try.w0, cs2))
<1>3. CASE Exceeds(w0, GAMMA2 - BETA)
  BY <1>1, <1>2, <1>3, OutsideAttempt DEF Reject, Unfinished
<1>4. CASE ~Exceeds(w0, GAMMA2 - BETA)
  <2>1. pc' = "check h" /\ try' = [try EXCEPT !.w0 = w0]
    BY <1>2, <1>4
  <2>2. \A i \in 1..K : /\ LowBits(Commitment(i)) \in Int /\ key.s2[i] \in Int /\ try.c \in Int /\ LowRest(i) \in Int
                        /\ try.w0[i] = LowBits(Commitment(i)) /\ try.w0[i] \in Int
    <3> TAKE i \in 1..K
    <3>1. LowBits(Commitment(i)) \in Int /\ key.s2[i] \in Int /\ try.c \in Int /\ LowRest(i) \in Int
      BY <1>1, CommitmentType
    <3>2. try.w0[i] = LowBits(Commitment(i))
      BY <1>1 DEF SignInv, FirstLow
    <3>. QED BY <3>1, <3>2
  <2>3. w0 \in [1..K -> Int] /\ \A i \in 1..K : w0[i] \in Int /\ Same(w0[i], LowRest(i))
    <3> DEFINE v == Scale(try.c, key.s2)
    <3>1. DOMAIN v = 1..K /\ \A i \in 1..K : v[i] = try.c * key.s2[i] /\ v[i] \in Int
      <4>1. key.s2 \in [1..K -> -ETA..ETA]
        BY <1>1 DEF SignInv, KeyOK
      <4>2. DOMAIN key.s2 = 1..K
        BY <4>1
      <4>. QED BY <2>2, <4>2 DEF Scale
    <3>2. cs2 \in LeftVec(v)
      OBVIOUS
    <3> HIDE DEF v
    <3>3. DOMAIN cs2 = 1..K /\ \A i \in 1..K : cs2[i] \in Int /\ Same(cs2[i], v[i])
      BY <3>1, <3>2, LeftVecIsSame, Constrained
    <3> DEFINE d == SubVec(try.w0, cs2)
    <3>4. DOMAIN d = 1..K /\ \A i \in 1..K : d[i] = try.w0[i] - cs2[i]
      BY <1>1 DEF SubVec, SignInv, Tried
    <3> HIDE DEF d
    <3>5. \A i \in 1..K : d[i] \in Int /\ Same(d[i], LowRest(i))
      <4> TAKE i \in 1..K
      <4> DEFINE a == try.w0[i]
                 b == cs2[i]
                 e == v[i]
      <4>1. a \in Int /\ b \in Int /\ e \in Int /\ Same(b, e) /\ d[i] = a - b /\ LowRest(i) = a - e
        BY <2>2, <3>1, <3>3, <3>4 DEF LowRest
      <4> HIDE DEF a, b, e
      <4>2. Same(a, a)
        BY <4>1, SameSelf
      <4>3. a - b \in Int /\ Same(a - b, a - e)
        BY <4>1, <4>2, SameSum
      <4>. QED BY <4>1, <4>3
    <3>6. /\ ReduceVec(d) \in [1..K -> Int]
          /\ \A i \in 1..K : ReduceVec(d)[i] \in Int /\ Same(ReduceVec(d)[i], d[i])
      BY <3>4, <3>5, Reduced, Constrained
    <3>7. \A i \in 1..K : Same(ReduceVec(d)[i], LowRest(i))
      BY <2>2, <3>5, <3>6, SameTrans
    <3>. QED BY <3>6, <3>7 DEF d
  <2> HIDE DEF w0
  <2>4. \A i \in 1..K : w0[i] = LowRest(i) /\ -(GAMMA2 - BETA) < LowRest(i) /\ LowRest(i) < GAMMA2 - BETA
    <3> TAKE i \in 1..K
    <3> DEFINE l  == LowBits(Commitment(i))
               s2 == key.s2[i]
               c  == try.c
               x  == w0[i]
               y  == LowRest(i)
    <3>0. l \in Int /\ s2 \in -ETA..ETA /\ c \in -TAU..TAU /\ -GAMMA2 <= l /\ l <= GAMMA2 /\ y = l - c * s2
      BY <1>1, CommitmentType DEF LowRest
    <3>1. l \in Int /\ s2 \in -4..4 /\ c \in -49..49 /\ -261888 <= l /\ l <= 261888 /\ y = l - c * s2
      BY SMT, <3>0, Constants
    <3>2. x \in Int /\ Same(x, y) /\ y \in Int
      BY SMT, <2>2, <2>3
    <3>3. -(GAMMA2 - BETA) < x /\ x < GAMMA2 - BETA
      <4>1. i \in DOMAIN w0 /\ GAMMA2 - BETA \in Int /\ GAMMA2 - BETA <= 1047552
        BY SMT, <2>3, Constants
      <4>. QED BY SMT, <1>4, <3>2, <4>1, NotExceeding
    <3> HIDE DEF l, s2, c, x, y
    <3>4. -200 <= c * s2 /\ c * s2 <= 200
      <4>1. s2 = -4 \/ s2 = -3 \/ s2 = -2 \/ s2 = -1 \/ s2 = 0 \/ s2 = 1 \/ s2 = 2 \/ s2 = 3 \/ s2 = 4
        BY SMT, <3>1
      <4>. QED BY SMT, <3>1, <4>1
    <3>5. -4000000 < y /\ y < 4000000 /\ -4000000 < x /\ x < 4000000
      <4> DEFINE cs == c * s2
      <4>1. cs \in Int /\ y = l - cs /\ -200 <= cs /\ cs <= 200
        BY SMT, <3>1, <3>4
      <4> HIDE DEF cs
      <4>. QED BY SMT, <3>1, <3>2, <3>3, <4>1, Constants
    <3>6. x = y
      BY SMT, <3>2, <3>5, SmallSame
    <3>. QED BY SMT, <3>3, <3>6 DEF x, y
  <2>5. /\ try'.y = try.y /\ try'.c = try.c /\ try'.h = try.h /\ try'.w1 = try.w1 /\ try'.z = try.z /\ try'.w0 = w0
        /\ try' = [y |-> try'.y, c |-> try'.c, h |-> try'.h, w1 |-> try'.w1, w0 |-> try'.w0, z |-> try'.z]
    <3>1. try = [y |-> try.y, c |-> try.c, h |-> try.h, w1 |-> try.w1, w0 |-> try.w0, z |-> try.z]
      BY <1>1 DEF SignInv, Tried
    <3>. QED BY <2>1, <3>1
  <2>6. \A i : Commitment(i)' = Commitment(i) /\ LowRest(i)' = LowRest(i)
    BY <1>1, <2>5 DEF Commitment, LowRest
  <2>7. Tried'
    BY <1>1, <2>3, <2>5, <2>6 DEF SignInv, Tried
  <2>8. ZSmall'
    BY <1>1, <2>1, <2>5 DEF SignInv, ZSmall
  <2>9. RestSmall' /\ LowRestKept'
    BY <2>1, <2>4, <2>5, <2>6 DEF RestSmall, LowRestKept
  <2>10. FirstLow' /\ Hinted'
    BY <2>1 DEF FirstLow, Hinted
  <2>11. KeyOK' /\ Owned' /\ SigOK' /\ PublicOK'
    BY <1>1, TakenOver
  <2>. QED BY <2>7, <2>8, <2>9, <2>10, <2>11 DEF SignInv
<1>. QED BY <1>3, <1>4
-----------------------------------------------------------------------------
\* The low bits that the hints are made from: those of w - c * s2, and c * t0.
LEMMA CheckHintsStep == ASSUME SignInv, CheckHints PROVE SignInv'
<1>1. UNCHANGED <<key, sig, public>> /\ key # NoKey /\ pc = "check h" /\ pc \in Unfinished
  BY DEF CheckHints, SignInv, Owned, Unfinished
<1>2. PICK ct \in LeftVec(Scale(try.c, key.t0)) :
        IF \/ Exceeds(ReduceVec(ct), GAMMA2)
           \/ Ones([i \in 1..K |-> MakeHint(AddVec(try.w0, ReduceVec(ct))[i], try.w1[i])]) > MaxHints
        THEN Reject
        ELSE /\ pc' = "write"
             /\ try' = [try EXCEPT !.w0 = AddVec(try.w0, ReduceVec(ct)),
                                   !.h = [i \in 1..K |-> MakeHint(AddVec(try.w0, ReduceVec(ct))[i], try.w1[i])]]
  BY DEF CheckHints
<1> DEFINE ct0 == ReduceVec(ct)
           w0  == AddVec(try.w0, ct0)
           h   == [i \in 1..K |-> MakeHint(w0[i], try.w1[i])]
<1>3. CASE Exceeds(ct0, GAMMA2) \/ Ones(h) > MaxHints
  BY <1>1, <1>2, <1>3, OutsideAttempt DEF Reject, Unfinished
<1>4. CASE ~(Exceeds(ct0, GAMMA2) \/ Ones(h) > MaxHints)
  <2>1. pc' = "write" /\ try' = [try EXCEPT !.w0 = w0, !.h = h] /\ ~Exceeds(ct0, GAMMA2)
    BY <1>2, <1>4
  <2>2. \A i \in 1..K : /\ LowRest(i) \in Int /\ try.w0[i] = LowRest(i) /\ try.c \in Int /\ key.t0[i] \in Int
                        /\ -(GAMMA2 - BETA) < LowRest(i) /\ LowRest(i) < GAMMA2 - BETA
    <3>1. key.t0 \in [1..K -> Int]
      BY <1>1 DEF SignInv, KeyOK
    <3>2. \A i \in 1..K : LowRest(i) \in Int /\ try.c \in Int
      BY <1>1, CommitmentType
    <3>. QED BY <1>1, <3>1, <3>2 DEF SignInv, LowRestKept, RestSmall
  <2>3. ct0 \in [1..K -> Int] /\ \A i \in 1..K : Same(ct0[i], try.c * key.t0[i])
    <3> DEFINE v == Scale(try.c, key.t0)
    <3>1. DOMAIN v = 1..K /\ \A i \in 1..K : v[i] = try.c * key.t0[i] /\ v[i] \in Int
      <4>1. key.t0 \in [1..K -> Int]
        BY <1>1 DEF SignInv, KeyOK
      <4>2. DOMAIN key.t0 = 1..K
        BY <4>1
      <4>. QED BY <2>2, <4>2 DEF Scale
    <3>2. ct \in LeftVec(v)
      OBVIOUS
    <3> HIDE DEF v
    <3>3. DOMAIN ct = 1..K /\ \A i \in 1..K : ct[i] \in Int /\ Same(ct[i], v[i])
      BY <3>1, <3>2, LeftVecIsSame, Constrained
    <3>4. ct0 \in [1..K -> Int] /\ \A i \in 1..K : ct0[i] \in Int /\ Same(ct0[i], ct[i])
      BY <3>3, Reduced, Constrained
    <3> HIDE DEF ct0
    <3>5. \A i \in 1..K : Same(ct0[i], v[i])
      BY <3>1, <3>3, <3>4, SameTrans
    <3>. QED BY <3>1, <3>4, <3>5
  <2> HIDE DEF ct0
  <2>4. w0 \in [1..K -> Int] /\ \A i \in 1..K : w0[i] = LowRest(i) + ct0[i]
    <3>1. try.w0 \in [1..K -> Int]
      BY <1>1 DEF SignInv, Tried
    <3>2. DOMAIN try.w0 = 1..K /\ \A i \in 1..K : ct0[i] \in Int
      BY <2>3, <3>1
    <3>3. w0 = [i \in 1..K |-> try.w0[i] + ct0[i]]
      BY <3>2 DEF AddVec
    <3> HIDE DEF w0
    <3>. QED BY <2>2, <3>2, <3>3
  <2> HIDE DEF w0
  <2>5. \A i \in 1..K : /\ -(2 * GAMMA2) < w0[i] /\ w0[i] < 2 * GAMMA2
                        /\ Same(w0[i], LowRest(i) + try.c * key.t0[i])
    <3> TAKE i \in 1..K
    <3> DEFINE x == LowRest(i)
               a == ct0[i]
               b == try.c * key.t0[i]
               d == w0[i]
    <3>1. x \in Int /\ a \in Int /\ b \in Int /\ Same(a, b) /\ d = x + a
      BY <2>2, <2>3, <2>4
    <3>2. -(GAMMA2 - BETA) < x /\ x < GAMMA2 - BETA
      BY <2>2
    <3>3. i \in DOMAIN ct0 /\ ct0[i] \in Int
      BY <2>3
    <3>4. -GAMMA2 < a /\ a < GAMMA2
      <4>1. GAMMA2 \in Int /\ GAMMA2 <= 1047552
        BY SMT, Constants
      <4>. QED BY SMT, <2>1, <3>3, <4>1, NotExceeding
    <3> HIDE DEF x, a, b, d
    <3>5. -(2 * GAMMA2) < d /\ d < 2 * GAMMA2
      BY SMT, <3>1, <3>2, <3>4, Constants
    <3>6. Same(d, x + b)
      BY <3>1, SameSelf, SameSum
    <3>. QED BY <3>5, <3>6 DEF x, b, d
  <2>6. /\ try'.y = try.y /\ try'.c = try.c /\ try'.h = h /\ try'.w1 = try.w1 /\ try'.z = try.z /\ try'.w0 = w0
        /\ try' = [y |-> try'.y, c |-> try'.c, h |-> try'.h, w1 |-> try'.w1, w0 |-> try'.w0, z |-> try'.z]
    <3>1. try = [y |-> try.y, c |-> try.c, h |-> try.h, w1 |-> try.w1, w0 |-> try.w0, z |-> try.z]
      BY <1>1 DEF SignInv, Tried
    <3> HIDE DEF h
    <3>. QED BY <2>1, <3>1
  <2>7. \A i : Commitment(i)' = Commitment(i) /\ LowRest(i)' = LowRest(i)
    BY <1>1, <2>6 DEF Commitment, LowRest
  <2>8. Tried'
    BY <1>1, <2>4, <2>6, <2>7 DEF SignInv, Tried
  <2>9. ZSmall' /\ RestSmall'
    BY <1>1, <2>1, <2>6, <2>7 DEF SignInv, ZSmall, RestSmall
  <2>10. Hinted'
    BY <1>1, <2>5, <2>6, <2>7 DEF Hinted
  <2>11. FirstLow' /\ LowRestKept'
    BY <2>1 DEF FirstLow, LowRestKept
  <2>12. KeyOK' /\ Owned' /\ SigOK' /\ PublicOK'
    BY <1>1, TakenOver
  <2>. QED BY <2>8, <2>9, <2>10, <2>11, <2>12 DEF SignInv
<1>. QED BY <1>3, <1>4

\* The rows of a finished attempt.
LEMMA RowsVerify ==
  ASSUME SignInv, pc = "write", NEW i \in 1..K
  PROVE  /\ HighBits((RowTimes(key.A[i], try.z) - try.c * (key.t1[i] * 2 ^ D + key.t0[i])) % Prime)
              = HighBits(Commitment(i))
         /\ UseHint(Nearest(RowTimes(key.A[i], try.z) - (try.c * 2 ^ D) * key.t1[i]) % Prime, try.h[i])
              = HighBits(Commitment(i))
<1>1. pc \in Unfinished /\ key # NoKey
  BY DEF Unfinished, SignInv, Owned
<1> DEFINE row == key.A[i]
           s1 == key.s1
           y == try.y
           z == try.z
           c == try.c
           s2 == key.s2[i]
           t0 == key.t0[i]
           t1 == key.t1[i]
           w == Commitment(i)
           l == try.w0[i]
           h == try.h[i]
<1>2. row \in Vectors /\ s1 \in Vectors /\ t0 \in Int /\ t1 \in Int
      /\ Same(t1 * 2 ^ D + t0, RowTimes(row, s1) + s2)
  BY <1>1 DEF SignInv, KeyOK
<1>3. y \in Vectors /\ z \in Vectors /\ \A j \in 1..L : Same(z[j], c * s1[j] + y[j])
  BY <1>1 DEF SignInv, Tried
<1>4. c \in Int /\ s2 \in Int /\ LowBits(w) \in Int
  BY <1>1, CommitmentType
<1>5. w = RowTimes(row, y) % Prime
  BY DEF Commitment
<1>6. LowRest(i) = LowBits(w) - c * s2
  BY DEF LowRest
<1>7. -(GAMMA2 - BETA) < LowRest(i) /\ LowRest(i) < GAMMA2 - BETA
  BY DEF SignInv, RestSmall
<1>8. l \in Int /\ -(2 * GAMMA2) < l /\ l < 2 * GAMMA2 /\ Same(l, LowRest(i) + c * t0)
  <2>1. try.w0 \in [1..K -> Int]
    BY <1>1 DEF SignInv, Tried
  <2>. QED BY <2>1 DEF SignInv, Hinted
<1>9. h = MakeHint(l, HighBits(w))
  <2>1. try.w1 = [k \in 1..K |-> HighBits(Commitment(k))]
    BY <1>1 DEF SignInv, Tried
  <2>. QED BY <2>1 DEF SignInv, Hinted
<1> HIDE DEF row, s1, y, z, c, s2, t0, t1, w, l, h
<1>10. RowTried(row, s1, y, z, c, s2, t0, t1, w)
  BY Zenon, <1>2, <1>3, <1>4, <1>5, <1>6, <1>7 DEF RowTried
<1>10a. RowStands(row, z, c, s2, t0, t1, w)
  BY Zenon, <1>10, RowVerifies
<1>11. Hintable(l, c, s2, t0, w)
  BY Zenon, <1>6, <1>8 DEF Hintable
<1>12. HighBits((RowTimes(row, z) - c * (t1 * 2 ^ D + t0)) % Prime) = HighBits(w)
  BY Zenon, <1>10a DEF RowStands
<1>13. UseHint(Nearest(RowTimes(row, z) - (c * 2 ^ D) * t1) % Prime, MakeHint(l, HighBits(w))) = HighBits(w)
  BY Zenon, <1>10a, <1>11 DEF RowStands
<1>. QED BY Zenon, <1>9, <1>12, <1>13 DEF row, s1, y, z, c, s2, t0, t1, w, l, h
-----------------------------------------------------------------------------
LEMMA WriteStep == ASSUME SignInv, Write PROVE SignInv'
<1>1. /\ key' = key /\ public' = public /\ pc = "write" /\ pc' = "signed" /\ pc \in Unfinished /\ key # NoKey
      /\ sig' = [c |-> <<Mu(key.tr, request[1], request[2]), try.w1>>, cp |-> try.c, z |-> try.z, h |-> try.h]
  BY DEF Write, SignInv, Owned, Unfinished
<1>2. /\ sig'.c = <<Mu(key.tr, request[1], request[2]), try.w1>> /\ sig'.c[2] = try.w1
      /\ sig'.cp = try.c /\ sig'.z = try.z /\ sig'.h = try.h
  BY <1>1
<1>3. try.w1 = [i \in 1..K |-> HighBits(Commitment(i))]
  BY <1>1 DEF SignInv, Tried
<1>4. ~Exceeds(sig'.z, ZBound)
  BY <1>1, <1>2 DEF SignInv, ZSmall
<1>5. CommitmentStands'
  <2> DEFINE t == [i \in 1..K |-> key.t1[i] * 2 ^ D + key.t0[i]]
             w == [i \in 1..K |-> Product(key.A, try.z)[i] - try.c * t[i]]
  <2>1. CommitmentStands' = ([i \in 1..K |-> HighBits(w[i] % Prime)] = try.w1)
    BY <1>1, <1>2 DEF CommitmentStands
  <2>2. ASSUME NEW i \in 1..K PROVE HighBits(w[i] % Prime) = HighBits(Commitment(i))
    <3>1. w[i] = RowTimes(key.A[i], try.z) - try.c * (key.t1[i] * 2 ^ D + key.t0[i])
      BY DEF Product
    <3> HIDE DEF w
    <3>. QED BY <1>1, <3>1, RowsVerify
  <2> HIDE DEF w
  <2>. QED BY <1>3, <2>1, <2>2
<1>6. Recovered' = sig'.c[2]
  <2> DEFINE ct1 == Scale(try.c * 2 ^ D, key.t1)
             w == [i \in 1..K |-> Nearest(Product(key.A, try.z)[i] - ct1[i]) % Prime]
  <2>1. Recovered' = [i \in 1..K |-> UseHint(w[i], try.h[i])]
    BY <1>1, <1>2 DEF Recovered
  <2>2. ASSUME NEW i \in 1..K PROVE UseHint(w[i], try.h[i]) = HighBits(Commitment(i))
    <3>1. DOMAIN key.t1 = 1..K
      <4>1. key.t1 \in [1..K -> Int]
        BY <1>1 DEF SignInv, KeyOK
      <4>. QED BY <4>1
    <3>2. ct1[i] = (try.c * 2 ^ D) * key.t1[i]
      BY <3>1 DEF Scale
    <3>3. w[i] = Nearest(RowTimes(key.A[i], try.z) - (try.c * 2 ^ D) * key.t1[i]) % Prime
      BY <3>2 DEF Product
    <3> HIDE DEF w
    <3>. QED BY <1>1, <3>3, RowsVerify
  <2> HIDE DEF w
  <2>. QED BY <1>2, <1>3, <2>1, <2>2
<1>7. KeyOK' /\ Owned' /\ PublicOK'
  BY <1>1 DEF SignInv, KeyOK, Owned, PublicOK
<1>8. SigOK'
  BY <1>2, <1>4, <1>5, <1>6 DEF SigOK
<1>9. Tried' /\ FirstLow' /\ ZSmall' /\ RestSmall' /\ LowRestKept' /\ Hinted'
  BY <1>1 DEF Unfinished, Tried, FirstLow, ZSmall, RestSmall, LowRestKept, Hinted
<1>. QED BY <1>7, <1>8, <1>9 DEF SignInv

LEMMA SignStarts == SignInit => SignInv
<1> SUFFICES ASSUME SignInit PROVE SignInv
  OBVIOUS
<1>1. pc = "idle" /\ key = NoKey /\ sig = NoSig /\ public = <<>>
  BY DEF SignInit
<1>2. KeyOK /\ Owned /\ SigOK /\ PublicOK
  BY <1>1 DEF KeyOK, Owned, SigOK, PublicOK, Unfinished
<1>3. Tried /\ FirstLow /\ ZSmall /\ RestSmall /\ LowRestKept /\ Hinted
  BY <1>1 DEF Unfinished, Tried, FirstLow, ZSmall, RestSmall, LowRestKept, Hinted
<1>. QED BY <1>2, <1>3 DEF SignInv

LEMMA SignPreserves == SignInv /\ [SignNext]_signVars => SignInv'
<1> SUFFICES ASSUME SignInv, [SignNext]_signVars PROVE SignInv'
  OBVIOUS
<1>1. CASE GenerateFails
  BY <1>1, OutsideAttempt DEF GenerateFails, Unfinished
<1>2. CASE Wipe
  BY <1>2, OutsideAttempt DEF Wipe, Unfinished
<1>3. CASE SignBegin
  <2>1. UNCHANGED <<key, sig, public>> /\ key # NoKey /\ (pc' = pc \/ pc' = "unpacked") /\ pc = "idle"
    BY <1>3 DEF SignBegin
  <2>. QED BY <2>1, OutsideAttempt DEF Unfinished
<1>4. CASE RandomFails
  BY <1>4, OutsideAttempt DEF RandomFails, Unfinished
<1>5. CASE RandomDrawn
  <2>1. UNCHANGED <<key, sig, public>> /\ key # NoKey /\ pc' = "reject"
    BY <1>5 DEF RandomDrawn, SignInv, Owned
  <2>. QED BY <2>1, OutsideAttempt DEF Unfinished
<1>6. CASE Verify
  <2>1. UNCHANGED <<key, sig, public>> /\ pc' = "idle"
    BY <1>6 DEF Verify
  <2>. QED BY <2>1, OutsideAttempt DEF Unfinished
<1>7. CASE UNCHANGED signVars
  <2>1. pc' = pc /\ key' = key /\ try' = try /\ sig' = sig /\ public' = public
    BY <1>7 DEF signVars
  <2>2. \A i : Commitment(i)' = Commitment(i) /\ LowRest(i)' = LowRest(i)
    BY <2>1 DEF Commitment, LowRest
  <2>3. Tried' /\ FirstLow' /\ ZSmall' /\ RestSmall' /\ LowRestKept' /\ Hinted'
    BY <2>1, <2>2 DEF SignInv, Tried, FirstLow, ZSmall, RestSmall, LowRestKept, Hinted
  <2>4. KeyOK' /\ Owned' /\ SigOK' /\ PublicOK'
    BY <2>1, TakenOver DEF SignInv, Owned
  <2>. QED BY <2>3, <2>4 DEF SignInv
<1>. QED BY <1>1, <1>2, <1>3, <1>4, <1>5, <1>6, <1>7, GenerateStep, RecoverPublicStep, AttemptStep,
            CheckZStep, CheckW0Step, CheckHintsStep, WriteStep DEF SignNext

\* The context's length comes before it, so no two pairs give one string.
Joined(a, b) == <<0, Len(a)>> \o a \o b

LEMMA JoinedIs ==
  ASSUME NEW a \in Seq(Nat), NEW b \in Seq(Nat)
  PROVE  /\ Len(a) \in Nat /\ Len(b) \in Nat
         /\ Len(Joined(a, b)) = 2 + Len(a) + Len(b) /\ Joined(a, b)[2] = Len(a)
         /\ \A i \in 1..Len(a) : Joined(a, b)[2 + i] = a[i]
         /\ \A i \in 1..Len(b) : Joined(a, b)[2 + Len(a) + i] = b[i]
<1> DEFINE h == <<0, Len(a)>>
           p == h \o a
           q == p \o b
<1>1. Len(a) \in Nat /\ Len(b) \in Nat /\ h \in Seq(Nat) /\ Len(h) = 2 /\ h[2] = Len(a)
  OBVIOUS
<1> HIDE DEF h
<1>2. /\ p \in Seq(Nat) /\ Len(p) = Len(h) + Len(a)
      /\ \A i \in 1..(Len(h) + Len(a)) : p[i] = IF i <= Len(h) THEN h[i] ELSE a[i - Len(h)]
  BY <1>1, ConcatProperties
<1> HIDE DEF p
<1>3. /\ Len(q) = Len(p) + Len(b)
      /\ \A i \in 1..(Len(p) + Len(b)) : q[i] = IF i <= Len(p) THEN p[i] ELSE b[i - Len(p)]
  <2>1. p \in Seq(Nat)
    BY <1>2
  <2>. QED BY <2>1, ConcatProperties
<1> HIDE DEF q
<1>4. Len(p) = 2 + Len(a) /\ Len(q) = 2 + Len(a) + Len(b)
  BY <1>1, <1>2, <1>3
<1>5. p[2] = Len(a) /\ q[2] = Len(a)
  BY <1>1, <1>2, <1>3, <1>4
<1>6. \A i \in 1..Len(a) : q[2 + i] = a[i]
  <2> TAKE i \in 1..Len(a)
  <2>1. 2 + i \in 1..(Len(h) + Len(a)) /\ 2 + i \in 1..(Len(p) + Len(b)) /\ ~(2 + i <= Len(h)) /\ (2 + i) - Len(h) = i
        /\ 2 + i <= Len(p)
    BY <1>1, <1>4
  <2>. QED BY <1>2, <1>3, <2>1
<1>7. \A i \in 1..Len(b) : q[2 + Len(a) + i] = b[i]
  <2> TAKE i \in 1..Len(b)
  <2> DEFINE k == 2 + Len(a) + i
  <2>1. k \in 1..(Len(p) + Len(b)) /\ ~(k <= Len(p)) /\ k - Len(p) = i
    BY <1>1, <1>4
  <2> HIDE DEF k
  <2>2. q[k] = b[i]
    BY <1>3, <2>1
  <2>. QED BY <2>2 DEF k
<1>8. Joined(a, b) = q
  BY DEF Joined, q, p, h
<1>. QED BY <1>1, <1>4, <1>5, <1>6, <1>7, <1>8

LEMMA SameLengths ==
  ASSUME NEW a \in Seq(Nat), NEW b \in Seq(Nat), Len(a) = Len(b), \A i \in 1..Len(a) : a[i] = b[i]
  PROVE  a = b
<1>1. a = [i \in 1..Len(a) |-> a[i]] /\ b = [i \in 1..Len(b) |-> b[i]]
  OBVIOUS
<1>. QED BY <1>1

LEMMA MuTellsApart ==
  ASSUME NEW m \in Messages, NEW n \in Messages, NEW tr, NEW ur,
         Mu(tr, m[1], m[2]) = Mu(ur, n[1], n[2])
  PROVE  m = n
<1> DEFINE a == m[1]
           b == m[2]
           c == n[1]
           d == n[2]
<1>1. m = <<a, b>> /\ n = <<c, d>> /\ a \in Seq(Nat) /\ b \in Seq(Nat) /\ c \in Seq(Nat) /\ d \in Seq(Nat)
  BY Constrained
<1>2. Joined(a, b) = Joined(c, d)
  BY DEF Mu, Joined
<1> HIDE DEF a, b, c, d
<1>3. /\ Len(a) \in Nat /\ Len(b) \in Nat
      /\ Len(Joined(a, b)) = 2 + Len(a) + Len(b) /\ Joined(a, b)[2] = Len(a)
      /\ \A i \in 1..Len(a) : Joined(a, b)[2 + i] = a[i]
      /\ \A i \in 1..Len(b) : Joined(a, b)[2 + Len(a) + i] = b[i]
  BY <1>1, JoinedIs
<1>4. /\ Len(c) \in Nat /\ Len(d) \in Nat
      /\ Len(Joined(c, d)) = 2 + Len(c) + Len(d) /\ Joined(c, d)[2] = Len(c)
      /\ \A i \in 1..Len(c) : Joined(c, d)[2 + i] = c[i]
      /\ \A i \in 1..Len(d) : Joined(c, d)[2 + Len(c) + i] = d[i]
  BY <1>1, JoinedIs
<1>5. Len(a) = Len(c) /\ Len(b) = Len(d)
  <2>1. 2 + Len(a) + Len(b) = 2 + Len(c) + Len(d) /\ Len(a) = Len(c)
    BY Zenon, <1>2, <1>3, <1>4
  <2>. QED BY <1>3, <1>4, <2>1
<1>6. /\ \A i \in 1..Len(a) : a[i] = c[i]
      /\ \A i \in 1..Len(b) : b[i] = d[i]
  BY Zenon, <1>2, <1>3, <1>4, <1>5
<1>7. a = c
  BY <1>1, <1>5, <1>6, SameLengths
<1>8. b = d
  BY <1>1, <1>5, <1>6, SameLengths
<1>. QED BY <1>1, <1>7, <1>8

\* What the invariant says of a state between two calls.
LEMMA SignedIs == SignInv => SignedVerifies
<1> SUFFICES ASSUME SignInv PROVE SignedVerifies
  OBVIOUS
<1>1. ASSUME sig # NoSig
      PROVE  /\ CommitmentStands
             /\ \A m \in Messages : Len(m[1]) <= MaxContext => (Accepts(m) <=> Mu(key.tr, m[1], m[2]) = sig.c[1])
  <2>1. key.tr = <<key.A, key.t1>>
    BY <1>1 DEF SignInv, Owned, KeyOK
  <2>2. sig.c = <<sig.c[1], sig.c[2]>> /\ ~Exceeds(sig.z, ZBound) /\ CommitmentStands /\ Recovered = sig.c[2]
    BY <1>1 DEF SignInv, SigOK
  <2>3. ASSUME NEW m \in Messages, Len(m[1]) <= MaxContext
        PROVE  Accepts(m) <=> Mu(key.tr, m[1], m[2]) = sig.c[1]
    <3> DEFINE mu == Mu(key.tr, m[1], m[2])
    <3>1. Accepts(m) <=> sig.c = <<mu, Recovered>>
      BY <2>1, <2>2, <2>3 DEF Accepts
    <3> HIDE DEF mu
    <3>2. sig.c = <<mu, Recovered>> <=> mu = sig.c[1]
      BY <2>2
    <3>. QED BY <3>1, <3>2 DEF mu
  <2>. QED BY <2>2, <2>3
<1>2. \A m, n \in Messages : Mu("tr", m[1], m[2]) = Mu("tr", n[1], n[2]) => m = n
  BY MuTellsApart
<1>3. public # <<>> => public = key.tr
  BY DEF SignInv, PublicOK
<1>. QED BY <1>1, <1>2, <1>3 DEF SignedVerifies

\* A signature sign.c writes is accepted for its own context and message and no other,
\* with the public key generated with the secret one or recovered from it, for every
\* matrix, key, mask and challenge, and whichever representatives are left on the way.
THEOREM SignedIsAccepted == SignSpec => []SignedVerifies
<1>1. SignInv => SignedVerifies
  BY SignedIs
<1>. QED BY <1>1, SignStarts, SignPreserves, PTL DEF SignSpec
-----------------------------------------------------------------------------
\* The masks of a call are numbered in order, through all its attempts.
Numbered(a) ==
  /\ drawn \in Seq(Nat) /\ Len(drawn) = L * a /\ nonce = a % NonceSpan
  /\ \A i \in 1..Len(drawn) : drawn[i] = i - 1

NonceInv == \E a \in 0..MaxAttempts : Numbered(a)

LEMMA RowsGrow ==
  ASSUME NEW l \in Nat \ {0}, NEW a \in Nat, NEW b \in Nat
  PROVE  /\ l * a \in Nat /\ l * (a + 1) = l * a + l /\ a <= l * a
         /\ l * a < l * b => a + 1 <= b /\ l * (a + 1) <= l * b
<1>1. l * a \in Nat /\ l * b \in Nat /\ l * (a + 1) = l * a + l
  OBVIOUS
<1>2. l * a = a + (l - 1) * a /\ (l - 1) * a \in Nat
  OBVIOUS
<1>3. ASSUME b <= a PROVE l * b <= l * a
  <2>1. a - b \in Nat /\ l * a = l * b + l * (a - b) /\ l * (a - b) \in Nat
    BY <1>3
  <2>. QED BY <1>1, <2>1
<1>4. ASSUME a + 1 <= b PROVE l * (a + 1) <= l * b
  <2>1. b - (a + 1) \in Nat /\ l * b = l * (a + 1) + l * (b - (a + 1)) /\ l * (b - (a + 1)) \in Nat
    BY <1>4
  <2>. QED BY <1>1, <2>1
<1> DEFINE la == l * a
           lb == l * b
           lc == l * (a + 1)
<1>5. la \in Nat /\ lb \in Nat /\ lc = la + l /\ a <= la /\ (b <= a => lb <= la) /\ (a + 1 <= b => lc <= lb)
  BY <1>1, <1>2, <1>3, <1>4
<1> HIDE DEF la, lb, lc
<1>6. la < lb => a + 1 <= b /\ lc <= lb
  BY <1>5
<1>. QED BY <1>5, <1>6 DEF la, lb, lc

LEMMA NonceSteps == NonceInv /\ [SignNext]_signVars => NonceInv'
<1> SUFFICES ASSUME NonceInv, [SignNext]_signVars PROVE NonceInv'
  OBVIOUS
<1>0. L \in Nat \ {0} /\ MaxAttempts \in Nat /\ NonceSpan \in Nat \ {0} /\ L * MaxAttempts <= NonceSpan
  BY SignAssumption
<1>1. CASE UNCHANGED <<nonce, drawn>>
  BY <1>1 DEF NonceInv, Numbered
<1>2. CASE SignBegin
  <2>1. nonce' = 0 /\ drawn' = <<>>
    BY <1>2 DEF SignBegin
  <2>2. Numbered(0)'
    BY <1>0, <2>1 DEF Numbered
  <2>. QED BY <1>0, <2>2 DEF NonceInv
<1>3. CASE Attempt
  <2>1. PICK a \in 0..MaxAttempts : Numbered(a)
    BY DEF NonceInv
  <2>2. /\ Len(drawn) < L * MaxAttempts /\ nonce' = (nonce + 1) % NonceSpan
        /\ drawn' = drawn \o [i \in 1..L |-> (L * nonce + (i - 1)) % NonceSpan]
    BY <1>3 DEF Attempt, MaskNonce
  <2> DEFINE la == L * a
             lm == L * MaxAttempts
             m == [i \in 1..L |-> (L * nonce + (i - 1)) % NonceSpan]
  <2>3. a \in Nat /\ la \in Nat /\ lm \in Nat /\ L * (a + 1) = la + L /\ a <= la /\ a + 1 <= MaxAttempts /\ la + L <= lm
    <3>1. a \in Nat /\ L * a < L * MaxAttempts
      BY <1>0, <2>1, <2>2 DEF Numbered
    <3>. QED BY <1>0, <3>1, RowsGrow
  <2>4. lm <= NonceSpan /\ a < NonceSpan
    BY <1>0, <2>3
  <2>5. nonce = a /\ L * nonce = la
    BY SMTT(20), <1>0, <2>1, <2>3, <2>4 DEF Numbered
  <2>6. m \in Seq(Nat) /\ Len(m) = L /\ \A i \in 1..L : m[i] = la + i - 1
    <3>1. \A i \in 1..L : m[i] = (la + (i - 1)) % NonceSpan
      BY <2>5
    <3> HIDE DEF la, lm
    <3>2. \A i \in 1..L : (la + (i - 1)) % NonceSpan = la + i - 1 /\ la + i - 1 \in Nat
      BY <1>0, <2>3, <2>4
    <3>3. m = [i \in 1..L |-> la + i - 1]
      BY <2>5, <3>1, <3>2
    <3>. QED BY <1>0, <3>2, <3>3
  <2>7. drawn \in Seq(Nat) /\ Len(drawn) = la /\ \A i \in 1..la : drawn[i] = i - 1
    BY <2>1 DEF Numbered
  <2> HIDE DEF la, lm, m
  <2>8. /\ drawn' \in Seq(Nat) /\ Len(drawn') = la + L
        /\ \A i \in 1..(la + L) : drawn'[i] = IF i <= la THEN drawn[i] ELSE m[i - la]
    <3>1. drawn' = drawn \o m /\ Len(m) = L /\ m \in Seq(Nat)
      BY <2>2, <2>6 DEF m
    <3>. QED BY ZenonT(40), <2>7, <3>1, ConcatProperties
  <2>9. \A i \in 1..(la + L) : drawn'[i] = i - 1
    <3> TAKE i \in 1..(la + L)
    <3>1. CASE i <= la
      BY <2>3, <2>7, <2>8, <3>1
    <3>2. CASE ~(i <= la)
      <4>1. i - la \in 1..L
        BY <1>0, <2>3, <3>2
      <4>2. m[i - la] = i - 1
        BY <1>0, <2>3, <2>6, <4>1
      <4>. QED BY <2>8, <3>2, <4>2
    <3>. QED BY <3>1, <3>2
  <2>10. nonce' = (a + 1) % NonceSpan
    BY <2>2, <2>5
  <2>11. Numbered(a + 1)'
    BY <2>3, <2>8, <2>9, <2>10 DEF Numbered
  <2>. QED BY <2>3, <2>11, <1>0 DEF NonceInv
<1>. QED BY <1>1, <1>2, <1>3 DEF SignNext, signVars, Generate, GenerateFails, RecoverPublic, Wipe, RandomFails,
            RandomDrawn, CheckZ, CheckW0, CheckHints, Write, Verify

\* No two masks of a signing call come from one nonce: the counter does not wrap, and
\* L * nonce + i counts every vector of every attempt once.
THEOREM MasksAreFreshAlways == SignSpec => []MasksAreFresh
<1>1. SignInit => NonceInv
  <2> SUFFICES ASSUME SignInit PROVE NonceInv
    OBVIOUS
  <2>1. Numbered(0) /\ 0 \in 0..MaxAttempts
    BY SignAssumption DEF SignInit, Numbered
  <2>. QED BY <2>1 DEF NonceInv
<1>2. NonceInv => MasksAreFresh
  <2> SUFFICES ASSUME NonceInv PROVE MasksAreFresh
    OBVIOUS
  <2>1. PICK a \in 0..MaxAttempts : Numbered(a)
    BY DEF NonceInv
  <2>2. \A i, j \in 1..Len(drawn) : drawn[i] = i - 1 /\ drawn[j] = j - 1 /\ (i - 1 = j - 1 => i = j)
    BY <2>1 DEF Numbered
  <2>. QED BY <2>2 DEF MasksAreFresh
<1>. QED BY <1>1, <1>2, NonceSteps, PTL DEF SignSpec
-----------------------------------------------------------------------------
\* What a call can have in its buffers where it stands.
Attempting == {"reject", "check z", "check w0", "check h", "write"}
LiveInv ==
  /\ pc \in {"idle", "unpacked"} \cup Attempting \cup DOMAIN Cleansed
  /\ pc = "idle" => live = {}
  /\ pc = "unpacked" => live \subseteq Cleansed.random
  /\ pc \in Attempting => live \subseteq Cleansed.signed
  /\ pc \in DOMAIN Cleansed => live \subseteq Cleansed[pc]

LEMMA Buffers ==
  /\ DOMAIN Cleansed = {"keypair", "entropy", "public", "random", "signed"}
  /\ Cleansed.keypair = {"seedbuf", "s1", "s1hat", "s2", "t0"} /\ Cleansed.entropy = {"seedbuf"}
  /\ Cleansed.public = {"key", "s1", "s1hat", "s2", "t0", "t0dummy"}
  /\ Cleansed.random = {"seedbuf", "s1", "s2", "t0"}
  /\ Cleansed.signed = {"seedbuf", "s1", "s2", "t0", "y", "z", "w0"}
  /\ Cleansed["keypair"] = Cleansed.keypair /\ Cleansed["entropy"] = Cleansed.entropy
  /\ Cleansed["public"] = Cleansed.public /\ Cleansed["random"] = Cleansed.random
  /\ Cleansed["signed"] = Cleansed.signed
  BY DEF Cleansed

LEMMA LiveSteps == LiveInv /\ [SignNext]_signVars => LiveInv'
<1> SUFFICES ASSUME LiveInv, [SignNext]_signVars PROVE LiveInv'
  OBVIOUS
<1> USE DEF LiveInv, Attempting
<1>1. CASE Generate
  <2>1. pc' = "keypair" /\ live' = Cleansed.keypair
    BY <1>1, Buffers DEF Generate
  <2>. QED BY <2>1, Buffers
<1>2. CASE GenerateFails
  <2>1. pc' = "entropy" /\ live' = Cleansed.entropy
    BY <1>2, Buffers DEF GenerateFails
  <2>. QED BY <2>1, Buffers
<1>3. CASE RecoverPublic
  <2>1. pc' = "public" /\ live' = Cleansed.public
    BY <1>3, Buffers DEF RecoverPublic
  <2>. QED BY <2>1, Buffers
<1>4. CASE Wipe
  <2>1. pc \in DOMAIN Cleansed /\ live' = live \ Cleansed[pc] /\ pc' = "idle"
    BY <1>4 DEF Wipe
  <2>2. live \subseteq Cleansed[pc]
    BY <2>1
  <2>3. live' = {}
    BY <2>1, <2>2
  <2>. QED BY <2>1, <2>3, Buffers
<1>5. CASE SignBegin
  <2>1. CASE UNCHANGED <<pc, live>>
    BY <2>1
  <2>2. CASE pc' = "unpacked" /\ live' = {"seedbuf", "s1", "s2", "t0"}
    BY <2>2, Buffers
  <2>. QED BY <1>5, <2>1, <2>2 DEF SignBegin
<1>6. CASE RandomFails
  <2>1. pc = "unpacked" /\ pc' = "random" /\ live' = live
    BY <1>6 DEF RandomFails
  <2>. QED BY <2>1, Buffers
<1>7. CASE RandomDrawn
  <2>1. pc = "unpacked" /\ pc' = "reject" /\ live' = live
    BY <1>7 DEF RandomDrawn
  <2>2. Cleansed.random \subseteq Cleansed.signed
    BY Buffers
  <2>. QED BY <2>1, <2>2, Buffers
<1>8. CASE Attempt
  <2>1. pc = "reject" /\ pc' = "check z" /\ live' = live \cup {"y", "z", "w0"}
    BY <1>8 DEF Attempt
  <2>2. {"y", "z", "w0"} \subseteq Cleansed.signed
    BY Buffers
  <2>. QED BY <2>1, <2>2, Buffers
<1>9. CASE CheckZ \/ CheckW0 \/ CheckHints
  <2>1. pc \in Attempting /\ pc' \in Attempting /\ live' = live
    BY <1>9 DEF CheckZ, CheckW0, CheckHints, Reject
  <2>. QED BY <2>1, Buffers
<1>10. CASE Write
  <2>1. pc = "write" /\ pc' = "signed" /\ live' = live
    BY <1>10 DEF Write
  <2>. QED BY <2>1, Buffers
<1>11. CASE Verify \/ UNCHANGED signVars
  <2>1. pc' = pc /\ live' = live
    BY <1>11 DEF Verify, signVars
  <2>. QED BY <2>1
<1>. QED BY <1>1, <1>2, <1>3, <1>4, <1>5, <1>6, <1>7, <1>8, <1>9, <1>10, <1>11 DEF SignNext

\* Whichever way a call returns, its buffers have been cleansed: each return wipes all
\* that the paths leading there can have filled.
THEOREM NoSecretIsLeft == SignSpec => []NoSecretLeft
<1>1. SignInit => LiveInv
  BY Buffers DEF SignInit, LiveInv, Attempting
<1>2. LiveInv => NoSecretLeft
  BY DEF LiveInv, NoSecretLeft
<1>. QED BY <1>1, <1>2, LiveSteps, PTL DEF SignSpec
-----------------------------------------------------------------------------
(* Sampling: pieces of the stream.                                          *)

LEMMA StreamIs ==
  ASSUME NEW from \in Nat, NEW n \in Nat
  PROVE  /\ Stream(from, n) \in Seq(Nat) /\ Len(Stream(from, n)) = n
         /\ \A i \in 1..n : Stream(from, n)[i] = from + i - 1
<1>1. \A i \in 1..n : from + i - 1 \in Nat
  OBVIOUS
<1> QED
  BY <1>1 DEF Stream

LEMMA SameSeq ==
  ASSUME NEW S, NEW s \in Seq(S), NEW t \in Seq(S), Len(s) = Len(t), \A i \in 1..Len(s) : s[i] = t[i]
  PROVE  s = t
OBVIOUS

LEMMA StreamJoin ==
  ASSUME NEW from \in Nat, NEW m \in Nat, NEW n \in Nat
  PROVE  Stream(from, m) \o Stream(from + m, n) = Stream(from, m + n)
<1> DEFINE s == Stream(from, m)
           t == Stream(from + m, n)
           u == Stream(from, m + n)
<1>1. /\ s \in Seq(Nat) /\ Len(s) = m /\ \A i \in 1..m : s[i] = from + i - 1
      /\ t \in Seq(Nat) /\ Len(t) = n /\ \A i \in 1..n : t[i] = (from + m) + i - 1
      /\ u \in Seq(Nat) /\ Len(u) = m + n /\ \A i \in 1..(m + n) : u[i] = from + i - 1
  <2>1. from + m \in Nat /\ m + n \in Nat
    OBVIOUS
  <2> QED
    BY <2>1, StreamIs
<1> HIDE DEF s, t, u
<1>2. /\ s \o t \in Seq(Nat) /\ Len(s \o t) = m + n
      /\ \A i \in 1..(m + n) : (s \o t)[i] = IF i <= m THEN s[i] ELSE t[i - m]
  <2>1. s \in Seq(Nat) /\ t \in Seq(Nat) /\ Len(s) = m /\ Len(t) = n
    BY <1>1
  <2>2. /\ s \o t \in Seq(Nat) /\ Len(s \o t) = Len(s) + Len(t)
        /\ \A i \in 1..Len(s) + Len(t) : (s \o t)[i] = IF i <= Len(s) THEN s[i] ELSE t[i - Len(s)]
    BY ONLY <2>1, ConcatProperties
  <2> QED
    BY ONLY <2>1, <2>2
<1>3. \A i \in 1..(m + n) : (s \o t)[i] = from + i - 1
  <2> SUFFICES ASSUME NEW i \in 1..(m + n) PROVE (s \o t)[i] = from + i - 1
    OBVIOUS
  <2>1. CASE i \in 1..m
    BY <1>1, <1>2, <2>1
  <2>2. CASE i - m \in 1..n
    <3>1. (s \o t)[i] = t[i - m]
      <4>1. ~(i <= m)
        BY <2>2
      <4> QED
        BY <1>2, <4>1
    <3> QED
      BY <1>1, <2>2, <3>1
  <2>3. i \in 1..m \/ i - m \in 1..n
    OBVIOUS
  <2> QED
    BY <2>1, <2>2, <2>3
<1> DEFINE j == s \o t
<1>4. j \in Seq(Nat) /\ Len(j) = Len(u) /\ \A i \in 1..Len(j) : j[i] = u[i]
  BY <1>1, <1>2, <1>3
<1> HIDE DEF j
<1>5. j = u
  BY <1>1, <1>4, SameSeq
<1> QED
  BY <1>5 DEF j, s, t, u

LEMMA StreamEnd ==
  ASSUME NEW from \in Nat, NEW n \in Nat, NEW p \in 0..n
  PROVE  SubSeq(Stream(from, n), p + 1, n) = Stream(from + p, n - p)
<1> DEFINE s == Stream(from, n)
           u == Stream(from + p, n - p)
           e == SubSeq(s, p + 1, n)
<1>1. /\ s \in Seq(Nat) /\ Len(s) = n /\ \A i \in 1..n : s[i] = from + i - 1
      /\ u \in Seq(Nat) /\ Len(u) = n - p /\ \A i \in 1..(n - p) : u[i] = (from + p) + i - 1
  <2>1. from + p \in Nat /\ n - p \in Nat
    OBVIOUS
  <2> QED
    BY <2>1, StreamIs
<1> HIDE DEF s, u
<1>2. e \in Seq(Nat) /\ Len(e) = n - p /\ \A i \in 1..(n - p) : e[i] = s[p + i]
  BY <1>1
<1> HIDE DEF e
<1>3. \A i \in 1..(n - p) : p + i \in 1..n
  OBVIOUS
<1>4. \A i \in 1..(n - p) : e[i] = u[i]
  BY <1>1, <1>2, <1>3
<1>5. e = u
  BY <1>1, <1>2, <1>4, SameSeq
<1> QED
  BY <1>5 DEF s, u, e
-----------------------------------------------------------------------------
(* Sampling: the good ones of what is offered.                              *)

Goods(offers) ==
  CHOOSE good : good = [i \in 0..Len(offers) |->
    IF i = 0 THEN <<>> ELSE IF offers[i][2] THEN Append(good[i - 1], offers[i][1]) ELSE good[i - 1]]

LEMMA GoodsIs ==
  ASSUME NEW offers, Len(offers) \in Nat
  PROVE  Goods(offers) = [i \in 0..Len(offers) |->
           IF i = 0 THEN <<>> ELSE IF offers[i][2] THEN Append(Goods(offers)[i - 1], offers[i][1])
                              ELSE Goods(offers)[i - 1]]
<1> DEFINE Next0(f, i) == IF offers[i][2] THEN Append(f[i - 1], offers[i][1]) ELSE f[i - 1]
           Kept(f, l)  == f = [i \in 0..l |-> IF i = 0 THEN <<>> ELSE Next0(f, i)]
           Done        == {l \in Nat : \E f : Kept(f, l)}
<1>1. 0 \in Done
  <2> DEFINE f == [i \in 0..0 |-> <<>>]
  <2>1. Kept(f, 0)
    OBVIOUS
  <2> QED
    BY <2>1
<1>2. ASSUME NEW l \in Nat, l \in Done PROVE l + 1 \in Done
  <2>1. PICK f : Kept(f, l)
    BY <1>2
  <2> HIDE DEF Next0
  <2> DEFINE g == [i \in 0..(l + 1) |-> IF i = 0 THEN <<>> ELSE Next0(f, i)]
  <2>2. \A i \in 0..l : g[i] = f[i]
    BY <2>1
  <2>3. \A i \in 0..(l + 1) : i # 0 => i - 1 \in 0..l
    OBVIOUS
  <2>4. Kept(g, l + 1)
    <3> DEFINE h == [i \in 0..(l + 1) |-> IF i = 0 THEN <<>> ELSE Next0(g, i)]
    <3>1. \A i \in 0..(l + 1) : (IF i = 0 THEN <<>> ELSE Next0(f, i)) = IF i = 0 THEN <<>> ELSE Next0(g, i)
      BY <2>2, <2>3 DEF Next0
    <3>2. g = h
      BY <3>1
    <3> HIDE DEF g
    <3> QED
      BY <3>2
  <2>5. \E x : Kept(x, l + 1)
    BY <2>4
  <2> HIDE DEF Kept, g
  <2> QED
    BY <2>5
<1> HIDE DEF Done
<1>3. Len(offers) \in Done
  BY <1>1, <1>2, Induction
<1>4. PICK f : Kept(f, Len(offers))
  BY <1>3 DEF Done
<1>5. Goods(offers) = CHOOSE x : Kept(x, Len(offers))
  BY DEF Goods
<1> QED
  BY <1>4, <1>5

LEMMA GoodsStep ==
  ASSUME NEW C, NEW offers \in Seq(C \X BOOLEAN)
  PROVE  /\ Goods(offers)[0] = <<>>
         /\ \A i \in 1..Len(offers) :
              Goods(offers)[i] = IF offers[i][2] THEN Append(Goods(offers)[i - 1], offers[i][1])
                                                 ELSE Goods(offers)[i - 1]
         /\ \A i \in 0..Len(offers) : Goods(offers)[i] \in Seq(C)
<1> DEFINE F  == Goods(offers)
           OK == {i \in Nat : i <= Len(offers) => F[i] \in Seq(C)}
<1>1. Len(offers) \in Nat /\ \A i \in 1..Len(offers) : offers[i][1] \in C
  OBVIOUS
<1>2. F = [i \in 0..Len(offers) |-> IF i = 0 THEN <<>> ELSE IF offers[i][2] THEN Append(F[i - 1], offers[i][1])
                                                       ELSE F[i - 1]]
  BY <1>1, GoodsIs
<1> HIDE DEF F
<1>3. 0 \in 0..Len(offers) /\ \A i \in 1..Len(offers) : i \in 0..Len(offers) /\ i # 0
  BY <1>1
<1>4. /\ F[0] = <<>>
      /\ \A i \in 1..Len(offers) : F[i] = IF offers[i][2] THEN Append(F[i - 1], offers[i][1]) ELSE F[i - 1]
  BY <1>2, <1>3
<1>5. 0 \in OK
  <2>1. <<>> \in Seq(C)
    OBVIOUS
  <2> QED
    BY <1>4, <2>1
<1>6. ASSUME NEW i \in Nat, i \in OK PROVE i + 1 \in OK
  <2> SUFFICES ASSUME i + 1 <= Len(offers) PROVE F[i + 1] \in Seq(C)
    OBVIOUS
  <2>1. i + 1 \in 1..Len(offers) /\ (i + 1) - 1 = i /\ i <= Len(offers)
    BY <1>1
  <2>2. F[i + 1] = (IF offers[i + 1][2] THEN Append(F[i], offers[i + 1][1]) ELSE F[i]) /\ F[i] \in Seq(C)
    BY <1>4, <1>6, <2>1
  <2>3. offers[i + 1][1] \in C
    BY <1>1, <2>1
  <2> QED
    BY <2>2, <2>3
<1> HIDE DEF OK
<1>7. Nat \subseteq OK
  BY <1>5, <1>6, Induction
<1>8. \A i \in 0..Len(offers) : F[i] \in Seq(C)
  <2>1. \A i \in 0..Len(offers) : i \in Nat /\ i <= Len(offers)
    BY <1>1
  <2> QED
    BY <1>7, <2>1 DEF OK
<1> QED
  BY <1>4, <1>8 DEF F

\* One offer more adds itself if it is good.
LEMMA GoodAppend ==
  ASSUME NEW C, NEW offers \in Seq(C \X BOOLEAN), NEW o \in C \X BOOLEAN
  PROVE  /\ GoodOnes(offers) \in Seq(C)
         /\ Append(offers, o) \in Seq(C \X BOOLEAN)
         /\ GoodOnes(Append(offers, o)) = IF o[2] THEN Append(GoodOnes(offers), o[1]) ELSE GoodOnes(offers)
<1> DEFINE more == Append(offers, o)
           F    == Goods(offers)
           G    == Goods(more)
           n    == Len(offers)
           Same0 == {i \in Nat : i <= n => F[i] = G[i]}
<1>1. /\ n \in Nat /\ more \in Seq(C \X BOOLEAN) /\ Len(more) = n + 1
      /\ \A i \in 1..n : more[i] = offers[i]
      /\ more[n + 1] = o
  OBVIOUS
<1> HIDE DEF more
<1>2. /\ F[0] = <<>> /\ \A i \in 0..n : F[i] \in Seq(C)
      /\ \A i \in 1..n : F[i] = IF offers[i][2] THEN Append(F[i - 1], offers[i][1]) ELSE F[i - 1]
  BY GoodsStep
<1>3. /\ G[0] = <<>>
      /\ \A i \in 1..(n + 1) : G[i] = IF more[i][2] THEN Append(G[i - 1], more[i][1]) ELSE G[i - 1]
  BY <1>1, GoodsStep
<1>4. GoodOnes(offers) = F[n] /\ GoodOnes(more) = G[Len(more)]
  BY DEF GoodOnes, Goods
<1> HIDE DEF F, G, n
<1>5. 0 \in Same0
  BY <1>2, <1>3
<1>6. ASSUME NEW i \in Nat, i \in Same0 PROVE i + 1 \in Same0
  <2> SUFFICES ASSUME i + 1 <= n PROVE F[i + 1] = G[i + 1]
    OBVIOUS
  <2>1. i + 1 \in 1..n /\ i + 1 \in 1..(n + 1) /\ (i + 1) - 1 = i /\ i <= n
    BY <1>1
  <2>2. F[i] = G[i] /\ more[i + 1] = offers[i + 1]
    BY <1>1, <1>6, <2>1
  <2>3. /\ F[i + 1] = IF offers[i + 1][2] THEN Append(F[i], offers[i + 1][1]) ELSE F[i]
        /\ G[i + 1] = IF more[i + 1][2] THEN Append(G[i], more[i + 1][1]) ELSE G[i]
    BY <1>2, <1>3, <2>1
  <2> QED
    BY <2>2, <2>3
<1> HIDE DEF Same0
<1>7. n \in Same0
  BY <1>1, <1>5, <1>6, Induction
<1>8. F[n] = G[n]
  BY <1>1, <1>7 DEF Same0
<1>9. G[n + 1] = IF o[2] THEN Append(G[n], o[1]) ELSE G[n]
  <2>1. n + 1 \in 1..(n + 1) /\ (n + 1) - 1 = n
    BY <1>1
  <2> QED
    BY <1>1, <1>3, <2>1
<1>10. n \in 0..n
  BY <1>1
<1> QED
  BY <1>1, <1>2, <1>4, <1>8, <1>9, <1>10 DEF more

LEMMA FirstIs ==
  ASSUME NEW C, NEW g \in Seq(C), NEW n \in Nat
  PROVE  /\ First(n, g) \in Seq(C) /\ Len(First(n, g)) <= n
         /\ Len(First(n, g)) < n => First(n, g) = g /\ Len(g) < n
BY DEF First

\* The first n of a list with one element more.
LEMMA FirstAppend ==
  ASSUME NEW C, NEW g \in Seq(C), NEW x \in C, NEW n \in Nat
  PROVE  First(n, Append(g, x)) = IF Len(First(n, g)) < n THEN Append(First(n, g), x) ELSE First(n, g)
<1> DEFINE more == Append(g, x)
<1>1. Len(g) \in Nat /\ more \in Seq(C) /\ Len(more) = Len(g) + 1 /\ \A i \in 1..Len(g) : more[i] = g[i]
  OBVIOUS
<1>2. CASE Len(g) < n
  <2>1. First(n, g) = g
    BY <1>2 DEF First
  <2>2. First(n, more) = SubSeq(more, 1, Len(more))
    BY <1>1, <1>2 DEF First
  <2> HIDE DEF more
  <2>3. First(n, more) = more
    BY <1>1, <2>2
  <2> QED
    BY <1>2, <2>1, <2>3 DEF more
<1>3. CASE n <= Len(g)
  <2>1. First(n, g) = SubSeq(g, 1, n) /\ First(n, more) = SubSeq(more, 1, n)
    BY <1>1, <1>3 DEF First
  <2> HIDE DEF more
  <2> DEFINE s == SubSeq(g, 1, n)
             t == SubSeq(more, 1, n)
  <2>2. s \in Seq(C) /\ Len(s) = n /\ \A i \in 1..n : s[i] = g[i]
    BY <1>1, <1>3
  <2>3. t \in Seq(C) /\ Len(t) = n /\ \A i \in 1..n : t[i] = more[i]
    BY <1>1, <1>3
  <2>4. \A i \in 1..n : i \in 1..Len(g)
    BY <1>1, <1>3
  <2> HIDE DEF s, t
  <2>5. \A i \in 1..n : s[i] = t[i]
    BY <1>1, <2>2, <2>3, <2>4
  <2>6. s = t
    BY <2>2, <2>3, <2>5, SameSeq
  <2>7. First(n, g) = s /\ First(n, more) = t
    BY <2>1 DEF s, t
  <2>8. ~(Len(First(n, g)) < n)
    BY <2>2, <2>7
  <2> QED
    BY <2>6, <2>7, <2>8 DEF more
<1> QED
  BY <1>1, <1>2, <1>3

\* An offer is taken if it is good and there is room.
TakenInto(C, offers, o, n) ==
  /\ Append(offers, o) \in Seq(C \X BOOLEAN)
  /\ First(n, GoodOnes(offers)) \in Seq(C) /\ Len(First(n, GoodOnes(offers))) <= n
  /\ o[2] = TRUE /\ Len(First(n, GoodOnes(offers))) < n =>
       First(n, GoodOnes(Append(offers, o))) = Append(First(n, GoodOnes(offers)), o[1])
  /\ o[2] = FALSE => First(n, GoodOnes(Append(offers, o))) = First(n, GoodOnes(offers))
  /\ Len(First(n, GoodOnes(offers))) >= n =>
       First(n, GoodOnes(Append(offers, o))) = First(n, GoodOnes(offers))

LEMMA OfferOne ==
  ASSUME NEW C, NEW offers \in Seq(C \X BOOLEAN), NEW o \in C \X BOOLEAN, NEW n \in Nat
  PROVE  TakenInto(C, offers, o, n)
<1> DEFINE g    == GoodOnes(offers)
           more == Append(offers, o)
           c    == First(n, g)
<1>1. g \in Seq(C) /\ more \in Seq(C \X BOOLEAN) /\ GoodOnes(more) = IF o[2] THEN Append(g, o[1]) ELSE g
  BY GoodAppend
<1>2. o[1] \in C
  OBVIOUS
<1> HIDE DEF g, more
<1>3. c \in Seq(C) /\ Len(c) <= n
  BY <1>1, <1>2, FirstIs
<1>4. First(n, Append(g, o[1])) = IF Len(c) < n THEN Append(c, o[1]) ELSE c
  BY <1>1, <1>2, FirstAppend
<1> HIDE DEF c
<1>5. /\ o[2] = TRUE /\ Len(c) < n => First(n, GoodOnes(more)) = Append(c, o[1])
      /\ o[2] = FALSE => First(n, GoodOnes(more)) = c
      /\ Len(c) >= n => First(n, GoodOnes(more)) = c
  <2>1. o[2] = TRUE \/ o[2] = FALSE
    OBVIOUS
  <2>2. o[2] = TRUE => GoodOnes(more) = Append(g, o[1])
    BY <1>1
  <2>3. o[2] = FALSE => GoodOnes(more) = g
    BY <1>1
  <2>4. First(n, g) = c
    BY DEF c
  <2>5. Len(c) \in Nat
    BY <1>3
  <2>6. ASSUME o[2] = TRUE, Len(c) < n PROVE First(n, GoodOnes(more)) = Append(c, o[1])
    BY <1>4, <2>2, <2>6
  <2>7. ASSUME o[2] = FALSE PROVE First(n, GoodOnes(more)) = c
    BY <2>3, <2>4, <2>7
  <2>8. ASSUME Len(c) >= n PROVE First(n, GoodOnes(more)) = c
    <3>1. First(n, Append(g, o[1])) = c
      BY <1>4, <2>5, <2>8
    <3> QED
      BY <2>1, <2>2, <2>3, <2>4, <3>1
  <2> QED
    BY <2>6, <2>7, <2>8
<1> QED
  BY <1>1, <1>3, <1>5 DEF more, c, g, TakenInto
-----------------------------------------------------------------------------
(* Sampling: the invariant.                                                 *)

\* The next byte of the stream to be read.
AtByte == squeezed - Len(buf) + pos

\* The buffer holds a piece of the stream up to what is squeezed, and what was read is the
\* stream up to the place in it where reading goes on.
BufferIsWindow ==
  /\ squeezed \in Nat /\ buf \in Seq(Nat) /\ Len(buf) <= squeezed
  /\ buf = Stream(squeezed - Len(buf), Len(buf))
  /\ pos \in 0..Len(buf)
  /\ how.kind = "uniform" => pos % 3 = 0
  /\ read = Stream(0, AtByte)

Candidates == {Stream(i, 3) : i \in Nat} \cup (Nat \X {"low", "high"})

InOrder(offers) == \A i \in 1..Len(offers) : offers[i][1] = Candidate(i)

\* What was tried are the candidates of the bytes read, the good ones are the coefficients.
OffersOK ==
  how.kind # "challenge" =>
    /\ offered \in Seq(Candidates \X BOOLEAN)
    /\ how.kind = "uniform" => AtByte = 3 * Len(offered)
    /\ how.kind = "eta" => Len(offered) = 2 * AtByte
    /\ InOrder(offered)
    /\ coeffs = First(how.n, GoodOnes(offered))

\* f has the signs 1..s, each at one place, below at.
SignsOK(n, f, s, at) ==
  LET placed == {j \in 0..(n - 1) : f[j] # 0}
  IN  /\ f \in [0..(n - 1) -> Nat] /\ s \in Nat
      /\ Cardinality(placed) = s
      /\ {f[j] : j \in placed} = 1..s
      /\ \A j \in placed : j < at

ChallengeOK ==
  how.kind = "challenge" =>
    /\ next \in 0..how.n
    /\ SignsOK(how.n, coeffs, next - (how.n - how.tau), next)

SampleInv == how \in Samplings /\ BufferIsWindow /\ OffersOK /\ ChallengeOK

LEMMA HowOK ==
  ASSUME how \in Samplings
  PROVE  /\ how.kind \in {"uniform", "eta", "challenge"}
         /\ how.rate \in Nat /\ how.rate # 0 /\ how.blocks \in Nat /\ how.blocks # 0
         /\ how.n \in Nat /\ how.n # 0 /\ how.tau \in Nat /\ how.tau <= how.n
         /\ how.signBytes \in Nat /\ how.signBytes <= how.rate
BY SampleAssumption

\* Reading k bytes of the buffer reads the next k of the stream.
LEMMA Advance ==
  ASSUME BufferIsWindow, NEW n \in Nat, pos + n <= Len(buf), how.kind = "uniform" => n = 3,
         UNCHANGED <<how, buf, squeezed>>, read' = read \o Bytes(n), pos' = pos + n
  PROVE  BufferIsWindow' /\ AtByte \in Nat /\ AtByte' = AtByte + n /\ Bytes(n) = Stream(AtByte, n)
<1> DEFINE l == Len(buf)
           o == squeezed - l
<1>1. l \in Nat /\ o \in Nat /\ pos \in Nat /\ pos + n <= l /\ squeezed \in Nat /\ AtByte = o + pos
  BY DEF BufferIsWindow, AtByte
<1>2. buf = Stream(o, l) /\ read = Stream(0, AtByte)
  BY DEF BufferIsWindow
<1> HIDE DEF l, o
<1>3. Bytes(n) = Stream(AtByte, n)
  <2>1. \A i \in 1..n : pos + i \in 1..l
    BY <1>1
  <2>2. \A i \in 1..l : buf[i] = o + i - 1
    BY <1>1, <1>2, StreamIs
  <2>3. \A i \in 1..n : buf[pos + i] = (o + pos) + i - 1
    BY <1>1, <2>1, <2>2
  <2> QED
    BY <1>1, <2>3 DEF Bytes, Stream
<1>4. read' = Stream(0, AtByte + n)
  <2>1. AtByte \in Nat /\ 0 + AtByte = AtByte
    BY <1>1
  <2>2. Stream(0, AtByte) \o Stream(0 + AtByte, n) = Stream(0, AtByte + n)
    BY <2>1, StreamJoin
  <2> QED
    BY <1>2, <1>3, <2>1, <2>2
<1>5. AtByte' = AtByte + n
  BY <1>1 DEF AtByte, l, o
<1>6. pos' \in 0..Len(buf')
  BY <1>1 DEF l
<1>7. how'.kind = "uniform" => pos' % 3 = 0
  <2> SUFFICES ASSUME how.kind = "uniform" PROVE (pos + 3) % 3 = 0
    OBVIOUS
  <2>1. pos % 3 = 0
    BY DEF BufferIsWindow
  <2> QED
    BY <1>1, <2>1
<1>8. /\ squeezed' \in Nat /\ buf' \in Seq(Nat) /\ Len(buf') <= squeezed'
      /\ buf' = Stream(squeezed' - Len(buf'), Len(buf'))
  BY DEF BufferIsWindow
<1>9. read' = Stream(0, AtByte')
  BY <1>4, <1>5
<1>10. BufferIsWindow'
  BY <1>6, <1>7, <1>8, <1>9 DEF BufferIsWindow
<1>11. AtByte \in Nat
  BY <1>1
<1> QED
  BY <1>3, <1>5, <1>10, <1>11

\* Squeezing on behind the bytes that are left moves the window, not the place.
LEMMA Renew ==
  ASSUME BufferIsWindow, NEW keep \in Nat, pos + keep = Len(buf), NEW more \in Nat,
         UNCHANGED <<how, read>>,
         buf' = SubSeq(buf, Len(buf) - keep + 1, Len(buf)) \o Stream(squeezed, more),
         squeezed' = squeezed + more, pos' = 0
  PROVE  BufferIsWindow' /\ AtByte' = AtByte
<1> DEFINE l == Len(buf)
           o == squeezed - l
<1>1. l \in Nat /\ o \in Nat /\ pos \in Nat /\ keep <= l /\ squeezed \in Nat /\ AtByte = o + pos /\ l - keep = pos
      /\ o + l = squeezed
  BY DEF BufferIsWindow, AtByte
<1>2. buf = Stream(o, l) /\ read = Stream(0, AtByte)
  BY DEF BufferIsWindow
<1>3. SubSeq(buf, l - keep + 1, l) = Stream(o + pos, keep)
  <2> HIDE DEF l, o
  <2>1. pos \in 0..l /\ l - pos = keep /\ l - keep + 1 = pos + 1
    BY ONLY <1>1
  <2>2. SubSeq(Stream(o, l), pos + 1, l) = Stream(o + pos, l - pos)
    BY <1>1, <2>1, StreamEnd
  <2> QED
    BY <1>2, <2>1, <2>2
<1> HIDE DEF o
<1>4. buf' = Stream(o + pos, keep + more)
  <2>1. o + pos \in Nat /\ (o + pos) + keep = squeezed
    BY <1>1
  <2>2. Stream(o + pos, keep) \o Stream((o + pos) + keep, more) = Stream(o + pos, keep + more)
    BY <2>1, StreamJoin
  <2> QED
    BY <1>3, <2>1, <2>2
<1> HIDE DEF l
<1>5. buf' \in Seq(Nat) /\ Len(buf') = keep + more
  <2>1. o + pos \in Nat /\ keep + more \in Nat
    BY <1>1
  <2>2. ASSUME NEW b, b = Stream(o + pos, keep + more) PROVE b \in Seq(Nat) /\ Len(b) = keep + more
    BY <2>1, <2>2, StreamIs
  <2> QED
    BY <1>4, <2>2
<1>6. squeezed' - Len(buf') = o + pos /\ squeezed' \in Nat /\ Len(buf') <= squeezed' /\ Len(buf') \in Nat
  <2>1. squeezed' = squeezed + more
    OBVIOUS
  <2>2. ASSUME NEW a, a = squeezed + more, NEW b, b = keep + more
        PROVE  a - b = o + pos /\ a \in Nat /\ b <= a
    BY ONLY <1>1, <2>2
  <2>3. Len(buf') = keep + more
    BY <1>5
  <2> QED
    BY <1>5, <2>1, <2>2, <2>3
<1>7. AtByte' = AtByte
  <2>1. AtByte' = squeezed' - Len(buf') + pos' /\ pos' = 0
    BY DEF AtByte
  <2> QED
    BY ONLY <1>1, <1>6, <2>1
<1>8. pos' \in 0..Len(buf') /\ pos' % 3 = 0
  BY <1>6
<1> QED
  BY <1>2, <1>4, <1>5, <1>6, <1>7, <1>8 DEF BufferIsWindow

\* One offer more: the next candidate, taken if it is good and there is room.
Offered(offers, x, good, n, c, more) ==
  /\ more \in Seq(Candidates \X BOOLEAN) /\ Len(more) = Len(offers) + 1
  /\ \A i \in 1..Len(more) : more[i][1] = Candidate(i)
  /\ c \in Seq(Candidates) /\ Len(c) <= n
  /\ good = TRUE /\ Len(c) < n => First(n, GoodOnes(more)) = Append(c, x)
  /\ good = FALSE \/ Len(c) >= n => First(n, GoodOnes(more)) = c

LEMMA OfferCandidate ==
  ASSUME NEW offers \in Seq(Candidates \X BOOLEAN), NEW x \in Candidates, NEW good \in BOOLEAN,
         x = Candidate(Len(offers) + 1), InOrder(offers),
         NEW n \in Nat, NEW c, c = First(n, GoodOnes(offers)), NEW more, more = Append(offers, <<x, good>>)
  PROVE  Offered(offers, x, good, n, c, more)
<1> DEFINE o == <<x, good>>
<1>1. o \in Candidates \X BOOLEAN /\ o[1] = x
  OBVIOUS
<1>2. o[2] = good
  OBVIOUS
<1> HIDE DEF o
<1>3. more = Append(offers, o)
  BY DEF o
<1>4. /\ more \in Seq(Candidates \X BOOLEAN)
      /\ c \in Seq(Candidates) /\ Len(c) <= n
      /\ o[2] = TRUE /\ Len(c) < n => First(n, GoodOnes(more)) = Append(c, o[1])
      /\ o[2] = FALSE \/ Len(c) >= n => First(n, GoodOnes(more)) = c
  <2>1. TakenInto(Candidates, offers, o, n)
    BY ONLY <1>1, OfferOne
  <2>2. c = First(n, GoodOnes(offers))
    OBVIOUS
  <2> QED
    BY ONLY <1>3, <2>1, <2>2 DEF TakenInto
<1>5. Len(offers) \in Nat /\ Len(more) = Len(offers) + 1
      /\ more[Len(offers) + 1] = o /\ \A i \in 1..Len(offers) : more[i] = offers[i]
  BY <1>1, <1>3
<1>6. \A i \in 1..Len(more) : more[i][1] = Candidate(i)
  <2> SUFFICES ASSUME NEW i \in 1..Len(more) PROVE more[i][1] = Candidate(i)
    OBVIOUS
  <2>1. i \in 1..Len(offers) \/ i = Len(offers) + 1
    BY <1>5
  <2>2. CASE i \in 1..Len(offers)
    BY <1>5, <2>2 DEF InOrder
  <2>3. CASE i = Len(offers) + 1
    BY <1>1, <1>5, <2>3
  <2> QED
    BY <2>1, <2>2, <2>3
<1>7. CASE good
  <2>1. o[2] = TRUE
    BY <1>2, <1>7
  <2> QED
    BY <1>1, <1>4, <1>5, <1>6, <1>7, <2>1 DEF Offered
<1>8. CASE ~good
  <2>1. o[2] = FALSE
    BY <1>2, <1>8
  <2> QED
    BY <1>1, <1>4, <1>5, <1>6, <1>8, <2>1 DEF Offered
<1> QED
  BY <1>7, <1>8
-----------------------------------------------------------------------------
(* Sampling: each step keeps the invariant.                                 *)

LEMMA SampleStart == SampleInit => SampleInv
<1> SUFFICES ASSUME SampleInit PROVE SampleInv
  OBVIOUS
<1> DEFINE size == how.blocks * how.rate
<1>1. how \in Samplings /\ squeezed = size /\ buf = Stream(0, squeezed) /\ offered = <<>>
      /\ next = how.n - how.tau
  BY DEF SampleInit
<1>2. /\ how.kind \in {"uniform", "eta", "challenge"}
      /\ how.rate \in Nat /\ how.rate # 0 /\ how.blocks \in Nat /\ how.blocks # 0
      /\ how.n \in Nat /\ how.n # 0 /\ how.tau \in Nat /\ how.tau <= how.n
      /\ how.signBytes \in Nat /\ how.signBytes <= how.rate
  BY <1>1, HowOK
<1>3. size \in Nat /\ how.signBytes <= size
  <2>1. \A b \in Nat \ {0} : \A bytes \in Nat : b * bytes \in Nat /\ bytes <= b * bytes
    BY SMT
  <2> QED
    BY <1>2, <2>1
<1> HIDE DEF size
<1>4. buf \in Seq(Nat) /\ Len(buf) = squeezed /\ squeezed - Len(buf) = 0 /\ squeezed \in Nat
  BY <1>1, <1>3, StreamIs
<1>5. CASE how.kind = "challenge"
  <2>1. pos = how.signBytes /\ read = Stream(0, how.signBytes) /\ coeffs = [i \in 0..(how.n - 1) |-> 0]
    BY <1>5 DEF SampleInit
  <2>2. BufferIsWindow
    BY <1>1, <1>2, <1>3, <1>4, <1>5, <2>1 DEF BufferIsWindow, AtByte
  <2>3. SignsOK(how.n, coeffs, next - (how.n - how.tau), next)
    <3>1. next - (how.n - how.tau) = 0 /\ coeffs \in [0..(how.n - 1) -> Nat]
      BY <1>1, <1>2, <2>1
    <3> DEFINE placed == {j \in 0..(how.n - 1) : coeffs[j] # 0}
    <3>2. placed = {}
      BY <2>1
    <3> HIDE DEF placed
    <3>3. Cardinality(placed) = 0 /\ {coeffs[j] : j \in placed} = 1..0 /\ \A j \in placed : j < next
      BY <3>2, FS_EmptySet
    <3> USE DEF placed
    <3>4. ASSUME NEW s, s = next - (how.n - how.tau)
          PROVE  SignsOK(how.n, coeffs, s, next)
      BY <3>1, <3>3, <3>4 DEF SignsOK
    <3> QED
      BY <3>4
  <2>4. next \in 0..how.n
    BY <1>1, <1>2
  <2> QED
    BY <1>1, <1>5, <2>2, <2>3, <2>4 DEF SampleInv, OffersOK, ChallengeOK
<1>6. CASE how.kind # "challenge"
  <2>1. pos = 0 /\ read = <<>> /\ coeffs = <<>>
    BY <1>6 DEF SampleInit
  <2>2. AtByte = 0 /\ Stream(0, 0) = <<>>
    BY <1>1, <1>4, <2>1 DEF AtByte, Stream
  <2>3. BufferIsWindow
    BY <1>1, <1>4, <2>1, <2>2 DEF BufferIsWindow
  <2>4. offered \in Seq(Candidates \X BOOLEAN) /\ Len(offered) = 0
    BY <1>1
  <2>5. coeffs = First(how.n, GoodOnes(offered))
    <3>1. Goods(offered)[0] = <<>>
      <4>1. offered \in Seq(Candidates \X BOOLEAN)
        BY <2>4
      <4> QED
        BY ONLY <4>1, GoodsStep
    <3>2. GoodOnes(offered) = <<>>
      BY <2>4, <3>1 DEF GoodOnes, Goods
    <3>3. First(how.n, <<>>) = <<>>
      BY <1>2 DEF First
    <3> QED
      BY <2>1, <3>2, <3>3
  <2> QED
    BY <1>1, <1>6, <2>2, <2>3, <2>4, <2>5 DEF SampleInv, OffersOK, ChallengeOK, InOrder
<1> QED
  BY <1>5, <1>6

LEMMA RejUniformKeeps == ASSUME SampleInv, RejUniform PROVE SampleInv'
<1>1. /\ how.kind = "uniform" /\ Len(coeffs) < how.n /\ pos + 3 <= Len(buf)
      /\ UNCHANGED <<how, buf, squeezed, next>> /\ read' = read \o Bytes(3) /\ pos' = pos + 3
  BY DEF RejUniform
<1>2. PICK good \in BOOLEAN : /\ offered' = Append(offered, <<Bytes(3), good>>)
                              /\ coeffs' = IF good THEN Append(coeffs, Bytes(3)) ELSE coeffs
  BY DEF RejUniform
<1>3. BufferIsWindow' /\ AtByte \in Nat /\ AtByte' = AtByte + 3 /\ Bytes(3) = Stream(AtByte, 3)
  BY <1>1, Advance DEF SampleInv
<1>4. /\ offered \in Seq(Candidates \X BOOLEAN) /\ AtByte = 3 * Len(offered)
      /\ InOrder(offered)
      /\ coeffs = First(how.n, GoodOnes(offered)) /\ how.n \in Nat
  BY <1>1, HowOK DEF SampleInv, OffersOK
<1> DEFINE x == Bytes(3)
<1>5. x \in Candidates /\ x = Candidate(Len(offered) + 1)
  <2>1. Len(offered) \in Nat /\ 3 * ((Len(offered) + 1) - 1) = AtByte
    BY <1>4
  <2> QED
    BY <1>1, <1>3, <2>1 DEF Candidates, Candidate
<1> HIDE DEF x
<1>6. offered' = Append(offered, <<x, good>>)
  BY <1>2 DEF x
<1>7. Offered(offered, x, good, how.n, coeffs, offered')
  <2>1. ASSUME NEW more, more = offered' PROVE Offered(offered, x, good, how.n, coeffs, more)
    BY <1>4, <1>5, <1>6, <2>1, OfferCandidate
  <2> QED
    BY <2>1
<1>8. coeffs' = First(how.n, GoodOnes(offered'))
  BY <1>1, <1>2, <1>4, <1>7 DEF Offered, x
<1>9. \A i : Candidate(i)' = Candidate(i)
  BY <1>1 DEF Candidate
<1>10. OffersOK'
  <2>1. AtByte' = 3 * Len(offered')
    BY <1>3, <1>4, <1>7 DEF Offered
  <2> QED
    BY <1>1, <1>7, <1>8, <1>9, <2>1 DEF OffersOK, Offered, InOrder
<1> QED
  BY <1>1, <1>3, <1>10 DEF SampleInv, ChallengeOK

LEMMA RejEtaKeeps == ASSUME SampleInv, RejEta PROVE SampleInv'
<1> DEFINE low  == <<Bytes(1)[1], "low">>
           high == <<Bytes(1)[1], "high">>
           Firsts(a) == IF a THEN Append(coeffs, low) ELSE coeffs
           offers(a) == Append(offered, <<low, a>>)
<1>1. /\ how.kind = "eta" /\ Len(coeffs) < how.n /\ pos + 1 <= Len(buf)
      /\ UNCHANGED <<how, buf, squeezed, next>> /\ read' = read \o Bytes(1) /\ pos' = pos + 1
  <2>1. pos < Len(buf) /\ pos \in Nat /\ Len(buf) \in Nat
    BY DEF RejEta, SampleInv, BufferIsWindow
  <2> QED
    BY <2>1 DEF RejEta
<1>2. PICK a \in BOOLEAN, b \in BOOLEAN :
        /\ coeffs' = IF b /\ Len(Firsts(a)) < how.n THEN Append(Firsts(a), high) ELSE Firsts(a)
        /\ offered' = Append(offers(a), <<high, b>>)
  <2>1. PICK good \in BOOLEAN \X BOOLEAN :
          /\ coeffs' = IF good[2] /\ Len(Firsts(good[1])) < how.n
                       THEN Append(Firsts(good[1]), high) ELSE Firsts(good[1])
          /\ offered' = Append(offers(good[1]), <<high, good[2]>>)
    BY DEF RejEta
  <2>2. good[1] \in BOOLEAN /\ good[2] \in BOOLEAN
    OBVIOUS
  <2> QED
    BY <2>1, <2>2
<1>3. BufferIsWindow' /\ AtByte \in Nat /\ AtByte' = AtByte + 1 /\ Bytes(1) = Stream(AtByte, 1)
  BY <1>1, Advance DEF SampleInv
<1>4. /\ offered \in Seq(Candidates \X BOOLEAN) /\ Len(offered) = 2 * AtByte
      /\ InOrder(offered)
      /\ coeffs = First(how.n, GoodOnes(offered)) /\ how.n \in Nat
  BY <1>1, HowOK DEF SampleInv, OffersOK
<1>5. Bytes(1)[1] = AtByte
  BY <1>3 DEF Stream
<1>6. low \in Candidates /\ low = Candidate(Len(offered) + 1)
  <2>1. ASSUME NEW i, i = Len(offered) + 1 PROVE (i - 1) \div 2 = AtByte /\ i % 2 = 1
    BY <1>3, <1>4, <2>1
  <2> QED
    BY <1>1, <1>3, <1>5, <2>1 DEF Candidates, Candidate
<1>7. high \in Candidates /\ high = Candidate(Len(offered) + 1 + 1)
  <2>1. ASSUME NEW i, i = Len(offered) + 1 + 1 PROVE (i - 1) \div 2 = AtByte /\ i % 2 = 0
    BY <1>3, <1>4, <2>1
  <2> QED
    BY <1>1, <1>3, <1>5, <2>1 DEF Candidates, Candidate
<1> DEFINE first == Firsts(a)
           one   == offers(a)
<1>8. one = Append(offered, <<low, a>>) /\ first = IF a THEN Append(coeffs, low) ELSE coeffs
  OBVIOUS
<1>9. /\ coeffs' = IF b /\ Len(first) < how.n THEN Append(first, high) ELSE first
      /\ offered' = Append(one, <<high, b>>)
  BY <1>2
<1> HIDE DEF low, high, Firsts, offers, first, one
<1>10. Offered(offered, low, a, how.n, coeffs, one)
  BY <1>4, <1>6, <1>8, OfferCandidate
<1>11. first = First(how.n, GoodOnes(one)) /\ Len(one) = Len(offered) + 1
       /\ one \in Seq(Candidates \X BOOLEAN) /\ InOrder(one)
  <2>1. first = First(how.n, GoodOnes(one))
    <3>1. CASE a = TRUE
      <4>1. first = Append(coeffs, low)
        BY <1>8, <3>1
      <4> QED
        BY <1>1, <1>10, <3>1, <4>1 DEF Offered
    <3>2. CASE a = FALSE
      <4>1. first = coeffs
        BY <1>8, <3>2
      <4> QED
        BY <1>10, <3>2, <4>1 DEF Offered
    <3> QED
      BY <3>1, <3>2
  <2>2. Len(one) = Len(offered) + 1 /\ one \in Seq(Candidates \X BOOLEAN) /\ InOrder(one)
    BY ONLY <1>10 DEF Offered, InOrder
  <2> QED
    BY <2>1, <2>2
<1>12. Offered(one, high, b, how.n, first, offered')
  <2>1. ASSUME NEW more, more = offered' PROVE Offered(one, high, b, how.n, first, more)
    BY <1>4, <1>7, <1>9, <1>11, <2>1, OfferCandidate
  <2> QED
    BY <2>1
<1>13. coeffs' = First(how.n, GoodOnes(offered'))
  <2>1. first \in Seq(Candidates) /\ Len(first) \in Nat
    BY <1>12 DEF Offered
  <2>2. CASE b = TRUE /\ Len(first) < how.n
    <3>1. coeffs' = Append(first, high)
      BY <1>9, <2>2
    <3> QED
      BY <1>12, <2>2, <3>1 DEF Offered
  <2>3. CASE b = FALSE \/ Len(first) >= how.n
    <3>1. coeffs' = first
      BY <1>4, <1>9, <2>1, <2>3
    <3> QED
      BY <1>12, <2>3, <3>1 DEF Offered
  <2>4. b = TRUE \/ b = FALSE
    OBVIOUS
  <2>5. Len(first) < how.n \/ Len(first) >= how.n
    BY <1>4, <2>1
  <2> QED
    BY <2>2, <2>3, <2>4, <2>5
<1>14. \A i : Candidate(i)' = Candidate(i)
  BY <1>1 DEF Candidate
<1>15. OffersOK'
  <2>1. Len(offered') = 2 * AtByte'
    <3>1. Len(offered') = Len(one) + 1
      BY <1>12 DEF Offered
    <3> QED
      BY <1>3, <1>4, <1>11, <3>1
  <2> QED
    BY <1>1, <1>12, <1>13, <1>14, <2>1 DEF OffersOK, Offered, InOrder
<1> QED
  BY <1>1, <1>3, <1>15 DEF SampleInv, ChallengeOK

\* A step that moves the buffer and nothing else.
LEMMA MovedOnly ==
  ASSUME SampleInv, BufferIsWindow', AtByte' = AtByte, UNCHANGED <<how, coeffs, next, offered>>
  PROVE  SampleInv'
<1>1. \A i : Candidate(i)' = Candidate(i)
  BY DEF Candidate
<1>2. OffersOK'
  BY <1>1 DEF SampleInv, OffersOK, InOrder
<1>3. ChallengeOK'
  BY DEF SampleInv, ChallengeOK
<1> QED
  BY <1>2, <1>3 DEF SampleInv

LEMMA RefillUniformKeeps == ASSUME SampleInv, RefillUniform PROVE SampleInv'
<1>1. /\ how.kind = "uniform" /\ pos + 3 > Len(buf) /\ pos' = 0
      /\ buf' = SubSeq(buf, Len(buf) - Rest + 1, Len(buf)) \o Stream(squeezed, how.rate)
      /\ squeezed' = squeezed + how.rate /\ UNCHANGED <<how, coeffs, next, read, offered>>
  BY DEF RefillUniform
<1>2. BufferIsWindow /\ how.rate \in Nat
  BY HowOK DEF SampleInv
<1>3. Rest \in Nat /\ pos + Rest = Len(buf)
  <2>1. pos \in 0..Len(buf) /\ Len(buf) \in Nat /\ pos % 3 = 0
    BY <1>1, <1>2 DEF BufferIsWindow
  <2>2. ASSUME NEW l \in Nat, NEW p \in 0..l, p % 3 = 0, p + 3 > l PROVE p + (l % 3) = l
    BY <2>2
  <2> QED
    BY <1>1, <2>1, <2>2 DEF Rest
<1>4. BufferIsWindow' /\ AtByte' = AtByte
  BY <1>1, <1>2, <1>3, Renew
<1> QED
  BY <1>1, <1>4, MovedOnly

LEMMA RefillKeeps == ASSUME SampleInv, Refill PROVE SampleInv'
<1>1. /\ pos >= Len(buf) /\ pos' = 0 /\ buf' = Stream(squeezed, how.rate)
      /\ squeezed' = squeezed + how.rate /\ UNCHANGED <<how, coeffs, next, read, offered>>
  BY DEF Refill
<1>2. BufferIsWindow /\ how.rate \in Nat
  BY HowOK DEF SampleInv
<1>3. pos + 0 = Len(buf) /\ squeezed \in Nat /\ buf \in Seq(Nat) /\ Len(buf) \in Nat
  BY <1>1, <1>2 DEF BufferIsWindow
<1>4. buf' = SubSeq(buf, Len(buf) - 0 + 1, Len(buf)) \o Stream(squeezed, how.rate)
  <2>1. SubSeq(buf, Len(buf) - 0 + 1, Len(buf)) = <<>>
    BY <1>3
  <2>2. Stream(squeezed, how.rate) \in Seq(Nat)
    BY <1>2, <1>3, StreamIs
  <2>3. <<>> \o Stream(squeezed, how.rate) = Stream(squeezed, how.rate)
    BY <2>2
  <2> QED
    BY <1>1, <2>1, <2>3
<1>5. BufferIsWindow' /\ AtByte' = AtByte
  BY <1>1, <1>2, <1>3, <1>4, Renew
<1> QED
  BY <1>1, <1>5, MovedOnly

\* The sign goes to the place b, what was there moves to at: one place more has a sign.
LEMMA PlaceOne ==
  ASSUME NEW n \in Nat, NEW f, NEW s, NEW at \in 0..(n - 1), NEW b \in 0..at, SignsOK(n, f, s, at),
         NEW g, g = [f EXCEPT ![at] = f[b], ![b] = s + 1]
  PROVE  SignsOK(n, g, s + 1, at + 1)
<1> DEFINE P   == {j \in 0..(n - 1) : f[j] # 0}
           Q   == {j \in 0..(n - 1) : g[j] # 0}
           new == IF b = at \/ f[b] # 0 THEN at ELSE b
<1>1. /\ f \in [0..(n - 1) -> Nat] /\ s \in Nat /\ Cardinality(P) = s /\ {f[j] : j \in P} = 1..s
      /\ \A j \in P : j < at
  BY DEF SignsOK
<1>2. b \in 0..(n - 1) /\ at \in Nat /\ b <= at /\ f[at] = 0
  <2>1. b \in 0..(n - 1) /\ at \in Nat /\ b <= at /\ ~(at < at)
    OBVIOUS
  <2> QED
    BY <1>1, <2>1
<1>3. /\ g \in [0..(n - 1) -> Nat]
      /\ \A j \in 0..(n - 1) : g[j] = IF j = b THEN s + 1 ELSE IF j = at THEN f[b] ELSE f[j]
  <2>1. f[b] \in Nat /\ s + 1 \in Nat
    BY <1>1, <1>2
  <2> QED
    BY <1>1, <1>2, <2>1
<1>4. s + 1 # 0
  BY <1>1
<1>5. new \in 0..(n - 1) /\ new \notin P /\ new < at + 1
  BY <1>2
<1>6. Q = P \cup {new}
  <2>1. ASSUME NEW j \in 0..(n - 1) PROVE g[j] # 0 <=> (f[j] # 0 \/ j = new)
    BY <1>2, <1>3, <1>4
  <2> HIDE DEF new
  <2> QED
    BY <1>5, <2>1
<1>7. Cardinality(Q) = s + 1
  <2>1. IsFiniteSet(P)
    <3>1. IsFiniteSet(0..(n - 1))
      <4>1. 0 \in Int /\ n - 1 \in Int
        OBVIOUS
      <4> QED
        BY <4>1, FS_Interval
    <3>2. P \subseteq 0..(n - 1)
      OBVIOUS
    <3> HIDE DEF P
    <3> QED
      BY <3>1, <3>2, FS_Subset
  <2> HIDE DEF P, Q, new
  <2> QED
    BY <1>1, <1>5, <1>6, <2>1, FS_AddElement
<1>8. {g[j] : j \in Q} = 1..(s + 1)
  <2>1. ASSUME NEW j \in Q PROVE g[j] \in 1..(s + 1)
    <3>1. j = b => g[j] = s + 1
      BY <1>3
    <3>2. j # b /\ j = at => g[j] = f[b] /\ f[b] # 0
      BY <1>2, <1>3
    <3>3. j # b /\ j # at => g[j] = f[j] /\ f[j] # 0
      BY <1>3
    <3>4. \A i \in 0..(n - 1) : f[i] # 0 => f[i] \in 1..s
      BY <1>1
    <3>5. j \in 0..(n - 1)
      OBVIOUS
    <3>6. s + 1 \in 1..(s + 1) /\ \A v \in 1..s : v \in 1..(s + 1)
      BY <1>1
    <3> HIDE DEF P, Q, new
    <3> QED
      BY <1>2, <3>1, <3>2, <3>3, <3>4, <3>5, <3>6
  <2>2. ASSUME NEW v \in 1..(s + 1) PROVE \E j \in Q : g[j] = v
    <3>1. CASE v = s + 1
      <4>1. b \in Q /\ g[b] = s + 1
        BY <1>2, <1>3, <1>4
      <4> QED
        BY <3>1, <4>1
    <3>2. CASE v # s + 1
      <4>1. v \in 1..s
        BY <1>1, <3>2
      <4>2. PICK j \in P : f[j] = v
        BY <1>1, <4>1
      <4>3. j # at /\ j \in 0..(n - 1) /\ f[j] # 0
        BY <1>2
      <4>4. CASE j = b
        <5>1. b # at /\ g[at] = v /\ g[at] # 0
          BY <1>2, <1>3, <4>2, <4>3, <4>4
        <5> QED
          BY <5>1
      <4>5. CASE j # b
        <5>1. g[j] = v /\ g[j] # 0
          BY <1>3, <4>2, <4>3, <4>5
        <5> QED
          BY <4>3, <5>1
      <4> QED
        BY <4>4, <4>5
    <3> QED
      BY <3>1, <3>2
  <2> HIDE DEF Q
  <2> QED
    BY <2>1, <2>2
<1>9. \A j \in Q : j < at + 1
  <2> HIDE DEF Q, new
  <2>1. \A j \in P : j \in Nat
    OBVIOUS
  <2> HIDE DEF P
  <2>2. \A j \in P : j < at + 1
    BY <1>1, <1>2, <2>1
  <2> QED
    BY <1>5, <1>6, <2>2
<1>10. s + 1 \in Nat
  BY <1>1
<1> QED
  BY <1>3, <1>7, <1>8, <1>9, <1>10 DEF SignsOK

LEMMA PlaceKeeps == ASSUME SampleInv, Place PROVE SampleInv'
<1>1. /\ how.kind = "challenge" /\ next < how.n /\ pos + 1 <= Len(buf)
      /\ UNCHANGED <<how, buf, squeezed>> /\ read' = read \o Bytes(1) /\ pos' = pos + 1
  <2>1. pos < Len(buf) /\ pos \in Nat /\ Len(buf) \in Nat
    BY DEF Place, SampleInv, BufferIsWindow
  <2> QED
    BY <2>1 DEF Place
<1>2. BufferIsWindow'
  BY <1>1, Advance DEF SampleInv
<1> DEFINE s == next - (how.n - how.tau)
<1>3. /\ next \in 0..how.n /\ SignsOK(how.n, coeffs, s, next)
      /\ how.n \in Nat /\ how.tau \in Nat /\ how.tau <= how.n
  BY <1>1, HowOK DEF SampleInv, ChallengeOK
<1>4. PICK b \in 0..(how.n - 1) :
        IF b > next THEN UNCHANGED <<coeffs, next, offered>>
        ELSE /\ coeffs' = [coeffs EXCEPT ![next] = coeffs[b], ![b] = s + 1]
             /\ next' = next + 1
  BY <1>1 DEF Place
<1>5. next' \in 0..how.n /\ SignsOK(how.n, coeffs', next' - (how.n - how.tau), next')
  <2>1. CASE b > next
    <3>1. coeffs' = coeffs /\ next' = next
      BY <1>4, <2>1
    <3> QED
      BY <1>3, <3>1
  <2>2. CASE ~(b > next)
    <3>1. coeffs' = [coeffs EXCEPT ![next] = coeffs[b], ![b] = s + 1] /\ next' = next + 1
      BY <1>4, <2>2
    <3>2. next \in 0..(how.n - 1) /\ b \in 0..next
      BY <1>1, <1>3, <2>2
    <3>3. (next + 1) - (how.n - how.tau) = s + 1 /\ next + 1 \in 0..how.n
      BY <1>1, <1>3
    <3> HIDE DEF s
    <3>4. ASSUME NEW g, g = coeffs' PROVE SignsOK(how.n, g, s + 1, next + 1)
      BY <1>3, <3>1, <3>2, <3>4, PlaceOne
    <3> QED
      BY <3>1, <3>3, <3>4
  <2> QED
    BY <2>1, <2>2
<1> QED
  BY <1>1, <1>2, <1>5 DEF SampleInv, OffersOK, ChallengeOK

\* However blocks fall, polynomials are made of the stream in order, every byte once, and a
\* challenge has each of its signs in one place.
THEOREM StreamIsUsedInOrder == SampleSpec => []SampledInOrder
<1>1. ASSUME SampleInv, SampleNext PROVE SampleInv'
  BY <1>1, RejUniformKeeps, RefillUniformKeeps, RejEtaKeeps, RefillKeeps, PlaceKeeps DEF SampleNext
<1>2. ASSUME SampleInv, UNCHANGED sampleVars PROVE SampleInv'
  <2>1. UNCHANGED <<how, buf, pos, squeezed, coeffs, next, read, offered>>
    BY <1>2 DEF sampleVars
  <2>2. BufferIsWindow' /\ AtByte' = AtByte
    BY <1>2, <2>1 DEF SampleInv, BufferIsWindow, AtByte
  <2> QED
    BY <1>2, <2>1, <2>2, MovedOnly
<1>3. ASSUME SampleInv PROVE SampledInOrder
  <2>1. read = Stream(0, Len(read))
    <3>1. AtByte \in Nat /\ read = Stream(0, AtByte)
      BY <1>3 DEF SampleInv, BufferIsWindow, AtByte
    <3> QED
      BY <3>1, StreamIs
  <2>2. how.kind # "challenge" => /\ \A i \in DOMAIN offered : offered[i][1] = Candidate(i)
                                  /\ coeffs = First(how.n, GoodOnes(offered))
    <3> SUFFICES ASSUME how.kind # "challenge"
                 PROVE  /\ \A i \in DOMAIN offered : offered[i][1] = Candidate(i)
                        /\ coeffs = First(how.n, GoodOnes(offered))
      OBVIOUS
    <3>1. DOMAIN offered = 1..Len(offered)
      BY <1>3 DEF SampleInv, OffersOK
    <3> QED
      BY <1>3, <3>1 DEF SampleInv, OffersOK, InOrder
  <2>3. how.kind = "challenge" => SignsOK(how.n, coeffs, next - (how.n - how.tau), next)
    BY <1>3 DEF SampleInv, ChallengeOK
  <2> QED
    BY <2>1, <2>2, <2>3 DEF SampledInOrder, SignsOK
<1>4. SampleInit => SampleInv
  BY SampleStart
<1>5. SampleInv /\ [SampleNext]_sampleVars => SampleInv'
  BY <1>1, <1>2
<1>6. SampleInv => SampledInOrder
  BY <1>3
<1> QED
  BY <1>4, <1>5, <1>6, PTL DEF SampleSpec
-----------------------------------------------------------------------------
(* Addresses: powers of two.  A set of n elements has 2 ^ n subsets.        *)

LEMMA PowerIs == ASSUME NEW n \in Nat PROVE 2 ^ n \in Nat /\ Cardinality(SUBSET (1..n)) = 2 ^ n /\ IsFiniteSet(SUBSET (1..n))
<1>1. IsFiniteSet(1..n) /\ Cardinality(1..n) = n
  <2>1. 1 \in Int /\ n \in Int /\ (1 > n => n = 0)
    OBVIOUS
  <2> QED
    BY <2>1, FS_Interval
<1>2. IsFiniteSet(SUBSET (1..n)) /\ Cardinality(SUBSET (1..n)) = 2 ^ n
  BY <1>1, FS_SUBSET
<1>3. Cardinality(SUBSET (1..n)) \in Nat
  BY <1>2, FS_CardinalityType
<1> QED
  BY <1>2, <1>3

LEMMA PowerStep == ASSUME NEW n \in Nat PROVE 2 ^ (n + 1) = 2 ^ n + 2 ^ n
<1> DEFINE S     == SUBSET (1..n)
           More  == {T \cup {n + 1} : T \in S}
           All   == SUBSET (1..(n + 1))
           f     == [T \in S |-> T \cup {n + 1}]
<1>1. n + 1 \in Nat /\ n + 1 \notin 1..n /\ 1..(n + 1) = (1..n) \cup {n + 1}
  OBVIOUS
<1>2. All = S \cup More
  <2>1. S \cup More \subseteq All
    BY <1>1
  <2>2. ASSUME NEW A \in All PROVE A \in S \cup More
    <3>1. CASE n + 1 \in A
      <4>1. A \ {n + 1} \in S /\ A = (A \ {n + 1}) \cup {n + 1}
        BY <1>1, <3>1
      <4> QED
        BY <4>1
    <3>2. CASE n + 1 \notin A
      BY <1>1, <3>2
    <3> QED
      BY <3>1, <3>2
  <2> QED
    BY <2>1, <2>2
<1>3. S \cap More = {}
  BY <1>1
<1>4. f \in Bijection(S, More)
  <2>1. f \in [S -> More]
    OBVIOUS
  <2>2. \A a, b \in S : f[a] = f[b] => a = b
    <3> SUFFICES ASSUME NEW a \in S, NEW b \in S, f[a] = f[b] PROVE a = b
      OBVIOUS
    <3>1. n + 1 \notin a /\ n + 1 \notin b /\ a \cup {n + 1} = b \cup {n + 1}
      BY <1>1
    <3> QED
      BY <3>1
  <2>3. \A t \in More : \E s \in S : f[s] = t
    OBVIOUS
  <2> HIDE DEF S, More, f
  <2> QED
    BY <2>1, <2>2, <2>3 DEF Bijection, Injection, Surjection, IsInjective
<1>5. IsFiniteSet(S) /\ Cardinality(S) = 2 ^ n /\ 2 ^ n \in Nat /\ Cardinality(All) = 2 ^ (n + 1)
  BY <1>1, PowerIs
<1> HIDE DEF S, More, All, f
<1>6. IsFiniteSet(More) /\ Cardinality(More) = Cardinality(S)
  BY <1>4, <1>5, FS_Bijection DEF ExistsBijection
<1>7. Cardinality(All) = Cardinality(S) + Cardinality(More) - Cardinality({})
  BY <1>2, <1>3, <1>5, <1>6, FS_Union
<1> QED
  BY <1>5, <1>6, <1>7, FS_EmptySet

LEMMA PowerPositive == ASSUME NEW n \in Nat PROVE 2 ^ n \in Nat /\ 2 ^ n # 0
<1> DEFINE S == {i \in Nat : 2 ^ i \in Nat /\ 2 ^ i # 0}
<1>1. 0 \in S
  BY 2 ^ 0 = 1
<1>2. ASSUME NEW i \in Nat, i \in S PROVE i + 1 \in S
  <2>1. 2 ^ (i + 1) = 2 ^ i + 2 ^ i
    BY PowerStep
  <2>2. ASSUME NEW p \in Nat, p # 0 PROVE p + p \in Nat /\ p + p # 0
    BY <2>2
  <2> QED
    BY <1>2, <2>1, <2>2
<1> HIDE DEF S
<1>3. n \in S
  BY <1>1, <1>2, Induction
<1> QED
  BY <1>3 DEF S

LEMMA PowerSum == ASSUME NEW m \in Nat, NEW n \in Nat PROVE 2 ^ (m + n) = 2 ^ m * 2 ^ n
<1> DEFINE S == {i \in Nat : 2 ^ (m + i) = 2 ^ m * 2 ^ i}
<1>0. 2 ^ m \in Nat
  BY PowerPositive
<1>1. 0 \in S
  BY <1>0, 2 ^ 0 = 1, m + 0 = m
<1>2. ASSUME NEW i \in Nat, i \in S PROVE i + 1 \in S
  <2>1. m + i \in Nat /\ m + (i + 1) = (m + i) + 1
    OBVIOUS
  <2>2. 2 ^ (m + (i + 1)) = 2 ^ (m + i) + 2 ^ (m + i) /\ 2 ^ (i + 1) = 2 ^ i + 2 ^ i /\ 2 ^ i \in Nat
    BY <2>1, PowerStep, PowerPositive
  <2>3. 2 ^ (m + i) = 2 ^ m * 2 ^ i
    BY <1>2
  <2>4. ASSUME NEW p \in Nat, NEW q \in Nat PROVE p * (q + q) = p * q + p * q
    OBVIOUS
  <2>5. 2 ^ m * (2 ^ i + 2 ^ i) = 2 ^ m * 2 ^ i + 2 ^ m * 2 ^ i
    BY <1>0, <2>2, <2>4
  <2> QED
    BY <2>2, <2>3, <2>5
<1> HIDE DEF S
<1>3. n \in S
  BY <1>1, <1>2, Induction
<1> QED
  BY <1>3 DEF S

LEMMA ModSmall == ASSUME NEW m \in Nat, NEW x \in Nat, x < m PROVE x % m = x
OBVIOUS

\* A number with two digits is known from them.
LEMMA TwoDigits ==
  ASSUME NEW b \in Nat \ {0}, NEW x \in Nat, NEW y \in Nat, x \div b = y \div b, x % b = y % b
  PROVE  x = y
OBVIOUS

LEMMA PowerDiv ==
  ASSUME NEW n \in Nat, NEW h \in 0..n, NEW k \in Nat
  PROVE  (k * 2 ^ n) \div 2 ^ h = k * 2 ^ (n - h) /\ 2 ^ (n - h) \in Nat
<1> DEFINE p == 2 ^ h
           q == 2 ^ (n - h)
<1>1. p \in Nat \ {0} /\ q \in Nat /\ 2 ^ n = p * q
  <2>1. h \in Nat /\ n - h \in Nat /\ h + (n - h) = n
    OBVIOUS
  <2> QED
    BY <2>1, PowerPositive, PowerSum
<1> HIDE DEF p, q
<1>2. k * (p * q) = (k * q) * p + 0 /\ k * q \in Nat
  BY <1>1
<1>3. ((k * q) * p + 0) \div p = k * q
  <2>1. 0 \in 0..(p - 1)
    BY <1>1
  <2> QED
    BY <1>1, <1>2, <2>1, DivMod
<1> QED
  BY <1>1, <1>2, <1>3 DEF p, q

LEMMA PowerRest ==
  ASSUME NEW n \in Nat, NEW h \in 0..n, NEW x \in 0..(2 ^ n - 1)
  PROVE  x \div 2 ^ h \in 0..(2 ^ (n - h) - 1)
<1> DEFINE p == 2 ^ h
           q == 2 ^ (n - h)
           d == x \div p
<1>1. p \in Nat \ {0} /\ q \in Nat /\ 2 ^ n = p * q /\ 2 ^ n \in Nat
  <2>1. h \in Nat /\ n - h \in Nat /\ h + (n - h) = n
    OBVIOUS
  <2> QED
    BY <2>1, PowerPositive, PowerSum
<1>2. x \in Nat /\ x < p * q
  BY <1>1
<1> HIDE DEF p, q
<1>3. d \in Nat /\ p * d <= x
  BY <1>1, <1>2
<1> HIDE DEF d
<1>4. ~(q <= d)
  <2> SUFFICES ASSUME q <= d PROVE FALSE
    OBVIOUS
  <2>1. p * q <= p * d
    BY <1>1, <1>3
  <2>2. p * q \in Nat /\ p * d \in Nat
    BY <1>1, <1>3
  <2> QED
    BY <1>2, <1>3, <2>1, <2>2
<1>5. d \in 0..(q - 1)
  BY <1>1, <1>3, <1>4
<1> QED
  BY <1>5 DEF p, q, d
-----------------------------------------------------------------------------
(* Addresses: what each hash is called for, and under which address.        *)

Addr(l, t, kind, k, at, hi, lo) ==
  [layer |-> l, tree |-> t, type |-> kind, keypair |-> k, at17 |-> at, at18 |-> hi, at21 |-> lo]
IndexAddr(l, t, kind, k, at, n) == Addr(l, t, kind, k, at, n \div AddrByte, n % AddrByte)

TheLayers == 0..(Layers - 1)
TheTrees  == 0..(2 ^ (TreeHeight * (Layers - 1)) - 1)
TheLeaves == 0..(2 ^ TreeHeight - 1)
TheForest == 0..(ForsTrees - 1)
ForsSize  == 2 ^ ForsHeight

SecretCall(l, t, k, i)    == <<Addr(l, t, "wotsprf", k, i - 1, 0, 0), <<"secret", l, t, k, i>> >>
ChainCall(l, t, k, i, n)  == <<Addr(l, t, "wots", k, i - 1, 0, n), <<"chain", l, t, k, i, n>> >>
KeyCall(l, t, k)          == <<Addr(l, t, "wotspk", k, 0, 0, 0), <<"key", l, t, k>> >>
NodeCall(l, t, h, n)      == <<IndexAddr(l, t, "hashtree", 0, h, n), <<"node", l, t, h, n>> >>
ForsSecretCall(t, k, j, n) ==
  <<IndexAddr(0, t, "forsprf", k, 0, n + j * ForsSize), <<"forsSecret", t, k, j * ForsSize, n>> >>
ForsLeafCall(t, k, j, n) ==
  <<IndexAddr(0, t, "forstree", k, 0, n + j * ForsSize), <<"forsLeaf", t, k, j * ForsSize, n>> >>
ForsNodeCall(t, k, j, h, n) ==
  <<IndexAddr(0, t, "forstree", k, h, n + j * 2 ^ (ForsHeight - h)), <<"forsNode", t, k, j * ForsSize, h, n>> >>
ForsKeyCall(t, k) == <<Addr(0, t, "forspk", k, 0, 0, 0), <<"forsKey", t, k>> >>

IsSecret(c) == \E l \in TheLayers, t \in TheTrees, k \in TheLeaves, i \in 1..Chains : c = SecretCall(l, t, k, i)
IsChain(c)  == \E l \in TheLayers, t \in TheTrees, k \in TheLeaves, i \in 1..Chains, n \in 0..(ChainEnd - 1) :
                 c = ChainCall(l, t, k, i, n)
IsKey(c)    == \E l \in TheLayers, t \in TheTrees, k \in TheLeaves : c = KeyCall(l, t, k)
IsNode(c)   == \E l \in TheLayers, t \in TheTrees, h \in Nat, n \in Nat : c = NodeCall(l, t, h, n)
IsForsSecret(c) == \E t \in TheTrees, k \in TheLeaves, j \in TheForest, n \in 0..(ForsSize - 1) :
                     c = ForsSecretCall(t, k, j, n)
IsForsLeaf(c)   == \E t \in TheTrees, k \in TheLeaves, j \in TheForest, n \in 0..(ForsSize - 1) :
                     c = ForsLeafCall(t, k, j, n)
IsForsNode(c)   == \E t \in TheTrees, k \in TheLeaves, j \in TheForest, h \in 1..ForsHeight :
                     \E n \in 0..(2 ^ (ForsHeight - h) - 1) : c = ForsNodeCall(t, k, j, h, n)
IsForsKey(c)    == \E t \in TheTrees, k \in TheLeaves : c = ForsKeyCall(t, k)

KnownCall(c) == IsSecret(c) \/ IsChain(c) \/ IsKey(c) \/ IsNode(c)
                  \/ IsForsSecret(c) \/ IsForsLeaf(c) \/ IsForsNode(c) \/ IsForsKey(c)

\* Two calls under one address are for one thing, two for one thing under one address.
Told(c, d) == c[1] = d[1] <=> c[2] = d[2]

LEMMA SizesOK ==
  /\ AddrByte \in Nat \ {0} /\ ForsSize \in Nat \ {0} /\ Layers \in Nat \ {0} /\ TreeHeight \in Nat
  /\ ForsHeight \in Nat /\ ForsTrees \in Nat \ {0}
BY SlhAssumption, PowerPositive DEF SlhAssumption, ForsSize

LEMMA WotsTold ==
  ASSUME NEW c, NEW d
  PROVE  /\ IsSecret(c) /\ IsSecret(d) => Told(c, d)
         /\ IsChain(c) /\ IsChain(d) => Told(c, d)
         /\ IsKey(c) /\ IsKey(d) => Told(c, d)
         /\ IsForsKey(c) /\ IsForsKey(d) => Told(c, d)
<1>1. IsSecret(c) /\ IsSecret(d) => Told(c, d)
  <2> SUFFICES ASSUME IsSecret(c), IsSecret(d) PROVE Told(c, d)
    OBVIOUS
  <2>1. PICK l \in TheLayers, t \in TheTrees, k \in TheLeaves, i \in 1..Chains : c = SecretCall(l, t, k, i)
    BY DEF IsSecret
  <2>2. PICK m \in TheLayers, u \in TheTrees, w \in TheLeaves, e \in 1..Chains : d = SecretCall(m, u, w, e)
    BY DEF IsSecret
  <2>3. i \in Int /\ e \in Int /\ (i - 1 = e - 1 <=> i = e)
    OBVIOUS
  <2> QED
    BY <2>1, <2>2, <2>3 DEF Told, SecretCall, Addr
<1>2. IsChain(c) /\ IsChain(d) => Told(c, d)
  <2> SUFFICES ASSUME IsChain(c), IsChain(d) PROVE Told(c, d)
    OBVIOUS
  <2>1. PICK l \in TheLayers, t \in TheTrees, k \in TheLeaves, i \in 1..Chains, n \in 0..(ChainEnd - 1) :
          c = ChainCall(l, t, k, i, n)
    BY DEF IsChain
  <2>2. PICK m \in TheLayers, u \in TheTrees, w \in TheLeaves, e \in 1..Chains, o \in 0..(ChainEnd - 1) :
          d = ChainCall(m, u, w, e, o)
    BY DEF IsChain
  <2>3. i \in Int /\ e \in Int /\ (i - 1 = e - 1 <=> i = e)
    OBVIOUS
  <2> QED
    BY <2>1, <2>2, <2>3 DEF Told, ChainCall, Addr
<1>3. IsKey(c) /\ IsKey(d) => Told(c, d)
  BY DEF IsKey, KeyCall, Addr, Told
<1>4. IsForsKey(c) /\ IsForsKey(d) => Told(c, d)
  BY DEF IsForsKey, ForsKeyCall, Addr, Told
<1> QED
  BY <1>1, <1>2, <1>3, <1>4

\* An index is known from its two fields.
LEMMA IndexTold ==
  ASSUME NEW l, NEW t, NEW kind, NEW k, NEW at, NEW x \in Nat,
         NEW m, NEW u, NEW other, NEW w, NEW to, NEW y \in Nat
  PROVE  IndexAddr(l, t, kind, k, at, x) = IndexAddr(m, u, other, w, to, y)
           <=> l = m /\ t = u /\ kind = other /\ k = w /\ at = to /\ x = y
<1>1. x \div AddrByte = y \div AddrByte /\ x % AddrByte = y % AddrByte => x = y
  BY SizesOK, TwoDigits
<1> QED
  BY <1>1 DEF IndexAddr, Addr

LEMMA NodeTold == ASSUME NEW c, NEW d, IsNode(c), IsNode(d) PROVE Told(c, d)
<1>1. PICK l \in TheLayers, t \in TheTrees, h \in Nat, n \in Nat : c = NodeCall(l, t, h, n)
  BY DEF IsNode
<1>2. PICK m \in TheLayers, u \in TheTrees, g \in Nat, o \in Nat : d = NodeCall(m, u, g, o)
  BY DEF IsNode
<1>3. IndexAddr(l, t, "hashtree", 0, h, n) = IndexAddr(m, u, "hashtree", 0, g, o)
        <=> l = m /\ t = u /\ h = g /\ n = o
  BY IndexTold
<1> QED
  BY <1>1, <1>2, <1>3 DEF Told, NodeCall

\* The place j of a tree in the forest and the place n in the tree are known from n + j * size.
LEMMA PlaceTold ==
  ASSUME NEW size \in Nat \ {0}, NEW j \in Nat, NEW i \in Nat, NEW n \in 0..(size - 1), NEW o \in 0..(size - 1),
         n + j * size = o + i * size
  PROVE  n = o /\ j = i
<1>1. n + j * size = j * size + n /\ o + i * size = i * size + o
  OBVIOUS
<1>2. (j * size + n) \div size = j /\ (j * size + n) % size = n
  BY DivMod
<1>3. (i * size + o) \div size = i /\ (i * size + o) % size = o
  BY DivMod
<1> QED
  BY <1>1, <1>2, <1>3

LEMMA ForsTold ==
  ASSUME NEW c, NEW d
  PROVE  /\ IsForsSecret(c) /\ IsForsSecret(d) => Told(c, d)
         /\ IsForsLeaf(c) /\ IsForsLeaf(d) => Told(c, d)
<1>1. ASSUME NEW j \in TheForest, NEW i \in TheForest, NEW n \in 0..(ForsSize - 1), NEW o \in 0..(ForsSize - 1)
      PROVE  /\ n + j * ForsSize = o + i * ForsSize <=> n = o /\ j = i
             /\ j * ForsSize = i * ForsSize <=> j = i
             /\ n + j * ForsSize \in Nat /\ o + i * ForsSize \in Nat
  <2>1. j \in Nat /\ i \in Nat /\ ForsSize \in Nat \ {0} /\ n \in Nat /\ o \in Nat
    BY SizesOK DEF TheForest
  <2>2. 0 \in 0..(ForsSize - 1)
    BY <2>1
  <2>3. n + j * ForsSize = o + i * ForsSize => n = o /\ j = i
    BY <2>1, PlaceTold
  <2>4. 0 + j * ForsSize = 0 + i * ForsSize => j = i
    BY <2>1, <2>2, PlaceTold
  <2>5. j * ForsSize \in Nat /\ i * ForsSize \in Nat
    BY <2>1
  <2> QED
    BY <2>1, <2>3, <2>4, <2>5
<1>2. IsForsSecret(c) /\ IsForsSecret(d) => Told(c, d)
  <2> SUFFICES ASSUME IsForsSecret(c), IsForsSecret(d) PROVE Told(c, d)
    OBVIOUS
  <2>1. PICK t \in TheTrees, k \in TheLeaves, j \in TheForest, n \in 0..(ForsSize - 1) :
          c = ForsSecretCall(t, k, j, n)
    BY DEF IsForsSecret
  <2>2. PICK u \in TheTrees, w \in TheLeaves, i \in TheForest, o \in 0..(ForsSize - 1) :
          d = ForsSecretCall(u, w, i, o)
    BY DEF IsForsSecret
  <2>3. IndexAddr(0, t, "forsprf", k, 0, n + j * ForsSize) = IndexAddr(0, u, "forsprf", w, 0, o + i * ForsSize)
          <=> t = u /\ k = w /\ n + j * ForsSize = o + i * ForsSize
    BY <1>1, IndexTold
  <2> QED
    BY <1>1, <2>1, <2>2, <2>3 DEF Told, ForsSecretCall
<1>3. IsForsLeaf(c) /\ IsForsLeaf(d) => Told(c, d)
  <2> SUFFICES ASSUME IsForsLeaf(c), IsForsLeaf(d) PROVE Told(c, d)
    OBVIOUS
  <2>1. PICK t \in TheTrees, k \in TheLeaves, j \in TheForest, n \in 0..(ForsSize - 1) :
          c = ForsLeafCall(t, k, j, n)
    BY DEF IsForsLeaf
  <2>2. PICK u \in TheTrees, w \in TheLeaves, i \in TheForest, o \in 0..(ForsSize - 1) :
          d = ForsLeafCall(u, w, i, o)
    BY DEF IsForsLeaf
  <2>3. IndexAddr(0, t, "forstree", k, 0, n + j * ForsSize) = IndexAddr(0, u, "forstree", w, 0, o + i * ForsSize)
          <=> t = u /\ k = w /\ n + j * ForsSize = o + i * ForsSize
    BY <1>1, IndexTold
  <2> QED
    BY <1>1, <2>1, <2>2, <2>3 DEF Told, ForsLeafCall
<1> QED
  BY <1>2, <1>3

LEMMA ForsNodeTold == ASSUME NEW c, NEW d, IsForsNode(c), IsForsNode(d) PROVE Told(c, d)
<1>1. PICK t \in TheTrees, k \in TheLeaves, j \in TheForest, h \in 1..ForsHeight :
        \E n \in 0..(2 ^ (ForsHeight - h) - 1) : c = ForsNodeCall(t, k, j, h, n)
  BY DEF IsForsNode
<1>2. PICK n \in 0..(2 ^ (ForsHeight - h) - 1) : c = ForsNodeCall(t, k, j, h, n)
  BY <1>1
<1>3. PICK u \in TheTrees, w \in TheLeaves, i \in TheForest, g \in 1..ForsHeight :
        \E o \in 0..(2 ^ (ForsHeight - g) - 1) : d = ForsNodeCall(u, w, i, g, o)
  BY DEF IsForsNode
<1>4. PICK o \in 0..(2 ^ (ForsHeight - g) - 1) : d = ForsNodeCall(u, w, i, g, o)
  BY <1>3
<1> DEFINE p == 2 ^ (ForsHeight - h)
           q == 2 ^ (ForsHeight - g)
<1>5. p \in Nat \ {0} /\ q \in Nat \ {0} /\ (h = g => p = q) /\ j \in Nat /\ i \in Nat /\ ForsSize \in Nat \ {0}
  <2>1. ForsHeight - h \in Nat /\ ForsHeight - g \in Nat
    BY SizesOK
  <2> QED
    BY <2>1, PowerPositive, SizesOK DEF TheForest
<1>6. n \in 0..(p - 1) /\ o \in 0..(q - 1)
  OBVIOUS
<1>7. c = <<IndexAddr(0, t, "forstree", k, h, n + j * p), <<"forsNode", t, k, j * ForsSize, h, n>> >>
  BY <1>2 DEF ForsNodeCall
<1>8. d = <<IndexAddr(0, u, "forstree", w, g, o + i * q), <<"forsNode", u, w, i * ForsSize, g, o>> >>
  BY <1>4 DEF ForsNodeCall
<1> HIDE DEF p, q
<1>9. n + j * p \in Nat /\ o + i * q \in Nat
  BY <1>5, <1>6
<1>10. IndexAddr(0, t, "forstree", k, h, n + j * p) = IndexAddr(0, u, "forstree", w, g, o + i * q)
         <=> t = u /\ k = w /\ h = g /\ n + j * p = o + i * q
  BY <1>9, IndexTold
<1>11. h = g /\ n + j * p = o + i * q => n = o /\ j = i
  BY <1>5, <1>6, PlaceTold
<1>12. j * ForsSize = i * ForsSize => j = i
  <2>1. 0 \in 0..(ForsSize - 1) /\ 0 + j * ForsSize = j * ForsSize /\ 0 + i * ForsSize = i * ForsSize
    BY <1>5
  <2> QED
    BY <1>5, <2>1, PlaceTold
<1> QED
  BY <1>5, <1>7, <1>8, <1>10, <1>11, <1>12 DEF Told

\* The type in the address, and its height among the few-time keys, is that of the purpose.
LEMMA KindsTold ==
  ASSUME NEW c
  PROVE  /\ IsSecret(c) => c[1].type = "wotsprf" /\ c[2][1] = "secret"
         /\ IsChain(c)  => c[1].type = "wots" /\ c[2][1] = "chain"
         /\ IsKey(c)    => c[1].type = "wotspk" /\ c[2][1] = "key"
         /\ IsNode(c)   => c[1].type = "hashtree" /\ c[2][1] = "node"
         /\ IsForsSecret(c) => c[1].type = "forsprf" /\ c[2][1] = "forsSecret"
         /\ IsForsLeaf(c)   => c[1].type = "forstree" /\ c[1].at17 = 0 /\ c[2][1] = "forsLeaf"
         /\ IsForsNode(c)   => c[1].type = "forstree" /\ c[1].at17 # 0 /\ c[2][1] = "forsNode"
         /\ IsForsKey(c)    => c[1].type = "forspk" /\ c[2][1] = "forsKey"
<1>1. IsSecret(c) => c[1].type = "wotsprf" /\ c[2][1] = "secret"
  BY DEF IsSecret, SecretCall, Addr
<1>2. IsChain(c)  => c[1].type = "wots" /\ c[2][1] = "chain"
  BY DEF IsChain, ChainCall, Addr
<1>3. IsKey(c)    => c[1].type = "wotspk" /\ c[2][1] = "key"
  BY DEF IsKey, KeyCall, Addr
<1>4. IsNode(c)   => c[1].type = "hashtree" /\ c[2][1] = "node"
  BY DEF IsNode, NodeCall, IndexAddr, Addr
<1>5. IsForsSecret(c) => c[1].type = "forsprf" /\ c[2][1] = "forsSecret"
  BY DEF IsForsSecret, ForsSecretCall, IndexAddr, Addr
<1>6. IsForsLeaf(c)   => c[1].type = "forstree" /\ c[1].at17 = 0 /\ c[2][1] = "forsLeaf"
  BY DEF IsForsLeaf, ForsLeafCall, IndexAddr, Addr
<1>7. IsForsNode(c)   => c[1].type = "forstree" /\ c[1].at17 # 0 /\ c[2][1] = "forsNode"
  BY DEF IsForsNode, ForsNodeCall, IndexAddr, Addr
<1>8. IsForsKey(c)    => c[1].type = "forspk" /\ c[2][1] = "forsKey"
  BY DEF IsForsKey, ForsKeyCall, Addr
<1> QED
  BY <1>1, <1>2, <1>3, <1>4, <1>5, <1>6, <1>7, <1>8

LEMMA KnownTold == ASSUME NEW c, NEW d, KnownCall(c), KnownCall(d) PROVE Told(c, d)
<1> DEFINE TypeOf(x) == x[1].type
           AtOf(x)   == x[1].at17
           ForOf(x)  == x[2][1]
<1>1. c[1] = d[1] => TypeOf(c) = TypeOf(d) /\ AtOf(c) = AtOf(d)
  OBVIOUS
<1>2. c[2] = d[2] => ForOf(c) = ForOf(d)
  OBVIOUS
<1>3. \A x \in {c, d} :
         /\ IsSecret(x) => TypeOf(x) = "wotsprf" /\ ForOf(x) = "secret"
         /\ IsChain(x)  => TypeOf(x) = "wots" /\ ForOf(x) = "chain"
         /\ IsKey(x)    => TypeOf(x) = "wotspk" /\ ForOf(x) = "key"
         /\ IsNode(x)   => TypeOf(x) = "hashtree" /\ ForOf(x) = "node"
         /\ IsForsSecret(x) => TypeOf(x) = "forsprf" /\ ForOf(x) = "forsSecret"
         /\ IsForsLeaf(x)   => TypeOf(x) = "forstree" /\ AtOf(x) = 0 /\ ForOf(x) = "forsLeaf"
         /\ IsForsNode(x)   => TypeOf(x) = "forstree" /\ AtOf(x) # 0 /\ ForOf(x) = "forsNode"
         /\ IsForsKey(x)    => TypeOf(x) = "forspk" /\ ForOf(x) = "forsKey"
  BY KindsTold
<1> HIDE DEF TypeOf, AtOf, ForOf
<1>4. SUFFICES ASSUME c[1] = d[1] \/ c[2] = d[2] PROVE Told(c, d)
  BY DEF Told
<1>5. (TypeOf(c) = TypeOf(d) /\ AtOf(c) = AtOf(d)) \/ ForOf(c) = ForOf(d)
  BY <1>1, <1>2, <1>4
<1>6. CASE IsSecret(c)
  <2>1. IsSecret(d)
    BY <1>3, <1>5, <1>6 DEF KnownCall
  <2> QED
    BY <1>6, <2>1, WotsTold
<1>7. CASE IsChain(c)
  <2>1. IsChain(d)
    BY <1>3, <1>5, <1>7 DEF KnownCall
  <2> QED
    BY <1>7, <2>1, WotsTold
<1>8. CASE IsKey(c)
  <2>1. IsKey(d)
    BY <1>3, <1>5, <1>8 DEF KnownCall
  <2> QED
    BY <1>8, <2>1, WotsTold
<1>9. CASE IsNode(c)
  <2>1. IsNode(d)
    BY <1>3, <1>5, <1>9 DEF KnownCall
  <2> QED
    BY <1>9, <2>1, NodeTold
<1>10. CASE IsForsSecret(c)
  <2>1. IsForsSecret(d)
    BY <1>3, <1>5, <1>10 DEF KnownCall
  <2> QED
    BY <1>10, <2>1, ForsTold
<1>11. CASE IsForsLeaf(c)
  <2>1. IsForsLeaf(d)
    BY <1>3, <1>5, <1>11 DEF KnownCall
  <2> QED
    BY <1>11, <2>1, ForsTold
<1>12. CASE IsForsNode(c)
  <2>1. IsForsNode(d)
    BY <1>3, <1>5, <1>12 DEF KnownCall
  <2> QED
    BY <1>12, <2>1, ForsNodeTold
<1>13. CASE IsForsKey(c)
  <2>1. IsForsKey(d)
    BY <1>3, <1>5, <1>13 DEF KnownCall
  <2> QED
    BY <1>13, <2>1, WotsTold
<1> QED
  BY <1>6, <1>7, <1>8, <1>9, <1>10, <1>11, <1>12, <1>13 DEF KnownCall

\* So as many addresses as calls, and as many purposes.
LEMMA KnownApart ==
  ASSUME NEW C, IsFiniteSet(C), \A c \in C : KnownCall(c)
  PROVE  Cardinality({c[1] : c \in C}) = Cardinality(C) /\ Cardinality({c[2] : c \in C}) = Cardinality(C)
<1> DEFINE f == [c \in C |-> c[1]]
           g == [c \in C |-> c[2]]
           A == {c[1] : c \in C}
           B == {c[2] : c \in C}
<1>1. \A c, d \in C : (c[1] = d[1] <=> c[2] = d[2])
  BY KnownTold DEF Told
<1>2. \A c \in C : c = <<c[1], c[2]>>
  <2> SUFFICES ASSUME NEW c \in C PROVE c = <<c[1], c[2]>>
    OBVIOUS
  <2>1. IsSecret(c) \/ IsChain(c) \/ IsKey(c) \/ IsNode(c) => c = <<c[1], c[2]>>
    BY DEF IsSecret, IsChain, IsKey, IsNode, SecretCall, ChainCall, KeyCall, NodeCall
  <2>2. IsForsSecret(c) \/ IsForsLeaf(c) \/ IsForsNode(c) \/ IsForsKey(c) => c = <<c[1], c[2]>>
    BY DEF IsForsSecret, IsForsLeaf, IsForsNode, IsForsKey, ForsSecretCall, ForsLeafCall, ForsNodeCall, ForsKeyCall
  <2> QED
    BY <2>1, <2>2 DEF KnownCall
<1>3. \A c, d \in C : c[1] = d[1] => c = d
  BY <1>1, <1>2
<1>4. \A c, d \in C : c[2] = d[2] => c = d
  BY <1>1, <1>2
<1>5. f \in Surjection(C, A) /\ f \in Injection(C, A)
  BY <1>3 DEF Surjection, Injection, IsInjective
<1>6. g \in Surjection(C, B) /\ g \in Injection(C, B)
  BY <1>4 DEF Surjection, Injection, IsInjective
<1> HIDE DEF f, g, A, B
<1>7. Cardinality(A) = Cardinality(C)
  BY <1>5, FS_Surjection
<1>8. Cardinality(B) = Cardinality(C)
  BY <1>6, FS_Surjection
<1> QED
  BY <1>7, <1>8 DEF A, B
-----------------------------------------------------------------------------
(* Addresses: what the setters of address.c make of them.                   *)

LEMMA Setters ==
  ASSUME NEW l, NEW t, NEW kind, NEW k, NEW at, NEW hi, NEW lo, NEW x
  PROVE  /\ SetLayer(Addr(l, t, kind, k, at, hi, lo), x) = Addr(x % AddrByte, t, kind, k, at, hi, lo)
         /\ SetTree(Addr(l, t, kind, k, at, hi, lo), x) = Addr(l, x % AddrByte ^ 8, kind, k, at, hi, lo)
         /\ SetType(Addr(l, t, kind, k, at, hi, lo), x) = Addr(l, t, x, k, at, hi, lo)
         /\ SetKeypair(Addr(l, t, kind, k, at, hi, lo), x) = Addr(l, t, kind, x % AddrByte ^ 2, at, hi, lo)
         /\ SetChain(Addr(l, t, kind, k, at, hi, lo), x) = Addr(l, t, kind, k, x % AddrByte, hi, lo)
         /\ SetTreeHeight(Addr(l, t, kind, k, at, hi, lo), x) = Addr(l, t, kind, k, x % AddrByte, hi, lo)
         /\ SetHash(Addr(l, t, kind, k, at, hi, lo), x) = Addr(l, t, kind, k, at, hi, x % AddrByte)
         /\ SetTreeIndex(Addr(l, t, kind, k, at, hi, lo), x)
              = Addr(l, t, kind, k, at, (x \div AddrByte) % AddrByte ^ 3, x % AddrByte)
         /\ NoAddr = Addr(0, 0, "wots", 0, 0, 0, 0)
<1>1. /\ SetLayer(Addr(l, t, kind, k, at, hi, lo), x) = Addr(x % AddrByte, t, kind, k, at, hi, lo)
      /\ SetTree(Addr(l, t, kind, k, at, hi, lo), x) = Addr(l, x % AddrByte ^ 8, kind, k, at, hi, lo)
  BY DEF SetLayer, SetTree, Addr
<1>2. /\ SetType(Addr(l, t, kind, k, at, hi, lo), x) = Addr(l, t, x, k, at, hi, lo)
      /\ SetKeypair(Addr(l, t, kind, k, at, hi, lo), x) = Addr(l, t, kind, x % AddrByte ^ 2, at, hi, lo)
  BY DEF SetType, SetKeypair, Addr
<1>3. /\ SetChain(Addr(l, t, kind, k, at, hi, lo), x) = Addr(l, t, kind, k, x % AddrByte, hi, lo)
      /\ SetTreeHeight(Addr(l, t, kind, k, at, hi, lo), x) = Addr(l, t, kind, k, x % AddrByte, hi, lo)
  BY DEF SetChain, SetTreeHeight, Addr
<1>4. /\ SetHash(Addr(l, t, kind, k, at, hi, lo), x) = Addr(l, t, kind, k, at, hi, x % AddrByte)
  BY DEF SetHash, Addr
<1>5. SetTreeIndex(Addr(l, t, kind, k, at, hi, lo), x)
              = Addr(l, t, kind, k, at, (x \div AddrByte) % AddrByte ^ 3, x % AddrByte)
  <2>1. ASSUME NEW p, NEW q
        PROVE  [Addr(l, t, kind, k, at, hi, lo) EXCEPT !.at18 = p, !.at21 = q] = Addr(l, t, kind, k, at, p, q)
    <3>1. [Addr(l, t, kind, k, at, hi, lo) EXCEPT !.at18 = p] = Addr(l, t, kind, k, at, p, lo)
      BY DEF Addr
    <3>2. [Addr(l, t, kind, k, at, p, lo) EXCEPT !.at21 = q] = Addr(l, t, kind, k, at, p, q)
      BY DEF Addr
    <3> QED
      BY <3>1, <3>2
  <2> QED
    BY <2>1 DEF SetTreeIndex
<1>6. NoAddr = Addr(0, 0, "wots", 0, 0, 0, 0)
  BY DEF NoAddr, Addr
<1> QED
  BY <1>1, <1>2, <1>3, <1>4, <1>5, <1>6

LEMMA Copies ==
  ASSUME NEW l, NEW t, NEW kind, NEW k, NEW at, NEW hi, NEW lo,
         NEW m, NEW u, NEW other, NEW w, NEW to, NEW up, NEW low
  PROVE  /\ CopySubtree(Addr(l, t, kind, k, at, hi, lo), Addr(m, u, other, w, to, up, low))
              = Addr(m, u, kind, k, at, hi, lo)
         /\ CopyKeypair(Addr(l, t, kind, k, at, hi, lo), Addr(m, u, other, w, to, up, low))
              = Addr(m, u, kind, w, at, hi, lo)
<1>1. CopySubtree(Addr(l, t, kind, k, at, hi, lo), Addr(m, u, other, w, to, up, low)) = Addr(m, u, kind, k, at, hi, lo)
  <2>1. Addr(m, u, other, w, to, up, low).layer = m /\ Addr(m, u, other, w, to, up, low).tree = u
    BY DEF Addr
  <2>2. ASSUME NEW p, NEW q
        PROVE  [Addr(l, t, kind, k, at, hi, lo) EXCEPT !.layer = p, !.tree = q] = Addr(p, q, kind, k, at, hi, lo)
    <3>1. [Addr(l, t, kind, k, at, hi, lo) EXCEPT !.layer = p] = Addr(p, t, kind, k, at, hi, lo)
      BY DEF Addr
    <3>2. [Addr(p, t, kind, k, at, hi, lo) EXCEPT !.tree = q] = Addr(p, q, kind, k, at, hi, lo)
      BY DEF Addr
    <3> QED
      BY <3>1, <3>2
  <2> QED
    BY <2>1, <2>2 DEF CopySubtree
<1>2. CopyKeypair(Addr(l, t, kind, k, at, hi, lo), Addr(m, u, other, w, to, up, low)) = Addr(m, u, kind, w, at, hi, lo)
  BY <1>1 DEF CopyKeypair, Addr
<1> QED
  BY <1>1, <1>2

\* Everything fits its field.
LEMMA Fits ==
  /\ \A l \in TheLayers : l \in Nat /\ l % AddrByte = l
  /\ \A t \in TheTrees : t \in Nat /\ t % AddrByte ^ 8 = t
  /\ \A k \in TheLeaves : k \in Nat /\ k % AddrByte ^ 2 = k
  /\ \A i \in 1..Chains : (i - 1) % AddrByte = i - 1
  /\ \A n \in 0..(ChainEnd - 1) : n % AddrByte = n
  /\ \A h \in 0..TreeHeight : h % AddrByte = h
  /\ \A h \in 0..ForsHeight : h % AddrByte = h
  /\ 0 % AddrByte = 0 /\ 0 \in TheTrees /\ 0 \in TheLeaves
<1> DEFINE leaves == 2 ^ TreeHeight
           trees  == 2 ^ (TreeHeight * (Layers - 1))
           two    == AddrByte ^ 2
           eight  == AddrByte ^ 8
           ends   == 2 ^ ChainBits
<1>1. /\ AddrByte \in Nat \ {0} /\ Layers \in Nat \ {0} /\ TreeHeight \in Nat /\ ForsHeight \in Nat
      /\ ChainBits \in Nat /\ MsgDigits \in Nat /\ SumDigits \in Nat
  BY SlhAssumption DEF SlhAssumption
<1>2. two \in Int /\ eight \in Int
  BY <1>1
<1>3. leaves \in Nat \ {0} /\ ends \in Nat \ {0} /\ trees \in Nat \ {0}
  <2>1. TreeHeight * (Layers - 1) \in Nat
    BY <1>1
  <2> QED
    BY <1>1, <2>1, PowerPositive
<1>4. /\ Layers <= AddrByte /\ MsgDigits + SumDigits <= AddrByte /\ ends <= AddrByte
      /\ TreeHeight < AddrByte /\ ForsHeight < AddrByte /\ leaves <= two /\ trees <= eight
  BY AddressWidths DEF AddressWidths
<1> HIDE DEF leaves, trees, two, eight, ends
<1>5. \A x \in 0..(AddrByte - 1) : x % AddrByte = x
  BY <1>1, ModSmall
<1>6. \A x \in 0..(trees - 1) : x \in Nat /\ x % eight = x
  <2>1. \A x \in 0..(trees - 1) : x \in Nat /\ x < eight /\ eight \in Nat
    BY <1>2, <1>3, <1>4
  <2> QED
    BY <2>1, ModSmall
<1>7. \A x \in 0..(leaves - 1) : x \in Nat /\ x % two = x
  <2>1. \A x \in 0..(leaves - 1) : x \in Nat /\ x < two /\ two \in Nat
    BY <1>2, <1>3, <1>4
  <2> QED
    BY <2>1, ModSmall
<1>8. /\ \A l \in TheLayers : l \in Nat /\ l \in 0..(AddrByte - 1)
      /\ \A i \in 1..Chains : (i - 1) \in 0..(AddrByte - 1)
      /\ \A h \in 0..TreeHeight : h \in 0..(AddrByte - 1)
      /\ \A h \in 0..ForsHeight : h \in 0..(AddrByte - 1)
      /\ 0 \in 0..(AddrByte - 1)
  BY <1>1, <1>4 DEF TheLayers, Chains
<1>9. \A n \in 0..(ChainEnd - 1) : n \in 0..(AddrByte - 1)
  BY <1>1, <1>3, <1>4 DEF ChainEnd, ends
<1>10. 0 \in TheTrees /\ 0 \in TheLeaves
  BY <1>3 DEF TheTrees, TheLeaves, trees, leaves
<1>11. \A t \in TheTrees : t \in Nat /\ t % AddrByte ^ 8 = t
  BY <1>6 DEF TheTrees, trees, eight
<1>12. \A k \in TheLeaves : k \in Nat /\ k % AddrByte ^ 2 = k
  BY <1>7 DEF TheLeaves, leaves, two
<1> QED
  BY <1>5, <1>8, <1>9, <1>10, <1>11, <1>12

\* So does an index of a node, in two fields.
LEMMA IndexFits ==
  ASSUME NEW l, NEW t, NEW kind, NEW k, NEW at, NEW hi, NEW lo, NEW x \in Nat,
         x < 2 ^ TreeHeight \/ x < ForsTrees * ForsSize
  PROVE  SetTreeIndex(Addr(l, t, kind, k, at, hi, lo), x) = IndexAddr(l, t, kind, k, at, x)
<1> DEFINE cube == AddrByte ^ 3
           d    == x \div AddrByte
<1>1. AddrByte \in Nat \ {0} /\ cube \in Int
  BY SizesOK
<1>2. x < AddrByte * cube
  <2>1. 2 ^ TreeHeight <= AddrByte * cube /\ ForsTrees * ForsSize <= AddrByte * cube
    BY AddressWidths DEF AddressWidths, ForsSize
  <2>2. 2 ^ TreeHeight \in Nat /\ ForsTrees * ForsSize \in Nat /\ AddrByte * cube \in Int
    BY <1>1, SizesOK, PowerPositive
  <2> HIDE DEF cube
  <2> QED
    BY <2>1, <2>2
<1> HIDE DEF cube
<1>3. d \in Nat /\ AddrByte * d <= x
  BY <1>1
<1> HIDE DEF d
<1>4. d < cube
  <2> SUFFICES ASSUME cube <= d PROVE FALSE
    BY <1>1, <1>3
  <2>1. AddrByte * cube <= AddrByte * d
    BY <1>1, <1>3
  <2>2. AddrByte * cube \in Int /\ AddrByte * d \in Int
    BY <1>1, <1>3
  <2> QED
    BY <1>2, <1>3, <2>1, <2>2
<1>5. d % cube = d
  <2>1. cube \in Nat
    BY <1>1, <1>3, <1>4
  <2> QED
    BY <1>3, <1>4, <2>1, ModSmall
<1> QED
  BY <1>5, Setters DEF IndexAddr, d, cube
-----------------------------------------------------------------------------
(* Addresses: the calls of a leaf and of the nodes above it.                *)

WotsTree(t, l, tr) ==
  /\ t.of = "wots" /\ t.height = TreeHeight /\ t.offset = 0
  /\ t.addr = Addr(l, tr, "hashtree", 0, 0, 0, 0)
  /\ t.leafAddr = Addr(l, tr, "wots", 0, 0, 0, 0)
  /\ t.pkAddr = Addr(l, tr, "wotspk", 0, 0, 0, 0)

ForsTree(t, tr, leaf, j) ==
  /\ t.of = "fors" /\ t.height = ForsHeight /\ t.offset = j * ForsSize
  /\ t.leafAddr = Addr(0, tr, "wots", leaf, 0, 0, 0)
  /\ \E hi, lo : t.addr = Addr(0, tr, "forstree", leaf, 0, hi, lo)

LEMMA FiniteImage == ASSUME NEW S, IsFiniteSet(S), NEW f PROVE IsFiniteSet({f[x] : x \in S})
<1> DEFINE T == {f[x] : x \in S}
           g == [x \in S |-> f[x]]
<1>1. g \in Surjection(S, T)
  BY DEF Surjection
<1> HIDE DEF g, T
<1> QED
  BY <1>1, FS_Surjection DEF T

AllKnown(C) == IsFiniteSet(C) /\ \A c \in C : KnownCall(c)

LEMMA UnionKnown == ASSUME NEW B, NEW C, AllKnown(B), AllKnown(C) PROVE AllKnown(B \cup C)
BY FS_Union DEF AllKnown

LEMMA WotsLeafKnown ==
  ASSUME NEW t, layer \in TheLayers, index.tree \in TheTrees, WotsTree(t, layer, index.tree),
         NEW idx \in TheLeaves
  PROVE  AllKnown(WotsCalls(t, idx))
<1> DEFINE tr == index.tree
           a  == SetKeypair(t.leafAddr, idx)
           S1 == {SecretCall(layer, tr, idx, i) : i \in 1..Chains}
           S2 == {ChainCall(layer, tr, idx, i, k) : i \in 1..Chains, k \in 0..(ChainEnd - 1)}
           S3 == {KeyCall(layer, tr, idx)}
<1>1. a = Addr(layer, tr, "wots", idx, 0, 0, 0) /\ SetKeypair(t.pkAddr, idx) = Addr(layer, tr, "wotspk", idx, 0, 0, 0)
  <2>1. t.leafAddr = Addr(layer, tr, "wots", 0, 0, 0, 0) /\ t.pkAddr = Addr(layer, tr, "wotspk", 0, 0, 0, 0)
    BY DEF WotsTree
  <2>2. idx % AddrByte ^ 2 = idx
    BY Fits
  <2> QED
    BY <2>1, <2>2, Setters
<1> HIDE DEF a
<1>2. ASSUME NEW i \in 1..Chains
      PROVE  SetChain(a, i - 1) = Addr(layer, tr, "wots", idx, i - 1, 0, 0)
  <2>1. (i - 1) % AddrByte = i - 1
    BY Fits
  <2> QED
    BY <1>1, <2>1, Setters
<1>3. ASSUME NEW i \in 1..Chains
      PROVE  <<[SetChain(a, i - 1) EXCEPT !.type = "wotsprf", !.at21 = 0], <<"secret", layer, tr, idx, i>> >>
               = SecretCall(layer, tr, idx, i)
  <2>1. [Addr(layer, tr, "wots", idx, i - 1, 0, 0) EXCEPT !.type = "wotsprf"] = Addr(layer, tr, "wotsprf", idx, i - 1, 0, 0)
    BY DEF Addr
  <2>2. [Addr(layer, tr, "wotsprf", idx, i - 1, 0, 0) EXCEPT !.at21 = 0] = Addr(layer, tr, "wotsprf", idx, i - 1, 0, 0)
    BY DEF Addr
  <2>3. [SetChain(a, i - 1) EXCEPT !.type = "wotsprf", !.at21 = 0] = Addr(layer, tr, "wotsprf", idx, i - 1, 0, 0)
    BY <1>2, <2>1, <2>2
  <2> QED
    BY <2>3 DEF SecretCall
<1>4. ASSUME NEW i \in 1..Chains, NEW k \in 0..(ChainEnd - 1)
      PROVE  <<[SetHash(SetChain(a, i - 1), k) EXCEPT !.type = "wots"], <<"chain", layer, tr, idx, i, k>> >>
               = ChainCall(layer, tr, idx, i, k)
  <2>1. k % AddrByte = k
    BY Fits
  <2>2. SetHash(Addr(layer, tr, "wots", idx, i - 1, 0, 0), k) = Addr(layer, tr, "wots", idx, i - 1, 0, k)
    BY <2>1, Setters
  <2>3. [Addr(layer, tr, "wots", idx, i - 1, 0, k) EXCEPT !.type = "wots"] = Addr(layer, tr, "wots", idx, i - 1, 0, k)
    BY DEF Addr
  <2> QED
    BY <1>2, <2>2, <2>3 DEF ChainCall
<1>5. WotsCalls(t, idx) = S1 \cup S2 \cup S3
  <2> DEFINE e(i)    == <<[SetChain(a, i - 1) EXCEPT !.type = "wotsprf", !.at21 = 0], <<"secret", layer, tr, idx, i>> >>
             g(i, k) == <<[SetHash(SetChain(a, i - 1), k) EXCEPT !.type = "wots"], <<"chain", layer, tr, idx, i, k>> >>
             E1      == {e(i) : i \in 1..Chains}
             E2      == {g(i, k) : i \in 1..Chains, k \in 0..(ChainEnd - 1)}
             E3      == {<<SetKeypair(t.pkAddr, idx), <<"key", layer, tr, idx>> >>}
  <2>1. WotsCalls(t, idx) = E1 \cup E2 \cup E3
    BY DEF WotsCalls, a
  <2>2. E1 = S1
    BY <1>3
  <2>3. E2 = S2
    <3> DEFINE d(i, k) == ChainCall(layer, tr, idx, i, k)
    <3>1. \A i \in 1..Chains, k \in 0..(ChainEnd - 1) : g(i, k) = d(i, k)
      BY <1>4
    <3> HIDE DEF g, d
    <3>2. {g(i, k) : i \in 1..Chains, k \in 0..(ChainEnd - 1)} = {d(i, k) : i \in 1..Chains, k \in 0..(ChainEnd - 1)}
      BY <3>1
    <3> QED
      BY <3>2 DEF d
  <2>4. E3 = S3
    BY <1>1 DEF KeyCall
  <2> HIDE DEF E1, E2, E3, S1, S2, S3
  <2> QED
    BY <2>1, <2>2, <2>3, <2>4
<1>6. Chains \in Nat /\ ChainEnd \in Nat
  <2>1. ChainBits \in Nat /\ MsgDigits \in Nat /\ SumDigits \in Nat
    BY SlhAssumption DEF SlhAssumption
  <2>2. 2 ^ ChainBits \in Nat /\ 2 ^ ChainBits # 0
    BY <2>1, PowerPositive
  <2> QED
    BY <2>1, <2>2 DEF Chains, ChainEnd
<1>7. IsFiniteSet(1..Chains) /\ IsFiniteSet(0..(ChainEnd - 1))
  <2>1. 1 \in Int /\ Chains \in Int /\ 0 \in Int /\ ChainEnd - 1 \in Int
    BY <1>6
  <2> QED
    BY <2>1, FS_Interval
<1>8. AllKnown(S1)
  <2>1. IsFiniteSet(S1)
    <3> DEFINE f == [i \in 1..Chains |-> SecretCall(layer, tr, idx, i)]
    <3>1. IsFiniteSet({f[i] : i \in 1..Chains})
      <4> HIDE DEF f
      <4> QED
        BY <1>7, FiniteImage
    <3>2. {f[i] : i \in 1..Chains} = S1
      OBVIOUS
    <3> QED
      BY <3>1, <3>2
  <2>2. \A c \in S1 : IsSecret(c)
    BY DEF IsSecret
  <2> QED
    BY <2>1, <2>2 DEF AllKnown, KnownCall
<1>9. AllKnown(S2)
  <2>1. IsFiniteSet(S2)
    <3> DEFINE P == (1..Chains) \X (0..(ChainEnd - 1))
               f == [p \in P |-> ChainCall(layer, tr, idx, p[1], p[2])]
    <3>1. IsFiniteSet(P)
      BY <1>7, FS_Product
    <3>2. {f[p] : p \in P} = S2
      <4>1. \A i \in 1..Chains, k \in 0..(ChainEnd - 1) :
              <<i, k>> \in P /\ f[<<i, k>>] = ChainCall(layer, tr, idx, i, k)
        OBVIOUS
      <4>2. \A p \in P : p[1] \in 1..Chains /\ p[2] \in 0..(ChainEnd - 1)
                           /\ f[p] = ChainCall(layer, tr, idx, p[1], p[2])
        OBVIOUS
      <4> DEFINE d(i, k) == ChainCall(layer, tr, idx, i, k)
      <4>3. \A i \in 1..Chains, k \in 0..(ChainEnd - 1) : <<i, k>> \in P /\ f[<<i, k>>] = d(i, k)
        BY <4>1
      <4>4. \A p \in P : p[1] \in 1..Chains /\ p[2] \in 0..(ChainEnd - 1) /\ f[p] = d(p[1], p[2])
        BY <4>2
      <4>5. \A x : x \in S2 <=> \E i \in 1..Chains, k \in 0..(ChainEnd - 1) : x = d(i, k)
        OBVIOUS
      <4> HIDE DEF P, f, S2, d
      <4>6. ASSUME NEW x \in S2 PROVE \E p \in P : x = f[p]
        <5>1. PICK i \in 1..Chains, k \in 0..(ChainEnd - 1) : x = d(i, k)
          BY <4>5
        <5> QED
          BY <4>3, <5>1
      <4>7. \A p \in P : f[p] \in S2
        BY <4>4, <4>5
      <4> QED
        BY <4>6, <4>7
    <3>3. IsFiniteSet({f[p] : p \in P})
      <4> HIDE DEF P, f
      <4> QED
        BY <3>1, FiniteImage
    <3> HIDE DEF S2, P, f
    <3> QED
      BY <3>2, <3>3
  <2>2. \A c \in S2 : IsChain(c)
    BY DEF IsChain
  <2> QED
    BY <2>1, <2>2 DEF AllKnown, KnownCall
<1>10. AllKnown(S3)
  <2>1. IsFiniteSet(S3)
    BY FS_Singleton
  <2>2. \A c \in S3 : IsKey(c)
    BY DEF IsKey
  <2> QED
    BY <2>1, <2>2 DEF AllKnown, KnownCall
<1> HIDE DEF S1, S2, S3
<1> QED
  BY <1>5, <1>8, <1>9, <1>10, UnionKnown

LEMMA ForsLeafKnown ==
  ASSUME NEW t, NEW j \in TheForest, index.tree \in TheTrees, index.leaf \in TheLeaves,
         ForsTree(t, index.tree, index.leaf, j), NEW idx \in 0..(ForsSize - 1)
  PROVE  AllKnown(ForsCalls(t, idx))
<1> DEFINE tr == index.tree
           lf == index.leaf
           x  == idx + j * ForsSize
           a  == SetTreeIndex(t.leafAddr, idx + t.offset)
<1>1. x \in Nat /\ x < ForsTrees * ForsSize
  <2>1. j \in Nat /\ j + 1 <= ForsTrees /\ ForsSize \in Nat \ {0} /\ idx \in Nat /\ idx < ForsSize
    BY SizesOK DEF TheForest
  <2>2. (j + 1) * ForsSize <= ForsTrees * ForsSize
    <3>1. ASSUME NEW u \in Nat, NEW v \in Nat, NEW w \in Nat, u <= v PROVE u * w <= v * w
      BY <3>1
    <3> QED
      BY <2>1, <3>1, SizesOK
  <2>3. (j + 1) * ForsSize = j * ForsSize + ForsSize /\ j * ForsSize \in Nat
    BY <2>1
  <2>4. ForsTrees * ForsSize \in Nat
    BY SizesOK
  <2> QED
    BY <2>1, <2>2, <2>3, <2>4
<1>2. t.leafAddr = Addr(0, tr, "wots", lf, 0, 0, 0) /\ t.offset = j * ForsSize
  BY DEF ForsTree
<1> HIDE DEF x
<1>3. SetTreeIndex(Addr(0, tr, "wots", lf, 0, 0, 0), x) = IndexAddr(0, tr, "wots", lf, 0, x)
  BY <1>1, IndexFits
<1>4. a = IndexAddr(0, tr, "wots", lf, 0, x)
  BY <1>2, <1>3 DEF x
<1> HIDE DEF a
<1>5. SetType(a, "forsprf") = IndexAddr(0, tr, "forsprf", lf, 0, x)
      /\ SetType(a, "forstree") = IndexAddr(0, tr, "forstree", lf, 0, x)
  BY <1>4, Setters DEF IndexAddr
<1>6. ForsCalls(t, idx) = {ForsSecretCall(tr, lf, j, idx), ForsLeafCall(tr, lf, j, idx)}
  <2>1. ForsCalls(t, idx) = {<<SetType(a, "forsprf"), <<"forsSecret", tr, lf, t.offset, idx>> >>,
                             <<SetType(a, "forstree"), <<"forsLeaf", tr, lf, t.offset, idx>> >>}
    BY DEF ForsCalls, a
  <2> QED
    BY <1>2, <1>5, <2>1 DEF ForsSecretCall, ForsLeafCall, x
<1> DEFINE s == ForsSecretCall(tr, lf, j, idx)
           l == ForsLeafCall(tr, lf, j, idx)
<1>7. IsForsSecret(s) /\ IsForsLeaf(l)
  BY DEF IsForsSecret, IsForsLeaf
<1> HIDE DEF s, l
<1>8. IsFiniteSet({s, l})
  <2>1. IsFiniteSet({s}) /\ IsFiniteSet({l}) /\ {s} \cup {l} = {s, l}
    BY FS_Singleton
  <2> QED
    BY <2>1, FS_Union
<1>9. AllKnown({s, l})
  BY <1>7, <1>8 DEF AllKnown, KnownCall
<1> QED
  BY <1>6, <1>9 DEF s, l

LEMMA FiniteNodes ==
  ASSUME NEW t, NEW idx, NEW top \in Nat
  PROVE  IsFiniteSet(NodeCalls(t, idx, top))
<1> DEFINE e(h) == <<NodeAddr(t, h, idx),
                     IF t.of = "wots" THEN <<"node", layer, index.tree, h, idx \div 2 ^ h>>
                     ELSE <<"forsNode", index.tree, index.leaf, t.offset, h, idx \div 2 ^ h>> >>
           f    == [h \in 1..top |-> e(h)]
<1>1. NodeCalls(t, idx, top) = {e(h) : h \in 1..top}
  BY DEF NodeCalls
<1>2. IsFiniteSet(1..top)
  <2>1. 1 \in Int /\ top \in Int
    OBVIOUS
  <2> QED
    BY <2>1, FS_Interval
<1> HIDE DEF e
<1>3. {f[h] : h \in 1..top} = {e(h) : h \in 1..top}
  OBVIOUS
<1> HIDE DEF f
<1>4. IsFiniteSet({f[h] : h \in 1..top})
  BY <1>2, FiniteImage
<1> QED
  BY <1>1, <1>3, <1>4

LEMMA WotsNodesKnown ==
  ASSUME NEW t, layer \in TheLayers, index.tree \in TheTrees, WotsTree(t, layer, index.tree),
         NEW idx \in TheLeaves, NEW top \in 0..TreeHeight
  PROVE  AllKnown(NodeCalls(t, idx, top))
<1> DEFINE tr == index.tree
<1>1. IsFiniteSet(NodeCalls(t, idx, top))
  BY FiniteNodes
<1>2. ASSUME NEW c \in NodeCalls(t, idx, top) PROVE IsNode(c)
  <2>0. TreeHeight \in Nat
    BY SizesOK
  <2>1. PICK h \in 1..top : c = <<NodeAddr(t, h, idx), <<"node", layer, tr, h, idx \div 2 ^ h>> >>
    <3>1. t.of = "wots"
      BY DEF WotsTree
    <3> QED
      BY <3>1 DEF NodeCalls
  <2> DEFINE p == 2 ^ h
             x == idx \div p
  <2>2. h \in Nat /\ h \in 0..TreeHeight /\ p \in Nat \ {0}
    BY <2>0, PowerPositive
  <2>3. x \in Nat /\ x < 2 ^ TreeHeight /\ x + (0 \div p) = x
    <3>1. idx \in Nat /\ idx < 2 ^ TreeHeight /\ 2 ^ TreeHeight \in Nat
      BY <2>0, PowerPositive DEF TheLeaves
    <3> HIDE DEF p
    <3>2. x \in Nat /\ x <= idx /\ 0 \div p = 0
      BY <2>2, <3>1
    <3> HIDE DEF x
    <3> QED
      BY <3>1, <3>2
  <2>4. h % AddrByte = h
    BY <2>2, Fits
  <2>5. NodeAddr(t, h, idx) = SetTreeIndex(SetTreeHeight(Addr(layer, tr, "hashtree", 0, 0, 0, 0), h), x + (0 \div p))
    BY DEF NodeAddr, SetNode, WotsTree
  <2> HIDE DEF p, x
  <2>6. SetTreeHeight(Addr(layer, tr, "hashtree", 0, 0, 0, 0), h) = Addr(layer, tr, "hashtree", 0, h, 0, 0)
    BY <2>4, Setters
  <2>7. SetTreeIndex(Addr(layer, tr, "hashtree", 0, h, 0, 0), x) = IndexAddr(layer, tr, "hashtree", 0, h, x)
    BY <2>3, IndexFits
  <2>8. NodeAddr(t, h, idx) = IndexAddr(layer, tr, "hashtree", 0, h, x)
    BY <2>3, <2>5, <2>6, <2>7
  <2>9. c = NodeCall(layer, tr, h, x)
    BY <2>1, <2>8 DEF NodeCall, x, p
  <2> QED
    BY <2>2, <2>3, <2>9 DEF IsNode
<1> QED
  BY <1>1, <1>2 DEF AllKnown, KnownCall

LEMMA ForsNodesKnown ==
  ASSUME NEW t, NEW j \in TheForest, index.tree \in TheTrees, index.leaf \in TheLeaves,
         ForsTree(t, index.tree, index.leaf, j), NEW idx \in 0..(ForsSize - 1), NEW top \in 0..ForsHeight
  PROVE  AllKnown(NodeCalls(t, idx, top))
<1> DEFINE tr == index.tree
           lf == index.leaf
<1>1. IsFiniteSet(NodeCalls(t, idx, top))
  BY FiniteNodes
<1>2. ASSUME NEW c \in NodeCalls(t, idx, top) PROVE IsForsNode(c)
  <2>0. ForsHeight \in Nat /\ j \in Nat /\ j + 1 <= ForsTrees /\ ForsTrees \in Nat /\ ForsSize \in Nat
    BY SizesOK DEF TheForest
  <2>1. PICK h \in 1..top :
          c = <<NodeAddr(t, h, idx), <<"forsNode", tr, lf, j * ForsSize, h, idx \div 2 ^ h>> >>
    <3>1. t.of # "wots" /\ t.offset = j * ForsSize
      BY DEF ForsTree
    <3> QED
      BY <3>1 DEF NodeCalls
  <2> DEFINE p == 2 ^ h
             q == 2 ^ (ForsHeight - h)
             n == idx \div p
             x == n + j * q
  <2>2. h \in 1..ForsHeight /\ h \in 0..ForsHeight /\ p \in Nat \ {0} /\ q \in Nat \ {0} /\ ForsSize = p * q
    <3>1. h \in 1..ForsHeight /\ h \in Nat /\ ForsHeight - h \in Nat /\ h + (ForsHeight - h) = ForsHeight
      BY <2>0
    <3>2. p \in Nat \ {0} /\ q \in Nat \ {0}
      BY <3>1, PowerPositive
    <3>3. 2 ^ (h + (ForsHeight - h)) = p * q
      BY <3>1, PowerSum
    <3>4. ForsSize = p * q
      BY <3>1, <3>3 DEF ForsSize
    <3> QED
      BY <3>1, <3>2, <3>4
  <2>3. n \in 0..(q - 1)
    BY <2>0, <2>2, PowerRest DEF ForsSize
  <2>4. (j * ForsSize) \div p = j * q
    BY <2>0, <2>2, PowerDiv DEF ForsSize
  <2>5. PICK hi, lo : t.addr = Addr(0, tr, "forstree", lf, 0, hi, lo)
    BY DEF ForsTree
  <2>6. NodeAddr(t, h, idx) = SetTreeIndex(SetTreeHeight(Addr(0, tr, "forstree", lf, 0, hi, lo), h), x)
    <3>1. t.offset = j * ForsSize
      BY DEF ForsTree
    <3> QED
      BY <2>4, <2>5, <3>1 DEF NodeAddr, SetNode
  <2> HIDE DEF p, q, n
  <2>7. x \in Nat /\ x < ForsTrees * ForsSize
    <3>1. n \in Nat /\ n < q /\ n + j * q < (j + 1) * q /\ j * q \in Nat
      <4>1. (j + 1) * q = j * q + q /\ j * q \in Nat
        BY <2>0, <2>2
      <4> QED
        BY <2>2, <2>3, <4>1
    <3>2. (j + 1) * q <= ForsTrees * q
      <4>1. ASSUME NEW u \in Nat, NEW v \in Nat, NEW w \in Nat, u <= v PROVE u * w <= v * w
        BY <4>1
      <4> QED
        BY <2>0, <2>2, <4>1
    <3>3. ForsTrees * q <= ForsTrees * ForsSize
      <4>1. q <= ForsSize
        BY <2>2
      <4>2. ASSUME NEW u \in Nat, NEW v \in Nat, NEW w \in Nat, u <= v PROVE w * u <= w * v
        BY <4>2
      <4> QED
        BY <2>0, <2>2, <4>1, <4>2
    <3>4. (j + 1) * q \in Nat /\ ForsTrees * q \in Nat /\ ForsTrees * ForsSize \in Nat
      BY <2>0, <2>2
    <3> QED
      BY <3>1, <3>2, <3>3, <3>4
  <2>8. h % AddrByte = h
    BY <2>2, Fits
  <2> HIDE DEF x
  <2>9. SetTreeHeight(Addr(0, tr, "forstree", lf, 0, hi, lo), h) = Addr(0, tr, "forstree", lf, h, hi, lo)
    BY <2>8, Setters
  <2>10. SetTreeIndex(Addr(0, tr, "forstree", lf, h, hi, lo), x) = IndexAddr(0, tr, "forstree", lf, h, x)
    BY <2>7, IndexFits
  <2>11. NodeAddr(t, h, idx) = IndexAddr(0, tr, "forstree", lf, h, x)
    BY <2>6, <2>9, <2>10
  <2>12. c = ForsNodeCall(tr, lf, j, h, n)
    BY <2>1, <2>11 DEF ForsNodeCall, x, n, p, q
  <2> QED
    BY <2>2, <2>3, <2>12 DEF IsForsNode, q
<1> QED
  BY <1>1, <1>2 DEF AllKnown, KnownCall

\* The climb ends at a height of the tree, and on the top only from the last leaf.
LEMMA ClimbTop ==
  ASSUME NEW height \in Nat, NEW idx
  PROVE  /\ ClimbEnd(idx, height) \in 0..height
         /\ ~(idx < 2 ^ height - 1) => ClimbEnd(idx, height) = height
<1> DEFINE Stop(h) == (idx \div 2 ^ h) % 2 = 0 /\ idx < 2 ^ height - 1
           StopsAt(h) == (h = height \/ Stop(h)) /\ \A lower \in 0..(h - 1) : ~Stop(lower)
           S       == {h \in 0..height : h = height \/ Stop(h)}
<1>1. \E h \in 0..height : StopsAt(h)
  <2>1. S \subseteq Nat /\ height \in S
    OBVIOUS
  <2>2. PICK h \in S : \A n \in S : <<n, h>> \notin Below
    <3>1. IsWellFoundedOn(Below, Nat) /\ S # {}
      BY <2>1, BelowIsWellFounded
    <3> HIDE DEF S
    <3> QED
      BY <2>1, <3>1, WFMin
  <2>3. h \in 0..height /\ (h = height \/ Stop(h))
    BY <2>2
  <2>4. ASSUME NEW lower \in 0..(h - 1), Stop(lower) PROVE FALSE
    <3> HIDE DEF Stop
    <3>1. lower \in 0..height /\ lower < h /\ lower \in Nat /\ h \in Nat
      BY <2>3
    <3>2. lower \in S
      BY <2>4, <3>1
    <3>3. <<lower, h>> \in Below
      BY <3>1 DEF Below
    <3> QED
      BY <2>2, <3>2, <3>3
  <2> QED
    BY <2>3, <2>4
<1>2. ClimbEnd(idx, height) = CHOOSE h \in 0..height : StopsAt(h)
  BY DEF ClimbEnd
<1>3. ClimbEnd(idx, height) \in 0..height /\ StopsAt(ClimbEnd(idx, height))
  <2> HIDE DEF StopsAt
  <2> QED
    BY <1>1, <1>2
<1> QED
  BY <1>3

\* A root is a hash.
LEMMA ClimbRoot ==
  ASSUME NEW t, NEW idx, NEW top \in Nat \ {0}
  PROVE  Climb(t, idx, top)[top] # Nothing
<1> DEFINE Node(f, h) == IF h = 0 THEN NewLeaf(t, idx) ELSE Thash(NodeAddr(t, h, idx), <<t.stack[h], f[h - 1]>>)
           Made(f, l) == f = [h \in 0..l |-> Node(f, h)]
           MadeTo     == {l \in Nat : \E f : Made(f, l)}
<1>1. 0 \in MadeTo
  <2> DEFINE f == [h \in 0..0 |-> NewLeaf(t, idx)]
  <2>1. Made(f, 0)
    <3>1. \A h \in 0..0 : Node(f, h) = NewLeaf(t, idx)
      OBVIOUS
    <3> HIDE DEF Node
    <3> QED
      BY <3>1
  <2> QED
    BY <2>1
<1>2. ASSUME NEW l \in Nat, l \in MadeTo PROVE l + 1 \in MadeTo
  <2>1. PICK f : Made(f, l)
    BY <1>2
  <2> DEFINE g == [h \in 0..(l + 1) |-> Node(f, h)]
  <2>2. \A h \in 0..l : g[h] = f[h]
    <3> HIDE DEF Node
    <3> QED
      BY <2>1
  <2>3. \A h \in 0..(l + 1) : h # 0 => h - 1 \in 0..l
    OBVIOUS
  <2>4. Made(g, l + 1)
    <3>1. \A h \in 0..(l + 1) : Node(f, h) = Node(g, h)
      <4> SUFFICES ASSUME NEW h \in 0..(l + 1) PROVE Node(f, h) = Node(g, h)
        OBVIOUS
      <4>1. h # 0 => g[h - 1] = f[h - 1]
        BY <2>2, <2>3
      <4> HIDE DEF g
      <4> QED
        BY <4>1
    <3> DEFINE k == [h \in 0..(l + 1) |-> Node(g, h)]
    <3> HIDE DEF Node
    <3>2. g = k
      BY <3>1
    <3> HIDE DEF g
    <3> QED
      BY <3>2
  <2>5. \E x : Made(x, l + 1)
    BY <2>4
  <2> HIDE DEF Made, g
  <2> QED
    BY <2>5
<1> HIDE DEF MadeTo
<1>3. top \in MadeTo
  BY <1>1, <1>2, Induction
<1>4. \E f : Made(f, top)
  BY <1>3 DEF MadeTo
<1>5. Climb(t, idx, top) = CHOOSE f : Made(f, top)
  BY DEF Climb
<1>6. Made(Climb(t, idx, top), top)
  <2> HIDE DEF Made
  <2> QED
    BY <1>4, <1>5
<1> DEFINE node == Climb(t, idx, top)
<1>7. node[top] = Node(node, top)
  <2>1. node = [h \in 0..top |-> Node(node, h)]
    BY <1>6
  <2> HIDE DEF node, Node
  <2> QED
    BY <2>1
<1>8. node[top] = Thash(NodeAddr(t, top, idx), <<t.stack[top], node[top - 1]>>)
  <2> HIDE DEF node
  <2> QED
    BY <1>7
<1> HIDE DEF node
<1>9. \A a, b : Thash(a, b) # Nothing
  <2> SUFFICES ASSUME NEW a, NEW b, <<"thash", a, b>> = <<>> PROVE FALSE
    BY DEF Thash, Nothing
  <2>1. Len(<<"thash", a, b>>) = 3 /\ Len(<<>>) = 0
    OBVIOUS
  <2> QED
    BY <2>1
<1> QED
  BY <1>8, <1>9 DEF node
-----------------------------------------------------------------------------
(* Addresses: the invariant.                                                *)

TreeFields == {"of", "leaf", "offset", "height", "addr", "leafAddr", "pkAddr", "next", "stack", "path", "root"}

\* A tree without its root has leaves to come.
Growing(t) ==
  /\ DOMAIN t = TreeFields /\ t.next \in Nat
  /\ t.root = Nothing => t.next < 2 ^ t.height

SignPlaces == [tree : TheTrees, leaf : TheLeaves]

\* The tree that is hashed is that of the layer and the place at work.
OneTimeTree(t, l, ix) == l \in TheLayers /\ WotsTree(t, l, ix.tree) /\ Growing(t)
FewTimeTree(t, ix, f) ==
  /\ Len(f) \in TheForest /\ \E S : f \in Seq(S)
  /\ ForsTree(t, ix.tree, ix.leaf, Len(f)) /\ Growing(t)

SlhInv ==
  /\ layer \in 0..Layers /\ index \in SignPlaces
  /\ work = "none" => index.tree = 0
  /\ work \in {"keygen", "merkle"} => OneTimeTree(hashing, layer, index)
  /\ work = "fors" => layer = 0 /\ FewTimeTree(hashing, index, forest)
  /\ AllKnown(calls)

LEMMA Grows ==
  ASSUME NEW of, NEW leaf, NEW offset, NEW height \in Nat, NEW a, NEW leafAddr, NEW pkAddr
  PROVE  Growing(TreeHash(of, leaf, offset, height, a, leafAddr, pkAddr))
<1> DEFINE t == TreeHash(of, leaf, offset, height, a, leafAddr, pkAddr)
<1>1. DOMAIN t = TreeFields
  BY DEF TreeHash, TreeFields
<1>2. t.next = 0 /\ t.height = height
  BY DEF TreeHash
<1>3. 0 < 2 ^ height
  BY PowerPositive
<1> QED
  BY <1>1, <1>2, <1>3 DEF Growing

LEMMA MerkleHashIs ==
  ASSUME NEW l, NEW tr, NEW kp, NEW leaf
  PROVE  LET t == MerkleHash(Addr(l, tr, "wots", 0, 0, 0, 0), Addr(l, tr, "wots", kp, 0, 0, 0), leaf)
         IN  WotsTree(t, l, tr) /\ Growing(t)
<1> DEFINE t == MerkleHash(Addr(l, tr, "wots", 0, 0, 0, 0), Addr(l, tr, "wots", kp, 0, 0, 0), leaf)
<1>1. SetType(Addr(l, tr, "wots", 0, 0, 0, 0), "hashtree") = Addr(l, tr, "hashtree", 0, 0, 0, 0)
  BY Setters
<1>2. CopySubtree(NoAddr, Addr(l, tr, "wots", kp, 0, 0, 0)) = Addr(l, tr, "wots", 0, 0, 0, 0)
  BY Setters, Copies
<1>3. SetType(NoAddr, "wotspk") = Addr(0, 0, "wotspk", 0, 0, 0, 0)
  BY Setters
<1>4. CopySubtree(Addr(0, 0, "wotspk", 0, 0, 0, 0), Addr(l, tr, "wots", kp, 0, 0, 0)) = Addr(l, tr, "wotspk", 0, 0, 0, 0)
  BY Copies
<1>5. t = TreeHash("wots", leaf, 0, TreeHeight, Addr(l, tr, "hashtree", 0, 0, 0, 0), Addr(l, tr, "wots", 0, 0, 0, 0),
                   Addr(l, tr, "wotspk", 0, 0, 0, 0))
  BY <1>1, <1>2, <1>3, <1>4 DEF MerkleHash
<1> HIDE DEF t
<1>6. Growing(t)
  BY <1>5, Grows, SizesOK
<1>7. WotsTree(t, l, tr)
  BY <1>5 DEF TreeHash, WotsTree
<1> QED
  BY <1>6, <1>7 DEF t

LEMMA ForsHashIs ==
  ASSUME NEW d, NEW ix \in SignPlaces, NEW j \in Nat
  PROVE  ForsTree(ForsHash(d, ix, j + 1), ix.tree, ix.leaf, j) /\ Growing(ForsHash(d, ix, j + 1))
<1> DEFINE t == ForsHash(d, ix, j + 1)
           x == ForsIndex(d, j + 1) + ForsOffset(j + 1)
<1>1. ix.tree \in TheTrees /\ ix.leaf \in TheLeaves
  BY DEF SignPlaces
<1>2. SetTree(NoAddr, ix.tree) = Addr(0, ix.tree, "wots", 0, 0, 0, 0)
  BY <1>1, Fits, Setters
<1>3. SetKeypair(Addr(0, ix.tree, "wots", 0, 0, 0, 0), ix.leaf) = Addr(0, ix.tree, "wots", ix.leaf, 0, 0, 0)
  BY <1>1, Fits, Setters
<1>4. CopyKeypair(Addr(0, 0, "wots", 0, 0, 0, 0), Addr(0, ix.tree, "wots", ix.leaf, 0, 0, 0))
        = Addr(0, ix.tree, "wots", ix.leaf, 0, 0, 0)
  BY Copies
<1>5. ForsAddr(ix) = Addr(0, ix.tree, "wots", ix.leaf, 0, 0, 0)
  BY <1>2, <1>3, <1>4, Setters DEF ForsAddr
<1> DEFINE hi == (x \div AddrByte) % AddrByte ^ 3
           lo == x % AddrByte
<1>6. SetTreeHeight(Addr(0, ix.tree, "wots", ix.leaf, 0, 0, 0), 0) = Addr(0, ix.tree, "wots", ix.leaf, 0, 0, 0)
  BY Fits, Setters
<1>7. SetTreeIndex(Addr(0, ix.tree, "wots", ix.leaf, 0, 0, 0), x) = Addr(0, ix.tree, "wots", ix.leaf, 0, hi, lo)
  <2> HIDE DEF x
  <2> QED
    BY Setters
<1>8. ForsNode(d, ix, j + 1) = Addr(0, ix.tree, "wots", ix.leaf, 0, hi, lo)
  <2>1. ForsNode(d, ix, j + 1) = SetTreeIndex(SetTreeHeight(ForsAddr(ix), 0), x)
    BY DEF ForsNode, SetNode
  <2> HIDE DEF x, hi, lo
  <2> QED
    BY <1>5, <1>6, <1>7, <2>1
<1> HIDE DEF x, hi, lo
<1>9. SetType(Addr(0, ix.tree, "wots", ix.leaf, 0, hi, lo), "forstree") = Addr(0, ix.tree, "forstree", ix.leaf, 0, hi, lo)
  BY Setters
<1>10. ForsOffset(j + 1) = j * ForsSize
  <2>1. (j + 1) - 1 = j
    OBVIOUS
  <2> QED
    BY <2>1 DEF ForsOffset, ForsSize
<1>11. t = TreeHash("fors", ForsIndex(d, j + 1), j * ForsSize, ForsHeight, Addr(0, ix.tree, "forstree", ix.leaf, 0, hi, lo),
                    Addr(0, ix.tree, "wots", ix.leaf, 0, 0, 0), Nothing)
  BY <1>5, <1>8, <1>9, <1>10 DEF ForsHash
<1> HIDE DEF t
<1>12. Growing(t)
  BY <1>11, Grows, SizesOK
<1>13. ForsTree(t, ix.tree, ix.leaf, j)
  BY <1>11 DEF TreeHash, ForsTree
<1> QED
  BY <1>12, <1>13 DEF t

\* The places that sign: of a digest, and a layer up.
LEMMA IndexOfIs == ASSUME NEW d \in Digests PROVE IndexOf(d) \in SignPlaces
<1> DEFINE m == 2 ^ (TreeHeight * (Layers - 1))
           n == 2 ^ TreeHeight
<1>1. m \in Nat \ {0} /\ n \in Nat \ {0}
  <2>1. TreeHeight * (Layers - 1) \in Nat /\ TreeHeight \in Nat
    BY SizesOK
  <2> QED
    BY <2>1, PowerPositive
<1>2. BytesToUll(d.tree) \in Nat /\ BytesToUll(d.leaf) \in Nat
  BY DigestAssumption
<1> HIDE DEF m, n
<1>3. \A x \in Nat : x % m \in 0..(m - 1) /\ x % n \in 0..(n - 1)
  BY <1>1
<1>4. BytesToUll(d.tree) % m \in TheTrees /\ BytesToUll(d.leaf) % n \in TheLeaves
  BY <1>2, <1>3 DEF TheTrees, TheLeaves, m, n
<1> QED
  BY <1>4 DEF IndexOf, SignPlaces, m, n

LEMMA AboveIs == ASSUME NEW ix \in SignPlaces PROVE Above(ix) \in SignPlaces
<1> DEFINE m == 2 ^ (TreeHeight * (Layers - 1))
           n == 2 ^ TreeHeight
           x == ix.tree
<1>1. m \in Nat \ {0} /\ n \in Nat \ {0}
  <2>1. TreeHeight * (Layers - 1) \in Nat /\ TreeHeight \in Nat
    BY SizesOK
  <2> QED
    BY <2>1, PowerPositive
<1>2. x \in Nat /\ x <= m - 1
  BY <1>1 DEF SignPlaces, TheTrees
<1> HIDE DEF m, n, x
<1>3. x % n \in 0..(n - 1) /\ x \div n \in 0..(m - 1)
  <2>1. x % n \in 0..(n - 1) /\ x \div n \in Nat /\ x \div n <= x
    BY <1>1, <1>2
  <2> QED
    BY <1>1, <1>2, <2>1
<1>4. x % n \in TheLeaves /\ x \div n \in TheTrees
  BY <1>3 DEF TheTrees, TheLeaves, m, n
<1> QED
  BY <1>4 DEF Above, SignPlaces, n, x

\* The addresses of a layer's place.
LEMMA MerkleAt ==
  ASSUME NEW l \in TheLayers, NEW ix \in SignPlaces, NEW leaf
  PROVE  OneTimeTree(MerkleHash(TreeAddr(l, ix), WotsAddr(l, ix), leaf), l, ix)
<1>1. l % AddrByte = l /\ ix.tree % AddrByte ^ 8 = ix.tree /\ ix.leaf % AddrByte ^ 2 = ix.leaf
  BY Fits DEF SignPlaces
<1>2. SetLayer(NoAddr, l) = Addr(l, 0, "wots", 0, 0, 0, 0)
  BY <1>1, Setters
<1>3. SetTree(Addr(l, 0, "wots", 0, 0, 0, 0), ix.tree) = Addr(l, ix.tree, "wots", 0, 0, 0, 0)
  BY <1>1, Setters
<1>4. TreeAddr(l, ix) = Addr(l, ix.tree, "wots", 0, 0, 0, 0)
  BY <1>2, <1>3 DEF TreeAddr
<1>5. CopySubtree(NoAddr, Addr(l, ix.tree, "wots", 0, 0, 0, 0)) = Addr(l, ix.tree, "wots", 0, 0, 0, 0)
  BY Setters, Copies
<1>6. SetKeypair(Addr(l, ix.tree, "wots", 0, 0, 0, 0), ix.leaf) = Addr(l, ix.tree, "wots", ix.leaf, 0, 0, 0)
  BY <1>1, Setters
<1>7. WotsAddr(l, ix) = Addr(l, ix.tree, "wots", ix.leaf, 0, 0, 0)
  BY <1>4, <1>5, <1>6 DEF WotsAddr
<1>8. WotsTree(MerkleHash(TreeAddr(l, ix), WotsAddr(l, ix), leaf), l, ix.tree)
         /\ Growing(MerkleHash(TreeAddr(l, ix), WotsAddr(l, ix), leaf))
  BY <1>4, <1>7, MerkleHashIs
<1> QED
  BY <1>8 DEF OneTimeTree

LEMMA FirstFors ==
  ASSUME NEW d, NEW ix \in SignPlaces
  PROVE  FewTimeTree(ForsHash(d, ix, 1), ix, <<>>)
<1>1. ForsTree(ForsHash(d, ix, 1), ix.tree, ix.leaf, 0) /\ Growing(ForsHash(d, ix, 1))
  <2>1. ForsTree(ForsHash(d, ix, 0 + 1), ix.tree, ix.leaf, 0) /\ Growing(ForsHash(d, ix, 0 + 1))
    BY ForsHashIs
  <2>2. 0 + 1 = 1
    OBVIOUS
  <2> QED
    BY <2>1, <2>2
<1>2. Len(<<>>) = 0 /\ <<>> \in Seq({})
  OBVIOUS
<1>3. 0 \in TheForest
  BY SizesOK DEF TheForest
<1> QED
  BY <1>1, <1>2, <1>3 DEF FewTimeTree

LEMMA NextFors ==
  ASSUME NEW t, NEW ix \in SignPlaces, NEW f, FewTimeTree(t, ix, f), Len(f) + 1 < ForsTrees, NEW d, NEW root
  PROVE  FewTimeTree(ForsHash(d, ix, Len(f) + 2), ix, Append(f, root))
<1>1. PICK S : f \in Seq(S)
  BY DEF FewTimeTree
<1> DEFINE g == Append(f, root)
<1>2. g \in Seq(S \cup {root}) /\ Len(g) = Len(f) + 1 /\ Len(f) \in Nat
  BY <1>1
<1> HIDE DEF g
<1>3. Len(g) \in TheForest
  BY <1>2, SizesOK DEF TheForest
<1>4. ForsTree(ForsHash(d, ix, Len(g) + 1), ix.tree, ix.leaf, Len(g)) /\ Growing(ForsHash(d, ix, Len(g) + 1))
  <2>1. Len(g) \in Nat
    BY <1>2
  <2> QED
    BY <2>1, ForsHashIs
<1>5. Len(g) + 1 = Len(f) + 2
  BY <1>2
<1>6. FewTimeTree(ForsHash(d, ix, Len(f) + 2), ix, g)
  BY <1>2, <1>3, <1>4, <1>5 DEF FewTimeTree
<1> QED
  BY <1>6 DEF g

LEMMA SlhStart == SlhInit => SlhInv
<1> SUFFICES ASSUME SlhInit PROVE SlhInv
  OBVIOUS
<1>1. layer \in 0..Layers
  BY SizesOK DEF SlhInit
<1>2. index \in SignPlaces /\ index.tree = 0
  BY Fits DEF SlhInit, SignPlaces
<1>3. AllKnown(calls)
  BY FS_EmptySet DEF SlhInit, AllKnown
<1>4. work = "none"
  BY DEF SlhInit
<1> QED
  BY <1>1, <1>2, <1>3, <1>4 DEF SlhInv

LEMMA SeedKeypairKeeps == ASSUME SlhInv, SeedKeypair PROVE SlhInv'
<1>1. work' = "keygen" /\ layer' = Layers - 1 /\ index' = index /\ calls' = calls
      /\ hashing' = MerkleHash(SetLayer(NoAddr, Layers - 1), SetLayer(NoAddr, Layers - 1), NoLeaf)
  BY DEF SeedKeypair
<1>2. index \in SignPlaces /\ index.tree = 0 /\ AllKnown(calls)
  BY DEF SeedKeypair, SlhInv
<1>3. Layers - 1 \in TheLayers /\ Layers - 1 \in 0..Layers
  BY SizesOK DEF TheLayers
<1>4. (Layers - 1) % AddrByte = Layers - 1
  BY <1>3, Fits
<1>5. SetLayer(NoAddr, Layers - 1) = Addr(Layers - 1, 0, "wots", 0, 0, 0, 0)
  BY <1>4, Setters
<1>6. WotsTree(hashing', Layers - 1, 0) /\ Growing(hashing')
  <2>1. \A t : t = hashing' => WotsTree(t, Layers - 1, 0) /\ Growing(t)
    BY <1>1, <1>5, MerkleHashIs
  <2> QED
    BY <2>1
<1>7. OneTimeTree(hashing', layer', index')
  <2>1. \A t : WotsTree(t, Layers - 1, index.tree) /\ Growing(t) => OneTimeTree(t, Layers - 1, index)
    BY <1>3 DEF OneTimeTree
  <2> QED
    BY <1>1, <1>2, <1>6, <2>1
<1> QED
  BY <1>1, <1>2, <1>3, <1>7 DEF SlhInv

\* What a new leaf leaves of the tree.
LEMMA Grown ==
  ASSUME NEW t, DOMAIN t = TreeFields, NEW n, NEW stack, NEW path, NEW root
  PROVE  LET u == [t EXCEPT !.next = n, !.stack = stack, !.path = path, !.root = root]
         IN  /\ DOMAIN u = TreeFields /\ u.next = n /\ u.root = root
             /\ u.of = t.of /\ u.height = t.height /\ u.offset = t.offset /\ u.addr = t.addr
             /\ u.leafAddr = t.leafAddr /\ u.pkAddr = t.pkAddr
BY DEF TreeFields

SameTree(u, t) ==
  /\ u.of = t.of /\ u.height = t.height /\ u.offset = t.offset /\ u.addr = t.addr
  /\ u.leafAddr = t.leafAddr /\ u.pkAddr = t.pkAddr

LEMMA LeafGrows ==
  ASSUME TreeLeaf, Growing(hashing), hashing.height \in Nat \ {0}
  PROVE  /\ hashing.next \in 0..(2 ^ hashing.height - 1)
         /\ ClimbEnd(hashing.next, hashing.height) \in 0..hashing.height
         /\ \E u : u = hashing' /\ Growing(u) /\ SameTree(u, hashing)
<1> DEFINE t    == hashing
           idx  == t.next
           size == 2 ^ t.height
           top  == ClimbEnd(idx, t.height)
           new  == Climb(t, idx, top)[top]
           root == IF top = t.height THEN new ELSE t.root
<1>1. t.root = Nothing /\ DOMAIN t = TreeFields /\ idx \in Nat /\ idx < size
  BY DEF TreeLeaf, Running, Growing
<1>2. size \in Nat
  BY PowerPositive
<1>3. idx \in 0..(size - 1)
  <2> HIDE DEF size, idx
  <2> QED
    BY <1>1, <1>2
<1>4. top \in 0..t.height /\ (~(idx < size - 1) => top = t.height)
  BY ClimbTop
<1>5. \E stack, path : hashing' = [t EXCEPT !.next = idx + 1, !.stack = stack, !.path = path, !.root = root]
  BY DEF TreeLeaf
<1>6. PICK stack, path : hashing' = [t EXCEPT !.next = idx + 1, !.stack = stack, !.path = path, !.root = root]
  BY <1>5
<1> DEFINE u == [t EXCEPT !.next = idx + 1, !.stack = stack, !.path = path, !.root = root]
<1>7. DOMAIN u = TreeFields /\ u.next = idx + 1 /\ u.root = root /\ SameTree(u, t)
  <2> HIDE DEF root, idx
  <2> QED
    BY <1>1, Grown DEF SameTree
<1>8. hashing' = u
  BY <1>6
<1>9. u.root = Nothing => u.next < 2 ^ u.height
  <2>1. u.height = t.height
    BY <1>7 DEF SameTree
  <2>2. CASE top = t.height
    <3>1. new # Nothing
      <4>1. top \in Nat \ {0}
        BY <2>2
      <4> HIDE DEF top, t, idx
      <4> QED
        BY <4>1, ClimbRoot
    <3>2. root = new
      BY <2>2
    <3> QED
      BY <1>7, <3>1, <3>2
  <2>3. CASE top # t.height
    <3>1. idx < size - 1
      BY <1>4, <2>3
    <3>2. idx + 1 < size
      <4> HIDE DEF idx, size
      <4> QED
        BY <1>1, <1>2, <3>1
    <3> QED
      BY <1>7, <2>1, <3>2
  <2> QED
    BY <2>2, <2>3
<1>10. u.next \in Nat
  <2> HIDE DEF u, idx
  <2> QED
    BY <1>1, <1>7
<1>11. Growing(u)
  <2> HIDE DEF u
  <2> QED
    BY <1>7, <1>9, <1>10 DEF Growing
<1> QED
  <2> HIDE DEF u
  <2> QED
    BY <1>3, <1>4, <1>7, <1>8, <1>11

LEMMA TreeLeafKeeps == ASSUME SlhInv, TreeLeaf PROVE SlhInv'
<1> DEFINE t   == hashing
           idx == t.next
           top == ClimbEnd(idx, t.height)
<1>1. work' = work /\ index' = index /\ layer' = layer /\ forest' = forest
  BY DEF TreeLeaf
<1>2. calls' = calls \cup LeafCalls(t, idx) \cup NodeCalls(t, idx, top)
  BY DEF TreeLeaf
<1>3. work \in {"keygen", "merkle"} \/ work = "fors"
  BY DEF TreeLeaf, Running
<1>4. index \in SignPlaces /\ layer \in 0..Layers /\ AllKnown(calls) /\ index.tree \in TheTrees /\ index.leaf \in TheLeaves
  BY DEF SlhInv, SignPlaces
<1>5. TreeHeight \in Nat \ {0} /\ ForsHeight \in Nat \ {0}
  BY SlhAssumption DEF SlhAssumption
<1>6. CASE work \in {"keygen", "merkle"}
  <2>1. layer \in TheLayers /\ WotsTree(t, layer, index.tree) /\ Growing(t)
    BY <1>6 DEF SlhInv, OneTimeTree
  <2>2. t.of = "wots" /\ t.height = TreeHeight
    BY <2>1 DEF WotsTree
  <2>3. idx \in TheLeaves /\ top \in 0..TreeHeight /\ \E u : u = hashing' /\ Growing(u) /\ SameTree(u, t)
    BY <1>5, <2>1, <2>2, LeafGrows DEF TheLeaves
  <2>4. AllKnown(LeafCalls(t, idx)) /\ AllKnown(NodeCalls(t, idx, top))
    <3>1. LeafCalls(t, idx) = WotsCalls(t, idx)
      BY <2>2 DEF LeafCalls
    <3> HIDE DEF t, idx, top
    <3> QED
      BY <1>4, <2>1, <2>3, <3>1, WotsLeafKnown, WotsNodesKnown
  <2>5. AllKnown(calls')
    <3>1. AllKnown(calls \cup LeafCalls(t, idx))
      BY <1>4, <2>4, UnionKnown
    <3>2. AllKnown(calls \cup LeafCalls(t, idx) \cup NodeCalls(t, idx, top))
      BY <2>4, <3>1, UnionKnown
    <3> HIDE DEF t, idx, top
    <3> QED
      BY <1>2, <3>2
  <2>6. OneTimeTree(hashing', layer', index')
    <3>1. PICK u : u = hashing' /\ Growing(u) /\ SameTree(u, t)
      BY <2>3
    <3>2. OneTimeTree(u, layer, index)
      BY <2>1, <3>1 DEF SameTree, WotsTree, OneTimeTree
    <3> QED
      BY <1>1, <3>1, <3>2
  <2>7. work' # "none" /\ work' # "fors" /\ layer' \in 0..Layers /\ index' \in SignPlaces
    BY <1>1, <1>4, <1>6
  <2> QED
    BY <2>5, <2>6, <2>7 DEF SlhInv
<1>7. CASE work = "fors"
  <2> DEFINE j == Len(forest)
  <2>1. j \in TheForest /\ ForsTree(t, index.tree, index.leaf, j) /\ Growing(t) /\ \E S : forest \in Seq(S)
    BY <1>7 DEF SlhInv, FewTimeTree
  <2>2. t.of = "fors" /\ t.height = ForsHeight
    BY <2>1 DEF ForsTree
  <2>3. idx \in 0..(ForsSize - 1) /\ top \in 0..ForsHeight /\ \E u : u = hashing' /\ Growing(u) /\ SameTree(u, t)
    BY <1>5, <2>1, <2>2, LeafGrows DEF ForsSize
  <2>4. AllKnown(LeafCalls(t, idx)) /\ AllKnown(NodeCalls(t, idx, top))
    <3>1. LeafCalls(t, idx) = ForsCalls(t, idx)
      BY <2>2 DEF LeafCalls
    <3> HIDE DEF t, idx, top, j
    <3> QED
      BY <1>4, <2>1, <2>3, <3>1, ForsLeafKnown, ForsNodesKnown
  <2>5. AllKnown(calls')
    <3>1. AllKnown(calls \cup LeafCalls(t, idx))
      BY <1>4, <2>4, UnionKnown
    <3>2. AllKnown(calls \cup LeafCalls(t, idx) \cup NodeCalls(t, idx, top))
      BY <2>4, <3>1, UnionKnown
    <3> HIDE DEF t, idx, top
    <3> QED
      BY <1>2, <3>2
  <2>6. FewTimeTree(hashing', index', forest')
    <3>1. PICK u : u = hashing' /\ Growing(u) /\ SameTree(u, t)
      BY <2>3
    <3>2. ForsTree(u, index.tree, index.leaf, j)
      BY <2>1, <3>1 DEF SameTree, ForsTree
    <3>3. FewTimeTree(u, index, forest)
      BY <2>1, <3>1, <3>2 DEF FewTimeTree
    <3> QED
      BY <1>1, <3>1, <3>3
  <2>7. work' = "fors" /\ layer' = 0 /\ layer' \in 0..Layers /\ index' \in SignPlaces
    BY <1>1, <1>4, <1>7 DEF SlhInv
  <2> QED
    BY <2>5, <2>6, <2>7 DEF SlhInv
<1> QED
  BY <1>3, <1>6, <1>7

LEMMA SignKeeps == ASSUME SlhInv, Sign PROVE SlhInv'
<1>1. PICK d \in Digests : index' = IndexOf(d) /\ hashing' = ForsHash(d, IndexOf(d), 1)
  BY DEF Sign
<1>2. work' = "fors" /\ layer' = 0 /\ forest' = <<>> /\ calls' = calls
  BY DEF Sign
<1>3. IndexOf(d) \in SignPlaces
  BY IndexOfIs
<1>4. FewTimeTree(ForsHash(d, IndexOf(d), 1), IndexOf(d), <<>>)
  BY <1>3, FirstFors
<1>5. FewTimeTree(hashing', index', forest')
  BY <1>1, <1>2, <1>4
<1>6. layer' \in 0..Layers /\ index' \in SignPlaces
  BY <1>1, <1>2, <1>3, SizesOK
<1>7. AllKnown(calls')
  BY <1>2 DEF SlhInv
<1> QED
  BY <1>2, <1>5, <1>6, <1>7 DEF SlhInv

LEMMA NextForsTreeKeeps == ASSUME SlhInv, NextForsTree PROVE SlhInv'
<1>1. work = "fors" /\ Len(forest) + 1 < ForsTrees
  BY DEF NextForsTree, Finished
<1>2. /\ work' = "fors" /\ layer' = layer /\ index' = index /\ calls' = calls
      /\ forest' = Append(forest, hashing.root) /\ hashing' = ForsHash(digest, index, Len(forest) + 2)
  BY <1>1 DEF NextForsTree
<1>3. FewTimeTree(hashing, index, forest) /\ index \in SignPlaces /\ layer = 0 /\ layer \in 0..Layers /\ AllKnown(calls)
  BY <1>1 DEF SlhInv
<1>4. FewTimeTree(ForsHash(digest, index, Len(forest) + 2), index, Append(forest, hashing.root))
  BY <1>1, <1>3, NextFors
<1>5. FewTimeTree(hashing', index', forest')
  BY <1>2, <1>4
<1> QED
  BY <1>2, <1>3, <1>5 DEF SlhInv

LEMMA ForsKeyKnown == ASSUME NEW ix \in SignPlaces PROVE AllKnown({<<ForsPkAddr(ix), <<"forsKey", ix.tree, ix.leaf>> >>})
<1>1. ix.tree \in TheTrees /\ ix.leaf \in TheLeaves
  BY DEF SignPlaces
<1>2. SetTree(NoAddr, ix.tree) = Addr(0, ix.tree, "wots", 0, 0, 0, 0)
  BY <1>1, Fits, Setters
<1>3. SetKeypair(Addr(0, ix.tree, "wots", 0, 0, 0, 0), ix.leaf) = Addr(0, ix.tree, "wots", ix.leaf, 0, 0, 0)
  BY <1>1, Fits, Setters
<1>4. CopyKeypair(NoAddr, Addr(0, ix.tree, "wots", ix.leaf, 0, 0, 0)) = Addr(0, ix.tree, "wots", ix.leaf, 0, 0, 0)
  BY Copies, Setters
<1>5. SetType(Addr(0, ix.tree, "wots", ix.leaf, 0, 0, 0), "forspk") = Addr(0, ix.tree, "forspk", ix.leaf, 0, 0, 0)
  BY Setters
<1>6. <<ForsPkAddr(ix), <<"forsKey", ix.tree, ix.leaf>> >> = ForsKeyCall(ix.tree, ix.leaf)
  BY <1>2, <1>3, <1>4, <1>5 DEF ForsPkAddr, ForsAddr, ForsKeyCall
<1>7. IsForsKey(ForsKeyCall(ix.tree, ix.leaf))
  BY <1>1 DEF IsForsKey
<1> QED
  BY <1>6, <1>7, FS_Singleton DEF AllKnown, KnownCall

LEMMA ForestDoneKeeps == ASSUME SlhInv, ForestDone PROVE SlhInv'
<1>1. work = "fors" /\ work' = "merkle" /\ layer' = layer /\ index' = index
  BY DEF ForestDone, Finished
<1>2. calls' = calls \cup {<<ForsPkAddr(index), <<"forsKey", index.tree, index.leaf>> >>}
  BY DEF ForestDone
<1>3. hashing' = MerkleHash(TreeAddr(0, index), WotsAddr(0, index), index.leaf)
  BY DEF ForestDone, SignRoot
<1>4. index \in SignPlaces /\ AllKnown(calls) /\ layer = 0
  BY <1>1 DEF SlhInv
<1>5. AllKnown(calls')
  BY <1>2, <1>4, ForsKeyKnown, UnionKnown
<1>6. 0 \in TheLayers /\ 0 \in 0..Layers
  BY SizesOK DEF TheLayers
<1>7. OneTimeTree(MerkleHash(TreeAddr(0, index), WotsAddr(0, index), index.leaf), 0, index)
  BY <1>4, <1>6, MerkleAt
<1>8. OneTimeTree(hashing', layer', index')
  BY <1>1, <1>3, <1>4, <1>7
<1> QED
  BY <1>1, <1>4, <1>5, <1>6, <1>8 DEF SlhInv

LEMMA NextLayerKeeps == ASSUME SlhInv, NextLayer PROVE SlhInv'
<1>1. work = "merkle" /\ work' = "merkle" /\ layer' = layer + 1 /\ index' = Above(index) /\ calls' = calls
      /\ layer + 1 < Layers
  BY DEF NextLayer, Finished
<1>2. hashing' = MerkleHash(TreeAddr(layer + 1, Above(index)), WotsAddr(layer + 1, Above(index)), Above(index).leaf)
  BY DEF NextLayer, SignRoot
<1>3. index \in SignPlaces /\ AllKnown(calls) /\ layer \in 0..Layers
  BY DEF SlhInv
<1>4. Above(index) \in SignPlaces
  BY <1>3, AboveIs
<1>5. layer + 1 \in TheLayers /\ layer + 1 \in 0..Layers
  BY <1>1, <1>3, SizesOK DEF TheLayers
<1>6. OneTimeTree(MerkleHash(TreeAddr(layer + 1, Above(index)), WotsAddr(layer + 1, Above(index)), Above(index).leaf),
                  layer + 1, Above(index))
  BY <1>4, <1>5, MerkleAt
<1>7. OneTimeTree(hashing', layer', index')
  BY <1>1, <1>2, <1>6
<1> QED
  BY <1>1, <1>3, <1>4, <1>5, <1>7 DEF SlhInv

\* A step that hashes no tree.
LEMMA RestKeeps ==
  ASSUME SlhInv, layer' \in 0..Layers, index' \in SignPlaces, calls' = calls,
         work' \in {"keyed", "signed", "verify", "accepted", "refused"}
  PROVE  SlhInv'
BY DEF SlhInv

LEMMA SlhKeeps == SlhInv /\ [SlhNext]_slhVars => SlhInv'
<1> SUFFICES ASSUME SlhInv, [SlhNext]_slhVars PROVE SlhInv'
  OBVIOUS
<1>0. layer \in 0..Layers /\ index \in SignPlaces
  BY DEF SlhInv
<1>1. CASE KeypairDone
  BY <1>0, <1>1, RestKeeps DEF KeypairDone
<1>2. CASE SignDone
  BY <1>0, <1>2, RestKeeps DEF SignDone
<1>3. CASE VerifyForest
  <2>1. PICK d \in Digests : index' = IndexOf(d)
    BY <1>3 DEF VerifyForest
  <2>2. index' \in SignPlaces
    BY <2>1, IndexOfIs
  <2>3. layer' \in 0..Layers
    BY <1>3, SizesOK DEF VerifyForest
  <2> QED
    BY <1>3, <2>2, <2>3, RestKeeps DEF VerifyForest
<1>4. CASE VerifyLayer
  <2>1. layer < Layers /\ layer' = layer + 1 /\ index' = Above(index) /\ work' = "verify" /\ calls' = calls
    BY <1>4 DEF VerifyLayer
  <2>2. layer' \in 0..Layers
    BY <1>0, <2>1, SizesOK
  <2>3. index' \in SignPlaces
    BY <1>0, <2>1, AboveIs
  <2> QED
    BY <2>1, <2>2, <2>3, RestKeeps
<1>5. CASE Compare
  <2>1. work' \in {"accepted", "refused"}
    BY <1>5 DEF Compare
  <2> QED
    BY <1>0, <1>5, <2>1, RestKeeps DEF Compare
<1>6. CASE UNCHANGED slhVars
  BY <1>6 DEF SlhInv, slhVars
<1> QED
  BY <1>1, <1>2, <1>3, <1>4, <1>5, <1>6, SeedKeypairKeeps, TreeLeafKeeps, SignKeeps, NextForsTreeKeeps, ForestDoneKeeps,
     NextLayerKeeps DEF SlhNext

\* No two hashes that the key's owner computes share an address unless they are the same
\* hash of the same place, and none is computed under two addresses: what address.c writes
\* into the bytes of an address, left over bytes and shared ones included, tells the layer,
\* the tree, the leaf, the height and the index apart, for every size whose numbers fit.
THEOREM AddressesAreApart == SlhSpec => []AddressesApart
<1>1. SlhInv => AddressesApart
  BY KnownApart DEF SlhInv, AllKnown, AddressesApart
<1> QED
  BY <1>1, SlhStart, SlhKeeps, PTL DEF SlhSpec
-----------------------------------------------------------------------------
(* Encodings: sums and ranks.                                               *)

LEMMA SumStep ==
  ASSUME NEW f, NEW n \in Nat
  PROVE  SumTo(f, 0) = 0 /\ SumTo(f, n + 1) = SumTo(f, n) + f[n + 1]
<1> DEFINE Part(w, m) == IF m = 0 THEN 0 ELSE w[m - 1] + f[m]
           Sums(w, l) == w = [m \in 0..l |-> Part(w, m)]
           Done       == {l \in Nat : \E w : Sums(w, l)}
<1>1. 0 \in Done
  <2> DEFINE w == [m \in 0..0 |-> 0]
  <2>1. Sums(w, 0)
    OBVIOUS
  <2> QED
    BY <2>1
<1>2. ASSUME NEW l \in Nat, l \in Done PROVE l + 1 \in Done
  <2>1. PICK w : Sums(w, l)
    BY <1>2
  <2> DEFINE x == [m \in 0..(l + 1) |-> Part(w, m)]
  <2>2. \A m \in 0..l : x[m] = w[m]
    <3> HIDE DEF Part
    <3> QED
      BY <2>1
  <2>3. \A m \in 0..(l + 1) : m # 0 => m - 1 \in 0..l
    OBVIOUS
  <2>4. Sums(x, l + 1)
    <3>1. \A m \in 0..(l + 1) : Part(w, m) = Part(x, m)
      <4> SUFFICES ASSUME NEW m \in 0..(l + 1) PROVE Part(w, m) = Part(x, m)
        OBVIOUS
      <4>1. m # 0 => x[m - 1] = w[m - 1]
        BY <2>2, <2>3
      <4> HIDE DEF x
      <4> QED
        BY <4>1
    <3> DEFINE y == [m \in 0..(l + 1) |-> Part(x, m)]
    <3> HIDE DEF Part
    <3>2. x = y
      BY <3>1
    <3> HIDE DEF x
    <3> QED
      BY <3>2
  <2>5. \E g : Sums(g, l + 1)
    BY <2>4
  <2> HIDE DEF Sums, x
  <2> QED
    BY <2>5
<1> HIDE DEF Done
<1>3. Nat \subseteq Done
  BY <1>1, <1>2, Induction
<1> DEFINE k(l) == CHOOSE w : Sums(w, l)
<1>4. \A l \in Nat : Sums(k(l), l)
  <2> SUFFICES ASSUME NEW l \in Nat PROVE Sums(k(l), l)
    OBVIOUS
  <2>1. \E w : Sums(w, l)
    BY <1>3 DEF Done
  <2> HIDE DEF Sums
  <2> QED
    BY <2>1
<1>5. \A l \in Nat : SumTo(f, l) = k(l)[l]
  BY DEF SumTo
<1>6. \A l \in Nat : k(l)[0] = 0 /\ \A m \in 1..l : k(l)[m] = k(l)[m - 1] + f[m]
  <2> SUFFICES ASSUME NEW l \in Nat PROVE k(l)[0] = 0 /\ \A m \in 1..l : k(l)[m] = k(l)[m - 1] + f[m]
    OBVIOUS
  <2> DEFINE w == k(l)
  <2>1. Sums(w, l)
    BY <1>4
  <2> HIDE DEF w
  <2>2. w[0] = 0 /\ \A m \in 1..l : w[m] = w[m - 1] + f[m]
    <3>1. 0 \in 0..l /\ \A m \in 1..l : m \in 0..l /\ m # 0
      OBVIOUS
    <3> QED
      BY <2>1, <3>1
  <2> QED
    BY <2>2 DEF w
<1> HIDE DEF k
<1>7. \A m \in Nat : m <= n => k(n)[m] = k(n + 1)[m]
  <2> DEFINE Agreed == {m \in Nat : m <= n => k(n)[m] = k(n + 1)[m]}
  <2>1. 0 \in Agreed
    BY <1>6
  <2>2. ASSUME NEW m \in Nat, m \in Agreed PROVE m + 1 \in Agreed
    <3> SUFFICES ASSUME m + 1 <= n PROVE k(n)[m + 1] = k(n + 1)[m + 1]
      OBVIOUS
    <3>1. m + 1 \in 1..n /\ m + 1 \in 1..(n + 1) /\ (m + 1) - 1 = m /\ n + 1 \in Nat
      OBVIOUS
    <3> QED
      BY <1>6, <2>2, <3>1
  <2> HIDE DEF Agreed
  <2>3. Nat \subseteq Agreed
    BY <2>1, <2>2, Induction
  <2> QED
    BY <2>3 DEF Agreed
<1>8. n + 1 \in 1..(n + 1) /\ (n + 1) - 1 = n /\ n + 1 \in Nat
  OBVIOUS
<1>9. k(n + 1)[n + 1] = k(n + 1)[n] + f[n + 1] /\ k(n + 1)[n] = k(n)[n]
  BY <1>6, <1>7, <1>8
<1> QED
  BY <1>5, <1>6, <1>8, <1>9

LEMMA SumGrows ==
  ASSUME NEW l \in Nat, NEW f \in [1..l -> Nat]
  PROVE  /\ \A m \in 0..l : SumTo(f, m) \in Nat
         /\ \A m \in 0..l : \A n \in 0..m : SumTo(f, n) <= SumTo(f, m)
<1> DEFINE Good == {m \in Nat : m <= l => \A n \in 0..m : SumTo(f, n) \in Nat /\ SumTo(f, n) <= SumTo(f, m)}
<1>1. 0 \in Good
  <2>1. SumTo(f, 0) = 0
    BY SumStep
  <2> QED
    BY <2>1
<1>2. ASSUME NEW m \in Nat, m \in Good PROVE m + 1 \in Good
  <2> SUFFICES ASSUME m + 1 <= l, NEW n \in 0..(m + 1)
               PROVE  SumTo(f, n) \in Nat /\ SumTo(f, n) <= SumTo(f, m + 1)
    OBVIOUS
  <2>1. SumTo(f, m) \in Nat
    BY <1>2
  <2>2. SumTo(f, m + 1) = SumTo(f, m) + f[m + 1] /\ f[m + 1] \in Nat
    BY SumStep
  <2>3. CASE n = m + 1
    BY <2>1, <2>2, <2>3
  <2>4. CASE n \in 0..m
    <3>1. SumTo(f, n) \in Nat /\ SumTo(f, n) <= SumTo(f, m)
      BY <1>2, <2>4
    <3> QED
      BY <2>1, <2>2, <3>1
  <2> QED
    BY <2>3, <2>4
<1> HIDE DEF Good
<1>3. Nat \subseteq Good
  BY <1>1, <1>2, Induction
<1> QED
  BY <1>3 DEF Good

\* The rank of a number in a set, and the number of a rank.
Rank(s, x) == Cardinality({y \in s : y < x})

LEMMA RankLess ==
  ASSUME NEW s \in SUBSET Nat, IsFiniteSet(s), NEW x \in s, NEW y \in s, x < y
  PROVE  Rank(s, x) < Rank(s, y)
<1> DEFINE A == {z \in s : z < x}
           B == {z \in s : z < y}
<1>1. IsFiniteSet(A) /\ IsFiniteSet(B)
  <2>1. A \in SUBSET s /\ B \in SUBSET s
    OBVIOUS
  <2> QED
    BY <2>1, FS_Subset
<1>2. A \cup {x} \in SUBSET B /\ x \notin A
  <2>1. x \in Nat /\ y \in Nat /\ \A z \in s : z \in Nat
    OBVIOUS
  <2>2. \A z \in s : z < x => z < y
    BY <2>1
  <2>3. ~(x < x)
    BY <2>1
  <2> QED
    BY <2>2, <2>3
<1> HIDE DEF A, B
<1>3. Cardinality(A \cup {x}) = Cardinality(A) + 1 /\ Cardinality(A) \in Nat
  BY <1>1, <1>2, FS_AddElement, FS_CardinalityType
<1>4. Cardinality(A \cup {x}) <= Cardinality(B) /\ Cardinality(B) \in Nat
  BY <1>1, <1>2, FS_Subset, FS_CardinalityType
<1> QED
  BY <1>3, <1>4 DEF A, B, Rank

LEMMA RankIs ==
  ASSUME NEW s \in SUBSET Nat, IsFiniteSet(s)
  PROVE  /\ \A x \in s : Rank(s, x) \in 0..(Cardinality(s) - 1)
         /\ \A x, y \in s : Rank(s, x) = Rank(s, y) => x = y
         /\ \A n \in 0..(Cardinality(s) - 1) : \E x \in s : Rank(s, x) = n
<1> DEFINE ranks == 0..(Cardinality(s) - 1)
           f     == [x \in s |-> Rank(s, x)]
<1>0. Cardinality(s) \in Nat
  BY FS_CardinalityType
<1>1. ASSUME NEW x \in s PROVE Rank(s, x) \in ranks
  <2> DEFINE A == {z \in s : z < x}
  <2>1. A \in SUBSET s /\ A # s
    OBVIOUS
  <2> HIDE DEF A
  <2>2. IsFiniteSet(A) /\ Cardinality(A) <= Cardinality(s) /\ Cardinality(A) # Cardinality(s)
    BY <2>1, FS_Subset
  <2>3. Cardinality(A) \in Nat
    BY <2>2, FS_CardinalityType
  <2> QED
    BY <1>0, <2>2, <2>3 DEF A, Rank
<1>2. ASSUME NEW x \in s, NEW y \in s, Rank(s, x) = Rank(s, y) PROVE x = y
  <2>1. ~(x < y) /\ ~(y < x)
    BY <1>0, <1>1, <1>2, RankLess
  <2> QED
    BY <2>1
<1>3. f \in Injection(s, ranks)
  <2> HIDE DEF ranks
  <2> QED
    BY <1>1, <1>2 DEF Injection, IsInjective
<1>4. IsFiniteSet(ranks) /\ Cardinality(ranks) = Cardinality(s)
  <2>1. 0 \in Int /\ Cardinality(s) - 1 \in Int
    BY <1>0
  <2>2. IsFiniteSet(ranks) /\ Cardinality(ranks) = IF 0 > Cardinality(s) - 1 THEN 0 ELSE (Cardinality(s) - 1) - 0 + 1
    BY <2>1, FS_Interval
  <2> QED
    BY <1>0, <2>2
<1>5. f \in Surjection(s, ranks)
  <2> HIDE DEF f, ranks
  <2> QED
    BY <1>3, <1>4, FS_Injection
<1>6. ASSUME NEW n \in ranks PROVE \E x \in s : Rank(s, x) = n
  BY <1>5 DEF Surjection
<1> QED
  BY <1>1, <1>2, <1>6

LEMMA NthIs ==
  ASSUME NEW s \in SUBSET Nat, IsFiniteSet(s)
  PROVE  /\ \A n \in 0..(Cardinality(s) - 1) : NthOf(s, n) \in s /\ Rank(s, NthOf(s, n)) = n
         /\ \A x \in s : NthOf(s, Rank(s, x)) = x
<1>1. \A n : NthOf(s, n) = CHOOSE x \in s : Rank(s, x) = n
  BY DEF NthOf, Rank
<1>2. \A n \in 0..(Cardinality(s) - 1) : NthOf(s, n) \in s /\ Rank(s, NthOf(s, n)) = n
  BY <1>1, RankIs
<1>3. ASSUME NEW x \in s PROVE NthOf(s, Rank(s, x)) = x
  <2> DEFINE n == Rank(s, x)
  <2>1. n \in 0..(Cardinality(s) - 1)
    BY RankIs
  <2>2. NthOf(s, n) \in s /\ Rank(s, NthOf(s, n)) = Rank(s, x)
    BY <1>2, <2>1
  <2>3. \A a, b \in s : Rank(s, a) = Rank(s, b) => a = b
    BY RankIs
  <2> HIDE DEF n
  <2>4. NthOf(s, n) = x
    BY <2>2, <2>3
  <2> QED
    BY <2>4 DEF n
<1> QED
  BY <1>2, <1>3

GrowingList(s, first, last, S) ==
  /\ \A j \in first..(last - 1) : s[j] \in Nat
  /\ \A j \in (first + 1)..(last - 1) : s[j - 1] < s[j]
  /\ S = {s[j] : j \in first..(last - 1)}

\* A list that grows: its members, how many, and which is the n-th.
LEMMA ListRank ==
  ASSUME NEW first \in Nat, NEW last \in Nat, first <= last, NEW s, NEW S, GrowingList(s, first, last, S)
  PROVE  /\ S \in SUBSET Nat /\ IsFiniteSet(S) /\ Cardinality(S) = last - first
         /\ \A j \in first..(last - 1) : NthOf(S, j - first) = s[j]
<1> DEFINE places == first..(last - 1)
           f == [j \in places |-> s[j]]
           Later == {d \in Nat : \A i \in places : i + d \in places => d = 0 \/ s[i] < s[i + d]}
<1>0. /\ \A j \in first..(last - 1) : s[j] \in Nat
      /\ \A j \in (first + 1)..(last - 1) : s[j - 1] < s[j]
      /\ S = {s[j] : j \in first..(last - 1)}
  BY DEF GrowingList
<1>1. \A i, j \in places : i < j => s[i] < s[j]
  <2>1. 0 \in Later
    OBVIOUS
  <2>2. ASSUME NEW d \in Nat, d \in Later PROVE d + 1 \in Later
    <3> SUFFICES ASSUME NEW i \in places, i + (d + 1) \in places PROVE s[i] < s[i + (d + 1)]
      OBVIOUS
    <3>1. i + d \in places /\ i + (d + 1) \in (first + 1)..(last - 1) /\ (i + (d + 1)) - 1 = i + d
      OBVIOUS
    <3>2. s[i + d] < s[i + (d + 1)] /\ s[i] \in Nat /\ s[i + d] \in Nat /\ s[i + (d + 1)] \in Nat
      BY <1>0, <3>1
    <3>3. d = 0 \/ s[i] < s[i + d]
      BY <2>2, <3>1
    <3>4. d = 0 => s[i + d] = s[i]
      OBVIOUS
    <3> QED
      BY <3>2, <3>3, <3>4
  <2> HIDE DEF Later
  <2>3. Nat \subseteq Later
    BY <2>1, <2>2, Induction
  <2> SUFFICES ASSUME NEW i \in places, NEW j \in places, i < j PROVE s[i] < s[j]
    OBVIOUS
  <2>4. j - i \in Nat /\ j - i # 0 /\ i + (j - i) = j
    OBVIOUS
  <2> QED
    BY <2>3, <2>4 DEF Later
<1>2. S \in SUBSET Nat
  BY <1>0
<1>3. f \in Surjection(places, S) /\ f \in Injection(places, S)
  <2>1. \A i, j \in places : s[i] = s[j] => i = j
    <3> SUFFICES ASSUME NEW i \in places, NEW j \in places, s[i] = s[j] PROVE i = j
      OBVIOUS
    <3>1. ~(i < j) /\ ~(j < i)
      BY <1>0, <1>1
    <3> QED
      BY <1>0, <3>1
  <2> QED
    BY <1>0, <2>1 DEF Surjection, Injection, IsInjective
<1>4. IsFiniteSet(places) /\ Cardinality(places) = last - first
  <2>1. first \in Int /\ last - 1 \in Int
    OBVIOUS
  <2>2. IsFiniteSet(places) /\ Cardinality(places) = IF first > last - 1 THEN 0 ELSE (last - 1) - first + 1
    BY <2>1, FS_Interval
  <2> QED
    BY <2>2
<1>5. IsFiniteSet(S) /\ Cardinality(S) = last - first
  <2> HIDE DEF f, places
  <2> QED
    BY <1>3, <1>4, FS_Surjection
<1>6. ASSUME NEW j \in places PROVE NthOf(S, j - first) = s[j]
  <2> DEFINE before == first..(j - 1)
             A == {y \in S : y < s[j]}
             g == [i \in before |-> s[i]]
  <2>1. g \in Surjection(before, A) /\ g \in Injection(before, A)
    <3>1. before \subseteq places /\ \A i \in before : i < j
      OBVIOUS
    <3>2. \A i \in before : s[i] \in A
      BY <1>0, <1>1, <3>1
    <3>3. ASSUME NEW y \in A PROVE \E i \in before : s[i] = y
      <4>1. PICK i \in places : y = s[i]
        BY <1>0
      <4>2. ~(i = j) /\ ~(j < i)
        BY <1>0, <1>1, <3>3, <4>1
      <4>3. i \in before
        BY <4>2
      <4> QED
        BY <4>1, <4>3
    <3>4. \A i, k \in before : s[i] = s[k] => i = k
      BY <1>3, <3>1 DEF Injection, IsInjective
    <3> HIDE DEF A, before
    <3> QED
      BY <3>2, <3>3, <3>4 DEF Surjection, Injection, IsInjective
  <2>2. IsFiniteSet(before) /\ Cardinality(before) = j - first
    <3>1. first \in Int /\ j - 1 \in Int
      OBVIOUS
    <3>2. IsFiniteSet(before) /\ Cardinality(before) = IF first > j - 1 THEN 0 ELSE (j - 1) - first + 1
      BY <3>1, FS_Interval
    <3> QED
      BY <3>2
  <2>3. Cardinality(A) = j - first
    <3> HIDE DEF A, before, g
    <3> QED
      BY <2>1, <2>2, FS_Surjection
  <2>4. Rank(S, s[j]) = j - first /\ s[j] \in S
    BY <1>0, <2>3 DEF Rank
  <2> QED
    BY <1>2, <1>5, <2>4, NthIs
<1> QED
  BY <1>2, <1>5, <1>6

-----------------------------------------------------------------------------
(* Encodings: hints.                                                        *)

LEMMA PackSizes == Places \in Nat \ {0} /\ Rows \in Nat \ {0} /\ OMEGA \in Nat /\ OMEGA < Places
BY PackAssumption DEF PackAssumption

Hints      == [1..Rows -> SUBSET (0..(Places - 1))]
HintBytes  == [0..(OMEGA + Rows - 1) -> 0..(Places - 1)]

LEMMA RowsAreFinite ==
  ASSUME NEW h \in Hints, NEW i \in 1..Rows
  PROVE  h[i] \in SUBSET Nat /\ IsFiniteSet(h[i]) /\ Cardinality(h[i]) \in Nat
<1>1. h[i] \in SUBSET (0..(Places - 1)) /\ h[i] \in SUBSET Nat
  BY PackSizes DEF Hints
<1>2. IsFiniteSet(0..(Places - 1))
  <2>1. 0 \in Int /\ Places - 1 \in Int
    BY PackSizes
  <2> QED
    BY <2>1, FS_Interval
<1>3. IsFiniteSet(h[i])
  BY <1>1, <1>2, FS_Subset
<1> QED
  BY <1>1, <1>3, FS_CardinalityType

\* The hints up to a row, counted.
LEMMA OnesStep ==
  ASSUME NEW h \in Hints
  PROVE  /\ OnesUpTo(h, 0) = 0
         /\ \A i \in 1..Rows : OnesUpTo(h, i) = OnesUpTo(h, i - 1) + Cardinality(h[i])
         /\ \A i \in 0..Rows : OnesUpTo(h, i) \in Nat
         /\ \A i \in 0..Rows : \A k \in 0..i : OnesUpTo(h, k) <= OnesUpTo(h, i)
<1> DEFINE f == [n \in DOMAIN h |-> Cardinality(h[n])]
<1>1. f \in [1..Rows -> Nat] /\ \A i \in 1..Rows : f[i] = Cardinality(h[i])
  BY RowsAreFinite DEF Hints
<1>2. \A i : OnesUpTo(h, i) = SumTo(f, i)
  BY DEF OnesUpTo
<1> HIDE DEF f
<1>3. /\ \A i \in 0..Rows : SumTo(f, i) \in Nat
      /\ \A i \in 0..Rows : \A k \in 0..i : SumTo(f, k) <= SumTo(f, i)
  BY <1>1, SumGrows, PackSizes
<1>4. ASSUME NEW i \in 1..Rows PROVE SumTo(f, i) = SumTo(f, i - 1) + f[i]
  <2>1. i - 1 \in Nat /\ (i - 1) + 1 = i
    OBVIOUS
  <2>2. SumTo(f, (i - 1) + 1) = SumTo(f, i - 1) + f[(i - 1) + 1]
    BY <2>1, SumStep
  <2> QED
    BY <2>1, <2>2
<1>5. SumTo(f, 0) = 0
  BY SumStep
<1> QED
  BY <1>1, <1>2, <1>3, <1>4, <1>5

\* The row of a place in the list of ones.
RowAt(h, j) == CHOOSE i \in 1..Rows : OnesUpTo(h, i - 1) <= j /\ j < OnesUpTo(h, i)

LEMMA RowIs ==
  ASSUME NEW h \in Hints, NEW j \in Nat, j < OnesUpTo(h, Rows)
  PROVE  /\ RowAt(h, j) \in 1..Rows /\ OnesUpTo(h, RowAt(h, j) - 1) <= j /\ j < OnesUpTo(h, RowAt(h, j))
         /\ \A i \in 1..Rows : OnesUpTo(h, i - 1) <= j /\ j < OnesUpTo(h, i) => i = RowAt(h, j)
<1> DEFINE In(i) == OnesUpTo(h, i - 1) <= j /\ j < OnesUpTo(h, i)
           S == {i \in 0..Rows : j < OnesUpTo(h, i)}
<1>1. \E i \in 1..Rows : In(i)
  <2>1. S \subseteq Nat /\ Rows \in S
    BY PackSizes
  <2>2. PICK i \in S : \A n \in S : <<n, i>> \notin Below
    <3>1. IsWellFoundedOn(Below, Nat) /\ S # {}
      BY <2>1, BelowIsWellFounded
    <3> HIDE DEF S
    <3> QED
      BY <2>1, <3>1, WFMin
  <2>3. i # 0
    BY <2>2, OnesStep
  <2>4. i \in 1..Rows /\ i - 1 \in 0..Rows /\ i - 1 \in Nat /\ i \in Nat /\ i - 1 < i
    BY <2>2, <2>3, PackSizes
  <2>5. i - 1 \notin S
    BY <2>2, <2>4 DEF Below
  <2>6. OnesUpTo(h, i - 1) \in Nat
    BY <2>4, OnesStep
  <2>7. ~(j < OnesUpTo(h, i - 1))
    BY <2>4, <2>5
  <2>8. OnesUpTo(h, i - 1) <= j
    BY <2>6, <2>7
  <2>9. j < OnesUpTo(h, i)
    BY <2>2
  <2> QED
    BY <2>4, <2>8, <2>9
<1>2. ASSUME NEW i \in 1..Rows, NEW k \in 1..Rows, In(i), In(k), i < k PROVE FALSE
  <2>1. i \in 0..(k - 1) /\ k - 1 \in 0..Rows /\ i \in 0..Rows
    BY <1>2, PackSizes
  <2>2. OnesUpTo(h, i) <= OnesUpTo(h, k - 1) /\ OnesUpTo(h, i) \in Nat /\ OnesUpTo(h, k - 1) \in Nat
    BY <2>1, OnesStep
  <2> QED
    BY <1>2, <2>2
<1>3. \A i, k \in 1..Rows : In(i) /\ In(k) => i = k
  <2> SUFFICES ASSUME NEW i \in 1..Rows, NEW k \in 1..Rows, In(i), In(k) PROVE i = k
    OBVIOUS
  <2>1. ~(i < k) /\ ~(k < i)
    BY <1>2
  <2> QED
    BY <2>1
<1>4. RowAt(h, j) = CHOOSE i \in 1..Rows : In(i)
  BY DEF RowAt
<1>5. RowAt(h, j) \in 1..Rows /\ In(RowAt(h, j))
  <2> HIDE DEF In
  <2> QED
    BY <1>1, <1>4
<1> QED
  BY <1>3, <1>5

LEMMA EncodeIs ==
  ASSUME NEW h
  PROVE  /\ DOMAIN EncodeHints(h) = 0..(OMEGA + Rows - 1)
         /\ \A j \in 0..(OMEGA + Rows - 1) : j >= OMEGA => EncodeHints(h)[j] = OnesUpTo(h, j - OMEGA + 1)
         /\ \A j \in 0..(OMEGA + Rows - 1) :
              ~(j >= OMEGA) /\ j >= OnesUpTo(h, Rows) => EncodeHints(h)[j] = 0
         /\ \A j \in 0..(OMEGA + Rows - 1) :
              ~(j >= OMEGA) /\ ~(j >= OnesUpTo(h, Rows)) =>
                EncodeHints(h)[j] = NthOf(h[RowAt(h, j)], j - OnesUpTo(h, RowAt(h, j) - 1))
BY DEF EncodeHints, RowAt

\* What pack_sig writes of a row, unpack_sig reads.
LEMMA RowBytes ==
  ASSUME NEW h \in Hints, OnesUpTo(h, Rows) <= OMEGA, NEW s, s = EncodeHints(h), NEW i \in 1..Rows
  PROVE  /\ Ends(s, i) = OnesUpTo(h, i) /\ Begins(s, i) = OnesUpTo(h, i - 1)
         /\ OnesUpTo(h, i) \in Nat /\ OnesUpTo(h, i - 1) \in Nat
         /\ OnesUpTo(h, i - 1) <= OnesUpTo(h, i) /\ OnesUpTo(h, i) <= OMEGA
         /\ OnesUpTo(h, i) = OnesUpTo(h, i - 1) + Cardinality(h[i])
         /\ \A j \in OnesUpTo(h, i - 1)..(OnesUpTo(h, i) - 1) : s[j] = NthOf(h[i], j - OnesUpTo(h, i - 1))
<1>0. i \in Nat /\ Rows \in Nat /\ OMEGA \in Nat /\ i - 1 \in 0..Rows /\ i \in 0..Rows /\ i - 1 \in 0..i /\ Rows \in 0..Rows
      /\ i \in 0..Rows
  BY PackSizes
<1>1. /\ OnesUpTo(h, i) \in Nat /\ OnesUpTo(h, i - 1) \in Nat
      /\ OnesUpTo(h, i - 1) <= OnesUpTo(h, i) /\ OnesUpTo(h, Rows) \in Nat
      /\ OnesUpTo(h, i) = OnesUpTo(h, i - 1) + Cardinality(h[i])
      /\ OnesUpTo(h, i) <= OnesUpTo(h, Rows)
  BY <1>0, OnesStep
<1>2. \A k \in 1..Rows : s[OMEGA + k - 1] = OnesUpTo(h, k)
  <2> SUFFICES ASSUME NEW k \in 1..Rows PROVE s[OMEGA + k - 1] = OnesUpTo(h, k)
    OBVIOUS
  <2>1. OMEGA + k - 1 \in 0..(OMEGA + Rows - 1) /\ OMEGA + k - 1 >= OMEGA /\ (OMEGA + k - 1) - OMEGA + 1 = k
    BY <1>0
  <2>2. s[OMEGA + k - 1] = OnesUpTo(h, (OMEGA + k - 1) - OMEGA + 1)
    BY <2>1, EncodeIs
  <2> QED
    BY <2>1, <2>2
<1>3. Ends(s, i) = OnesUpTo(h, i)
  BY <1>2 DEF Ends
<1>4. Begins(s, i) = OnesUpTo(h, i - 1)
  <2>1. CASE i = 1
    BY <2>1, OnesStep DEF Begins
  <2>2. CASE i # 1
    <3>1. i - 1 \in 1..Rows /\ OMEGA + i - 2 = OMEGA + (i - 1) - 1
      BY <1>0, <2>2
    <3> QED
      BY <1>2, <2>2, <3>1 DEF Begins
  <2> QED
    BY <2>1, <2>2
<1>5. ASSUME NEW j \in OnesUpTo(h, i - 1)..(OnesUpTo(h, i) - 1)
      PROVE  s[j] = NthOf(h[i], j - OnesUpTo(h, i - 1))
  <2>1. j \in Nat /\ OnesUpTo(h, i - 1) <= j /\ j < OnesUpTo(h, i) /\ j < OnesUpTo(h, Rows) /\ j < OMEGA
    BY <1>0, <1>1
  <2>2. j \in 0..(OMEGA + Rows - 1) /\ ~(j >= OMEGA) /\ ~(j >= OnesUpTo(h, Rows))
    BY <1>0, <1>1, <2>1, PackSizes
  <2>3. RowAt(h, j) = i
    BY <2>1, RowIs
  <2>4. s[j] = NthOf(h[RowAt(h, j)], j - OnesUpTo(h, RowAt(h, j) - 1))
    BY <2>2, EncodeIs
  <2> QED
    BY <2>3, <2>4
<1> QED
  BY <1>0, <1>1, <1>3, <1>4, <1>5

LEMMA PackedIsRead ==
  ASSUME NEW h \in Hints, OnesUpTo(h, Rows) <= OMEGA, NEW s, s = EncodeHints(h)
  PROVE  ~Malformed(s) /\ DecodeHints(s) = h
<1>1. ASSUME NEW i \in 1..Rows PROVE ~(Ends(s, i) < Begins(s, i)) /\ ~(Ends(s, i) > OMEGA)
  BY RowBytes, PackSizes
<1>2. ASSUME NEW i \in 1..Rows, NEW j \in (Begins(s, i) + 1)..(Ends(s, i) - 1) PROVE ~(s[j] <= s[j - 1])
  <2> DEFINE b == OnesUpTo(h, i - 1)
             e == OnesUpTo(h, i)
  <2>1. /\ Ends(s, i) = e /\ Begins(s, i) = b /\ b \in Nat /\ e \in Nat /\ e = b + Cardinality(h[i])
        /\ \A k \in b..(e - 1) : s[k] = NthOf(h[i], k - b)
    BY RowBytes
  <2> HIDE DEF b, e
  <2>2. j \in b..(e - 1) /\ j - 1 \in b..(e - 1) /\ j - b \in 0..(Cardinality(h[i]) - 1)
        /\ (j - 1) - b \in 0..(Cardinality(h[i]) - 1) /\ (j - 1) - b < j - b
    BY <2>1, RowsAreFinite
  <2> DEFINE x == NthOf(h[i], (j - 1) - b)
             y == NthOf(h[i], j - b)
  <2>3. x \in h[i] /\ y \in h[i] /\ Rank(h[i], x) = (j - 1) - b /\ Rank(h[i], y) = j - b
    BY <2>2, RowsAreFinite, NthIs
  <2>4. s[j] = y /\ s[j - 1] = x
    BY <2>1, <2>2
  <2> HIDE DEF x, y
  <2>5. x \in Nat /\ y \in Nat /\ j - b \in Int /\ (j - 1) - b \in Int
    BY <2>2, <2>3, RowsAreFinite
  <2>6. x # y
    BY <2>2, <2>3, <2>5
  <2>7. ~(y < x)
    <3>1. y < x => Rank(h[i], y) < Rank(h[i], x)
      BY <2>3, RowsAreFinite, RankLess
    <3> QED
      BY <2>2, <2>3, <2>5, <3>1
  <2> QED
    BY <2>4, <2>5, <2>6, <2>7
<1>3. ASSUME NEW j \in Ends(s, Rows)..(OMEGA - 1) PROVE s[j] = 0
  <2>1. Rows \in 1..Rows
    BY PackSizes
  <2>2. Ends(s, Rows) = OnesUpTo(h, Rows) /\ OnesUpTo(h, Rows) \in Nat
    BY <2>1, RowBytes
  <2>3. j \in 0..(OMEGA + Rows - 1) /\ ~(j >= OMEGA) /\ j >= OnesUpTo(h, Rows)
    BY <2>2, PackSizes
  <2> QED
    BY <2>3, EncodeIs
<1>4. ASSUME NEW i \in 1..Rows PROVE {s[j] : j \in Begins(s, i)..(Ends(s, i) - 1)} = h[i]
  <2> DEFINE b == OnesUpTo(h, i - 1)
             e == OnesUpTo(h, i)
             c == Cardinality(h[i])
  <2>1. /\ Ends(s, i) = e /\ Begins(s, i) = b /\ b \in Nat /\ e \in Nat /\ e = b + c
        /\ \A k \in b..(e - 1) : s[k] = NthOf(h[i], k - b)
    BY RowBytes
  <2>2. c \in Nat
    BY RowsAreFinite
  <2> HIDE DEF b, e, c
  <2>3. \A k \in b..(e - 1) : k - b \in 0..(c - 1)
    BY <2>1, <2>2
  <2>4. \A k \in b..(e - 1) : s[k] \in h[i]
    <3>1. \A n \in 0..(c - 1) : NthOf(h[i], n) \in h[i]
      BY RowsAreFinite, NthIs DEF c
    <3> QED
      BY <2>1, <2>3, <3>1
  <2>5. ASSUME NEW x \in h[i] PROVE \E k \in b..(e - 1) : s[k] = x
    <3> DEFINE n == Rank(h[i], x)
    <3>1. n \in 0..(c - 1) /\ NthOf(h[i], n) = x
      BY RowsAreFinite, RankIs, NthIs DEF c
    <3> HIDE DEF n
    <3>2. b + n \in b..(e - 1) /\ (b + n) - b = n
      BY <2>1, <2>2, <3>1
    <3>3. s[b + n] = x
      BY <2>1, <3>1, <3>2
    <3> QED
      BY <3>2, <3>3
  <2> QED
    BY <2>1, <2>4, <2>5
<1>5. DecodeHints(s) = [i \in 1..Rows |-> h[i]]
  BY <1>4 DEF DecodeHints
<1> QED
  BY <1>1, <1>2, <1>3, <1>5 DEF Malformed, Hints

\* What unpack_sig accepts is what pack_sig writes of what was read.
LEMMA ReadRow ==
  ASSUME NEW s \in HintBytes, ~Malformed(s), NEW i \in 1..Rows
  PROVE  /\ Begins(s, i) \in Nat /\ Ends(s, i) \in Nat /\ Begins(s, i) <= Ends(s, i) /\ Ends(s, i) <= OMEGA
         /\ DecodeHints(s)[i] \in SUBSET (0..(Places - 1)) /\ Cardinality(DecodeHints(s)[i]) = Ends(s, i) - Begins(s, i)
         /\ \A j \in Begins(s, i)..(Ends(s, i) - 1) : NthOf(DecodeHints(s)[i], j - Begins(s, i)) = s[j]
<1> DEFINE b == Begins(s, i)
           e == Ends(s, i)
           S == DecodeHints(s)[i]
<1>0. \A j \in 0..(OMEGA + Rows - 1) : s[j] \in 0..(Places - 1) /\ s[j] \in Nat
  BY PackSizes DEF HintBytes
<1>1. b \in Nat /\ e \in Nat
  <2>1. OMEGA + i - 1 \in 0..(OMEGA + Rows - 1) /\ (i # 1 => OMEGA + i - 2 \in 0..(OMEGA + Rows - 1))
    BY PackSizes
  <2> QED
    BY <1>0, <2>1 DEF Begins, Ends
<1>2. ~(e < b) /\ ~(e > OMEGA)
  BY DEF Malformed
<1>3. \A j \in (b + 1)..(e - 1) : ~(s[j] <= s[j - 1])
  BY DEF Malformed
<1>4. S = {s[j] : j \in b..(e - 1)}
  BY DEF DecodeHints
<1> HIDE DEF b, e, S
<1>5. b <= e /\ e <= OMEGA
  BY <1>1, <1>2, PackSizes
<1>6. \A j \in b..(e - 1) : j \in 0..(OMEGA + Rows - 1)
  BY <1>1, <1>5, PackSizes
<1>7. \A j \in (b + 1)..(e - 1) : s[j - 1] < s[j]
  <2> SUFFICES ASSUME NEW j \in (b + 1)..(e - 1) PROVE s[j - 1] < s[j]
    OBVIOUS
  <2>1. j \in b..(e - 1) /\ j - 1 \in b..(e - 1)
    BY <1>1
  <2>2. s[j] \in Nat /\ s[j - 1] \in Nat
    BY <1>0, <1>6, <2>1
  <2> QED
    BY <1>3, <2>2
<1>8. Cardinality(S) = e - b /\ \A j \in b..(e - 1) : NthOf(S, j - b) = s[j]
  <2>1. \A j \in b..(e - 1) : s[j] \in Nat
    BY <1>0, <1>6
  <2>2. GrowingList(s, b, e, S)
    BY <1>4, <1>7, <2>1 DEF GrowingList
  <2> QED
    BY <1>1, <1>5, <2>2, ListRank
<1>9. S \in SUBSET (0..(Places - 1))
  BY <1>0, <1>4, <1>6
<1> QED
  BY <1>1, <1>5, <1>8, <1>9 DEF b, e, S

LEMMA ReadIsPacked ==
  ASSUME NEW s \in HintBytes, ~Malformed(s)
  PROVE  EncodeHints(DecodeHints(s)) = s
<1> DEFINE h == DecodeHints(s)
           Counted == {i \in Nat : i \in 1..Rows => OnesUpTo(h, i) = Ends(s, i)}
<1>0. h \in Hints
  <2>1. h = [i \in 1..Rows |-> h[i]]
    BY DEF DecodeHints
  <2> HIDE DEF h
  <2>2. \A i \in 1..Rows : h[i] \in SUBSET (0..(Places - 1))
    BY ReadRow DEF h
  <2> QED
    BY <2>1, <2>2 DEF Hints
<1>1. \A i \in 1..Rows : /\ Begins(s, i) \in Nat /\ Ends(s, i) \in Nat /\ Begins(s, i) <= Ends(s, i) /\ Ends(s, i) <= OMEGA
                         /\ Cardinality(h[i]) = Ends(s, i) - Begins(s, i)
                         /\ \A j \in Begins(s, i)..(Ends(s, i) - 1) : NthOf(h[i], j - Begins(s, i)) = s[j]
  BY ReadRow
<1> HIDE DEF h
<1>2. \A i \in 1..Rows : Begins(s, i) = IF i = 1 THEN 0 ELSE Ends(s, i - 1)
  <2>1. \A i \in 1..Rows : OMEGA + i - 2 = OMEGA + (i - 1) - 1
    BY PackSizes
  <2> QED
    BY <2>1 DEF Begins, Ends
<1>3. 0 \in Counted
  OBVIOUS
<1>4. ASSUME NEW i \in Nat, i \in Counted PROVE i + 1 \in Counted
  <2> SUFFICES ASSUME i + 1 \in 1..Rows PROVE OnesUpTo(h, i + 1) = Ends(s, i + 1)
    OBVIOUS
  <2>1. OnesUpTo(h, i + 1) = OnesUpTo(h, i) + Cardinality(h[i + 1])
    <3>1. (i + 1) - 1 = i
      OBVIOUS
    <3> QED
      BY <1>0, <3>1, OnesStep
  <2>2. OnesUpTo(h, i) = Begins(s, i + 1)
    <3>1. CASE i = 0
      BY <1>0, <1>2, <3>1, OnesStep
    <3>2. CASE i # 0
      <4>1. i \in 1..Rows /\ i + 1 # 1 /\ (i + 1) - 1 = i
        BY <3>2, PackSizes
      <4> QED
        BY <1>2, <1>4, <4>1
    <3> QED
      BY <3>1, <3>2
  <2> QED
    BY <1>1, <2>1, <2>2
<1>5. \A i \in 1..Rows : OnesUpTo(h, i) = Ends(s, i)
  <2> HIDE DEF Counted
  <2>1. Nat \subseteq Counted
    BY <1>3, <1>4, Induction
  <2> QED
    BY <2>1 DEF Counted
<1>6. \A i \in 1..Rows : OnesUpTo(h, i - 1) = Begins(s, i)
  <2> SUFFICES ASSUME NEW i \in 1..Rows PROVE OnesUpTo(h, i - 1) = Begins(s, i)
    OBVIOUS
  <2>1. CASE i = 1
    BY <1>0, <1>2, <2>1, OnesStep
  <2>2. CASE i # 1
    <3>1. i - 1 \in 1..Rows
      BY <2>2, PackSizes
    <3> QED
      BY <1>2, <1>5, <2>2, <3>1
  <2> QED
    BY <2>1, <2>2
<1>7. ASSUME NEW j \in 0..(OMEGA + Rows - 1) PROVE EncodeHints(h)[j] = s[j]
  <2>0. j \in Nat /\ OMEGA \in Nat /\ Rows \in Nat /\ Rows \in 1..Rows /\ OnesUpTo(h, Rows) \in Nat
    BY <1>1, <1>5, PackSizes
  <2>1. CASE j >= OMEGA
    <3>1. j - OMEGA + 1 \in 1..Rows /\ OMEGA + (j - OMEGA + 1) - 1 = j
      BY <2>0, <2>1
    <3>2. EncodeHints(h)[j] = OnesUpTo(h, j - OMEGA + 1)
      BY <2>1, EncodeIs
    <3> QED
      BY <1>5, <3>1, <3>2 DEF Ends
  <2>2. CASE ~(j >= OMEGA) /\ j >= OnesUpTo(h, Rows)
    <3>1. EncodeHints(h)[j] = 0
      BY <2>2, EncodeIs
    <3>2. j \in Ends(s, Rows)..(OMEGA - 1)
      BY <1>5, <2>0, <2>2
    <3>3. s[j] = 0
      BY <3>2 DEF Malformed
    <3> QED
      BY <3>1, <3>3
  <2>3. CASE ~(j >= OMEGA) /\ ~(j >= OnesUpTo(h, Rows))
    <3> DEFINE i == RowAt(h, j)
    <3>1. j < OnesUpTo(h, Rows)
      BY <2>0, <2>3
    <3>2. i \in 1..Rows /\ OnesUpTo(h, i - 1) <= j /\ j < OnesUpTo(h, i)
      BY <1>0, <2>0, <3>1, RowIs
    <3>3. EncodeHints(h)[j] = NthOf(h[i], j - OnesUpTo(h, i - 1))
      BY <2>3, EncodeIs
    <3> HIDE DEF i
    <3>4. j \in Begins(s, i)..(Ends(s, i) - 1)
      BY <1>1, <1>5, <1>6, <2>0, <3>2
    <3> QED
      BY <1>1, <1>6, <3>2, <3>3, <3>4
  <2> QED
    BY <2>1, <2>2, <2>3
<1>8. DOMAIN EncodeHints(h) = 0..(OMEGA + Rows - 1) /\ EncodeHints(h) = [j \in 0..(OMEGA + Rows - 1) |-> EncodeHints(h)[j]]
  BY EncodeIs DEF EncodeHints
<1> DEFINE g == EncodeHints(h)
<1> HIDE DEF g
<1>9. g = s
  BY <1>7, <1>8 DEF g, HintBytes
<1> QED
  BY <1>9 DEF g, h

-----------------------------------------------------------------------------
(* Encodings: coefficients.                                                 *)

\* The bits of coefficient c and of byte i share a place of the stream of bits, in which a
\* coefficient comes after the other, low bits first, and a byte after the other.
Meet(f, c, i) == 8 * i < c * f.bits + f.bits /\ c * f.bits < 8 * i + 8

\* What packing and unpacking or together is where the stream has it, and all of it.
AlignedByte(f, i) ==
  /\ \A p \in f.pack[i + 1] : p[1] \in 0..(f.coeffs - 1) /\ p[2] = p[1] * f.bits - 8 * i
  /\ \A c \in 0..(f.coeffs - 1) : Meet(f, c, i) => \E p \in f.pack[i + 1] : p[1] = c
AlignedCoeff(f, c) ==
  /\ \A q \in f.unpack[c + 1] : q[1] \in 0..(f.bytes - 1) /\ q[2] = 8 * q[1] - c * f.bits
  /\ \A i \in 0..(f.bytes - 1) : Meet(f, c, i) => \E q \in f.unpack[c + 1] : q[1] = i
  /\ f.mask[c + 1] = f.bits \/ (c = f.coeffs - 1 /\ f.mask[c + 1] = 32)
AlignedPack(f)   == \A i \in 0..(f.bytes - 1) : AlignedByte(f, i)
AlignedUnpack(f) == \A c \in 0..(f.coeffs - 1) : AlignedCoeff(f, c)
WholeStream(f) ==
  /\ f.bits \in 1..32 /\ f.coeffs \in Nat \ {0} /\ f.bytes \in Nat
  /\ f.coeffs * f.bits = 8 * f.bytes

Plains(f) == [0..(f.coeffs - 1) -> SUBSET (0..(f.bits - 1))]

LEMMA ShiftedIs == \A bits, s, x : x \in Shifted(bits, s) <=> x \in 0..31 /\ \E b \in bits : x = b + s
BY DEF Shifted

LEMMA MergedIs ==
  ASSUME NEW ors, NEW from, NEW x
  PROVE  x \in Merged(ors, from) <=> \E p \in ors : x \in Shifted(from[p[1]], p[2])
BY DEF Merged

LEMMA PackedBit ==
  ASSUME NEW f, WholeStream(f), AlignedPack(f), NEW t \in Plains(f), NEW i \in 0..(f.bytes - 1), NEW k
  PROVE  k \in Packed(f, t)[i] <=> k \in 0..7 /\ \E c \in 0..(f.coeffs - 1) : \E b \in t[c] : b + c * f.bits = k + 8 * i
<1> DEFINE n == f.bits
           m == f.coeffs
<1>1. k \in Packed(f, t)[i] <=> k \in 0..7 /\ \E p \in f.pack[i + 1] : k \in Shifted(t[p[1]], p[2])
  BY MergedIs DEF Packed
<1>2. n \in Nat /\ m \in Nat /\ i \in Nat
  BY DEF WholeStream
<1>3. \A c \in 0..(m - 1) : c \in Nat /\ c * n \in Nat /\ \A b \in t[c] : b \in Nat /\ b < n
  BY <1>2 DEF Plains
<1>4. ASSUME NEW p \in f.pack[i + 1], k \in Shifted(t[p[1]], p[2])
      PROVE  \E c \in 0..(m - 1) : \E b \in t[c] : b + c * n = k + 8 * i
  <2>1. p[1] \in 0..(m - 1) /\ p[2] = p[1] * n - 8 * i
    BY DEF AlignedPack, AlignedByte
  <2>2. PICK b \in t[p[1]] : k = b + p[2]
    BY <1>4, ShiftedIs
  <2>3. b + p[1] * n = k + 8 * i
    BY <1>2, <1>3, <2>1, <2>2
  <2> QED
    BY <2>1, <2>3
<1>5. ASSUME k \in 0..7, NEW c \in 0..(m - 1), NEW b \in t[c], b + c * n = k + 8 * i
      PROVE  \E p \in f.pack[i + 1] : k \in Shifted(t[p[1]], p[2])
  <2>1. Meet(f, c, i)
    <3>1. 8 * i < c * n + n /\ c * n < 8 * i + 8
      BY <1>2, <1>3, <1>5
    <3> QED
      BY <3>1 DEF Meet
  <2>2. PICK p \in f.pack[i + 1] : p[1] = c
    BY <2>1 DEF AlignedPack, AlignedByte
  <2>3. p[2] = c * n - 8 * i
    BY <2>2 DEF AlignedPack, AlignedByte
  <2>4. k = b + p[2] /\ k \in 0..31
    BY <1>2, <1>3, <1>5, <2>3
  <2> QED
    BY <2>2, <2>4, ShiftedIs
<1> QED
  BY <1>1, <1>4, <1>5

LEMMA UnpackedBit ==
  ASSUME NEW f, WholeStream(f), AlignedUnpack(f), NEW a, \A i \in 0..(f.bytes - 1) : a[i] \subseteq 0..7,
         NEW c \in 0..(f.coeffs - 1), NEW x
  PROVE  x \in Unpacked(f, a)[c] <=>
           /\ x \in 0..31 /\ x \in 0..(f.mask[c + 1] - 1)
           /\ \E q \in f.unpack[c + 1] : \E k \in a[q[1]] : x + c * f.bits = k + 8 * q[1]
<1> DEFINE n == f.bits
<1>1. x \in Unpacked(f, a)[c] <=>
        x \in 0..(f.mask[c + 1] - 1) /\ \E q \in f.unpack[c + 1] : x \in Shifted(a[q[1]], q[2])
  BY MergedIs DEF Unpacked
<1>2. n \in Nat /\ c \in Nat /\ c * n \in Nat
  BY DEF WholeStream
<1>3. \A q \in f.unpack[c + 1] : q[1] \in 0..(f.bytes - 1) /\ q[2] = 8 * q[1] - c * n
  BY DEF AlignedUnpack, AlignedCoeff
<1>4. ASSUME NEW q \in f.unpack[c + 1]
      PROVE  x \in Shifted(a[q[1]], q[2]) <=> x \in 0..31 /\ \E k \in a[q[1]] : x + c * n = k + 8 * q[1]
  <2>1. q[1] \in Nat /\ q[2] = 8 * q[1] - c * n /\ a[q[1]] \subseteq 0..7
    BY <1>3
  <2> DEFINE to == q[2]
             from == q[1]
             start == c * n
  <2>2. \A k \in 0..7 : x \in 0..31 => (x = k + to <=> x + start = k + 8 * from)
    <3>1. from \in Nat /\ to = 8 * from - start /\ start \in Nat
      BY <1>2, <2>1
    <3> HIDE DEF from, to, start
    <3> QED
      BY <3>1
  <2> QED
    BY <2>1, <2>2, ShiftedIs
<1> QED
  BY <1>1, <1>4, <1>2

LEMMA UnpackedIsPlain ==
  ASSUME NEW f, WholeStream(f), AlignedPack(f), AlignedUnpack(f), NEW t \in Plains(f)
  PROVE  Unpacked(f, Packed(f, t)) = t
<1> DEFINE n == f.bits
           m == f.coeffs
           a == Packed(f, t)
           u == Unpacked(f, a)
<1>1. n \in Nat \ {0} /\ n <= 32 /\ m \in Nat \ {0} /\ f.bytes \in Nat /\ m * n = 8 * f.bytes
  BY DEF WholeStream
<1>2. \A i \in 0..(f.bytes - 1) : a[i] \subseteq 0..7
  BY DEF Packed
<1>3. \A c \in 0..(m - 1) : c \in Nat /\ c * n \in Nat /\ c * n + n <= m * n
  <2> SUFFICES ASSUME NEW c \in 0..(m - 1) PROVE c \in Nat /\ c * n \in Nat /\ c * n + n <= m * n
    OBVIOUS
  <2> HIDE DEF m, n
  <2>1. c \in Nat /\ c + 1 <= m
    BY <1>1
  <2>2. (c + 1) * n <= m * n
    BY <1>1, <2>1
  <2>3. (c + 1) * n = c * n + n
    BY <1>1, <2>1
  <2>4. c * n \in Nat
    BY <1>1, <2>1
  <2> QED
    BY <2>1, <2>2, <2>3, <2>4
<1>4. \A c \in 0..(m - 1) : \A b \in t[c] : b \in 0..(n - 1)
  BY DEF Plains
<1>5. ASSUME NEW c \in 0..(m - 1), NEW x \in t[c] PROVE x \in u[c]
  <2> DEFINE at == x + c * n
             i == at \div 8
             k == at % 8
  <2>1. x \in Nat /\ x < n /\ c * n \in Nat /\ at \in Nat /\ at < 8 * f.bytes
    BY <1>1, <1>3, <1>4
  <2> HIDE DEF at
  <2>2. i \in Nat /\ k \in 0..7 /\ at = k + 8 * i
    BY <2>1
  <2> HIDE DEF i, k
  <2>3. i \in 0..(f.bytes - 1)
    BY <1>1, <2>1, <2>2
  <2>4. k \in a[i]
    BY <2>2, <2>3, PackedBit DEF at
  <2>5. Meet(f, c, i)
    <3>1. 8 * i < c * n + n /\ c * n < 8 * i + 8
      BY <1>1, <2>1, <2>2 DEF at
    <3> QED
      BY <3>1 DEF Meet
  <2>6. \E q \in f.unpack[c + 1] : q[1] = i
    BY <2>3, <2>5 DEF AlignedUnpack, AlignedCoeff
  <2>7. f.mask[c + 1] = n \/ f.mask[c + 1] = 32
    BY DEF AlignedUnpack, AlignedCoeff
  <2>8. x \in 0..31 /\ x \in 0..(f.mask[c + 1] - 1)
    BY <1>1, <2>1, <2>7
  <2>9. \E q \in f.unpack[c + 1] : \E bit \in a[q[1]] : x + c * f.bits = bit + 8 * q[1]
    BY <2>2, <2>4, <2>6 DEF at
  <2> HIDE DEF a
  <2> QED
    BY <1>2, <2>8, <2>9, UnpackedBit
<1>6. ASSUME NEW c \in 0..(m - 1), NEW x \in u[c] PROVE x \in t[c]
  <2>1. /\ x \in 0..31 /\ x \in 0..(f.mask[c + 1] - 1)
        /\ \E q \in f.unpack[c + 1] : \E bit \in a[q[1]] : x + c * n = bit + 8 * q[1]
    <3> HIDE DEF a
    <3> QED
      BY <1>2, <1>6, UnpackedBit
  <2>2. PICK q \in f.unpack[c + 1] : \E bit \in a[q[1]] : x + c * n = bit + 8 * q[1]
    BY <2>1
  <2>3. q[1] \in 0..(f.bytes - 1)
    BY DEF AlignedUnpack, AlignedCoeff
  <2>4. PICK bit \in a[q[1]] : x + c * n = bit + 8 * q[1]
    BY <2>2
  <2>5. PICK d \in 0..(m - 1) : \E b \in t[d] : b + d * n = bit + 8 * q[1]
    BY <2>3, <2>4, PackedBit
  <2>6. PICK b \in t[d] : b + d * n = x + c * n
    BY <2>4, <2>5
  <2>7. b \in 0..(n - 1) /\ d * n \in Nat /\ c * n \in Nat /\ d * n + n <= m * n
    BY <1>3, <1>4
  <2>8. x \in 0..(n - 1)
    <3>1. CASE f.mask[c + 1] = n
      BY <2>1, <3>1
    <3>2. CASE c = m - 1
      <4>1. c * n + n = m * n
        <5> HIDE DEF m, n
        <5>1. c + 1 = m /\ (c + 1) * n = c * n + n
          BY <1>1, <3>2
        <5> QED
          BY <5>1
      <4> HIDE DEF m, n
      <4>2. x \in Nat /\ b + d * n < m * n
        BY <1>1, <2>1, <2>7
      <4> QED
        BY <1>1, <2>6, <2>7, <4>1, <4>2
    <3> QED
      BY <3>1, <3>2 DEF AlignedUnpack, AlignedCoeff
  <2>9. x = b /\ c = d
    <3>1. c \in Nat /\ d \in Nat
      BY <1>3
    <3> HIDE DEF n, m
    <3> QED
      BY <1>1, <2>6, <2>7, <2>8, <3>1, PlaceTold
  <2> QED
    BY <2>9
<1>7. u = [c \in 0..(m - 1) |-> u[c]]
  BY DEF Unpacked
<1>8. t = [c \in 0..(m - 1) |-> t[c]]
  BY DEF Plains
<1>9. \A c \in 0..(m - 1) : u[c] = t[c]
  <2> HIDE DEF u
  <2> QED
    BY <1>5, <1>6
<1> HIDE DEF u
<1>10. u = t
  BY <1>7, <1>8, <1>9
<1> QED
  BY <1>10 DEF u, a

LEMMA EtaWhole == WholeStream(Eta) /\ AlignedPack(Eta) /\ AlignedUnpack(Eta)
<1>1. Eta.bits = 4 /\ Eta.coeffs = 2 /\ Eta.bytes = 1
  BY DEF Eta
<1>2. AlignedByte(Eta, 0)
  <2>1. Eta.pack[0 + 1] = {<<0, 0>>, <<1, 4>>}
    BY DEF Eta
  <2> QED
    BY <1>1, <2>1 DEF AlignedByte, Meet
<1>3. AlignedCoeff(Eta, 0)
  <2>1. Eta.unpack[0 + 1] = {<<0, 0>>} /\ Eta.mask[0 + 1] = 4
    BY DEF Eta
  <2> QED
    BY <1>1, <2>1 DEF AlignedCoeff, Meet
<1>4. AlignedCoeff(Eta, 1)
  <2>1. Eta.unpack[1 + 1] = {<<0, -4>>} /\ Eta.mask[1 + 1] = 32
    BY DEF Eta
  <2> QED
    BY <1>1, <2>1 DEF AlignedCoeff, Meet
<1>5. WholeStream(Eta)
  BY <1>1 DEF WholeStream
<1>6. AlignedPack(Eta)
  <2>1. \A i \in 0..(Eta.bytes - 1) : i = 0
    BY <1>1
  <2> QED
    BY <2>1, <1>2 DEF AlignedPack
<1>7. AlignedUnpack(Eta)
  <2>1. \A c \in 0..(Eta.coeffs - 1) : c = 0 \/ c = 1
    BY <1>1
  <2> QED
    BY <2>1, <1>3, <1>4 DEF AlignedUnpack
<1> QED
  BY <1>5, <1>6, <1>7

LEMMA T1Whole == WholeStream(T1) /\ AlignedPack(T1) /\ AlignedUnpack(T1)
<1>1. T1.bits = 10 /\ T1.coeffs = 4 /\ T1.bytes = 5
  BY DEF T1
<1>2. AlignedByte(T1, 0)
  <2>1. T1.pack[0 + 1] = {<<0, 0>>}
    BY DEF T1
  <2> QED
    BY <1>1, <2>1 DEF AlignedByte, Meet
<1>3. AlignedByte(T1, 1)
  <2>1. T1.pack[1 + 1] = {<<0, -8>>, <<1, 2>>}
    BY DEF T1
  <2> QED
    BY <1>1, <2>1 DEF AlignedByte, Meet
<1>4. AlignedByte(T1, 2)
  <2>1. T1.pack[2 + 1] = {<<1, -6>>, <<2, 4>>}
    BY DEF T1
  <2> QED
    BY <1>1, <2>1 DEF AlignedByte, Meet
<1>5. AlignedByte(T1, 3)
  <2>1. T1.pack[3 + 1] = {<<2, -4>>, <<3, 6>>}
    BY DEF T1
  <2> QED
    BY <1>1, <2>1 DEF AlignedByte, Meet
<1>6. AlignedByte(T1, 4)
  <2>1. T1.pack[4 + 1] = {<<3, -2>>}
    BY DEF T1
  <2> QED
    BY <1>1, <2>1 DEF AlignedByte, Meet
<1>7. AlignedCoeff(T1, 0)
  <2>1. T1.unpack[0 + 1] = {<<0, 0>>, <<1, 8>>} /\ T1.mask[0 + 1] = 10
    BY DEF T1
  <2> QED
    BY <1>1, <2>1 DEF AlignedCoeff, Meet
<1>8. AlignedCoeff(T1, 1)
  <2>1. T1.unpack[1 + 1] = {<<1, -2>>, <<2, 6>>} /\ T1.mask[1 + 1] = 10
    BY DEF T1
  <2> QED
    BY <1>1, <2>1 DEF AlignedCoeff, Meet
<1>9. AlignedCoeff(T1, 2)
  <2>1. T1.unpack[2 + 1] = {<<2, -4>>, <<3, 4>>} /\ T1.mask[2 + 1] = 10
    BY DEF T1
  <2> QED
    BY <1>1, <2>1 DEF AlignedCoeff, Meet
<1>10. AlignedCoeff(T1, 3)
  <2>1. T1.unpack[3 + 1] = {<<3, -6>>, <<4, 2>>} /\ T1.mask[3 + 1] = 10
    BY DEF T1
  <2> QED
    BY <1>1, <2>1 DEF AlignedCoeff, Meet
<1>11. WholeStream(T1)
  BY <1>1 DEF WholeStream
<1>12. AlignedPack(T1)
  <2>1. \A i \in 0..(T1.bytes - 1) : i = 0 \/ i = 1 \/ i = 2 \/ i = 3 \/ i = 4
    BY <1>1
  <2> QED
    BY <2>1, <1>2, <1>3, <1>4, <1>5, <1>6 DEF AlignedPack
<1>13. AlignedUnpack(T1)
  <2>1. \A c \in 0..(T1.coeffs - 1) : c = 0 \/ c = 1 \/ c = 2 \/ c = 3
    BY <1>1
  <2> QED
    BY <2>1, <1>7, <1>8, <1>9, <1>10 DEF AlignedUnpack
<1> QED
  BY <1>11, <1>12, <1>13

LEMMA T0Whole == WholeStream(T0) /\ AlignedPack(T0) /\ AlignedUnpack(T0)
<1>1. T0.bits = 13 /\ T0.coeffs = 8 /\ T0.bytes = 13
  BY DEF T0
<1>2. AlignedByte(T0, 0)
  <2>1. T0.pack[0 + 1] = {<<0, 0>>}
    BY DEF T0
  <2> QED
    BY <1>1, <2>1 DEF AlignedByte, Meet
<1>3. AlignedByte(T0, 1)
  <2>1. T0.pack[1 + 1] = {<<0, -8>>, <<1, 5>>}
    BY DEF T0
  <2> QED
    BY <1>1, <2>1 DEF AlignedByte, Meet
<1>4. AlignedByte(T0, 2)
  <2>1. T0.pack[2 + 1] = {<<1, -3>>}
    BY DEF T0
  <2> QED
    BY <1>1, <2>1 DEF AlignedByte, Meet
<1>5. AlignedByte(T0, 3)
  <2>1. T0.pack[3 + 1] = {<<1, -11>>, <<2, 2>>}
    BY DEF T0
  <2> QED
    BY <1>1, <2>1 DEF AlignedByte, Meet
<1>6. AlignedByte(T0, 4)
  <2>1. T0.pack[4 + 1] = {<<2, -6>>, <<3, 7>>}
    BY DEF T0
  <2> QED
    BY <1>1, <2>1 DEF AlignedByte, Meet
<1>7. AlignedByte(T0, 5)
  <2>1. T0.pack[5 + 1] = {<<3, -1>>}
    BY DEF T0
  <2> QED
    BY <1>1, <2>1 DEF AlignedByte, Meet
<1>8. AlignedByte(T0, 6)
  <2>1. T0.pack[6 + 1] = {<<3, -9>>, <<4, 4>>}
    BY DEF T0
  <2> QED
    BY <1>1, <2>1 DEF AlignedByte, Meet
<1>9. AlignedByte(T0, 7)
  <2>1. T0.pack[7 + 1] = {<<4, -4>>}
    BY DEF T0
  <2> QED
    BY <1>1, <2>1 DEF AlignedByte, Meet
<1>10. AlignedByte(T0, 8)
  <2>1. T0.pack[8 + 1] = {<<4, -12>>, <<5, 1>>}
    BY DEF T0
  <2> QED
    BY <1>1, <2>1 DEF AlignedByte, Meet
<1>11. AlignedByte(T0, 9)
  <2>1. T0.pack[9 + 1] = {<<5, -7>>, <<6, 6>>}
    BY DEF T0
  <2> QED
    BY <1>1, <2>1 DEF AlignedByte, Meet
<1>12. AlignedByte(T0, 10)
  <2>1. T0.pack[10 + 1] = {<<6, -2>>}
    BY DEF T0
  <2> QED
    BY <1>1, <2>1 DEF AlignedByte, Meet
<1>13. AlignedByte(T0, 11)
  <2>1. T0.pack[11 + 1] = {<<6, -10>>, <<7, 3>>}
    BY DEF T0
  <2> QED
    BY <1>1, <2>1 DEF AlignedByte, Meet
<1>14. AlignedByte(T0, 12)
  <2>1. T0.pack[12 + 1] = {<<7, -5>>}
    BY DEF T0
  <2> QED
    BY <1>1, <2>1 DEF AlignedByte, Meet
<1>15. AlignedCoeff(T0, 0)
  <2>1. T0.unpack[0 + 1] = {<<0, 0>>, <<1, 8>>} /\ T0.mask[0 + 1] = 13
    BY DEF T0
  <2> QED
    BY <1>1, <2>1 DEF AlignedCoeff, Meet
<1>16. AlignedCoeff(T0, 1)
  <2>1. T0.unpack[1 + 1] = {<<1, -5>>, <<2, 3>>, <<3, 11>>} /\ T0.mask[1 + 1] = 13
    BY DEF T0
  <2> QED
    BY <1>1, <2>1 DEF AlignedCoeff, Meet
<1>17. AlignedCoeff(T0, 2)
  <2>1. T0.unpack[2 + 1] = {<<3, -2>>, <<4, 6>>} /\ T0.mask[2 + 1] = 13
    BY DEF T0
  <2> QED
    BY <1>1, <2>1 DEF AlignedCoeff, Meet
<1>18. AlignedCoeff(T0, 3)
  <2>1. T0.unpack[3 + 1] = {<<4, -7>>, <<5, 1>>, <<6, 9>>} /\ T0.mask[3 + 1] = 13
    BY DEF T0
  <2> QED
    BY <1>1, <2>1 DEF AlignedCoeff, Meet
<1>19. AlignedCoeff(T0, 4)
  <2>1. T0.unpack[4 + 1] = {<<6, -4>>, <<7, 4>>, <<8, 12>>} /\ T0.mask[4 + 1] = 13
    BY DEF T0
  <2> QED
    BY <1>1, <2>1 DEF AlignedCoeff, Meet
<1>20. AlignedCoeff(T0, 5)
  <2>1. T0.unpack[5 + 1] = {<<8, -1>>, <<9, 7>>} /\ T0.mask[5 + 1] = 13
    BY DEF T0
  <2> QED
    BY <1>1, <2>1 DEF AlignedCoeff, Meet
<1>21. AlignedCoeff(T0, 6)
  <2>1. T0.unpack[6 + 1] = {<<9, -6>>, <<10, 2>>, <<11, 10>>} /\ T0.mask[6 + 1] = 13
    BY DEF T0
  <2> QED
    BY <1>1, <2>1 DEF AlignedCoeff, Meet
<1>22. AlignedCoeff(T0, 7)
  <2>1. T0.unpack[7 + 1] = {<<11, -3>>, <<12, 5>>} /\ T0.mask[7 + 1] = 13
    BY DEF T0
  <2> QED
    BY <1>1, <2>1 DEF AlignedCoeff, Meet
<1>23. WholeStream(T0)
  BY <1>1 DEF WholeStream
<1>24. AlignedPack(T0)
  <2>1. \A i \in 0..(T0.bytes - 1) : i = 0 \/ i = 1 \/ i = 2 \/ i = 3 \/ i = 4 \/ i = 5 \/ i = 6 \/ i = 7 \/ i = 8
                                     \/ i = 9 \/ i = 10 \/ i = 11 \/ i = 12
    BY <1>1
  <2> QED
    BY <2>1, <1>2, <1>3, <1>4, <1>5, <1>6, <1>7, <1>8, <1>9, <1>10, <1>11, <1>12, <1>13, <1>14 DEF AlignedPack
<1>25. AlignedUnpack(T0)
  <2>1. \A c \in 0..(T0.coeffs - 1) : c = 0 \/ c = 1 \/ c = 2 \/ c = 3 \/ c = 4 \/ c = 5 \/ c = 6 \/ c = 7
    BY <1>1
  <2> QED
    BY <2>1, <1>15, <1>16, <1>17, <1>18, <1>19, <1>20, <1>21, <1>22 DEF AlignedUnpack
<1> QED
  BY <1>23, <1>24, <1>25

LEMMA ZWhole == WholeStream(Z) /\ AlignedPack(Z) /\ AlignedUnpack(Z)
<1>1. Z.bits = 20 /\ Z.coeffs = 2 /\ Z.bytes = 5
  BY DEF Z
<1>2. AlignedByte(Z, 0)
  <2>1. Z.pack[0 + 1] = {<<0, 0>>}
    BY DEF Z
  <2> QED
    BY <1>1, <2>1 DEF AlignedByte, Meet
<1>3. AlignedByte(Z, 1)
  <2>1. Z.pack[1 + 1] = {<<0, -8>>}
    BY DEF Z
  <2> QED
    BY <1>1, <2>1 DEF AlignedByte, Meet
<1>4. AlignedByte(Z, 2)
  <2>1. Z.pack[2 + 1] = {<<0, -16>>, <<1, 4>>}
    BY DEF Z
  <2> QED
    BY <1>1, <2>1 DEF AlignedByte, Meet
<1>5. AlignedByte(Z, 3)
  <2>1. Z.pack[3 + 1] = {<<1, -4>>}
    BY DEF Z
  <2> QED
    BY <1>1, <2>1 DEF AlignedByte, Meet
<1>6. AlignedByte(Z, 4)
  <2>1. Z.pack[4 + 1] = {<<1, -12>>}
    BY DEF Z
  <2> QED
    BY <1>1, <2>1 DEF AlignedByte, Meet
<1>7. AlignedCoeff(Z, 0)
  <2>1. Z.unpack[0 + 1] = {<<0, 0>>, <<1, 8>>, <<2, 16>>} /\ Z.mask[0 + 1] = 20
    BY DEF Z
  <2> QED
    BY <1>1, <2>1 DEF AlignedCoeff, Meet
<1>8. AlignedCoeff(Z, 1)
  <2>1. Z.unpack[1 + 1] = {<<2, -4>>, <<3, 4>>, <<4, 12>>} /\ Z.mask[1 + 1] = 32
    BY DEF Z
  <2> QED
    BY <1>1, <2>1 DEF AlignedCoeff, Meet
<1>9. WholeStream(Z)
  BY <1>1 DEF WholeStream
<1>10. AlignedPack(Z)
  <2>1. \A i \in 0..(Z.bytes - 1) : i = 0 \/ i = 1 \/ i = 2 \/ i = 3 \/ i = 4
    BY <1>1
  <2> QED
    BY <2>1, <1>2, <1>3, <1>4, <1>5, <1>6 DEF AlignedPack
<1>11. AlignedUnpack(Z)
  <2>1. \A c \in 0..(Z.coeffs - 1) : c = 0 \/ c = 1
    BY <1>1
  <2> QED
    BY <2>1, <1>7, <1>8 DEF AlignedUnpack
<1> QED
  BY <1>9, <1>10, <1>11

LEMMA W1Whole == WholeStream(W1) /\ AlignedPack(W1) /\ AlignedUnpack(W1)
<1>1. W1.bits = 4 /\ W1.coeffs = 2 /\ W1.bytes = 1
  BY DEF W1
<1>2. AlignedByte(W1, 0)
  <2>1. W1.pack[0 + 1] = {<<0, 0>>, <<1, 4>>}
    BY DEF W1
  <2> QED
    BY <1>1, <2>1 DEF AlignedByte, Meet
<1>3. AlignedCoeff(W1, 0)
  <2>1. W1.unpack[0 + 1] = {<<0, 0>>} /\ W1.mask[0 + 1] = 4
    BY DEF W1
  <2> QED
    BY <1>1, <2>1 DEF AlignedCoeff, Meet
<1>4. AlignedCoeff(W1, 1)
  <2>1. W1.unpack[1 + 1] = {<<0, -4>>} /\ W1.mask[1 + 1] = 4
    BY DEF W1
  <2> QED
    BY <1>1, <2>1 DEF AlignedCoeff, Meet
<1>5. WholeStream(W1)
  BY <1>1 DEF WholeStream
<1>6. AlignedPack(W1)
  <2>1. \A i \in 0..(W1.bytes - 1) : i = 0
    BY <1>1
  <2> QED
    BY <2>1, <1>2 DEF AlignedPack
<1>7. AlignedUnpack(W1)
  <2>1. \A c \in 0..(W1.coeffs - 1) : c = 0 \/ c = 1
    BY <1>1
  <2> QED
    BY <2>1, <1>3, <1>4 DEF AlignedUnpack
<1> QED
  BY <1>5, <1>6, <1>7

\* Every format is a stream of bits, and its values fit their bits.
ValuesFit(f) ==
  \A v \in {f.low, f.high} : (IF f.offset = 0 THEN v ELSE f.offset - v) \in 0..(2 ^ f.bits - 1)

LEMMA FormatsAre ==
  ASSUME NEW n \in DOMAIN Formats
  PROVE  /\ n # "hints" /\ WholeStream(Formats[n]) /\ AlignedPack(Formats[n]) /\ AlignedUnpack(Formats[n])
         /\ ValuesFit(Formats[n])
<1>1. Formats[n] \in {Eta, T1, T0, Z, W1} /\ n # "hints"
  BY DEF Formats
<1>2. 2 ^ 4 = 16 /\ 2 ^ 10 = 1024 /\ 2 ^ 13 = 8192 /\ 2 ^ 20 = 1048576
  BY SMT
<1>3. ValuesFit(Eta)
  BY <1>2 DEF Eta, ValuesFit
<1>4. ValuesFit(T1)
  BY <1>2 DEF T1, ValuesFit
<1>5. ValuesFit(T0)
  BY <1>2 DEF T0, ValuesFit
<1>6. ValuesFit(Z)
  BY <1>2 DEF Z, ValuesFit
<1>7. ValuesFit(W1)
  BY <1>2 DEF W1, ValuesFit
<1> QED
  BY <1>1, <1>3, <1>4, <1>5, <1>6, <1>7, EtaWhole, T1Whole, T0Whole, ZWhole, W1Whole

LEMMA FieldsAre ==
  /\ PackPk = UnpackPk /\ PackSk = UnpackSk /\ PackSig = UnpackSig
  /\ Total(PackPk) = 1952 /\ Total(PackSk) = 4032 /\ Total(PackSig) = 3309
<1>1. PackPk = UnpackPk /\ PackSk = UnpackSk /\ PackSig = UnpackSig
  BY DEF PackPk, UnpackPk, PackSk, UnpackSk, PackSig, UnpackSig
<1>2. PolyBytes(T1) = 320 /\ PolyBytes(Eta) = 128 /\ PolyBytes(T0) = 416 /\ PolyBytes(Z) = 640
  <2>1. T1.bits = 10 /\ Eta.bits = 4 /\ T0.bits = 13 /\ Z.bits = 20
    BY DEF T1, Eta, T0, Z
  <2> QED
    BY <2>1 DEF PolyBytes
<1>3. ASSUME NEW f
      PROVE  /\ SumTo(f, 0) = 0 /\ SumTo(f, 1) = SumTo(f, 0) + f[1] /\ SumTo(f, 2) = SumTo(f, 1) + f[2]
             /\ SumTo(f, 3) = SumTo(f, 2) + f[3] /\ SumTo(f, 4) = SumTo(f, 3) + f[4]
             /\ SumTo(f, 5) = SumTo(f, 4) + f[5] /\ SumTo(f, 6) = SumTo(f, 5) + f[6]
  <2>1. \A n \in Nat : SumTo(f, 0) = 0 /\ SumTo(f, n + 1) = SumTo(f, n) + f[n + 1]
    BY SumStep
  <2>2. 0 + 1 = 1 /\ 1 + 1 = 2 /\ 2 + 1 = 3 /\ 3 + 1 = 4 /\ 4 + 1 = 5 /\ 5 + 1 = 6
    OBVIOUS
  <2> QED
    BY <2>1, <2>2
<1>4. Total(PackPk) = 1952
  <2> DEFINE f == [n \in DOMAIN PackPk |-> PackPk[n][2]]
  <2>1. Len(PackPk) = 2 /\ f[1] = 32 /\ f[2] = 1920
    BY <1>2 DEF PackPk
  <2>2. Total(PackPk) = SumTo(f, Len(PackPk))
    BY DEF Total
  <2> HIDE DEF f
  <2> QED
    BY <1>3, <2>1, <2>2
<1>5. Total(PackSk) = 4032
  <2> DEFINE f == [n \in DOMAIN PackSk |-> PackSk[n][2]]
  <2>1. Len(PackSk) = 6 /\ f[1] = 32 /\ f[2] = 32 /\ f[3] = 64 /\ f[4] = 640 /\ f[5] = 768 /\ f[6] = 2496
    BY <1>2 DEF PackSk
  <2>2. Total(PackSk) = SumTo(f, Len(PackSk))
    BY DEF Total
  <2> HIDE DEF f
  <2> QED
    BY <1>3, <2>1, <2>2
<1>6. Total(PackSig) = 3309
  <2> DEFINE f == [n \in DOMAIN PackSig |-> PackSig[n][2]]
  <2>1. Len(PackSig) = 3 /\ f[1] = 48 /\ f[2] = 3200 /\ f[3] = 61
    BY <1>2 DEF PackSig
  <2>2. Total(PackSig) = SumTo(f, Len(PackSig))
    BY DEF Total
  <2> HIDE DEF f
  <2> QED
    BY <1>3, <2>1, <2>2
<1> QED
  BY <1>1, <1>4, <1>5, <1>6

LEMMA CoefficientsArePlain == ASSUME NEW f PROVE Coefficients(f) \subseteq Plains(f)
<1> DEFINE all           == 0..(f.bits - 1)
           places        == 0..(f.coeffs - 1)
           only(c, bits) == [d \in places |-> IF d = c THEN bits ELSE {}]
           one(c, b)     == only(c, {b})
           whole(c)      == only(c, all)
           every         == [c \in places |-> all]
<1>1. \A c : \A bits \in SUBSET all : only(c, bits) \in Plains(f)
  <2> SUFFICES ASSUME NEW c, NEW bits \in SUBSET all PROVE only(c, bits) \in Plains(f)
    OBVIOUS
  <2> HIDE DEF all, places
  <2>1. \A d \in places : (IF d = c THEN bits ELSE {}) \in SUBSET all
    OBVIOUS
  <2>2. only(c, bits) \in [places -> SUBSET all]
    BY <2>1
  <2> QED
    BY <2>2 DEF Plains, all, places
<1>2. every \in Plains(f)
  BY DEF Plains
<1>3. Coefficients(f) = {one(c, b) : c \in places, b \in all} \cup {whole(c) : c \in places} \cup {every}
  BY DEF Coefficients
<1>4. \A c : \A b \in all : one(c, b) \in Plains(f)
  <2> SUFFICES ASSUME NEW c, NEW b \in all PROVE one(c, b) \in Plains(f)
    OBVIOUS
  <2>1. {b} \in SUBSET all
    OBVIOUS
  <2> HIDE DEF all, only
  <2> QED
    BY <1>1, <2>1
<1>5. \A c : whole(c) \in Plains(f)
  <2> HIDE DEF only
  <2> QED
    BY <1>1
<1> HIDE DEF one, whole, only, every, all, places
<1>6. ASSUME NEW t \in Coefficients(f) PROVE t \in Plains(f)
  <2>1. (\E c \in places : \E b \in all : t = one(c, b)) \/ (\E c \in places : t = whole(c)) \/ t = every
    BY <1>3, <1>6
  <2> QED
    BY <1>2, <1>4, <1>5, <2>1
<1> QED
  BY <1>6

\* The packings of poly.c are undone by their unpackings, whatever the bits of the
\* coefficients: both are the stream of those bits, cut into bytes.  polyw1_pack, which
\* has no unpacking, loses nothing either.
THEOREM PackingIsUndone ==
  ASSUME NEW n \in DOMAIN Formats, NEW t \in Plains(Formats[n])
  PROVE  Unpacked(Formats[n], Packed(Formats[n], t)) = t
BY FormatsAre, UnpackedIsPlain

\* What is plain stays so, and bytes are those of what is plain, or come from outside.
CoefficientsOK ==
  format # "hints" =>
    /\ format \in DOMAIN Formats /\ plain \in Plains(Formats[format]) /\ step # "refused"
    /\ step = "packed" => packed = Packed(Formats[format], plain)
    /\ step = "unpacked" => again = plain
HintsOK ==
  format = "hints" /\ plain # <<>> =>
    /\ plain \in Hints /\ OnesUpTo(plain, Rows) <= OMEGA /\ step # "refused"
    /\ step \in {"packed", "unpacked"} => packed = EncodeHints(plain)
    /\ step = "unpacked" => again = plain
BytesOK ==
  format = "hints" /\ plain = <<>> =>
    /\ packed \in HintBytes /\ step # "plain"
    /\ step = "unpacked" => EncodeHints(again) = packed
PackInv == CoefficientsOK /\ HintsOK /\ BytesOK

LEMMA PackStart == PackInit => PackInv
<1> SUFFICES ASSUME PackInit PROVE PackInv
  OBVIOUS
<1>1. CASE format \in DOMAIN Formats /\ plain \in Coefficients(Formats[format]) /\ step = "plain"
  <2>1. format # "hints"
    BY <1>1, FormatsAre
  <2> QED
    BY <1>1, <2>1, CoefficientsArePlain DEF PackInv, CoefficientsOK, HintsOK, BytesOK
<1>2. CASE format = "hints" /\ plain \in HintRows /\ step = "plain"
  <2>1. plain \in Hints /\ OnesUpTo(plain, Rows) <= OMEGA
    BY <1>2 DEF HintRows, Hints
  <2>2. plain # <<>>
    <3>1. 1 \in DOMAIN plain
      BY <2>1, PackSizes DEF Hints
    <3> QED
      BY <3>1
  <2> QED
    BY <1>2, <2>1, <2>2 DEF PackInv, CoefficientsOK, HintsOK, BytesOK
<1>3. CASE format = "hints" /\ plain = <<>> /\ step = "packed" /\ packed \in [0..(OMEGA + Rows - 1) -> 0..(Places - 1)]
  BY <1>3 DEF PackInv, CoefficientsOK, HintsOK, BytesOK, HintBytes
<1> QED
  BY <1>1, <1>2, <1>3 DEF PackInit

LEMMA PackKeeps == PackInv /\ [PackNext]_packVars => PackInv'
<1> SUFFICES ASSUME PackInv, [PackNext]_packVars PROVE PackInv'
  OBVIOUS
<1> USE DEF PackInv
<1>1. CASE Pack
  <2>1. step = "plain" /\ step' = "packed" /\ format' = format /\ plain' = plain
        /\ packed' = IF format = "hints" THEN EncodeHints(plain) ELSE Packed(Formats[format], plain)
    BY <1>1 DEF Pack
  <2>2. CoefficientsOK'
    BY <2>1 DEF CoefficientsOK
  <2>3. HintsOK'
    BY <2>1 DEF HintsOK
  <2>4. BytesOK'
    BY <2>1 DEF BytesOK
  <2> QED
    BY <2>2, <2>3, <2>4
<1>2. CASE Unpack
  <2>1. step = "packed" /\ format' = format /\ plain' = plain /\ packed' = packed
    BY <1>2 DEF Unpack
  <2>2. CoefficientsOK'
    <3> SUFFICES ASSUME format # "hints" PROVE CoefficientsOK'
      BY <2>1 DEF CoefficientsOK
    <3>1. again' = Unpacked(Formats[format], packed) /\ step' = "unpacked"
      BY <1>2 DEF Unpack
    <3>2. packed = Packed(Formats[format], plain) /\ plain \in Plains(Formats[format]) /\ format \in DOMAIN Formats
      BY <2>1 DEF CoefficientsOK
    <3>3. Unpacked(Formats[format], Packed(Formats[format], plain)) = plain
      BY <3>2, PackingIsUndone
    <3> QED
      BY <2>1, <3>1, <3>2, <3>3 DEF CoefficientsOK
  <2>3. HintsOK'
    <3> SUFFICES ASSUME format = "hints", plain # <<>> PROVE HintsOK'
      BY <2>1 DEF HintsOK
    <3>1. plain \in Hints /\ OnesUpTo(plain, Rows) <= OMEGA /\ packed = EncodeHints(plain)
      BY <2>1 DEF HintsOK
    <3>2. ~Malformed(packed) /\ DecodeHints(packed) = plain
      BY <3>1, PackedIsRead
    <3>3. again' = plain /\ step' = "unpacked"
      BY <1>2, <3>2 DEF Unpack
    <3> QED
      BY <2>1, <3>1, <3>3 DEF HintsOK
  <2>4. BytesOK'
    <3> SUFFICES ASSUME format = "hints", plain = <<>> PROVE BytesOK'
      BY <2>1 DEF BytesOK
    <3>1. packed \in HintBytes
      BY DEF BytesOK
    <3>2. CASE Malformed(packed)
      <4>1. step' = "refused"
        BY <1>2, <3>2 DEF Unpack
      <4> QED
        BY <2>1, <3>1, <4>1 DEF BytesOK
    <3>3. CASE ~Malformed(packed)
      <4>1. again' = DecodeHints(packed) /\ step' = "unpacked"
        BY <1>2, <3>3 DEF Unpack
      <4>2. EncodeHints(DecodeHints(packed)) = packed
        BY <3>1, <3>3, ReadIsPacked
      <4> QED
        BY <2>1, <3>1, <4>1, <4>2 DEF BytesOK
    <3> QED
      BY <3>2, <3>3
  <2> QED
    BY <2>2, <2>3, <2>4
<1>3. CASE UNCHANGED packVars
  BY <1>3 DEF packVars, CoefficientsOK, HintsOK, BytesOK
<1> QED
  BY <1>1, <1>2, <1>3 DEF PackNext

\* What is packed is unpacked as it was, and keys and signatures have the sizes of api.h;
\* hints that unpack_sig accepts have the one encoding they came in, for any number of
\* rows, places and ones.
THEOREM EncodingsAreCanonical == PackSpec => []EncodingIsCanonical
<1>1. PackInv => EncodingIsCanonical
  <2> SUFFICES ASSUME PackInv PROVE EncodingIsCanonical
    OBVIOUS
  <2>1. PackPk = UnpackPk /\ PackSk = UnpackSk /\ PackSig = UnpackSig
    BY FieldsAre
  <2>2. [pk |-> Total(PackPk), sk |-> Total(PackSk), sig |-> Total(PackSig)] = Sizes
    BY FieldsAre DEF Sizes
  <2>3. plain # <<>> => step # "refused" /\ (step = "unpacked" => again = plain)
    BY DEF PackInv, CoefficientsOK, HintsOK
  <2>4. step = "unpacked" /\ format = "hints" => EncodeHints(again) = packed
    BY DEF PackInv, HintsOK, BytesOK
  <2>5. \A n \in DOMAIN Formats : ValuesFit(Formats[n])
    BY FormatsAre
  <2>6. \A n \in DOMAIN Formats :
          LET f == Formats[n]
          IN  \A v \in {f.low, f.high} : (IF f.offset = 0 THEN v ELSE f.offset - v) \in 0..(2 ^ f.bits - 1)
    BY <2>5 DEF ValuesFit
  <2> QED
    BY <2>1, <2>2, <2>3, <2>4, <2>6 DEF EncodingIsCanonical
<1> QED
  BY <1>1, PackStart, PackKeeps, PTL DEF PackSpec
=============================================================================

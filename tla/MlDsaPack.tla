------------------------------ MODULE MlDsaPack ------------------------------
(***************************************************************************)
(* Encoding of ML-DSA keys and signatures: the bit packing of poly.c, which *)
(* the code spells out byte by byte for every width, and the hints of      *)
(* packing.c, which must have one encoding only, or whoever holds a        *)
(* signature could make another one from it.                               *)
(*                                                                         *)
(* A number is the set of its bits that are 1.                             *)
(***************************************************************************)
EXTENDS Integers, Sequences, FiniteSets

CONSTANTS
  Places,      \* values of a byte that index a coefficient (256)
  Rows,        \* K, polynomials of hints (6)
  OMEGA        \* most hints in a signature (55)

ASSUME PackAssumption ==
  /\ Places \in Nat \ {0} /\ Rows \in Nat \ {0} /\ OMEGA \in Nat
  /\ OMEGA < Places
-----------------------------------------------------------------------------
\* Of each format: the bits of a coefficient, coefficients and bytes of a group; what
\* packing ors into each byte, <<coefficient, left shift>>; what unpacking ors into each
\* coefficient, <<byte, left shift>>, and the bits it masks (32: none); and the range and
\* the offset of the values, stored as offset minus
\* value if there is an offset.
Eta == [bits |-> 4, coeffs |-> 2, bytes |-> 1, low |-> -4, high |-> 4, offset |-> 4,
        pack |-> << {<<0, 0>>, <<1, 4>>} >>,
        unpack |-> << {<<0, 0>>}, {<<0, -4>>} >>, mask |-> <<4, 32>>]

T1 == [bits |-> 10, coeffs |-> 4, bytes |-> 5, low |-> 0, high |-> 1023, offset |-> 0,
       pack |-> << {<<0, 0>>}, {<<0, -8>>, <<1, 2>>}, {<<1, -6>>, <<2, 4>>},
                   {<<2, -4>>, <<3, 6>>}, {<<3, -2>>} >>,
       unpack |-> << {<<0, 0>>, <<1, 8>>}, {<<1, -2>>, <<2, 6>>},
                     {<<2, -4>>, <<3, 4>>}, {<<3, -6>>, <<4, 2>>} >>,
       mask |-> <<10, 10, 10, 10>>]

T0 == [bits |-> 13, coeffs |-> 8, bytes |-> 13, low |-> -4095, high |-> 4096, offset |-> 4096,
       pack |-> << {<<0, 0>>}, {<<0, -8>>, <<1, 5>>}, {<<1, -3>>}, {<<1, -11>>, <<2, 2>>},
                   {<<2, -6>>, <<3, 7>>}, {<<3, -1>>}, {<<3, -9>>, <<4, 4>>}, {<<4, -4>>},
                   {<<4, -12>>, <<5, 1>>}, {<<5, -7>>, <<6, 6>>}, {<<6, -2>>},
                   {<<6, -10>>, <<7, 3>>}, {<<7, -5>>} >>,
       unpack |-> << {<<0, 0>>, <<1, 8>>}, {<<1, -5>>, <<2, 3>>, <<3, 11>>},
                     {<<3, -2>>, <<4, 6>>}, {<<4, -7>>, <<5, 1>>, <<6, 9>>},
                     {<<6, -4>>, <<7, 4>>, <<8, 12>>}, {<<8, -1>>, <<9, 7>>},
                     {<<9, -6>>, <<10, 2>>, <<11, 10>>}, {<<11, -3>>, <<12, 5>>} >>,
       mask |-> [c \in 1..8 |-> 13]]

\* Mutant: one shift of polyz_pack is off by one.
ZOff == [bits |-> 20, coeffs |-> 2, bytes |-> 5, low |-> -524287, high |-> 524288, offset |-> 524288,
         pack |-> << {<<0, 0>>}, {<<0, -8>>}, {<<0, -16>>, <<1, 4>>}, {<<1, -4>>}, {<<1, -11>>} >>,
         unpack |-> << {<<0, 0>>, <<1, 8>>, <<2, 16>>}, {<<2, -4>>, <<3, 4>>, <<4, 12>>} >>,
         mask |-> <<20, 32>>]
Z == [bits |-> 20, coeffs |-> 2, bytes |-> 5, low |-> -524287, high |-> 524288, offset |-> 524288,
      pack |-> << {<<0, 0>>}, {<<0, -8>>}, {<<0, -16>>, <<1, 4>>}, {<<1, -4>>}, {<<1, -12>>} >>,
      unpack |-> << {<<0, 0>>, <<1, 8>>, <<2, 16>>}, {<<2, -4>>, <<3, 4>>, <<4, 12>>} >>,
      mask |-> <<20, 32>>]

\* polyw1_pack is never undone: its bytes are hashed.
W1 == [bits |-> 4, coeffs |-> 2, bytes |-> 1, low |-> 0, high |-> 15, offset |-> 0,
       pack |-> << {<<0, 0>>, <<1, 4>>} >>,
       unpack |-> << {<<0, 0>>}, {<<0, -4>>} >>, mask |-> <<4, 4>>]

Formats == [eta |-> Eta, t1 |-> T1, t0 |-> T0, z |-> Z, w1 |-> W1]

Shifted(bits, s) == {b + s : b \in bits} \cap 0..31

Merged(ors, from) == UNION {Shifted(from[p[1]], p[2]) : p \in ors}

Packed(f, t)   == [i \in 0..(f.bytes - 1) |-> Merged(f.pack[i + 1], t) \cap 0..7]
Unpacked(f, a) == [c \in 0..(f.coeffs - 1) |-> Merged(f.unpack[c + 1], a) \cap 0..(f.mask[c + 1] - 1)]
-----------------------------------------------------------------------------
\* The fields of keys and signatures in the order packing.c writes and reads them:
\* their bytes, by the widths above for 256 coefficients, K = 6 and L = 5.
PolyBytes(f) == (256 * f.bits) \div 8

PackPk   == << <<"rho", 32>>, <<"t1", 6 * PolyBytes(T1)>> >>
UnpackPk == << <<"rho", 32>>, <<"t1", 6 * PolyBytes(T1)>> >>
PackSk   == << <<"rho", 32>>, <<"key", 32>>, <<"tr", 64>>, <<"s1", 5 * PolyBytes(Eta)>>,
               <<"s2", 6 * PolyBytes(Eta)>>, <<"t0", 6 * PolyBytes(T0)>> >>
UnpackSk == << <<"rho", 32>>, <<"key", 32>>, <<"tr", 64>>, <<"s1", 5 * PolyBytes(Eta)>>,
               <<"s2", 6 * PolyBytes(Eta)>>, <<"t0", 6 * PolyBytes(T0)>> >>
PackSig   == << <<"c", 48>>, <<"z", 5 * PolyBytes(Z)>>, <<"h", 55 + 6>> >>
UnpackSig == << <<"c", 48>>, <<"z", 5 * PolyBytes(Z)>>, <<"h", 55 + 6>> >>

\* The sizes api.h declares.
Sizes == [pk |-> 1952, sk |-> 4032, sig |-> 3309]

SumTo(f, n) == LET sum[m \in 0..n] == IF m = 0 THEN 0 ELSE sum[m - 1] + f[m] IN sum[n]

Total(fields) == SumTo([n \in DOMAIN fields |-> fields[n][2]], Len(fields))
-----------------------------------------------------------------------------
\* pack_sig: the places of the ones of each row, then after each row their number so far.
\* h is a row of hints as the set of its ones.
OnesUpTo(h, i) == SumTo([n \in DOMAIN h |-> Cardinality(h[n])], i)

NthOf(s, n) == CHOOSE x \in s : Cardinality({y \in s : y < x}) = n

EncodeHints(h) ==
  [j \in 0..(OMEGA + Rows - 1) |->
     IF j >= OMEGA THEN OnesUpTo(h, j - OMEGA + 1)
     ELSE IF j >= OnesUpTo(h, Rows) THEN 0
     ELSE LET i == CHOOSE i \in 1..Rows : OnesUpTo(h, i - 1) <= j /\ j < OnesUpTo(h, i)
          IN  NthOf(h[i], j - OnesUpTo(h, i - 1))]

\* unpack_sig: where row i of the hints begins and ends, and what it refuses.
Begins(s, i) == IF i = 1 THEN 0 ELSE s[OMEGA + i - 2]
Ends(s, i)   == s[OMEGA + i - 1]

\* Mutant: places may repeat.
MalformedLess(s) ==
  \/ \E i \in 1..Rows : Ends(s, i) < Begins(s, i) \/ Ends(s, i) > OMEGA
  \/ \E i \in 1..Rows : \E j \in (Begins(s, i) + 1)..(Ends(s, i) - 1) : s[j] < s[j - 1]
  \/ \E j \in Ends(s, Rows)..(OMEGA - 1) : s[j] # 0
Malformed(s) ==
  \/ \E i \in 1..Rows : Ends(s, i) < Begins(s, i) \/ Ends(s, i) > OMEGA
  \/ \E i \in 1..Rows : \E j \in (Begins(s, i) + 1)..(Ends(s, i) - 1) : s[j] <= s[j - 1]
  \/ \E j \in Ends(s, Rows)..(OMEGA - 1) : s[j] # 0

DecodeHints(s) == [i \in 1..Rows |-> {s[j] : j \in Begins(s, i)..(Ends(s, i) - 1)}]
-----------------------------------------------------------------------------
VARIABLES
  format,    \* of the coefficients being packed, or "hints"
  plain,     \* the coefficients, or the hints
  packed,    \* their bytes
  again,     \* what unpacking the bytes gives
  step       \* "plain", "packed", "unpacked", "refused"

packVars == <<format, plain, packed, again, step>>

\* Bits are only moved and merged: one bit at a time, and all of them, show where they go.
Coefficients(f) ==
  LET only(c, bits) == [d \in 0..(f.coeffs - 1) |-> IF d = c THEN bits ELSE {}]
      all           == 0..(f.bits - 1)
  IN  {only(c, {b}) : c \in 0..(f.coeffs - 1), b \in all} \cup {only(c, all) : c \in 0..(f.coeffs - 1)}
        \cup {[c \in 0..(f.coeffs - 1) |-> all]}

HintRows == {h \in [1..Rows -> SUBSET (0..(Places - 1))] : OnesUpTo(h, Rows) <= OMEGA}

\* Coefficients or hints to pack, or bytes that come from outside to unpack.
PackInit ==
  /\ again = <<>>
  /\ \/ format \in DOMAIN Formats /\ plain \in Coefficients(Formats[format]) /\ packed = <<>> /\ step = "plain"
     \/ format = "hints" /\ plain \in HintRows /\ packed = <<>> /\ step = "plain"
     \/ format = "hints" /\ plain = <<>> /\ step = "packed"
        /\ packed \in [0..(OMEGA + Rows - 1) -> 0..(Places - 1)]

Pack ==
  /\ step = "plain"
  /\ packed' = IF format = "hints" THEN EncodeHints(plain) ELSE Packed(Formats[format], plain)
  /\ step' = "packed"
  /\ UNCHANGED <<format, plain, again>>

Unpack ==
  /\ step = "packed"
  /\ IF format # "hints" THEN again' = Unpacked(Formats[format], packed) /\ step' = "unpacked"
     ELSE IF Malformed(packed) THEN step' = "refused" /\ UNCHANGED again
     ELSE again' = DecodeHints(packed) /\ step' = "unpacked"
  /\ UNCHANGED <<format, plain, packed>>

PackNext == Pack \/ Unpack

PackSpec == PackInit /\ [][PackNext]_packVars
-----------------------------------------------------------------------------
\* What is packed is unpacked as it was, and hints that are accepted have no other
\* encoding ("for strong unforgeability", packing.c:243, 253): encoding them again gives
\* the bytes they came from.  Every value of a format's range fits its bits,
\* and every field is read from where it was written, in as many bytes as api.h declares.
EncodingIsCanonical ==
  /\ PackPk = UnpackPk /\ PackSk = UnpackSk /\ PackSig = UnpackSig
  /\ [pk |-> Total(PackPk), sk |-> Total(PackSk), sig |-> Total(PackSig)] = Sizes
  /\ plain # <<>> => step # "refused" /\ (step = "unpacked" => again = plain)
  /\ step = "unpacked" /\ format = "hints" => EncodeHints(again) = packed
  /\ \A n \in DOMAIN Formats :
       LET f == Formats[n]
       IN  \A v \in {f.low, f.high} :
             (IF f.offset = 0 THEN v ELSE f.offset - v) \in 0..(2 ^ f.bits - 1)
=============================================================================

------------------------------- MODULE Bech32 -------------------------------
(***************************************************************************)
(* Addresses: the keytool writes them (bech32m_encode, bech32m_address_v3, *)
(* bech32m_identity) and wallet_cli.py reads what the user typed           *)
(* (bech32m_decode_address, address_to_spk).  A character stands for its   *)
(* five bits.                                                              *)
(***************************************************************************)
EXTENDS Integers, Sequences, SequencesExt

CONSTANTS
  Programs,      \* output programs, sequences of bytes
  ProgramSize    \* 32 in the code

ASSUME Bech32Assumption == ProgramSize \in Nat \ {0}
-----------------------------------------------------------------------------
Bit(x, i) == (x \div 2^i) % 2
Bits(x, width) == [i \in 1..width |-> Bit(x, width - i)]
Value(bits)    == FoldLeft(LAMBDA acc, b : 2 * acc + b, 0, bits)

\* Exclusive or of two characters, and of the six of a checksum.
XorTable == [a \in 0..31, b \in 0..31 |-> Value([i \in 1..5 |-> (Bit(a, 5 - i) + Bit(b, 5 - i)) % 2])]
Xor(s, t) == [i \in 1..6 |-> XorTable[s[i], t[i]]]
Six(x)    == [i \in 1..6 |-> (x \div 32^(6 - i)) % 32]

\* polymod
Generators == <<996825010, 642813549, 513874426, 1027748829, 705979059>>
Feedback   == [top \in 0..31 |->
                 FoldLeft(LAMBDA acc, i : IF Bit(top, i - 1) = 1 THEN Xor(acc, Six(Generators[i])) ELSE acc,
                          Six(0), <<1, 2, 3, 4, 5>>)]
Polymod(values) ==
  FoldLeft(LAMBDA chk, v : Xor(<<chk[2], chk[3], chk[4], chk[5], chk[6], v>>, Feedback[chk[1]]), Six(1), values)
Bech32mConst == Six(734539939)

\* hrp_expand, of the three prefixes.
Letters(hrp) == CASE hrp = "xpa" -> <<120, 112, 97>> [] hrp = "txa" -> <<116, 120, 97>> [] hrp = "xid" -> <<120, 105, 100>>
HrpExpand(hrp) == [i \in 1..3 |-> Letters(hrp)[i] \div 32] \o <<0>> \o [i \in 1..3 |-> Letters(hrp)[i] % 32]

\* convertbits, 8 to 5 with padding, and 5 to 8, where padding must be short and zero.
Regroup(bits, width) == [i \in 1..(Len(bits) \div width) |-> Value(SubSeq(bits, width * (i - 1) + 1, width * i))]
Zeros(n) == [i \in 1..n |-> 0]
BitsOf(values, width) == FlattenSeq([i \in 1..Len(values) |-> Bits(values[i], width)])

\* Mutant: the bits left over are not written.
ToCharactersUnpadded(bytes) == Regroup(BitsOf(bytes, 8), 5)
ToCharacters(bytes) ==
  LET bits == BitsOf(bytes, 8) IN Regroup(bits \o Zeros((-Len(bits)) % 5), 5)
ToBytes(chars) ==
  LET bits == BitsOf(chars, 5)
      rest == SubSeq(bits, 8 * (Len(bits) \div 8) + 1, Len(bits))
  IN IF Len(rest) >= 5 \/ rest # Zeros(Len(rest)) THEN <<>> ELSE Regroup(bits, 8)

\* bech32m_encode: a prefix and characters, the last six the checksum.
Encode(hrp, data) ==
  [hrp |-> hrp, data |-> data \o Xor(Polymod(HrpExpand(hrp) \o data \o Zeros(6)), Bech32mConst)]
AddressV3(hrp, program) == Encode(hrp, <<3>> \o ToCharacters(program))
Identity(program)       == Encode("xid", ToCharacters(program))

\* address_to_spk: the program a typed address pays to, on the chain of hrp; or nothing.
Checks(typed) == Len(typed.data) >= 7 /\ Polymod(HrpExpand(typed.hrp) \o typed.data) = Bech32mConst
Destination(typed, hrp) ==
  LET bytes == ToBytes(SubSeq(typed.data, 2, Len(typed.data) - 6))
  IN IF /\ typed.hrp = hrp /\ Checks(typed)
        /\ typed.data[1] = 3 /\ Len(bytes) = ProgramSize
       THEN bytes ELSE <<>>
-----------------------------------------------------------------------------
VARIABLES printed, program, typed

bechVars == <<printed, program, typed>>

BechInit ==
  /\ program \in Programs
  /\ printed \in {AddressV3("xpa", program), AddressV3("txa", program), Identity(program)}
  /\ typed = printed

\* The user mistypes one character, swaps two, leaves the last out, or takes another chain's prefix.
Mistype ==
  /\ typed = printed
  /\ \/ \E i \in DOMAIN printed.data, c \in 0..31 : typed' = [printed EXCEPT !.data[i] = c]
     \/ \E i \in 1..(Len(printed.data) - 1) :
          typed' = [printed EXCEPT !.data[i] = printed.data[i + 1], !.data[i + 1] = printed.data[i]]
     \/ typed' = [printed EXCEPT !.data = SubSeq(@, 1, Len(@) - 1)]
     \/ \E hrp \in {"xpa", "txa"} : typed' = [printed EXCEPT !.hrp = hrp]
  /\ UNCHANGED <<printed, program>>
-----------------------------------------------------------------------------
\* "Without a version byte and under a non-chain HRP no node ever parses it as an
\* address" (xcoin-wallet.cpp:215-216).  An address reads back as the program it was
\* made of, on its own chain alone; an address mistyped, and an identity, pay nobody.
AddressReadBack ==
  \A hrp \in {"xpa", "txa"} :
    Destination(typed, hrp) = IF typed = printed /\ printed.hrp = hrp THEN program ELSE <<>>
=============================================================================

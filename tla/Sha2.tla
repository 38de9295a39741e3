-------------------------------- MODULE Sha2 --------------------------------
(***************************************************************************)
(* SHA-224, 256, 384 and 512 of common/sha2.c: a context of a chaining     *)
(* value and a byte counter that takes whole blocks (inc_blocks), may be   *)
(* cloned, and is finished with a rest of any length (inc_finalize).       *)
(* SLH-DSA hashes the public seed once and finishes a clone of that        *)
(* context for every hash of a signature.                                  *)
(*                                                                         *)
(* A chaining value is known by the blocks compressed into it, a block by  *)
(* its bytes: a message byte by its index, 0x80, zero, or a byte of the    *)
(* length by the shift and the counter it is cut from.                     *)
(***************************************************************************)
EXTENDS Integers, Sequences, FiniteSetsExt

CONSTANTS
  Hashes,        \* the functions checked
  Contexts,      \* contexts in use, to clone one into another
  Rests(_),      \* bound: lengths of the input to inc_finalize, by block size
  MaxBlocks,     \* bound: blocks given to inc_blocks
  Modulus,       \* bound: words of the message schedule are numbers below it,
  Sigma0(_),     \* and sigma0 and sigma1 any functions of words
  Sigma1(_)

ASSUME Sha2Assumption ==
  /\ MaxBlocks \in Nat /\ Modulus \in Nat \ {0}
  /\ \A f \in Hashes : Rests(f.block) \subseteq Nat

\* block size in bytes, the position from which the code keeps room for the length,
\* the shift of the first length byte it writes, the bytes of the digest, the rounds.
Sha224 == [block |-> 64,  room |-> 56,  shift |-> 53, digest |-> 28, rounds |-> 64]
Sha256 == [block |-> 64,  room |-> 56,  shift |-> 53, digest |-> 32, rounds |-> 64]
Sha384 == [block |-> 128, room |-> 112, shift |-> 61, digest |-> 48, rounds |-> 80]
Sha512 == [block |-> 128, room |-> 112, shift |-> 61, digest |-> 64, rounds |-> 80]

Byte(i)      == <<"message", i, 0>>
Eighty       == <<"eighty", 0, 0>>
ZeroByte     == <<"zero", 0, 0>>
LengthByte(n, s) == <<"length", n, s>>    \* (uint8_t) (n >> s), or n << -s
-----------------------------------------------------------------------------
\* crypto_hashblocks_*: compress the whole blocks of a piece and return the rest.
Block(f, piece, k)  == [i \in 1..f.block |-> piece[(k - 1) * f.block + i]]
Blocks(f, piece)    == [k \in 1..(Len(piece) \div f.block) |-> Block(f, piece, k)]
LeftOver(f, piece) == Len(piece) % f.block

\* The tail that inc_finalize writes into padded[]: the rest, 0x80, zeros, then the
\* length in bits as bytes of the counter, from bytes >> shift down to bytes << 3.
TailSize(f, rest) == IF rest < f.room THEN f.block ELSE 2 * f.block

LengthBytes(f) == (f.shift + 3) \div 8 + 1
PaddedTail(f, from, rest, bytes) ==
  LET size == TailSize(f, rest)
  IN  [i \in 1..size |->
         IF i <= rest THEN Byte(from + i - 1)
         ELSE IF i = rest + 1 THEN Eighty
         ELSE IF i <= size - LengthBytes(f) THEN ZeroByte
         ELSE LengthByte(bytes, 8 * (size - i) - 3)]
-----------------------------------------------------------------------------
\* FIPS 180-4, 5.1: byte q of the padded message of m bytes; the length field is an
\* eighth of the block, of which a 64-bit counter fills the low 64 + 3 bits.
StdField(f)    == f.block \div 8
StdTotal(f, m) == ((m + 1 + StdField(f) + f.block - 1) \div f.block) * f.block
StdByte(f, m, q) ==
  LET s == 8 * (StdTotal(f, m) - 1 - q) - 3
  IN  IF q < m THEN Byte(q)
      ELSE IF q = m THEN Eighty
      ELSE IF q >= StdTotal(f, m) - StdField(f) /\ s < 64 THEN LengthByte(m, s)
      ELSE ZeroByte
StdChain(f, m) ==
  [k \in 1..(StdTotal(f, m) \div f.block) |->
     [i \in 1..f.block |-> StdByte(f, m, (k - 1) * f.block + i - 1)]]
-----------------------------------------------------------------------------
\* EXPAND_32, EXPAND_64: sixteen words, each replaced in place from four others.
M(w, i) ==
  [w EXCEPT ![i] = (Sigma1(w[(i + 14) % 16]) + w[(i + 9) % 16] + Sigma0(w[(i + 1) % 16]) + @) % Modulus]
Expand(w) ==
  LET after[i \in 0..16] == IF i = 0 THEN w ELSE M(after[i - 1], i - 1)
  IN  after[16]

\* FIPS 180-4, 6.2.2: the schedule W of a block whose words are w.
StdSchedule(w) ==
  LET S[t \in 0..79] ==
        IF t < 16 THEN w[t]
        ELSE (Sigma1(S[t - 2]) + S[t - 7] + Sigma0(S[t - 15]) + S[t - 16]) % Modulus
  IN  S
-----------------------------------------------------------------------------
VARIABLES
  hash,      \* the function in use
  ctx,       \* context -> chaining value and byte counter, or released
  begun,     \* context -> message bytes given to it (history)
  words,     \* the sixteen words of the block being compressed
  expanded   \* expansions of them so far

sha2Vars == <<hash, ctx, begun, words, expanded>>

Fresh    == [chain |-> <<>>, bytes |-> 0, live |-> TRUE]

\* *_inc_init of every context, and a block about to be compressed.
FirstWords == [i \in 0..15 |-> (3 * i + 1) % Modulus]
Sha2Init ==
  /\ hash \in Hashes
  /\ ctx = [c \in Contexts |-> Fresh]
  /\ begun = [c \in Contexts |-> 0]
  /\ words = FirstWords /\ expanded = 0

Piece(from, n) == [i \in 1..n |-> Byte(from + i - 1)]

\* *_inc_blocks: n whole blocks.
IncBlocks(c) ==
  /\ ctx[c].live
  /\ \E n \in 1..MaxBlocks :
       LET piece == Piece(begun[c], hash.block * n)
       IN  /\ Len(ctx[c].chain) + n <= MaxBlocks
           /\ ctx' = [ctx EXCEPT ![c].chain = @ \o Blocks(hash, piece),
                                 ![c].bytes = @ + hash.block * n]
           /\ begun' = [begun EXCEPT ![c] = @ + hash.block * n]
  /\ UNCHANGED <<hash, words, expanded>>

\* *_inc_ctx_clone.
Clone(c, d) ==
  /\ ctx[c].live /\ c # d
  /\ ctx' = [ctx EXCEPT ![d] = ctx[c]]
  /\ begun' = [begun EXCEPT ![d] = begun[c]]
  /\ UNCHANGED <<hash, words, expanded>>

\* *_inc_finalize: the whole blocks of the rest, the padded tail, and release.  The
\* one-call functions are an init and this.
IncFinalize(c) ==
  /\ ctx[c].live
  /\ \E n \in Rests(hash.block) :
       LET piece == Piece(begun[c], n)
           rest  == LeftOver(hash, piece)
           tail  == PaddedTail(hash, begun[c] + n - rest, rest, ctx[c].bytes + n)
       IN  /\ ctx' = [ctx EXCEPT ![c] =
                [chain |-> @.chain \o Blocks(hash, piece) \o Blocks(hash, tail),
                 bytes |-> 0, live |-> FALSE]]
           /\ begun' = [begun EXCEPT ![c] = @ + n]
  /\ UNCHANGED <<hash, words, expanded>>

\* crypto_hashblocks_*: between its four (or five) groups of sixteen rounds.
ExpandWords ==
  /\ expanded < hash.rounds \div 16 - 1
  /\ words' = Expand(words) /\ expanded' = expanded + 1
  /\ UNCHANGED <<hash, ctx, begun>>

ContextNext ==
  \E c \in Contexts : IncBlocks(c) \/ IncFinalize(c) \/ \E d \in Contexts : Clone(c, d)

Sha2Spec == Sha2Init /\ [][ContextNext \/ ExpandWords]_sha2Vars
-----------------------------------------------------------------------------
\* sha2.c gives SHA-2 of the message however it was cut, also through a cloned context:
\* what a finished context compressed is the standard's padded message, its length
\* counting the blocks given before the clone; and the words expanded in place are
\* those of the standard's schedule.
HashesAsStandard ==
  /\ \A c \in Contexts : ~ctx[c].live => ctx[c].chain = StdChain(hash, begun[c])
  /\ \A i \in 0..15 : words[i] = StdSchedule(FirstWords)[16 * expanded + i]
=============================================================================

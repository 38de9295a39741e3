-------------------------------- MODULE RawTx --------------------------------
(***************************************************************************)
(* A transaction on its way through two languages: wallet_cli.py writes it *)
(* unsigned (build_unsigned_tx), the keytool reads it, adds the witnesses  *)
(* and writes it again (parse_tx, cmd_sign), and wallet_cli.py takes the   *)
(* transaction id and the size from that (parse_signed_tx).                *)
(***************************************************************************)
EXTENDS Integers, Sequences, SequencesExt

CONSTANTS
  Byte,       \* 256 in the code: the number of values of a byte
  HashSize,   \* 32 in the code
  Asked,      \* [ins, outs, stacks]: what is asked for, and the witness of every input
  Version, Sequence, Locktime

ASSUME RawTxAssumption == Byte \in Nat /\ Byte > 4 /\ HashSize \in Nat
-----------------------------------------------------------------------------
\* Little-endian numbers, and the length prefix: 0xfd, 0xfe and 0xff are markers.
Put(x, width) == [i \in 1..width |-> (x \div Byte^(i - 1)) % Byte]
Number(bytes) == FoldRight(LAMBDA b, acc : b + Byte * acc, bytes, 0)
Marker(k)     == (Byte - 4) + k
PutCompact(n) ==
  IF n < Marker(1) THEN <<n>>
  ELSE IF n < Byte^2 THEN <<Marker(1)>> \o Put(n, 2)
  ELSE IF n < Byte^4 THEN <<Marker(2)>> \o Put(n, 4)
  ELSE <<Marker(3)>> \o Put(n, 8)
PutVector(bytes) == PutCompact(Len(bytes)) \o bytes
Each(seq, f(_))  == FlattenSeq([i \in 1..Len(seq) |-> f(seq[i])])

\* An input is <<hash, vout, scriptSig, sequence>>, an output <<value, script>>, and a
\* transaction <<version, inputs, outputs, locktime>>.
PutIn(in)       == in[1] \o Put(in[2], 4) \o PutVector(in[3]) \o Put(in[4], 4)
PutOut(out)     == Put(out[1], 8) \o PutVector(out[2])
PutStack(items) == PutCompact(Len(items)) \o Each(items, PutVector)
Base(tx)        == PutCompact(Len(tx[2])) \o Each(tx[2], PutIn) \o PutCompact(Len(tx[3])) \o Each(tx[3], PutOut)

\* build_unsigned_tx: no marker, no witness; a transaction id is shown in reverse.
Unsigned(ins, outs) ==
  <<Version, [i \in 1..Len(ins) |-> <<Reverse(ins[i].txid), ins[i].vout, <<>>, Sequence>>], outs, Locktime>>
PutUnsigned(tx) == Put(tx[1], 4) \o Base(tx) \o Put(tx[4], 4)

\* The end of cmd_sign: marker, flag, and a stack for every input.
Serialize(tx, stacks) == Put(tx[1], 4) \o <<0, 1>> \o Base(tx) \o Each(stacks, PutStack) \o Put(tx[4], 4)
-----------------------------------------------------------------------------
\* Reader: its place in the bytes, whether every read so far found its bytes, and the
\* values read, of which the one on top is the last.
Start(bytes) == [raw |-> bytes, at |-> 0, ok |-> TRUE, got |-> <<>>]
Push(r, v)   == [r EXCEPT !.got = Append(@, v)]
Top(r)       == r.got[Len(r.got)]
Pop(r)       == [r EXCEPT !.got = SubSeq(@, 1, Len(@) - 1)]

Bytes(r, n) ==
  IF r.at + n <= Len(r.raw)
    THEN Push([r EXCEPT !.at = @ + n], SubSeq(r.raw, r.at + 1, r.at + n))
    ELSE Push([r EXCEPT !.ok = FALSE], <<>>)

AsNumber(r)  == Push(Pop(r), Number(Top(r)))
U(r, width)  == AsNumber(Bytes(r, width))
Widened(r)   == IF Top(r) < Marker(1) THEN r ELSE U(Pop(r), 2^(Top(r) - Marker(0)))
Compact(r)   == Widened(U(r, 1))
Counted(r)   == Bytes(Pop(r), Top(r))
Vector(r)    == Counted(Compact(r))

\* for (i < n && r.ok), n on top: the values of each round become one value.
Inner(r)        == [r EXCEPT !.got = <<>>]
Outer(r, inner) == [inner EXCEPT !.got = Append(r.got, @)]
Many(r, read(_)) ==
  LET Round(before) == IF before.ok THEN Outer(before, read(Inner(before))) ELSE before
      after[i \in 0..Top(r)] == IF i = 0 THEN Inner(r) ELSE Round(after[i - 1])
  IN Outer(Pop(r), after[Top(r)])

ReadIn(r)    == U(Vector(U(Bytes(r, HashSize), 4)), 4)
ReadOut(r)   == Vector(U(r, 8))
ReadStack(r) == Many(Compact(r), Vector)
InsAndOuts(r)  == Many(Compact(Many(r, ReadIn)), ReadOut)
SkipStacks(r)  == Pop(Many(Push(r, Len(r.got[2])), ReadStack))

\* parse_tx: no inputs means the marker; its flag byte is skipped, whatever it is.
AfterCount(r) == IF Top(r) = 0 THEN SkipStacks(InsAndOuts(Compact(Pop(Bytes(Pop(r), 1))))) ELSE InsAndOuts(r)
ParseTx(bytes) == U(AfterCount(Compact(U(Start(bytes), 4))), 4)

\* parse_signed_tx: the bytes that the transaction id is the hash of, and the weight.
IsSegwit(bytes) == bytes[5] = 0 /\ bytes[6] = 1
BodyAt(bytes)   == IF IsSegwit(bytes) THEN 6 ELSE 4
BodyOf(bytes)   == InsAndOuts(Compact(Push([Start(bytes) EXCEPT !.at = BodyAt(bytes)], Version)))
EndOf(bytes)    == IF IsSegwit(bytes) THEN SkipStacks(BodyOf(bytes)).at ELSE BodyOf(bytes).at
BaseOf(bytes)   == SubSeq(bytes, 1, 4) \o SubSeq(bytes, BodyAt(bytes) + 1, BodyOf(bytes).at)
                     \o SubSeq(bytes, EndOf(bytes) + 1, EndOf(bytes) + 4)
WeightOf(bytes) == 3 * Len(BaseOf(bytes)) + Len(bytes)
-----------------------------------------------------------------------------
VARIABLES payment, raw, stage

rawVars == <<payment, raw, stage>>

RawInit ==
  /\ payment \in Asked /\ stage = "unsigned"
  /\ raw = PutUnsigned(Unsigned(payment.ins, payment.outs))

\* cmd_sign reads the transaction, finds every input's line, and writes it signed.
RawSign ==
  /\ stage = "unsigned" /\ ParseTx(raw).ok
  /\ \A i \in 1..Len(payment.ins) : ParseTx(raw).got[2][i][1] = Reverse(payment.ins[i].txid)
  /\ raw' = Serialize(ParseTx(raw).got, payment.stacks) /\ stage' = "signed"
  /\ UNCHANGED payment

\* The bytes are cut short on their way to the keytool.
RawCut ==
  /\ stage \in {"unsigned", "signed"} /\ stage' = "cut"
  /\ \E n \in 4..(Len(raw) - 1) : raw' = SubSeq(raw, 1, n)
  /\ UNCHANGED payment

RawNext == RawSign \/ RawCut
-----------------------------------------------------------------------------
\* What one language wrote the other reads: the keytool signs the transaction that was
\* planned, whether or not it has witnesses already; the transaction id that is reported
\* is that of the planned transaction; and a transaction cut short is refused.
TxSurvives ==
  LET asked == Unsigned(payment.ins, payment.outs)
  IN /\ stage \in {"unsigned", "signed"} => ParseTx(raw).ok /\ ParseTx(raw).got = asked
     /\ stage = "signed" =>
          /\ BaseOf(raw) = PutUnsigned(asked)
          /\ WeightOf(raw) = 4 * Len(PutUnsigned(asked)) + 2 + Len(Each(payment.stacks, PutStack))
     /\ stage = "cut" => ~ParseTx(raw).ok
=============================================================================

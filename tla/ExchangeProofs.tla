--------------------------- MODULE ExchangeProofs ---------------------------
(***************************************************************************)
(* What the wallet exchanges with the node and with a card, proved: the    *)
(* sizes it budgets (TxSize) and the signatures it prints (Keytool), for   *)
(* every transaction, prevout line and key.                                *)
(***************************************************************************)
EXTENDS TxSize, Keytool, TLAPS

-----------------------------------------------------------------------------
(* Sizes: the estimate of wallet_cli.py against what the keytool writes.    *)

SizeIsSane ==
  /\ twoLeaf \in Nat /\ carried \in Nat /\ outputs \in 1..2
  /\ Inputs \in Nat /\ (Inputs <= MaxIn \/ Inputs <= 1)

LEMMA CountsAreShort == MaxIn \in Nat /\ MaxCount \in Nat \ {0} /\ MaxIn <= MaxCount
<1>1. MaxIn \in 0..MaxCount
  BY Zenon, TxSizeAssumption
<1>2. MaxCount \in Nat \ {0}
  BY SMT DEF MaxCount
<1> QED
  BY SMT, <1>1, <1>2

LEMMA RatesAreNumbers == FeeRates \subseteq Nat
BY Zenon, TxSizeAssumption

LEMMA SizeStaysSane == SizeSpec => []SizeIsSane
<1>1. SizeInit => SizeIsSane
  BY DEF SizeInit, SizeIsSane, Inputs
<1>2. SizeIsSane /\ [AddInput]_sizeVars => SizeIsSane'
  BY CountsAreShort DEF AddInput, sizeVars, SizeIsSane, Inputs
<1> QED
  BY <1>1, <1>2, PTL DEF SizeSpec

\* Rounding up to whole units pays for all of them.
LEMMA CeilDivCovers ==
  ASSUME NEW x \in Nat
  PROVE  1000 * CeilDiv(x, 1000) >= x /\ 4 * CeilDiv(x, 4) >= x /\ 4 * CeilDiv(x, 4) <= x + 3
BY DEF CeilDiv

LEMMA CeilDivGrows ==
  ASSUME NEW x \in Nat, NEW y \in Nat, x <= y
  PROVE  CeilDiv(x, 4) \in Nat /\ CeilDiv(y, 4) \in Nat /\ CeilDiv(x, 4) <= CeilDiv(y, 4)
BY DEF CeilDiv

EstimatedWeight(nIn, nOut) == BaseSize(nIn, nOut) * 4 + 2 + WitnessPerInput * nIn

\* The weight of a transaction, written out.
CountBytes(n) == IF n < 253 THEN 1 ELSE 3

LEMMA EstimateWrittenOut ==
  ASSUME NEW n \in Nat, NEW nOut \in Nat, nOut <= 2
  PROVE  EstimatedWeight(n, nOut) = 5533 * n + 4 * CountBytes(n) + 172 * nOut + 38
<1>1. WitnessPerInput = 5369
  BY SMT DEF WitnessPerInput, PubkeySize, SignatureSize, LeafSize, ControlTwoLeaf
<1>2. InputBaseSize = 41 /\ OutputSize = 43
  BY SMT DEF InputBaseSize, OutputSize
<1>3. Varint(n) = CountBytes(n) /\ Varint(nOut) = 1
  BY SMT DEF Varint, CountBytes
<1>4. BaseSize(n, nOut) = 9 + CountBytes(n) + 41 * n + 43 * nOut
  BY SMT, <1>2, <1>3 DEF BaseSize, CountBytes
<1> QED
  BY SMT, <1>1, <1>4 DEF EstimatedWeight, CountBytes

LEMMA WitnessesWrittenOut == WitnessSize(ControlTwoLeaf) = 5369 /\ WitnessSize(ControlOneLeaf) = 5337
BY SMT DEF WitnessSize, Item, CompactSize, MaxCount, PubkeySize, SignatureSize, LeafSize, ControlTwoLeaf, ControlOneLeaf

LEMMA SignedWrittenOut ==
  ASSUME NEW two \in Nat, NEW old \in Nat, NEW nOut \in Nat, nOut <= 2, two + old <= MaxCount
  PROVE  SignedWeight(two, old, nOut) =
           5533 * two + 5501 * old + 4 * CountBytes(two + old) + 172 * nOut + 38
<1> DEFINE n == two + old
<1>1. CompactSize(n) = CountBytes(n) /\ CompactSize(nOut) = 1 /\ Item(0) = 1 /\ Item(34) = 35
  BY SMT DEF CompactSize, CountBytes, Item
<1>2. SignedBase(n, nOut) = 9 + CountBytes(n) + 41 * n + 43 * nOut
  BY SMT, <1>1 DEF SignedBase, CountBytes
<1> QED
  BY SMT, <1>2, WitnessesWrittenOut DEF SignedWeight, CountBytes

\* Every mix of inputs is signed within its estimate.
LEMMA EstimateCovers ==
  ASSUME NEW two \in Nat, NEW old \in Nat, NEW nOut \in Nat, nOut <= 2, two + old <= MaxCount
  PROVE  /\ SignedWeight(two, old, nOut) \in Nat /\ EstimatedWeight(two + old, 2) \in Nat
         /\ SignedWeight(two, old, nOut) <= EstimatedWeight(two + old, 2)
<1>1. two + old \in Nat
  BY SMT
<1>2. EstimatedWeight(two + old, 2) = 5533 * (two + old) + 4 * CountBytes(two + old) + 172 * 2 + 38
  BY SMT, <1>1, EstimateWrittenOut
<1>3. SignedWeight(two, old, nOut) =
        5533 * two + 5501 * old + 4 * CountBytes(two + old) + 172 * nOut + 38
  BY SMT, SignedWrittenOut
<1> QED
  BY SMT, <1>2, <1>3 DEF CountBytes

LEMMA Underpaid ==
  ASSUME SizeIsSane PROVE NeverUnderpaid
<1> SUFFICES ASSUME NEW rate \in FeeRates
             PROVE  1000 * FeeFor(Inputs, 2, rate) >= rate * SignedVsize(twoLeaf, carried, outputs)
  BY SMT DEF NeverUnderpaid
<1> DEFINE est == EstimatedVsize(Inputs, 2)
           act == SignedVsize(twoLeaf, carried, outputs)
<1>1. est \in Nat /\ act \in Nat /\ act <= est
  <2>1. twoLeaf \in Nat /\ carried \in Nat /\ outputs \in Nat /\ outputs <= 2 /\ Inputs = twoLeaf + carried /\ Inputs <= MaxCount
    BY SMT, CountsAreShort DEF SizeIsSane, Inputs
  <2>2. /\ SignedWeight(twoLeaf, carried, outputs) \in Nat /\ EstimatedWeight(Inputs, 2) \in Nat
        /\ SignedWeight(twoLeaf, carried, outputs) <= EstimatedWeight(Inputs, 2)
    BY SMT, <2>1, EstimateCovers
  <2>3. est = CeilDiv(EstimatedWeight(Inputs, 2), 4) /\ act = CeilDiv(SignedWeight(twoLeaf, carried, outputs), 4)
    BY DEF EstimatedVsize, SignedVsize, EstimatedWeight
  <2> HIDE DEF est, act
  <2> QED
    BY SMT, <2>2, <2>3, CeilDivGrows
<1>2. FeeFor(Inputs, 2, rate) = CeilDiv(rate * est, 1000)
  BY SMT DEF FeeFor
<1>3. rate \in Nat
  BY RatesAreNumbers
<1> HIDE DEF est, act
<1>4. rate * est \in Nat /\ rate * act \in Nat /\ rate * act <= rate * est
  BY SMT, <1>1, <1>3
<1>5. 1000 * CeilDiv(rate * est, 1000) >= rate * est
  BY SMT, <1>4, CeilDivCovers
<1>6. CeilDiv(rate * est, 1000) \in Int
  BY SMT, <1>4 DEF CeilDiv
<1> QED
  BY SMT, <1>2, <1>4, <1>5, <1>6 DEF act

\* The limit is where one more input no longer fits.
LEMMA FitsAsFarAs72 ==
  ASSUME NEW n \in Nat
  PROVE  Fits(n) <=> n <= 72
<1>1. EstimatedWeight(n, 2) \in Nat /\ EstimatedWeight(n, 2) = 5533 * n + 4 * CountBytes(n) + 382
  BY SMT, EstimateWrittenOut DEF CountBytes
<1>2. EstimatedVsize(n, 2) = CeilDiv(EstimatedWeight(n, 2), 4)
  BY SMT DEF EstimatedVsize, EstimatedWeight
<1> DEFINE w == EstimatedWeight(n, 2)
           v == CeilDiv(w, 4)
<1>3. v \in Nat /\ 4 * v >= w /\ 4 * v <= w + 3
  BY SMT, <1>1, CeilDivCovers, CeilDivGrows
<1>4. Fits(n) <=> 4 * v <= 400000
  BY SMT, <1>2, <1>3 DEF Fits, MaxStandardWeight
<1> HIDE DEF v
<1> QED
  BY SMT, <1>1, <1>3, <1>4 DEF CountBytes

LEMMA StandardWeight == MaxStandardWeight \in Nat /\ MaxStandardWeight > 72
BY SMT DEF MaxStandardWeight

LEMMA LimitIs72 == MaxInputs = 72
<1> DEFINE IsLimit(n) == ~Fits(n + 1) /\ \A m \in 1..n : Fits(m)
<1>1. IsLimit(72) /\ 72 \in 0..MaxStandardWeight
  BY SMT, FitsAsFarAs72, StandardWeight
<1>2. ASSUME NEW n \in 0..MaxStandardWeight, IsLimit(n) PROVE n = 72
  <2>1. n \in Nat /\ n + 1 \in Nat
    BY SMT, StandardWeight
  <2>2. ~(n + 1 <= 72)
    BY SMT, <1>2, <2>1, FitsAsFarAs72
  <2>3. CASE n > 72
    <3>1. Fits(73)
      BY SMT, <1>2, <2>1, <2>3
    <3> QED
      BY SMT, <3>1, FitsAsFarAs72
  <2> QED
    BY SMT, <2>1, <2>2, <2>3
<1> HIDE DEF IsLimit
<1>3. MaxInputs = CHOOSE n \in 0..MaxStandardWeight : IsLimit(n)
  BY SMT DEF MaxInputs, IsLimit
<1> QED
  BY SMT, <1>1, <1>2, <1>3

\* The fee of a plan and the limit of its inputs hold for what the keytool writes once it is
\* signed, for every mix of inputs and every fee rate (estimate_sizes, fee_for, max_inputs;
\* cmd_sign).
THEOREM EstimatesHold == SizeSpec => []EstimateHolds
<1>1. ASSUME SizeIsSane PROVE LimitIsExact
  <2>1. twoLeaf \in Nat /\ carried \in Nat /\ outputs \in Nat /\ outputs <= 2 /\ Inputs = twoLeaf + carried /\ Inputs <= MaxCount
    BY SMT, <1>1, CountsAreShort DEF SizeIsSane, Inputs
  <2>2. SignedWeight(twoLeaf, carried, outputs) =
          5533 * twoLeaf + 5501 * carried + 4 * CountBytes(Inputs) + 172 * outputs + 38
    BY SMT, <2>1, SignedWrittenOut
  <2> QED
    BY SMT, <2>1, <2>2, LimitIs72 DEF LimitIsExact, MaxStandardWeight, CountBytes
<1>2. SizeIsSane => EstimateHolds
  BY SMT, <1>1, Underpaid DEF EstimateHolds
<1> QED
  BY <1>2, SizeStaysSane, PTL
-----------------------------------------------------------------------------
(* Signatures: what cmd_sign and cmd_signmsg print against the node.        *)

LEMMA Listed ==
  ASSUME NEW S, NEW n \in Nat, NEW f \in [1..n -> S]
  PROVE  f \in Seq(S) /\ Len(f) = n
OBVIOUS

\* A transaction is its inputs, each a coin and a sequence number, and its outputs.
LEMMA TxShape ==
  ASSUME NEW tx \in Txs
  PROVE  /\ Len(tx.ins) \in Nat /\ tx = [ins |-> tx.ins, outs |-> tx.outs]
         /\ tx.ins = [n \in 1..Len(tx.ins) |-> [coin |-> tx.ins[n].coin, sequence |-> tx.ins[n].sequence]]
<1>1. PICK o \in Orders(DOMAIN chain), s \in 0..1, p \in Payments :
        tx = [ins |-> [n \in 1..Len(o) |-> [coin |-> o[n], sequence |-> s]], outs |-> p]
  BY DEF Txs
<1>2. Len(o) \in Nat
  <2>1. CASE \E a \in DOMAIN chain : o = <<a>>
    BY <2>1
  <2>2. CASE o \in (DOMAIN chain) \X (DOMAIN chain)
    BY <2>2
  <2> QED
    BY <1>1, <2>1, <2>2 DEF Orders
<1> DEFINE ins == [n \in 1..Len(o) |-> [coin |-> o[n], sequence |-> s]]
<1>3. Len(ins) = Len(o)
  <2>1. ins \in [1..Len(o) -> {ins[n] : n \in 1..Len(o)}]
    OBVIOUS
  <2> HIDE DEF ins
  <2> QED
    BY <1>2, <2>1, Listed
<1>4. tx.ins = ins /\ tx.outs = p
  BY <1>1
<1>5. \A n \in 1..Len(o) : ins[n] = [coin |-> ins[n].coin, sequence |-> ins[n].sequence]
  OBVIOUS
<1> QED
  BY <1>1, <1>2, <1>3, <1>4, <1>5

LEMMA TxIsItsFields ==
  ASSUME NEW tx \in Txs, NEW u \in Txs, tx.outs = u.outs,
         Field(tx.ins, CoinOf) = Field(u.ins, CoinOf), Field(tx.ins, SequenceOf) = Field(u.ins, SequenceOf)
  PROVE  tx = u
<1> DEFINE m == Len(tx.ins)
           n == Len(u.ins)
<1>1. m \in Nat /\ n \in Nat
  BY TxShape
<1>2. [i \in 1..m |-> tx.ins[i].coin] = [i \in 1..n |-> u.ins[i].coin]
      /\ [i \in 1..m |-> tx.ins[i].sequence] = [i \in 1..n |-> u.ins[i].sequence]
  BY DEF Field, CoinOf, SequenceOf
<1>3. 1..m = 1..n
  BY <1>2
<1>4. m = n
  BY <1>1, <1>3
<1>5. \A i \in 1..m : tx.ins[i].coin = u.ins[i].coin /\ tx.ins[i].sequence = u.ins[i].sequence
  BY <1>2, <1>4
<1>6. tx.ins = u.ins
  <2>1. tx.ins = [i \in 1..m |-> [coin |-> tx.ins[i].coin, sequence |-> tx.ins[i].sequence]]
        /\ u.ins = [i \in 1..m |-> [coin |-> u.ins[i].coin, sequence |-> u.ins[i].sequence]]
    BY <1>4, TxShape
  <2> HIDE DEF m
  <2> QED
    BY <1>5, <2>1, Zenon
<1> QED
  BY <1>6, TxShape

\* The key, the message and the witness of input n, as cmd_sign makes them.
KeyOf(n)     == KeyAt(byin[n].key)
MessageOf(n) ==
  IF byin[n].script.op = 3 THEN V3Sighash(Precompute(job.tx, byin), n, LeafPq(KeyOf(n)))
                           ELSE Bip143Sighash(job.tx, n, byin[n].script, byin[n].amount)
OursAt(n)    == byin[n].script \in {TwoLeaf(KeyOf(n)), Carried(KeyOf(n)), Legacy(KeyOf(n))}
WitnessOf(n) ==
  IF byin[n].script.op = 3
    THEN [pk |-> KeyOf(n).pq, sig |-> Signed(KeyOf(n), MessageOf(n)), script |-> Checksig(PqHash(KeyOf(n))),
          control |-> ControlBlock(PqLeaf, IF byin[n].script = TwoLeaf(KeyOf(n)) THEN <<LeafSlh(KeyOf(n))>> ELSE <<>>)]
    ELSE [pk |-> KeyOf(n).pq, sig |-> Signed(KeyOf(n), MessageOf(n)), hashType |-> "all"]

\* The lines of the inputs name their coins, one line each.
Aligned ==
  /\ job.tx \in Txs
  /\ Len(byin) = Len(job.tx.ins) /\ DOMAIN byin = InputNumbers
  /\ \A n \in InputNumbers : byin[n].coin = job.tx.ins[n].coin /\ byin[n].key \in Indexes

\* The message of an input is what the node hashes of a transaction only if that is the
\* one that was given and the line told the truth.
LEMMA MessageSaysAll ==
  ASSUME Aligned, NEW n \in InputNumbers, NEW tx \in Txs, NEW m \in 1..Len(tx.ins), NEW k,
         MessageOf(n) = NodeMessage(chain, tx, m, k)
  PROVE  tx = job.tx /\ True(byin[n])
<1>1. Len(job.tx.ins) \in Nat /\ Len(tx.ins) \in Nat
  BY TxShape DEF Aligned
<1> DEFINE coins == [i \in 1..Len(tx.ins) |-> chain[tx.ins[i].coin]]
           there == [prevouts |-> [i \in 1..Len(tx.ins) |-> tx.ins[i].coin],
                     amounts |-> [i \in 1..Len(coins) |-> coins[i].amount],
                     scripts |-> [i \in 1..Len(coins) |-> coins[i].script],
                     sequences |-> [i \in 1..Len(tx.ins) |-> tx.ins[i].sequence], outputs |-> tx.outs]
           v3 == [len |-> 32, input |-> m, leaf |-> LeafPq(k), v3 |-> there]
           bip == [len |-> 32, prevouts |-> [i \in 1..Len(tx.ins) |-> tx.ins[i].coin],
                   sequences |-> [i \in 1..Len(tx.ins) |-> tx.ins[i].sequence], input |-> tx.ins[m],
                   scriptCode |-> coins[m].script, amount |-> coins[m].amount, outputs |-> tx.outs]
<1>2. NodeMessage(chain, tx, m, k) = IF coins[m].script.op = 3 THEN v3 ELSE bip
  BY Zenon DEF NodeMessage
<1>3. "v3" \in DOMAIN v3 /\ "v3" \notin DOMAIN bip
  OBVIOUS
<1>4. Len(coins) = Len(tx.ins)
  <2>1. coins \in [1..Len(tx.ins) -> {coins[i] : i \in 1..Len(tx.ins)}]
    OBVIOUS
  <2> HIDE DEF coins
  <2> QED
    BY <1>1, <2>1, Listed
<1>5. CASE byin[n].script.op = 3
  <2>1. MessageOf(n) = [len |-> 32, v3 |-> Precompute(job.tx, byin), input |-> n, leaf |-> LeafPq(KeyOf(n))]
    BY <1>5 DEF MessageOf, V3Sighash
  <2>2. MessageOf(n) = v3
    <3>1. "v3" \in DOMAIN MessageOf(n)
      BY <2>1
    <3> HIDE DEF v3, bip
    <3> QED
      BY <1>2, <1>3, <3>1
  <2>3. Precompute(job.tx, byin) = there
    <3> HIDE DEF there
    <3> QED
      BY <2>1, <2>2
  <2>4. /\ Field(job.tx.ins, CoinOf) = Field(tx.ins, CoinOf)
        /\ Field(job.tx.ins, SequenceOf) = Field(tx.ins, SequenceOf) /\ job.tx.outs = tx.outs
        /\ [i \in 1..Len(byin) |-> byin[i].amount] = [i \in 1..Len(coins) |-> coins[i].amount]
        /\ [i \in 1..Len(byin) |-> byin[i].script] = [i \in 1..Len(coins) |-> coins[i].script]
    <3> HIDE DEF coins
    <3> QED
      BY <2>3 DEF Precompute, Field, CoinOf, SequenceOf, AmountOf, ScriptOf
  <2>5. job.tx = tx
    BY <2>4, TxIsItsFields DEF Aligned
  <2>6. byin[n].amount = coins[n].amount /\ byin[n].script = coins[n].script
    <3> HIDE DEF coins
    <3>1. n \in 1..Len(byin)
      BY DEF Aligned, InputNumbers
    <3> QED
      BY <2>4, <3>1
  <2>7. coins[n] = chain[byin[n].coin]
    BY <2>5 DEF Aligned, InputNumbers
  <2> QED
    BY <2>5, <2>6, <2>7 DEF True
<1>6. CASE byin[n].script.op # 3
  <2>1. MessageOf(n) = Bip143Sighash(job.tx, n, byin[n].script, byin[n].amount)
    BY <1>6 DEF MessageOf
  <2>2. "v3" \notin DOMAIN MessageOf(n)
    BY <2>1 DEF Bip143Sighash
  <2>3. MessageOf(n) = bip
    <3> HIDE DEF v3, bip
    <3> QED
      BY <1>2, <1>3, <2>2
  <2>4. /\ Field(job.tx.ins, CoinOf) = Field(tx.ins, CoinOf)
        /\ Field(job.tx.ins, SequenceOf) = Field(tx.ins, SequenceOf) /\ job.tx.outs = tx.outs
        /\ job.tx.ins[n] = tx.ins[m]
        /\ byin[n].script = coins[m].script /\ byin[n].amount = coins[m].amount
    <3> HIDE DEF coins
    <3> QED
      BY <2>1, <2>3 DEF Bip143Sighash, Field, CoinOf, SequenceOf
  <2>5. job.tx = tx
    BY <2>4, TxIsItsFields DEF Aligned
  <2>6. coins[m] = chain[byin[n].coin]
    BY <2>4 DEF Aligned
  <2> QED
    BY <2>4, <2>5, <2>6 DEF True
<1> QED
  BY <1>5, <1>6

\* Whatever the script, the node hashes to 32 bytes.
LEMMA LengthOfAHash == \A c, tx, n, k : NodeMessage(c, tx, n, k).len = 32
<1> TAKE c, tx, n, k
<1> DEFINE coins == [i \in 1..Len(tx.ins) |-> c[tx.ins[i].coin]]
<1>1. CASE coins[n].script.op = 3
  BY <1>1 DEF NodeMessage
<1>2. CASE coins[n].script.op # 3
  BY <1>2 DEF NodeMessage
<1> QED
  BY <1>1, <1>2

\* A signature of the input's message spends no coin of another transaction, ...
LEMMA SpendsOnlyThis ==
  ASSUME Aligned, NEW n \in InputNumbers, NEW tx \in Txs, NEW m \in 1..Len(tx.ins),
         Spends(chain, tx, m, Signed(KeyOf(n), MessageOf(n)))
  PROVE  tx = job.tx /\ True(byin[n])
<1>1. PICK i \in Indexes :
        Signed(KeyOf(n), MessageOf(n)) = [key |-> KeyAt(i).pq, message |-> NodeMessage(chain, tx, m, KeyAt(i))]
  BY Zenon DEF Spends, Verifies
<1>2. MessageOf(n) = NodeMessage(chain, tx, m, KeyAt(i))
  BY <1>1 DEF Signed
<1> QED
  BY <1>2, MessageSaysAll

\* ... and the input's own coin when all lines told the truth.
LEMMA TrueLinesSpend ==
  ASSUME Aligned, \A i \in InputNumbers : True(byin[i]), NEW n \in InputNumbers, OursAt(n)
  PROVE  NodeTakes(chain, job.tx, n, WitnessOf(n))
<1> DEFINE tx     == job.tx
           line   == byin[n]
           k      == KeyOf(n)
           coins  == [i \in 1..Len(tx.ins) |-> chain[tx.ins[i].coin]]
<1>1. Len(tx.ins) \in Nat /\ Len(coins) = Len(tx.ins) /\ Len(byin) = Len(tx.ins)
  <2>1. coins \in [1..Len(tx.ins) -> {coins[i] : i \in 1..Len(tx.ins)}]
    OBVIOUS
  <2>2. Len(tx.ins) \in Nat
    BY TxShape DEF Aligned
  <2> HIDE DEF coins
  <2> QED
    BY <2>1, <2>2, Listed DEF Aligned
<1>2. \A i \in 1..Len(tx.ins) : coins[i].script = byin[i].script /\ coins[i].amount = byin[i].amount
  BY DEF Aligned, InputNumbers, True
<1>3. line.script = chain[tx.ins[n].coin].script /\ line.script = coins[n].script /\ line.amount = coins[n].amount
  BY <1>2 DEF Aligned, InputNumbers
<1>4. MessageOf(n) = NodeMessage(chain, tx, n, k)
  <2>1. CASE line.script.op = 3
    <3>1. [i \in 1..Len(coins) |-> coins[i].amount] = [i \in 1..Len(byin) |-> byin[i].amount]
          /\ [i \in 1..Len(coins) |-> coins[i].script] = [i \in 1..Len(byin) |-> byin[i].script]
      <4> HIDE DEF coins
      <4> QED
        BY <1>1, <1>2
    <3> QED
      BY <1>3, <2>1, <3>1 DEF MessageOf, NodeMessage, V3Sighash, Precompute, Field, CoinOf, SequenceOf, AmountOf, ScriptOf
  <2>2. CASE line.script.op # 3
    BY <1>3, <2>2 DEF MessageOf, NodeMessage, Bip143Sighash, Field, CoinOf, SequenceOf
  <2> QED
    BY <2>1, <2>2
<1>5. Spends(chain, tx, n, WitnessOf(n).sig)
  <2>1. Controls(line.key, chain[tx.ins[n].coin].script)
    BY <1>3 DEF OursAt, Controls, KeyOf
  <2>2. WitnessOf(n).sig = Signed(k, MessageOf(n))
    BY DEF WitnessOf
  <2>3. Verifies(KeyAt(line.key).pq, NodeMessage(chain, tx, n, KeyAt(line.key)), WitnessOf(n).sig)
    BY <1>4, <2>2 DEF Verifies, Signed, KeyOf
  <2> QED
    BY <2>1, <2>3 DEF Spends, Aligned
<1>6. CASE line.script.op = 3
  <2>1. WitnessOf(n) = [pk |-> k.pq, sig |-> Signed(k, MessageOf(n)), script |-> Checksig(PqHash(k)),
          control |-> ControlBlock(PqLeaf, IF line.script = TwoLeaf(k) THEN <<LeafSlh(k)>> ELSE <<>>)]
    BY <1>6 DEF WitnessOf
  <2>2. line.script \in {TwoLeaf(k), Carried(k)}
    BY <1>6 DEF OursAt, Legacy, Script
  <2>3. Commits(WitnessOf(n), line.script.program)
    <3>1. CASE line.script = TwoLeaf(k)
      BY <2>1, <3>1 DEF Commits, ControlBlock, TwoLeaf, Script, Root2, LeafPq
    <3>2. CASE line.script # TwoLeaf(k)
      BY <2>1, <2>2, <3>2 DEF Commits, ControlBlock, Carried, Script, Root1, LeafPq
    <3> QED
      BY <3>1, <3>2
  <2>4. WitnessOf(n).script = Checksig([sha256 |-> WitnessOf(n).pk])
    BY <2>1 DEF PqHash
  <2>5. chain[tx.ins[n].coin].script.op = 3 /\ Commits(WitnessOf(n), chain[tx.ins[n].coin].script.program)
    BY <1>3, <1>6, <2>3
  <2>6. ~(chain[tx.ins[n].coin].script.op = 2)
    <3> DEFINE op == chain[tx.ins[n].coin].script.op
    <3>1. op = 3
      BY <2>5
    <3> HIDE DEF op
    <3>2. op # 2
      BY SMT, <3>1
    <3> QED
      BY <3>2 DEF op
  <2> HIDE DEF coins, tx
  <2> QED
    BY <1>5, <2>4, <2>5, <2>6, Zenon DEF NodeTakes, tx
<1>7. CASE line.script.op # 3
  <2>1. WitnessOf(n) = [pk |-> k.pq, sig |-> Signed(k, MessageOf(n)), hashType |-> "all"]
    BY <1>7 DEF WitnessOf
  <2>2. line.script.program = PqHash(k)
    BY <1>7 DEF OursAt, TwoLeaf, Carried, Legacy, Script
  <2>3. WitnessOf(n).hashType = "all" /\ line.script.program = [sha256 |-> WitnessOf(n).pk]
    BY <2>1, <2>2 DEF PqHash
  <2> QED
    BY <1>3, <1>5, <1>7, <2>3 DEF NodeTakes
<1> QED
  BY <1>6, <1>7

-----------------------------------------------------------------------------
(* The keytool's steps.                                                     *)

\* Which command is at which step, and what it has in memory and printed.
StepsOK ==
  /\ phase \in {"idle", "align", "input", "message", "printed", "refused"}
  /\ job.cmd \in {"none", "sign", "signmsg"} /\ (phase = "idle" <=> job.cmd = "none")
  /\ phase \in {"align", "input"} => job.cmd = "sign" /\ held = {"seed"}
  /\ phase \in {"printed", "refused"} => held = {}
  /\ phase # "printed" => released = {}
  /\ phase \in {"idle", "align", "message"} => witness = <<>>
  /\ phase = "message" => job.cmd = "signmsg"

\* What was typed: a transaction over known coins and lines of known indexes; a message
\* for _signmsg is past the check of its length.
InputOK ==
  /\ chain \in Chains
  /\ job.cmd = "sign" =>
       /\ job.tx \in Txs
       /\ \A l \in DOMAIN job.lines : l \in Nat \ {0} /\ job.lines[l].key \in Indexes
  /\ job.cmd = "signmsg" /\ phase # "refused" => ~TooShort(job.message)

\* Every input has the first line that names its coin, ...
LinesOK ==
  job.cmd = "sign" /\ phase \in {"input", "printed"} =>
    /\ Aligned
    /\ \A n \in InputNumbers : \E l \in DOMAIN job.lines : IsFirst(l, n) /\ byin[n] = job.lines[l]

\* ... those behind NextInput have their witness, ...
WitnessesOK ==
  job.cmd = "sign" /\ phase \in {"input", "printed"} =>
    /\ witness \in Seq({WitnessOf(n) : n \in InputNumbers}) /\ Len(witness) <= Len(job.tx.ins)
    /\ \A n \in 1..Len(witness) : witness[n] = WitnessOf(n) /\ OursAt(n)

\* ... and what is printed is these, all of them, or the signature of the message.
PrintedOK ==
  phase = "printed" =>
    /\ job.cmd = "sign" => Len(witness) = Len(job.tx.ins) /\ released = {witness[n].sig : n \in InputNumbers}
    /\ job.cmd = "signmsg" => released = {Signed(KeyAt(job.key), job.message)}

\* A refusal has its reason.
Reason ==
  \/ ~job.parses
  \/ \E n \in InputNumbers : \A l \in DOMAIN job.lines :
       \/ job.lines[l].coin # job.tx.ins[n].coin
       \/ ~Controls(job.lines[l].key, job.lines[l].script)
       \/ \E earlier \in 1..(l - 1) : job.lines[earlier].coin = job.lines[l].coin
RefusalOK == phase = "refused" /\ job.cmd = "sign" /\ ~fault => Reason

KeytoolInv == StepsOK /\ InputOK /\ LinesOK /\ WitnessesOK /\ PrintedOK /\ RefusalOK

LEMMA KeytoolStarts == KeytoolInit => KeytoolInv
BY DEF KeytoolInit, KeytoolInv, StepsOK, InputOK, LinesOK, WitnessesOK, PrintedOK, RefusalOK

\* What the state functions depend on.
LEMMA SameInputs ==
  ASSUME UNCHANGED <<chain, job, byin>>
  PROVE  /\ Txs' = Txs /\ InputNumbers' = InputNumbers /\ (Aligned <=> Aligned')
         /\ \A n : WitnessOf(n)' = WitnessOf(n) /\ (OursAt(n) <=> OursAt(n)')
         /\ \A l, n : (IsFirst(l, n) <=> IsFirst(l, n)')
<1>1. Txs' = Txs /\ InputNumbers' = InputNumbers
  BY DEF Txs, InputNumbers
<1>2. \A n : KeyOf(n)' = KeyOf(n) /\ MessageOf(n)' = MessageOf(n)
  BY DEF KeyOf, MessageOf, KeyAt, ChildSeed, V3Sighash, Precompute, Bip143Sighash, LeafPq
<1>3. \A n : WitnessOf(n)' = WitnessOf(n) /\ (OursAt(n) <=> OursAt(n)')
  BY <1>2 DEF WitnessOf, OursAt
<1>4. Aligned <=> Aligned'
  BY <1>1 DEF Aligned
<1> QED
  BY <1>1, <1>3, <1>4 DEF IsFirst, Names

LEMMA StepsStay == KeytoolInv /\ [KeytoolNext]_ktVars => StepsOK'
<1> SUFFICES ASSUME KeytoolInv, [KeytoolNext]_ktVars PROVE StepsOK'
  OBVIOUS
<1> USE DEF KeytoolInv, StepsOK
<1>1. CASE Address
  BY <1>1 DEF Address
<1>2. CASE StartSign
  BY <1>2 DEF StartSign
<1>3. CASE Align
  BY <1>3 DEF Align, Refuse
<1>4. CASE SignInput
  BY <1>4 DEF SignInput, Refuse
<1>5. CASE LibraryFails
  BY <1>5 DEF LibraryFails, Refuse
<1>6. CASE PrintSigned
  BY <1>6 DEF PrintSigned
<1>7. CASE StartSignmsg
  BY <1>7 DEF StartSignmsg, Refuse
<1>8. CASE Signmsg
  BY <1>8 DEF Signmsg
<1>9. CASE UNCHANGED ktVars
  BY <1>9 DEF ktVars
<1> QED
  BY <1>1, <1>2, <1>3, <1>4, <1>5, <1>6, <1>7, <1>8, <1>9 DEF KeytoolNext

LEMMA InputStays == KeytoolInv /\ [KeytoolNext]_ktVars => InputOK'
<1> SUFFICES ASSUME KeytoolInv, [KeytoolNext]_ktVars PROVE InputOK'
  OBVIOUS
<1> USE DEF KeytoolInv, InputOK
<1>1. chain' = chain /\ Txs' = Txs
  <2>1. chain' = chain
    BY DEF KeytoolNext, Address, StartSign, Align, SignInput, LibraryFails, PrintSigned, StartSignmsg, Signmsg, ktVars
  <2> QED
    BY <2>1 DEF Txs
<1>2. CASE StartSign
  <2>1. PICK tx \in Txs, n \in 0..MaxLines : \E lines \in [1..n -> Lines(chain)], parses \in BOOLEAN :
          job' = [cmd |-> "sign", tx |-> tx, lines |-> lines, parses |-> parses]
    BY <1>2 DEF StartSign
  <2>2. PICK lines \in [1..n -> Lines(chain)], parses \in BOOLEAN :
          job' = [cmd |-> "sign", tx |-> tx, lines |-> lines, parses |-> parses]
    BY <2>1
  <2>3. \A l \in DOMAIN lines : l \in Nat \ {0} /\ lines[l].key \in Indexes
    BY KeytoolAssumption
  <2>4. job'.cmd = "sign" /\ job'.tx = tx /\ job'.lines = lines
    BY <2>2
  <2> QED
    BY <1>1, <2>3, <2>4
<1>3. CASE StartSignmsg
  BY <1>1, <1>3 DEF StartSignmsg, Refuse
<1>4. CASE UNCHANGED job /\ (job.cmd = "signmsg" /\ phase' # "refused" => phase # "refused")
  BY <1>1, <1>4 DEF TooShort
<1>5. CASE Address \/ Align \/ SignInput \/ LibraryFails \/ PrintSigned \/ Signmsg \/ UNCHANGED ktVars
  BY <1>4, <1>5 DEF Address, Align, SignInput, LibraryFails, PrintSigned, Signmsg, ktVars, Refuse
<1> QED
  BY <1>2, <1>3, <1>5 DEF KeytoolNext

\* The lines of the inputs, once aligned.
LEMMA AlignAligns ==
  ASSUME KeytoolInv, Align, phase' = "input"
  PROVE  LinesOK'
<1> USE DEF KeytoolInv
<1>1. /\ job.cmd = "sign" /\ chain' = chain /\ job' = job
      /\ byin' = [n \in InputNumbers |-> LineOf(n)] /\ \A n \in InputNumbers : HasLine(n)
  BY DEF Align, Refuse, StepsOK
<1>2. Txs' = Txs /\ InputNumbers' = InputNumbers /\ job.tx \in Txs /\ Len(job.tx.ins) \in Nat
  BY <1>1, TxShape DEF Txs, InputNumbers, InputOK
<1>3. Len(byin') = Len(job.tx.ins) /\ DOMAIN byin' = InputNumbers
  <2>1. byin' \in [1..Len(job.tx.ins) -> {LineOf(n) : n \in InputNumbers}]
    BY <1>1 DEF InputNumbers
  <2> QED
    BY <1>1, <1>2, <2>1, Listed
<1>4. ASSUME NEW n \in InputNumbers
      PROVE  \E l \in DOMAIN job.lines : IsFirst(l, n) /\ byin'[n] = job.lines[l]
  <2>1. \E l \in DOMAIN job.lines : IsFirst(l, n)
    BY <1>1 DEF HasLine
  <2> QED
    BY <1>1, <2>1 DEF LineOf
<1>5. ASSUME NEW n \in InputNumbers
      PROVE  byin'[n].coin = job.tx.ins[n].coin /\ byin'[n].key \in Indexes
  BY <1>1, <1>4 DEF IsFirst, Names, InputOK
<1>6. Aligned'
  BY <1>1, <1>2, <1>3, <1>5 DEF Aligned
<1>7. \A l, n : IsFirst(l, n)' <=> IsFirst(l, n)
  BY <1>1 DEF IsFirst, Names
<1> QED
  BY <1>1, <1>2, <1>4, <1>6, <1>7 DEF LinesOK

LEMMA LinesStay == KeytoolInv /\ [KeytoolNext]_ktVars => LinesOK'
<1> SUFFICES ASSUME KeytoolInv, [KeytoolNext]_ktVars PROVE LinesOK'
  OBVIOUS
<1>1. CASE Align
  <2>1. CASE phase' = "input"
    BY <1>1, <2>1, AlignAligns
  <2>2. CASE phase' # "input"
    BY <1>1, <2>2 DEF Align, Refuse, LinesOK
  <2> QED
    BY <2>1, <2>2
<1>2. CASE SignInput \/ PrintSigned \/ UNCHANGED ktVars
  <2>1. UNCHANGED <<chain, job, byin>> /\ (phase' \in {"input", "printed"} => phase \in {"input", "printed"})
    BY <1>2 DEF SignInput, PrintSigned, ktVars, Refuse
  <2> QED
    BY <2>1, SameInputs DEF KeytoolInv, LinesOK
<1>3. CASE Address \/ StartSign \/ LibraryFails
  BY <1>3 DEF Address, StartSign, LibraryFails, Refuse, LinesOK
<1>4. CASE StartSignmsg \/ Signmsg
  BY <1>4 DEF StartSignmsg, Signmsg, Refuse, LinesOK, KeytoolInv, StepsOK
<1> QED
  BY <1>1, <1>2, <1>3, <1>4 DEF KeytoolNext

\* SignInput makes the next input's witness, or the line names a key that is not the script's.
LEMMA NextIsOf ==
  ASSUME KeytoolInv, phase = "input", NextInput \in InputNumbers
  PROVE  /\ WitnessNow = WitnessOf(NextInput) /\ (IsOurs <=> OursAt(NextInput)) /\ SelfCheck
         /\ NextInput = Len(witness) + 1 /\ Len(witness) \in Nat
<1>1. KeyNow = KeyOf(NextInput) /\ Message = MessageOf(NextInput)
  BY DEF KeyNow, LineNow, KeyOf, Message, MessageOf
<1>2. WitnessNow = WitnessOf(NextInput) /\ (IsOurs <=> OursAt(NextInput))
  BY <1>1 DEF WitnessNow, WitnessOf, IsOurs, OursAt, LineNow
<1>3. SelfCheck
  BY DEF SelfCheck, Verifies, Signed
<1>4. Len(witness) \in Nat
  BY DEF KeytoolInv, StepsOK, WitnessesOK
<1> QED
  BY <1>2, <1>3, <1>4 DEF NextInput

LEMMA WitnessesStay == KeytoolInv /\ [KeytoolNext]_ktVars => WitnessesOK'
<1> SUFFICES ASSUME KeytoolInv, [KeytoolNext]_ktVars PROVE WitnessesOK'
  OBVIOUS
<1>1. CASE Align
  <2>1. CASE phase' = "input"
    <3>1. witness' = <<>> /\ job' = job /\ Len(job.tx.ins) \in Nat
      BY <1>1, <2>1, TxShape DEF Align, KeytoolInv, StepsOK, InputOK
    <3> QED
      BY <3>1 DEF WitnessesOK
  <2>2. CASE phase' # "input"
    BY <1>1, <2>2 DEF Align, Refuse, WitnessesOK
  <2> QED
    BY <2>1, <2>2
<1>2. CASE SignInput
  <2>1. UNCHANGED <<chain, job, byin>> /\ phase = "input" /\ NextInput \in InputNumbers
    BY <1>2 DEF SignInput
  <2>2. CASE phase' = "refused"
    BY <2>2 DEF WitnessesOK
  <2>3. CASE phase' # "refused"
    <3>1. witness' = Append(witness, WitnessOf(NextInput)) /\ OursAt(NextInput)
      BY <1>2, <2>1, <2>3, NextIsOf DEF SignInput, Refuse
    <3>2. job.cmd = "sign" /\ Len(job.tx.ins) \in Nat
      BY <2>1, TxShape DEF KeytoolInv, StepsOK, InputOK
    <3> DEFINE S == {WitnessOf(n) : n \in InputNumbers}
    <3>3. witness \in Seq(S) /\ Len(witness) <= Len(job.tx.ins)
          /\ \A n \in 1..Len(witness) : witness[n] = WitnessOf(n) /\ OursAt(n)
      BY <2>1, <3>2 DEF KeytoolInv, WitnessesOK
    <3>4. NextInput = Len(witness) + 1 /\ WitnessOf(NextInput) \in S /\ NextInput <= Len(job.tx.ins)
      BY <2>1, <3>2, NextIsOf DEF InputNumbers
    <3> HIDE DEF S
    <3>5. witness' \in Seq(S) /\ Len(witness') = Len(witness) + 1
          /\ \A n \in 1..Len(witness') : witness'[n] = IF n <= Len(witness) THEN witness[n] ELSE WitnessOf(NextInput)
      BY <3>1, <3>3, <3>4
    <3>6. \A n \in 1..Len(witness') : witness'[n] = WitnessOf(n) /\ OursAt(n)
      <4> SUFFICES ASSUME NEW n \in 1..Len(witness') PROVE witness'[n] = WitnessOf(n) /\ OursAt(n)
        OBVIOUS
      <4>1. n \in 1..Len(witness) \/ (n = NextInput /\ ~(n <= Len(witness)))
        BY <3>3, <3>4, <3>5
      <4> QED
        BY <3>1, <3>3, <3>5, <4>1
    <3>7. S' = S
      BY <2>1, SameInputs DEF S
    <3> QED
      BY <2>1, <3>3, <3>4, <3>5, <3>6, <3>7, SameInputs DEF WitnessesOK, S
  <2> QED
    BY <2>2, <2>3
<1>3. CASE PrintSigned \/ UNCHANGED ktVars
  <2>1. UNCHANGED <<chain, job, byin, witness>> /\ (phase' \in {"input", "printed"} => phase \in {"input", "printed"})
    BY <1>3 DEF PrintSigned, ktVars
  <2> QED
    BY <2>1, SameInputs DEF KeytoolInv, WitnessesOK
<1>4. CASE Address \/ StartSign \/ LibraryFails
  BY <1>4 DEF Address, StartSign, LibraryFails, Refuse, WitnessesOK
<1>5. CASE StartSignmsg \/ Signmsg
  BY <1>5 DEF StartSignmsg, Signmsg, Refuse, WitnessesOK, KeytoolInv, StepsOK
<1> QED
  BY <1>1, <1>2, <1>3, <1>4, <1>5 DEF KeytoolNext

LEMMA PrintedStays == KeytoolInv /\ [KeytoolNext]_ktVars => PrintedOK'
<1> SUFFICES ASSUME KeytoolInv, [KeytoolNext]_ktVars PROVE PrintedOK'
  OBVIOUS
<1>1. CASE PrintSigned
  <2>1. Len(witness) = Len(job.tx.ins)
    <3>1. job.cmd = "sign" /\ Len(job.tx.ins) \in Nat
      BY <1>1, TxShape DEF PrintSigned, KeytoolInv, StepsOK, InputOK
    <3>2. Len(witness) \in Nat /\ Len(witness) <= Len(job.tx.ins) /\ Len(witness) + 1 \notin 1..Len(job.tx.ins)
      BY <1>1, <3>1 DEF PrintSigned, KeytoolInv, WitnessesOK, NextInput, InputNumbers
    <3> QED
      BY <3>1, <3>2
  <2>2. job.cmd = "sign" /\ UNCHANGED <<chain, job, byin, witness>> /\ released' = {witness[n].sig : n \in InputNumbers}
    BY <1>1 DEF PrintSigned, KeytoolInv, StepsOK
  <2> QED
    BY <2>1, <2>2, SameInputs DEF PrintedOK
<1>2. CASE Signmsg
  BY <1>2 DEF Signmsg, PrintedOK, KeytoolInv, StepsOK, Signed, KeyAt, ChildSeed
<1>3. CASE UNCHANGED ktVars
  BY <1>3, SameInputs DEF ktVars, PrintedOK, KeytoolInv, Signed, KeyAt, ChildSeed
<1>4. CASE Address \/ StartSign \/ Align \/ SignInput \/ LibraryFails \/ StartSignmsg
  BY <1>4 DEF Address, StartSign, Align, SignInput, LibraryFails, StartSignmsg, Refuse, PrintedOK
<1> QED
  BY <1>1, <1>2, <1>3, <1>4 DEF KeytoolNext

LEMMA RefusalStays == KeytoolInv /\ [KeytoolNext]_ktVars => RefusalOK'
<1> SUFFICES ASSUME KeytoolInv, [KeytoolNext]_ktVars, phase' = "refused", job'.cmd = "sign", ~fault'
             PROVE  Reason'
  BY DEF RefusalOK
<1>1. CASE Align
  <2>1. ~job.parses \/ \E n \in InputNumbers : ~HasLine(n)
    BY <1>1 DEF Align
  <2>2. job' = job
    BY <1>1 DEF Align
  <2>3. ASSUME NEW n \in InputNumbers, ~HasLine(n), NEW l \in DOMAIN job.lines
        PROVE  \/ job.lines[l].coin # job.tx.ins[n].coin
               \/ \E earlier \in 1..(l - 1) : job.lines[earlier].coin = job.lines[l].coin
    BY <2>3 DEF HasLine, IsFirst, Names
  <2> QED
    BY <2>1, <2>2, <2>3 DEF Reason, InputNumbers
<1>2. CASE SignInput
  <2>1. phase = "input" /\ NextInput \in InputNumbers /\ job' = job
    BY <1>2 DEF SignInput
  <2>2. ~OursAt(NextInput)
    BY <1>2, <2>1, NextIsOf DEF SignInput
  <2>3. PICK f \in DOMAIN job.lines : IsFirst(f, NextInput) /\ byin[NextInput] = job.lines[f]
    BY <2>1 DEF KeytoolInv, LinesOK, StepsOK
  <2>4. ~Controls(job.lines[f].key, job.lines[f].script)
    BY <2>2, <2>3 DEF Controls, OursAt, KeyOf
  <2>5. ASSUME NEW l \in DOMAIN job.lines, job.lines[l].coin = job.tx.ins[NextInput].coin
        PROVE  l = f \/ f \in 1..(l - 1)
    <3>1. f \in Nat \ {0} /\ l \in Nat \ {0}
      BY <2>1 DEF KeytoolInv, InputOK, StepsOK
    <3>2. ~(l \in 1..(f - 1))
      BY <2>3, <2>5 DEF IsFirst, Names
    <3> QED
      BY <3>1, <3>2
  <2> QED
    BY <2>1, <2>3, <2>4, <2>5 DEF Reason, InputNumbers, IsFirst, Names
<1>3. CASE UNCHANGED ktVars
  <2>1. UNCHANGED <<job, phase, fault>>
    BY <1>3 DEF ktVars
  <2>2. Reason
    BY <2>1 DEF KeytoolInv, RefusalOK
  <2> QED
    BY <2>1, <2>2 DEF Reason, InputNumbers
<1>4. CASE LibraryFails \/ StartSignmsg
  BY <1>4 DEF LibraryFails, StartSignmsg
<1>5. CASE Address \/ StartSign \/ PrintSigned \/ Signmsg
  BY <1>5 DEF Address, StartSign, PrintSigned, Signmsg
<1> QED
  BY <1>1, <1>2, <1>3, <1>4, <1>5 DEF KeytoolNext

LEMMA KeytoolAlways == KeytoolSpec => []KeytoolInv
<1>1. KeytoolInit => KeytoolInv
  BY KeytoolStarts
<1>2. KeytoolInv /\ [KeytoolNext]_ktVars => KeytoolInv'
  BY StepsStay, InputStays, LinesStay, WitnessesStay, PrintedStays, RefusalStays DEF KeytoolInv
<1> QED
  BY <1>1, <1>2, PTL DEF KeytoolSpec

\* The node accepts what sign prints exactly when every prevout line it used was true, and
\* sign refuses nothing that it could sign (cmd_sign).
THEOREM SignedIsSpendable == KeytoolSpec => []SpendsWhatItPrints
<1>1. ASSUME KeytoolInv, SignedTx
      PROVE  (\A n \in InputNumbers : NodeTakes(chain, job.tx, n, witness[n])) <=> (\A n \in InputNumbers : True(byin[n]))
  <2>1. Aligned /\ job.tx \in Txs
    BY <1>1 DEF SignedTx, KeytoolInv, LinesOK, Aligned
  <2>2. \A n \in InputNumbers : witness[n] = WitnessOf(n) /\ OursAt(n)
    BY <1>1 DEF SignedTx, KeytoolInv, WitnessesOK, PrintedOK, InputNumbers
  <2>3. ASSUME \A n \in InputNumbers : True(byin[n]), NEW n \in InputNumbers
        PROVE  NodeTakes(chain, job.tx, n, witness[n])
    BY <2>1, <2>2, <2>3, TrueLinesSpend
  <2>4. ASSUME NEW n \in InputNumbers, NodeTakes(chain, job.tx, n, witness[n])
        PROVE  True(byin[n])
    <3>1. Spends(chain, job.tx, n, witness[n].sig)
      BY <2>4, Zenon DEF NodeTakes
    <3>2. witness[n] = WitnessOf(n)
      BY <2>2
    <3>3. WitnessOf(n).sig = Signed(KeyOf(n), MessageOf(n))
      BY DEF WitnessOf
    <3> QED
      BY <2>1, <3>1, <3>2, <3>3, SpendsOnlyThis DEF InputNumbers
  <2> QED
    BY <2>3, <2>4
<1>2. KeytoolInv => SpendsWhatItPrints
  BY <1>1 DEF SpendsWhatItPrints, KeytoolInv, RefusalOK, Reason
<1> QED
  BY <1>2, KeytoolAlways, PTL

\* What a finished process printed spends only the transaction it was asked to sign, a
\* sign-in signature nothing, and no secret is left behind (cmd_sign, cmd_signmsg).
THEOREM NothingElseIsSpent == KeytoolSpec => []OnlyThePrintedSpends
<1>1. ASSUME KeytoolInv, Ended, NEW sig \in released, NEW tx \in Txs, NEW n \in 1..Len(tx.ins),
             Spends(chain, tx, n, sig)
      PROVE  SignedTx /\ tx = job.tx
  <2>1. phase = "printed"
    BY <1>1 DEF KeytoolInv, StepsOK, Ended
  <2>2. CASE job.cmd = "sign"
    <3>1. Aligned /\ \A i \in InputNumbers : witness[i] = WitnessOf(i)
      BY <2>1, <2>2, <1>1 DEF KeytoolInv, LinesOK, WitnessesOK, PrintedOK, InputNumbers
    <3>2. PICK i \in InputNumbers : sig = WitnessOf(i).sig
      BY <1>1, <2>1, <2>2, <3>1 DEF KeytoolInv, PrintedOK
    <3>3. WitnessOf(i).sig = Signed(KeyOf(i), MessageOf(i))
      BY DEF WitnessOf
    <3> QED
      BY <1>1, <2>1, <2>2, <3>1, <3>2, <3>3, SpendsOnlyThis DEF SignedTx
  <2>3. CASE job.cmd = "signmsg"
    <3>1. sig = Signed(KeyAt(job.key), job.message) /\ ~(job.message.len < 65)
      BY <1>1, <2>1, <2>3 DEF KeytoolInv, PrintedOK, InputOK, TooShort
    <3>2. PICK i \in Indexes : sig = [key |-> KeyAt(i).pq, message |-> NodeMessage(chain, tx, n, KeyAt(i))]
      BY <1>1, Zenon DEF Spends, Verifies
    <3>3. job.message = NodeMessage(chain, tx, n, KeyAt(i))
      BY <3>1, <3>2 DEF Signed
    <3>4. job.message.len = 32
      BY <3>3, LengthOfAHash
    <3> QED
      BY <3>1, <3>4
  <2> QED
    BY <1>1, <2>1, <2>2, <2>3 DEF KeytoolInv, StepsOK
<1>2. KeytoolInv => OnlyThePrintedSpends
  BY <1>1 DEF OnlyThePrintedSpends, Ended, KeytoolInv, StepsOK
<1> QED
  BY <1>2, KeytoolAlways, PTL
=============================================================================

------------------------------- MODULE TxSize -------------------------------
(***************************************************************************)
(* The size of a post-quantum transaction, twice: as plan_payment budgets  *)
(* it before anything is signed (estimate_sizes, fee_for, max_inputs in    *)
(* wallet_cli.py), and as the keytool serialises it once it is signed      *)
(* (cmd_sign in xcoin-wallet.cpp).  The two are written in two languages   *)
(* and never meet in the code: the fee and the relay limit depend on the   *)
(* first being an upper bound of the second.                               *)
(***************************************************************************)
EXTENDS Integers

CONSTANTS
  MaxIn,       \* bound: the most inputs a transaction is grown to; plans end at MaxInputs
  FeeRates     \* fee rates checked, in satoshis per 1000 vbytes

\* The estimate writes every count of inputs in three bytes at most, as far as 65535.
MaxCount == 65535
ASSUME TxSizeAssumption == MaxIn \in 0..MaxCount /\ FeeRates \subseteq Nat

PubkeySize       == 1952
SignatureSize    == 3309
LeafSize         == 34
ControlOneLeaf   == 33
ControlTwoLeaf   == 65
WitnessPerInput  == 1 + 3 + PubkeySize + 3 + SignatureSize + 1 + LeafSize + 1 + ControlTwoLeaf
InputBaseSize    == 36 + 1 + 4
OutputSize       == 8 + 1 + 34
MaxStandardWeight == 400000

CeilDiv(a, b) == (a + b - 1) \div b

\* estimate_sizes(n_in, n_out): every input budgeted as a two-leaf spend.
Varint(n)          == IF n < 253 THEN 1 ELSE 3
BaseSize(nIn, nOut) == 4 + Varint(nIn) + InputBaseSize * nIn + Varint(nOut) + OutputSize * nOut + 4
EstimatedVsize(nIn, nOut) ==
  CeilDiv(BaseSize(nIn, nOut) * 4 + 2 + WitnessPerInput * nIn, 4)

\* fee_for: the fee in whole satoshis, rounded up.
\* Mutant: rounded down.
FeeRoundedDown(nIn, nOut, rate) == (rate * EstimatedVsize(nIn, nOut)) \div 1000
FeeFor(nIn, nOut, rate) == CeilDiv(rate * EstimatedVsize(nIn, nOut), 1000)

\* max_inputs(): count up while one more input still fits the standard weight.
Fits(n)   == EstimatedVsize(n, 2) * 4 <= MaxStandardWeight
MaxInputs  == CHOOSE n \in 0..MaxStandardWeight : ~Fits(n + 1) /\ \A m \in 1..n : Fits(m)
-----------------------------------------------------------------------------
\* put_compact: the length prefix of every vector the keytool writes.
CompactSize(n) == IF n < 253 THEN 1 ELSE IF n <= MaxCount THEN 3 ELSE 5
Item(len)      == CompactSize(len) + len

\* The witness of an input on the two-leaf or on the carried single-leaf tree:
\* the item count, then public key, signature, leaf script and control block.
WitnessSize(control) ==
  CompactSize(4) + Item(PubkeySize) + Item(SignatureSize) + Item(LeafSize) + Item(control)

\* Version, inputs with an empty scriptSig, outputs to 34-byte scripts, locktime.
SignedBase(nIn, nOut) ==
  4 + CompactSize(nIn) + (32 + 4 + Item(0) + 4) * nIn
    + CompactSize(nOut) + (8 + Item(34)) * nOut + 4

SignedWeight(nTwo, nCarried, nOut) ==
  4 * SignedBase(nTwo + nCarried, nOut) + 2
    + nTwo * WitnessSize(ControlTwoLeaf) + nCarried * WitnessSize(ControlOneLeaf)
SignedVsize(nTwo, nCarried, nOut) == CeilDiv(SignedWeight(nTwo, nCarried, nOut), 4)
-----------------------------------------------------------------------------
VARIABLES twoLeaf, carried, outputs

sizeVars == <<twoLeaf, carried, outputs>>
Inputs == twoLeaf + carried

\* A transaction of one input, with a change output or without.
SizeInit == twoLeaf \in 0..1 /\ carried = 1 - twoLeaf /\ outputs \in 1..2

\* plan_payment's loop takes the next coin, of either address form.
AddInput ==
  /\ Inputs < MaxIn
  /\ \/ twoLeaf' = twoLeaf + 1 /\ UNCHANGED carried
     \/ carried' = carried + 1 /\ UNCHANGED twoLeaf
  /\ UNCHANGED outputs

SizeSpec == SizeInit /\ [][AddInput]_sizeVars
-----------------------------------------------------------------------------
\* "never an underpaid fee" (wallet_cli.py:40-41): whatever mix of address forms
\* is spent, and whether or not a change output is written in the end, the fee
\* budgeted for two outputs pays the asked rate for the bytes really signed.
NeverUnderpaid ==
  \A rate \in FeeRates :
    1000 * FeeFor(Inputs, 2, rate) >= rate * SignedVsize(twoLeaf, carried, outputs)

\* README: "One transaction carries at most 72 ML-DSA inputs".  The bytes the keytool
\* writes for so many, of any form, keep the node's standard weight; one input more
\* would not, so the limit refuses no payment it need not.
LimitIsExact ==
  /\ MaxInputs = 72
  /\ Inputs <= MaxInputs => SignedWeight(twoLeaf, carried, outputs) <= MaxStandardWeight
  /\ Inputs > MaxInputs /\ carried = 0 /\ outputs = 2 =>
       SignedWeight(twoLeaf, carried, outputs) > MaxStandardWeight

\* Fee and limit hold for what the keytool writes, over every mix of inputs.
EstimateHolds == NeverUnderpaid /\ LimitIsExact
=============================================================================

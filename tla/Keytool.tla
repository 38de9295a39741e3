------------------------------- MODULE Keytool -------------------------------
(***************************************************************************)
(* The offline signer (xcoin-wallet.cpp): key derivation, the two script   *)
(* trees of a key, and its commands _address, sign and _signmsg, beside    *)
(* the node that has to accept what sign prints.                           *)
(*                                                                         *)
(* Hashes, keys and scripts are symbolic: a hash is the record of what was *)
(* hashed, so two hashes are equal exactly when their inputs are.          *)
(***************************************************************************)
EXTENDS Integers, Sequences, FiniteSets

CONSTANTS
  Seed,         \* the wallet's seed
  Indexes,      \* key indexes as they are typed
  IntWidth,     \* 2^32 in the code: what an index is stored in
  LongWidth,    \* 2^64 in the code: what an index is read into
  Chains,       \* what the node knows: coin -> [script, amount]
  Payments,     \* what a transaction pays: one value for all of its outputs
  Lines(_),     \* the prevout lines that may be given about a chain
  MaxLines,     \* bound: prevout lines given to one sign
  Texts,        \* sign-in messages, records with a length
  MaxShown      \* bound: addresses shown

ASSUME KeytoolAssumption ==
  /\ Indexes \subseteq Nat /\ MaxLines \in Nat /\ MaxShown \in Nat
  /\ \A known \in Chains : \A line \in Lines(known) : line.key \in Indexes
  /\ IntWidth \in Nat \ {0} /\ LongWidth \in Nat \ {0}
-----------------------------------------------------------------------------
\* strtoul and %lu stop at the largest unsigned long; the cast keeps the low half.
AsRead(i) == (IF i < LongWidth THEN i ELSE LongWidth - 1) % IntWidth

\* derive_child_seed, derive_slh_seed: one absorb per argument, one domain each.
Master(seed)       == [master |-> seed]
ChildSeed(seed, i) == [child |-> Master(seed), index |-> AsRead(i)]
SlhSeed(child)     == [slhSeed |-> child]

\* derive_key_material: both public keys of an index.
KeyAt(i) == LET child == ChildSeed(Seed, i) IN [pq |-> [pqKey |-> child], slh |-> [slhKey |-> SlhSeed(child)]]
PqHash(k) == [sha256 |-> k.pq]

PqLeaf  == 192   \* XCOIN_LEAF_PQ, 0xc0
SlhLeaf == 194   \* XCOIN_LEAF_SLH, 0xc2

Checksig(key32)        == [checksig |-> key32]
LeafHash(version, script) == [leaf |-> version, script |-> script]
BranchHash(a, b)       == [branch |-> {a, b}]
ControlBlock(version, siblings) == [version |-> version, path |-> siblings]

\* build_trees
LeafPq(k)  == LeafHash(PqLeaf, Checksig(PqHash(k)))
LeafSlh(k) == LeafHash(SlhLeaf, Checksig(k.slh))
Root2(k)   == BranchHash(LeafPq(k), LeafSlh(k))
Root1(k)   == LeafPq(k)

\* Output scripts: OP_3 <root>, and OP_2 <key hash> of the first chain.
Script(op, program) == [op |-> op, program |-> program]
TwoLeaf(k) == Script(3, Root2(k))
Carried(k) == Script(3, Root1(k))
Legacy(k)  == Script(2, PqHash(k))
-----------------------------------------------------------------------------
\* A transaction has inputs [coin, sequence] and its outputs.
Field(s, f(_)) == [n \in 1..Len(s) |-> f(s[n])]
CoinOf(in)     == in.coin
SequenceOf(in) == in.sequence
AmountOf(line) == line.amount
ScriptOf(line) == line.script

\* Mutant: the amounts of the coins before the last are not hashed.
PrecomputeLastAmount(tx, byin) ==
  [prevouts |-> Field(tx.ins, CoinOf), amounts |-> <<byin[Len(byin)].amount>>,
   scripts |-> Field(byin, ScriptOf), sequences |-> Field(tx.ins, SequenceOf), outputs |-> tx.outs]

\* v3_precompute: every spent output in input order.
Precompute(tx, byin) ==
  [prevouts |-> Field(tx.ins, CoinOf), amounts |-> Field(byin, AmountOf), scripts |-> Field(byin, ScriptOf),
   sequences |-> Field(tx.ins, SequenceOf), outputs |-> tx.outs]

\* v3_sighash and bip143_sighash: 32 bytes each.
V3Sighash(h, n, leaf) == [len |-> 32, v3 |-> h, input |-> n, leaf |-> leaf]
Bip143Sighash(tx, n, scriptCode, amount) ==
  [len |-> 32, prevouts |-> Field(tx.ins, CoinOf), sequences |-> Field(tx.ins, SequenceOf),
   input |-> tx.ins[n], scriptCode |-> scriptCode, amount |-> amount, outputs |-> tx.outs]

\* ML-DSA: a signature is its key and message, and verifies for no other.
Signed(k, message)          == [key |-> k.pq, message |-> message]
Verifies(pk, message, sig)  == sig = [key |-> pk, message |-> message]
-----------------------------------------------------------------------------
\* The node.  What it hashes of the spent coins is what the chain says of them.
NodeMessage(chain, tx, n, k) ==
  LET coins == [i \in 1..Len(tx.ins) |-> chain[tx.ins[i].coin]]
      spent == coins[n]
  IN IF spent.script.op = 3
       THEN [len |-> 32, input |-> n, leaf |-> LeafPq(k),
             v3 |-> [prevouts |-> [i \in 1..Len(tx.ins) |-> tx.ins[i].coin],
                     amounts |-> [i \in 1..Len(coins) |-> coins[i].amount],
                     scripts |-> [i \in 1..Len(coins) |-> coins[i].script],
                     sequences |-> [i \in 1..Len(tx.ins) |-> tx.ins[i].sequence], outputs |-> tx.outs]]
       ELSE [len |-> 32, prevouts |-> [i \in 1..Len(tx.ins) |-> tx.ins[i].coin],
             sequences |-> [i \in 1..Len(tx.ins) |-> tx.ins[i].sequence], input |-> tx.ins[n],
             scriptCode |-> spent.script, amount |-> spent.amount, outputs |-> tx.outs]

\* Whether the key of index i is one that the coin's script lets spend, by its ML-DSA leaf.
Controls(i, script) == script \in {TwoLeaf(KeyAt(i)), Carried(KeyAt(i)), Legacy(KeyAt(i))}

\* A signature spends input n when some key that controls the coin made it of this message.
Spends(chain, tx, n, sig) ==
  \E i \in Indexes : /\ Controls(i, chain[tx.ins[n].coin].script)
                     /\ Verifies(KeyAt(i).pq, NodeMessage(chain, tx, n, KeyAt(i)), sig)

\* The witness of a v3 input: the control block leads from the leaf to the program.
Commits(w, program) ==
  LET leaf == LeafHash(w.control.version, w.script)
  IN program = IF w.control.path = <<>> THEN leaf ELSE BranchHash(leaf, w.control.path[1])
NodeTakes(chain, tx, n, w) ==
  LET script == chain[tx.ins[n].coin].script
  IN /\ Spends(chain, tx, n, w.sig)
     /\ script.op = 3 => w.script = Checksig([sha256 |-> w.pk]) /\ Commits(w, script.program)
     /\ script.op = 2 => w.hashType = "all" /\ script.program = [sha256 |-> w.pk]
-----------------------------------------------------------------------------
VARIABLES
  chain,     \* what the node knows, and the explorer should report
  job,       \* the command and its input
  phase,     \* "idle" | "align" | "input" | "printed" | "refused"
  byin,      \* sign: the prevout line of every input
  witness,   \* sign: the witnesses made so far
  held,      \* the secrets in memory
  fault,     \* whether the signature library reported an error
  released,  \* the signatures printed
  shown      \* the addresses shown: [index, scripts]

ktVars == <<chain, job, phase, byin, witness, held, fault, released, shown>>

\* Transactions of one or two inputs, no coin twice.
Orders(coins) == {<<a>> : a \in coins} \cup {o \in coins \X coins : o[1] # o[2]}
Txs == {[ins |-> [n \in 1..Len(o) |-> [coin |-> o[n], sequence |-> s]], outs |-> p] :
          o \in Orders(DOMAIN chain), s \in 0..1, p \in Payments}

KeytoolInit ==
  /\ chain \in Chains
  /\ job = [cmd |-> "none"] /\ phase = "idle" /\ byin = <<>> /\ witness = <<>>
  /\ held = {} /\ fault = FALSE /\ released = {} /\ shown = {}

\* Every exit after the seed was read wipes it; the key's destructor wipes its secret.
Refuse == phase' = "refused" /\ held' = {} /\ UNCHANGED released

\* _address: both scripts of an index; no secret key is kept.
Address ==
  /\ phase = "idle" /\ Cardinality(shown) < MaxShown
  /\ \E i \in Indexes : shown' = shown \cup {[index |-> i, scripts |-> <<TwoLeaf(KeyAt(i)), Carried(KeyAt(i))>>]}
  /\ UNCHANGED <<chain, job, phase, byin, witness, held, fault, released>>

\* sign: the seed, the transaction and the lines; a line that does not parse ends it.
StartSign ==
  /\ phase = "idle" /\ shown = {}
  /\ \E tx \in Txs, n \in 0..MaxLines : \E lines \in [1..n -> Lines(chain)], parses \in BOOLEAN :
       job' = [cmd |-> "sign", tx |-> tx, lines |-> lines, parses |-> parses]
  /\ phase' = "align" /\ held' = {"seed"}
  /\ UNCHANGED <<chain, byin, witness, fault, released, shown>>

\* The first line that names the coin of input n, where the search breaks off.
Names(l, n)  == job.lines[l].coin = job.tx.ins[n].coin
IsFirst(l, n) == Names(l, n) /\ \A earlier \in 1..(l - 1) : ~Names(earlier, n)
HasLine(n)   == \E l \in DOMAIN job.lines : IsFirst(l, n)
LineOf(n)    == job.lines[CHOOSE l \in DOMAIN job.lines : IsFirst(l, n)]
InputNumbers == 1..Len(job.tx.ins)
Align ==
  /\ phase = "align"
  /\ IF job.parses /\ \A n \in InputNumbers : HasLine(n)
       THEN /\ byin' = [n \in InputNumbers |-> LineOf(n)]
            /\ phase' = "input" /\ UNCHANGED <<held, released>>
       ELSE Refuse /\ UNCHANGED byin
  /\ UNCHANGED <<chain, job, witness, fault, shown>>

\* What one input needs: its key must be one its script names, its signature good.
NextInput  == Len(witness) + 1
LineNow    == byin[NextInput]
KeyNow     == KeyAt(LineNow.key)
Message    == IF LineNow.script.op = 3
                THEN V3Sighash(Precompute(job.tx, byin), NextInput, LeafPq(KeyNow))
                ELSE Bip143Sighash(job.tx, NextInput, LineNow.script, LineNow.amount)
IsOurs     == LineNow.script \in {TwoLeaf(KeyNow), Carried(KeyNow), Legacy(KeyNow)}
SelfCheck  == LineNow.script.op = 3 => Verifies(KeyNow.pq, Message, Signed(KeyNow, Message))
WitnessNow ==
  IF LineNow.script.op = 3
    THEN [pk |-> KeyNow.pq, sig |-> Signed(KeyNow, Message), script |-> Checksig(PqHash(KeyNow)),
          control |-> ControlBlock(PqLeaf, IF LineNow.script = TwoLeaf(KeyNow) THEN <<LeafSlh(KeyNow)>> ELSE <<>>)]
    ELSE [pk |-> KeyNow.pq, sig |-> Signed(KeyNow, Message), hashType |-> "all"]

SignInput ==
  /\ phase = "input" /\ NextInput \in InputNumbers
  /\ IF IsOurs /\ SelfCheck
       THEN witness' = Append(witness, WitnessNow) /\ UNCHANGED <<phase, held, released>>
       ELSE Refuse /\ UNCHANGED witness
  /\ UNCHANGED <<chain, job, byin, fault, shown>>

\* Key generation or signing reports an error.
LibraryFails ==
  /\ \/ phase = "input" /\ NextInput \in InputNumbers
     \/ phase = "message"
  /\ fault' = TRUE /\ Refuse
  /\ UNCHANGED <<chain, job, byin, witness, shown>>

\* Only now is anything printed: the transaction with all of its witnesses.
PrintSigned ==
  /\ phase = "input" /\ NextInput \notin InputNumbers
  /\ phase' = "printed" /\ held' = held \ {"seed"}
  /\ released' = {witness[n].sig : n \in InputNumbers}
  /\ UNCHANGED <<chain, job, byin, witness, fault, shown>>

\* _signmsg: what is short enough to be a spend's message is refused.
\* Mutant: only what is shorter than one is.
ShorterThanAHash(message) == message.len < 32
TooShort(message) == message.len < 65

\* Anyone may choose the message: a text, or what a spend of some transaction hashes to.
SpendMessages == {NodeMessage(chain, tx, 1, KeyAt(i)) : tx \in Txs, i \in Indexes}
StartSignmsg ==
  /\ phase = "idle" /\ shown = {}
  /\ \E message \in Texts \cup SpendMessages, i \in Indexes :
       /\ job' = [cmd |-> "signmsg", message |-> message, key |-> i]
       /\ IF TooShort(message) THEN Refuse
          ELSE phase' = "message" /\ held' = {"pq_sk"} /\ UNCHANGED released
  /\ UNCHANGED <<chain, byin, witness, fault, shown>>

Signmsg ==
  /\ phase = "message"
  /\ phase' = "printed" /\ held' = {}
  /\ released' = {Signed(KeyAt(job.key), job.message)}
  /\ UNCHANGED <<chain, job, byin, witness, fault, shown>>

KeytoolNext ==
  \/ Address \/ StartSign \/ Align \/ SignInput \/ LibraryFails \/ PrintSigned \/ StartSignmsg \/ Signmsg

KeytoolSpec == KeytoolInit /\ [][KeytoolNext]_ktVars
-----------------------------------------------------------------------------
Ended       == phase \in {"printed", "refused"}
SignedTx    == job.cmd = "sign" /\ phase = "printed"
True(line)  == line.script = chain[line.coin].script /\ line.amount = chain[line.coin].amount

\* "the v3 sighash commits to every spent output ... in input order" (xcoin-wallet.cpp:573-574).
\* The node accepts what sign prints exactly when every prevout line it used told the
\* truth: a wrong amount or script from the explorer costs no fee and moves no coin.  And
\* sign refuses only for a reason: it never turns away a payment that it could sign.
SpendsWhatItPrints ==
  /\ SignedTx =>
       ((\A n \in InputNumbers : NodeTakes(chain, job.tx, n, witness[n])) <=> (\A n \in InputNumbers : True(byin[n])))
  /\ phase = "refused" /\ job.cmd = "sign" /\ ~fault =>
       \/ ~job.parses
       \/ \E n \in InputNumbers : \A l \in DOMAIN job.lines :
            \/ job.lines[l].coin # job.tx.ins[n].coin
            \/ ~Controls(job.lines[l].key, job.lines[l].script)
            \/ \E earlier \in 1..(l - 1) : job.lines[earlier].coin = job.lines[l].coin

\* "a sign-in challenge can never double as a spend signature" (xcoin-wallet.cpp:713-715).
\* What a finished process leaves, on its output or in its memory, spends the coins of no
\* transaction but the one it was asked to sign, and nothing at all after a refusal.
OnlyThePrintedSpends ==
  Ended =>
    /\ held = {}
    /\ \A sig \in released, tx \in Txs : \A n \in 1..Len(tx.ins) :
         Spends(chain, tx, n, sig) => SignedTx /\ tx = job.tx

\* "The lengths differ, so the two can never collide" (wallet_cli.py:394-395): no two
\* key indexes are shown the same address.
EveryIndexHasItsAddress ==
  \A a \in shown, b \in shown : a.index # b.index => a.scripts # b.scripts
=============================================================================

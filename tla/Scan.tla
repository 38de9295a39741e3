-------------------------------- MODULE Scan --------------------------------
(***************************************************************************)
(* How the wallet learns of its coins: both scripts of a key are asked     *)
(* for, in one call of the node or one request per address of the          *)
(* explorer, while blocks come (and go, in a reorganisation); the answers  *)
(* are merged, coins of other scripts dropped, and young coinbases set     *)
(* aside (wallet_scan, ExplorerRPC scantxoutset, tag_kinds,                *)
(* classify_utxos).                                                        *)
(***************************************************************************)
EXTENDS Integers, FiniteSets

CONSTANTS
  Txs,       \* transactions that may pay the wallet
  Coins,     \* their outputs, <<transaction, vout>>
  Payments,  \* what the outputs may pay: functions from Coins to scripts
  Maturity,  \* COINBASE_MATURITY, 1000 in the code
  MaxTip     \* bound: the chain's height

ASSUME ScanAssumption ==
  Maturity \in Nat \ {0} /\ MaxTip \in Nat \ {0} /\ Coins \subseteq Txs \X Nat
  /\ Payments \subseteq [Coins -> {"two_leaf", "carried", "other"}]

Ours     == {"two_leaf", "carried"}
Backends == {"node", "explorer"}
\* What an answer says of a coin's age: Bitcoin's scantxoutset gives its height.
Styles   == {"confirmations", "height", "nothing"}

VARIABLES
  tip, minedAt, spentAt,   \* the chain: 0 is "not yet"
  pays, coinbase,          \* what the transactions are
  backend, style,
  left,       \* scripts not yet asked for; {} before and after the scan
  done,
  height,     \* the greatest height of an answer
  unspents,   \* what the answers gave: each coin, its height and confirmations
  moments,    \* history: the wallet's unspent coins at each moment of the scan
  reorged     \* history: a block was taken back during the scan

chain == <<tip, minedAt, spentAt, pays, coinbase, backend, style>>
vars  == <<chain, left, done, height, unspents, moments, reorged>>

Mined(c)     == minedAt[c[1]] # 0
Unspent      == {c \in Coins : Mined(c) /\ spentAt[c] = 0}
OursNow      == {c \in Unspent : pays[c] \in Ours}
\* The chain's rule for a coin to be spent in the next block.
Spendable(c) == c[1] \in coinbase => tip + 1 - minedAt[c[1]] >= Maturity
Scanning     == left # {} /\ ~done

Init ==
  /\ tip = 0 /\ minedAt = [t \in Txs |-> 0] /\ spentAt = [c \in Coins |-> 0]
  /\ pays \in Payments /\ coinbase \in SUBSET Txs
  /\ backend \in Backends /\ style \in Styles
  /\ left = {} /\ done = FALSE /\ height = 0 /\ unspents = {} /\ moments = {} /\ reorged = FALSE
-----------------------------------------------------------------------------
(* The chain.                                                               *)

\* A scan that is under way sees another moment.
Witness == moments' = IF Scanning THEN moments \cup {OursNow'} ELSE moments

Block ==
  /\ ~done /\ tip < MaxTip /\ tip' = tip + 1   \* what comes after the scan is not looked at
  /\ \E new \in SUBSET {t \in Txs : minedAt[t] = 0}, gone \in SUBSET {c \in Unspent : Spendable(c)} :
       /\ minedAt' = [t \in Txs |-> IF t \in new THEN tip + 1 ELSE minedAt[t]]
       /\ spentAt' = [c \in Coins |-> IF c \in gone THEN tip + 1 ELSE spentAt[c]]
  /\ UNCHANGED <<pays, coinbase, backend, style, left, done, height, unspents, reorged>>
  /\ Witness

\* The last block is taken back, once in a scan (a bound); another will follow.
Reorg ==
  /\ Scanning /\ ~reorged /\ tip > 0 /\ tip' = tip - 1 /\ reorged' = TRUE
  /\ minedAt' = [t \in Txs |-> IF minedAt[t] = tip THEN 0 ELSE minedAt[t]]
  /\ spentAt' = [c \in Coins |-> IF spentAt[c] = tip THEN 0 ELSE spentAt[c]]
  /\ UNCHANGED <<pays, coinbase, backend, style, left, done, height, unspents>>
  /\ Witness
-----------------------------------------------------------------------------
(* The scan.                                                                *)

Begin ==
  /\ left = {} /\ ~done /\ left' = Ours /\ moments' = {OursNow}
  /\ UNCHANGED <<chain, done, height, unspents, reorged>>

\* Mutant: an output is known by its transaction.
KeyIsTxid(c) == c[1]
\* "never count one output twice"
Key(c)       == c
Seen(c)      == \E u \in unspents : Key(u.coin) = Key(c)
\* tag_kinds: a coin on neither script is dropped.
KeptKind(c)  == pays[c] \in Ours
Highest(h)   == IF tip > h THEN tip ELSE h
\* Mutant: the node too is asked once per script.
OneByOne     == {{s} : s \in left}
\* One descriptor list to the node; one request per address to the explorer.
Calls        == IF backend = "node" THEN {left} ELSE {{s} : s \in left}

\* What an answer says of a coin; -1 is "not told".
Told(c) == [coin |-> c, in |-> left, height |-> IF style = "nothing" THEN -1 ELSE minedAt[c[1]],
            confs |-> IF style = "confirmations" THEN tip - minedAt[c[1]] + 1 ELSE -1]

\* A misbehaving backend adds a coin it was not asked for, of any script.
Ask ==
  /\ Scanning
  /\ \E scripts \in Calls, odd \in {{}} \cup {{c} : c \in Unspent} :
       LET found == {c \in Unspent : pays[c] \in scripts} \cup odd
       IN /\ unspents' = unspents \cup {Told(c) : c \in {d \in found : ~Seen(d)}}
          /\ left' = left \ scripts
          /\ done' = (left = scripts)
  /\ height' = Highest(height)
  /\ UNCHANGED <<chain, moments, reorged>>

Next == Block \/ Reorg \/ Begin \/ Ask \/ (done /\ UNCHANGED vars)

Spec == Init /\ [][Next]_vars
-----------------------------------------------------------------------------
(* classify_utxos                                                           *)

Result == {u \in unspents : KeptKind(u.coin)}

\* Mutant: the block of the coin is counted twice.
OneTooMany(u) == IF u.confs # -1 THEN u.confs + 1 ELSE height - u.height + 2
Confirmations(u) ==
  CASE u.confs # -1  -> u.confs
    [] u.height # -1 -> height - u.height + 1
    [] OTHER         -> 1   \* its height is taken to be the tip's

Young(u)  == u.coin[1] \in coinbase /\ Confirmations(u) < Maturity
Immature  == {u \in Result : Young(u)}
Mature    == {u \in Result : ~Young(u)}
BlocksToMaturity(u) == Maturity - Confirmations(u)
-----------------------------------------------------------------------------
TypeOK ==
  /\ tip \in 0..MaxTip /\ minedAt \in [Txs -> 0..MaxTip] /\ spentAt \in [Coins -> 0..MaxTip]
  /\ pays \in Payments /\ coinbase \subseteq Txs
  /\ backend \in Backends /\ style \in Styles
  /\ left \subseteq Ours /\ done \in BOOLEAN /\ reorged \in BOOLEAN /\ height \in 0..MaxTip
  /\ unspents \subseteq [coin : Coins, in : SUBSET Ours, height : -1..MaxTip, confs : -1..MaxTip]
  /\ moments \subseteq SUBSET Coins

\* A coin that stays unspent all through the scan is counted, whatever else of its
\* transaction is found or spent meanwhile; and none is counted twice, whichever
\* answers it came in and whatever the tip was then.
CountedOnce == done => \A c \in Coins :
  LET times == Cardinality({u \in Result : u.coin = c})
  IN times <= 1 /\ ((\A m \in moments : c \in m) => times = 1)

\* What one node answers was the wallet's state at one moment: no payment of the wallet to
\* itself is counted before and after, none is missed (one call for both scripts), and no
\* other wallet's coin is among them (tag_kinds).
OneMoment == done /\ backend = "node" => {u.coin : u \in Result} \in moments

\* A coin handed to the planner can be spent in the next block, as far as maturity goes,
\* also when the answers came at different heights.
MatureIsMature == done /\ ~reorged => \A u \in Mature : Spendable(u.coin)

\* "next spendable in n blocks" never names a block too early.
NotTooSoon == done /\ ~reorged =>
  \A u \in Immature : height + BlocksToMaturity(u) + 1 - minedAt[u.coin[1]] >= Maturity

\* The two sides of the maturity split: what may be spent, and from when the rest may.
MaturityIsTrue == MatureIsMature /\ NotTooSoon
=============================================================================

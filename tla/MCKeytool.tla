------------------------------ MODULE MCKeytool ------------------------------
\* What the wallet exchanges with others: the keytool's signing, the transactions, addresses
\* and sizes that pass between the two programs, and the session with a card.  A behaviour
\* runs one of the parts.
EXTENDS Keytool, RawTx, Bech32, TxSize, Session

VARIABLE part

vars == <<part, ktVars, rawVars, bechVars, sizeVars, sessionVars>>

\* 2^2 for 2^32 and 2^4 for 2^64: index 4 is stored as 0, and 17 as 3.
MCIndexes == {0, 1, 4, 17}

Foreign    == Script(0, "another")
Forms(i)   == {TwoLeaf(KeyAt(i)), Carried(KeyAt(i)), Legacy(KeyAt(i))}
Coin(s, a) == [script |-> s, amount |-> a]
MCChains ==
  {[c1 |-> Coin(s, 1), c2 |-> Coin(t, 2)] :
     s \in Forms(0), t \in {TwoLeaf(KeyAt(1)), Carried(KeyAt(4)), Legacy(KeyAt(1)), Foreign}}

\* The truth about a coin, under the right key index, with at most one thing wrong.
MCLines(known) ==
  UNION {LET Line(s, a, k) == [coin |-> c, script |-> s, amount |-> a, key |-> k]
             truth == known[c]
             key   == IF \E i \in Indexes : Controls(i, truth.script)
                        THEN CHOOSE i \in Indexes : Controls(i, truth.script) ELSE 0
         IN {Line(truth.script, truth.amount, k) : k \in {key, 1, 17}}
              \cup {Line(truth.script, 3, key), Line(Foreign, truth.amount, key)}
              \cup {Line(s, truth.amount, key) : s \in Forms(key)} :
         c \in DOMAIN known}

\* 34 bytes is what the SLH-DSA leaf signs.
MCTexts == {[len |-> l, text |-> "sign in"] : l \in {1, 34, 64, 65, 100}}

\* Bytes of eight values: a length takes one byte below 5, three below 64, then five.
\* Counts of inputs and lengths of scripts and witness items on both sides of each.
SomeBytes(n)  == [i \in 1..n |-> i % Byte]
Input(n)    == [txid |-> [i \in 1..HashSize |-> (i + n) % Byte], vout |-> 100 * n]
Output(n)   == <<9^n, SomeBytes(n)>>
MCAsked ==
  {[ins |-> [i \in 1..n |-> Input(i)], outs |-> outs, stacks |-> [i \in 1..n |-> items]] :
     n \in {1, 2, 4, 5, 6},
     outs \in {<<Output(1)>>, <<Output(5), Output(4)>>, <<Output(3), Output(6)>>},
     items \in {<<SomeBytes(70), SomeBytes(6), SomeBytes(4), SomeBytes(0)>>, <<SomeBytes(5), SomeBytes(63)>>}}
MCSequence == Byte^4 - 3

\* The two-leaf program of index 0 in the keytool's own test vectors (xcoin-wallet.cpp:813).
MCPrograms ==
  {<<95, 38, 40, 14, 213, 86, 126, 221, 58, 255, 254, 69, 152, 210, 60, 1, 208, 92, 162, 176, 89, 206, 47,
     150, 113, 9, 245, 104, 121, 25, 5, 43>>}

MCFeeRates == {1000, 1001, 1537, 9999}

\* The factory's key and one of the wallet's; a blank card, one half way through, a finished one.
MCCardKeys == {{}, {1}}
ACard(master, read, write) ==
  [keys |-> (KeyMaster :> master @@ KeyRead :> read @@ KeyWrite :> write), data |-> {}]
MCCards == {ACard({}, {}, {}), ACard({}, {1}, {}), ACard({1}, {1}, {1})}
MCCalls ==
  LET C(op, of, key, old, new) == [op |-> op, of |-> of, key |-> key, old |-> old, new |-> new]
  IN  {C("auth", of, key, {}, {}) : of \in Numbers, key \in MCCardKeys}
        \cup {C("read", 3, {}, {}, {}), C("write", 3, {}, {}, {1})}
        \cup {C("diff", KeyRead, {}, old, new) : old \in MCCardKeys, new \in MCCardKeys}
        \cup {C("same", KeyMaster, {}, {}, new) : new \in MCCardKeys}
        \cup {C("diff", KeyWrite, {}, {}, {1}), C("same", KeyWrite, {}, {}, {1})}

\* The parts that do not run stay in one of their initial states.
ASpend == [ins |-> <<Input(1)>>, outs |-> <<Output(1)>>, stacks |-> << <<SomeBytes(5), SomeBytes(63)>> >>]
AChain == [c1 |-> Coin(TwoLeaf(KeyAt(0)), 1), c2 |-> Coin(Foreign, 2)]
Init ==
  /\ part \in {"keytool", "raw", "address", "size", "session"}
  /\ KeytoolInit /\ (part = "keytool" \/ chain = AChain)
  /\ RawInit /\ (part = "raw" \/ payment = ASpend)
  /\ BechInit /\ (part = "address" \/ printed.hrp = "xpa")
  /\ SizeInit /\ (part = "size" \/ (outputs = 1 /\ twoLeaf = 1))
  /\ SessionInit /\ (part = "session" \/ card = ACard({}, {}, {}))

Next ==
  \/ part = "keytool" /\ KeytoolNext /\ UNCHANGED <<part, rawVars, bechVars, sizeVars, sessionVars>>
  \/ part = "raw" /\ RawNext /\ UNCHANGED <<part, ktVars, bechVars, sizeVars, sessionVars>>
  \/ part = "address" /\ Mistype /\ UNCHANGED <<part, ktVars, rawVars, sizeVars, sessionVars>>
  \/ part = "size" /\ AddInput /\ UNCHANGED <<part, ktVars, rawVars, bechVars, sessionVars>>
  \/ part = "session" /\ SessionNext /\ UNCHANGED <<part, ktVars, rawVars, bechVars, sizeVars>>

Spec == Init /\ [][Next]_vars
-----------------------------------------------------------------------------
\* What passes between the two programs arrives whole: transactions and addresses.
PassedOnWhole == (part = "raw" => TxSurvives) /\ (part = "address" => AddressReadBack)
=============================================================================

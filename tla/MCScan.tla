------------------------------- MODULE MCScan -------------------------------
\* What the wallet reads of the chain: its coins in one scan, its past in a walk over the
\* blocks.  A behaviour runs one of the two.
EXTENDS Scan, History

VARIABLE part

mcVars == <<part, vars, historyVars>>

CONSTANTS t1, t2

\* One transaction with two outputs, so that one may be spent without the other.
MCCoins == {<<t1, 0>>, <<t1, 1>>, <<t2, 0>>}

\* Both outputs to the wallet, on both scripts and on one; or one to another wallet.
Pays(a, b, c) == [coin \in MCCoins |-> CASE coin = <<t1, 0>> -> a [] coin = <<t1, 1>> -> b [] OTHER -> c]
MCPayments == {Pays("two_leaf", "carried", "two_leaf"), Pays("carried", "carried", "two_leaf"),
               Pays("carried", "other", "two_leaf")}

\* A coin, spent with change, and the change spent with change, on either script of the wallet.
MCInputs  == [t \in Transfers |->
  CASE t = "coin" -> {} [] t = "first" -> {<<"coin", 0>>} [] OTHER -> {<<"first", 1>>}]
MCAmounts == [o \in {<<"coin", 0>>, <<"first", 1>>, <<"second", 0>>} |->
  CASE o[1] = "coin" -> 5 [] o[1] = "first" -> 2 [] OTHER -> 1]

\* The part that does not run stays in one of its initial states.
MCInit ==
  /\ part \in {"scan", "history"}
  /\ Init /\ (part = "scan" \/ (coinbase = {} /\ backend = "node" /\ style = "nothing" /\ pays = Pays("carried", "other", "two_leaf")))
  /\ HistoryInit /\ (part = "history" \/ from = 1)
MCNext ==
  \/ part = "scan" /\ Next /\ UNCHANGED <<part, historyVars>>
  \/ part = "history" /\ HistoryNext /\ UNCHANGED <<part, vars>>
MCSpec == MCInit /\ [][MCNext]_mcVars
=============================================================================

----------------------------- MODULE ScanProofs -----------------------------
(***************************************************************************)
(* CountedOnce, OneMoment and MaturityIsTrue of Scan, for every set of     *)
(* transactions and payments, any height of the chain and any maturity;    *)
(* and HistoryIsTrue of History, for every transfer and height.            *)
(*                                                                         *)
(* A scan sees the chain at several moments.  The invariant says, of every *)
(* coin, in which of the answers so far it must be, and, of every answer,  *)
(* how old its coins are at most by the heights the answers gave.          *)
(***************************************************************************)
EXTENDS Scan, History, FiniteSetTheorems, NaturalsInduction, WellFoundedInduction, TLAPS

\* No block of the chain lies above its tip.
ChainOK ==
  /\ \A t \in Txs : minedAt[t] <= tip
  /\ \A c \in Coins : spentAt[c] <= tip

\* The chain as it is now is among the moments of a scan under way, and every moment is a
\* set of coins of the wallet.
MomentsOK ==
  /\ Scanning => OursNow \in moments
  /\ left # {} \/ done => moments # {}
  /\ \A m \in moments : \A c \in m : pays[c] \in Ours

Found(c) == \E u \in unspents : u.coin = c

\* A coin that was there at every moment so far is found as soon as its script was asked for.
Complete ==
  left # {} \/ done =>
    \A c \in Coins : (\A m \in moments : c \in m) /\ pays[c] \notin left => Found(c)

\* A coin is reported once.
Unique == \A u, v \in unspents : u.coin = v.coin => u = v

\* The one call of a node: nothing before it, and after it what one moment held.
OneCall ==
  /\ backend = "node" /\ ~done => unspents = {} /\ left \in {{}, Ours}
  /\ done => left = {} /\ OneMoment

\* How old the coins of the answers are, as long as no block was taken back.
AgesOK ==
  ~reorged =>
    /\ height <= tip
    /\ \A u \in unspents :
         LET block == minedAt[u.coin[1]]
         IN /\ block # 0 /\ block <= height
            /\ u.height \in {-1, block}
            /\ u.confs = -1 \/ u.confs + block <= height + 1

IInv == TypeOK /\ ChainOK /\ MomentsOK /\ Complete /\ Unique /\ OneCall /\ AgesOK
-----------------------------------------------------------------------------
LEMMA CoinsHaveTxs == ASSUME NEW c \in Coins PROVE c[1] \in Txs
BY ScanAssumption

LEMMA Initially == Init => IInv
<1> SUFFICES ASSUME Init PROVE IInv
  OBVIOUS
<1> USE ScanAssumption DEF Init
<1>1. done \in BOOLEAN /\ reorged \in BOOLEAN
  BY Zenon
<1>2. TypeOK
  BY <1>1 DEF TypeOK
<1> QED
  BY <1>2 DEF IInv, ChainOK, MomentsOK, Complete, Unique, OneCall, AgesOK, Scanning
-----------------------------------------------------------------------------
LEMMA ChainStep == TypeOK /\ ChainOK /\ [Next]_vars => ChainOK'
<1> SUFFICES ASSUME TypeOK, ChainOK, [Next]_vars PROVE ChainOK'
  OBVIOUS
<1> USE DEF ChainOK, TypeOK
<1>1. CASE Block
  BY <1>1 DEF Block
<1>2. CASE Reorg
  BY <1>2 DEF Reorg
<1>3. CASE Begin \/ Ask \/ UNCHANGED vars
  BY <1>3 DEF Begin, Ask, chain, vars
<1> QED
  BY <1>1, <1>2, <1>3 DEF Next

\* What an answer says of an unspent coin.
LEMMA ToldType ==
  ASSUME TypeOK, ChainOK, NEW c \in Unspent
  PROVE  Told(c) \in [coin : Coins, in : SUBSET Ours, height : -1..MaxTip, confs : -1..MaxTip]
<1>1. c \in Coins /\ minedAt[c[1]] \in 1..tip /\ tip \in 0..MaxTip
  BY CoinsHaveTxs, ScanAssumption DEF Unspent, Mined, TypeOK, ChainOK
<1>2. tip - minedAt[c[1]] + 1 \in -1..MaxTip /\ minedAt[c[1]] \in -1..MaxTip /\ -1 \in -1..MaxTip
  BY <1>1, ScanAssumption
<1> QED
  BY <1>1, <1>2 DEF Told, TypeOK

LEMMA TypeStep == TypeOK /\ ChainOK /\ [Next]_vars => TypeOK'
<1> SUFFICES ASSUME TypeOK, ChainOK, [Next]_vars PROVE TypeOK'
  OBVIOUS
<1> USE ScanAssumption
<1>0. OursNow \subseteq Coins /\ OursNow' \subseteq Coins
  BY DEF OursNow, Unspent
<1>1. CASE Block
  BY <1>0, <1>1 DEF Block, Witness, TypeOK
<1>2. CASE Reorg
  BY <1>0, <1>2 DEF Reorg, Witness, TypeOK
<1>3. CASE Begin
  BY <1>0, <1>3 DEF Begin, chain, TypeOK
<1>4. CASE Ask
  <2>1. UNCHANGED <<chain, moments, reorged>> /\ height' \in 0..MaxTip
    BY <1>4 DEF Ask, Highest, TypeOK
  <2>2. left' \subseteq Ours /\ done' \in BOOLEAN
    BY <1>4 DEF Ask, TypeOK
  <2>3. PICK new \in SUBSET Unspent : unspents' = unspents \cup {Told(c) : c \in new}
    BY <1>4 DEF Ask
  <2>4. unspents' \subseteq [coin : Coins, in : SUBSET Ours, height : -1..MaxTip, confs : -1..MaxTip]
    BY <2>3, ToldType DEF TypeOK
  <2> QED
    BY <2>1, <2>2, <2>4 DEF TypeOK, chain
<1>5. CASE UNCHANGED vars
  BY <1>5 DEF vars, chain, TypeOK
<1> QED
  BY <1>1, <1>2, <1>3, <1>4, <1>5 DEF Next
-----------------------------------------------------------------------------
LEMMA MomentsStep == IInv /\ [Next]_vars => MomentsOK'
<1> SUFFICES ASSUME IInv, [Next]_vars PROVE MomentsOK'
  OBVIOUS
<1> USE DEF IInv, MomentsOK
<1>0. (\A c \in OursNow : pays[c] \in Ours) /\ (\A c \in OursNow' : pays'[c] \in Ours)
  BY DEF OursNow
<1>1. CASE Block \/ Reorg
  <2>1. UNCHANGED <<pays, left, done>> /\ moments' = IF Scanning THEN moments \cup {OursNow'} ELSE moments
    BY <1>1 DEF Block, Reorg, Witness
  <2> QED
    BY <1>0, <2>1 DEF Scanning
<1>2. CASE Begin
  <2>1. UNCHANGED <<chain, done>> /\ moments' = {OursNow} /\ OursNow' = OursNow
    BY <1>2 DEF Begin, chain, OursNow, Unspent, Mined
  <2> QED
    BY <1>0, <2>1 DEF chain
<1>3. CASE Ask
  <2>1. UNCHANGED <<chain, moments>> /\ OursNow' = OursNow /\ Scanning
    BY <1>3 DEF Ask, chain, OursNow, Unspent, Mined
  <2> QED
    BY <2>1 DEF chain, Scanning
<1>4. CASE UNCHANGED vars
  BY <1>4 DEF vars, chain, OursNow, Unspent, Mined, Scanning
<1> QED
  BY <1>1, <1>2, <1>3, <1>4 DEF Next

\* What an answer adds: the coins it found that were not known.
LEMMA AskAdds ==
  ASSUME TypeOK, Ask
  PROVE  \E scripts \in SUBSET left, odd \in SUBSET Unspent :
           LET found == {c \in Unspent : pays[c] \in scripts} \cup odd
           IN /\ scripts \in Calls
              /\ unspents' = unspents \cup {Told(c) : c \in {d \in found : ~Found(d)}}
              /\ left' = left \ scripts /\ done' = (left' = {})
<1>1. PICK scripts \in Calls, odd \in {{}} \cup {{c} : c \in Unspent} :
        LET found == {c \in Unspent : pays[c] \in scripts} \cup odd
        IN /\ unspents' = unspents \cup {Told(c) : c \in {d \in found : ~Seen(d)}}
           /\ left' = left \ scripts /\ done' = (left = scripts)
  BY DEF Ask
<1>2. scripts \in SUBSET left /\ odd \in SUBSET Unspent
  BY DEF Calls
<1>3. done' = (left' = {})
  BY <1>1, <1>2
<1>4. \A d : Seen(d) <=> Found(d)
  BY DEF Seen, Key, Found
<1> QED
  BY <1>1, <1>2, <1>3, <1>4

LEMMA ToldCoin == \A c : Told(c).coin = c
BY DEF Told

LEMMA CompleteStep == IInv /\ [Next]_vars => Complete'
<1> SUFFICES ASSUME IInv, [Next]_vars PROVE Complete'
  OBVIOUS
<1> USE DEF IInv, Complete
<1>1. CASE Block \/ Reorg
  <2>1. UNCHANGED <<pays, left, done, unspents>> /\ moments \subseteq moments'
    BY <1>1 DEF Block, Reorg, Witness
  <2> QED
    BY <2>1 DEF Found
<1>2. CASE Begin
  <2>1. UNCHANGED <<pays, done>> /\ moments' = {OursNow} /\ left' = Ours
    BY <1>2 DEF Begin, chain
  <2> QED
    BY <2>1 DEF OursNow
<1>3. CASE Ask
  <2>1. PICK scripts \in SUBSET left, odd \in SUBSET Unspent :
          LET found == {c \in Unspent : pays[c] \in scripts} \cup odd
          IN /\ unspents' = unspents \cup {Told(c) : c \in {d \in found : ~Found(d)}}
             /\ left' = left \ scripts
    BY <1>3, AskAdds
  <2>2. UNCHANGED <<pays, moments>> /\ OursNow \in moments /\ left # {}
    BY <1>3 DEF Ask, chain, MomentsOK, Scanning
  <2>3. SUFFICES ASSUME NEW c \in Coins, \A m \in moments : c \in m, pays[c] \notin left \ scripts
                 PROVE  Found(c)'
    BY <2>1, <2>2
  <2>4. CASE pays[c] \in left
    <3>1. c \in Unspent /\ pays[c] \in scripts
      BY <2>2, <2>3, <2>4 DEF OursNow
    <3>2. CASE Found(c)
      BY <2>1, <3>2 DEF Found
    <3>3. CASE ~Found(c)
      <4>1. Told(c) \in unspents'
        BY <2>1, <3>1, <3>3
      <4> QED
        BY <4>1, ToldCoin DEF Found
    <3> QED
      BY <3>2, <3>3
  <2>5. CASE pays[c] \notin left
    BY <2>1, <2>2, <2>3, <2>5 DEF Found
  <2> QED
    BY <2>4, <2>5
<1>4. CASE UNCHANGED vars
  BY <1>4 DEF vars, chain, Found
<1> QED
  BY <1>1, <1>2, <1>3, <1>4 DEF Next

LEMMA UniqueStep == IInv /\ [Next]_vars => Unique'
<1> SUFFICES ASSUME IInv, [Next]_vars PROVE Unique'
  OBVIOUS
<1> USE DEF IInv
<1>1. CASE Block \/ Reorg \/ Begin \/ UNCHANGED vars
  BY <1>1 DEF Block, Reorg, Begin, vars, Unique
<1>2. CASE Ask
  <2>1. PICK new : /\ unspents' = unspents \cup {Told(c) : c \in new}
                   /\ \A c \in new : ~Found(c)
    BY <1>2, AskAdds
  <2>2. SUFFICES ASSUME NEW u \in unspents', NEW v \in unspents', u.coin = v.coin PROVE u = v
    BY DEF Unique
  <2>3. CASE u \in unspents /\ v \in unspents
    BY <2>2, <2>3 DEF Unique
  <2>4. CASE u \notin unspents /\ v \notin unspents
    BY <2>1, <2>2, <2>4, ToldCoin
  <2>5. CASE (u \in unspents) # (v \in unspents)
    BY <2>1, <2>2, <2>5, ToldCoin DEF Found
  <2> QED
    BY <2>3, <2>4, <2>5
<1> QED
  BY <1>1, <1>2 DEF Next

LEMMA OneCallStep == IInv /\ [Next]_vars => OneCall'
<1> SUFFICES ASSUME IInv, [Next]_vars PROVE OneCall'
  OBVIOUS
<1> USE DEF IInv, OneCall
<1>1. CASE Block \/ Reorg
  BY <1>1 DEF Block, Reorg, Scanning
<1>2. CASE Begin
  BY <1>2 DEF Begin, chain
<1>3. CASE Ask
  <2>1. PICK scripts \in SUBSET left, odd \in SUBSET Unspent :
          LET found == {c \in Unspent : pays[c] \in scripts} \cup odd
          IN /\ scripts \in Calls
             /\ unspents' = unspents \cup {Told(c) : c \in {d \in found : ~Found(d)}}
             /\ left' = left \ scripts /\ done' = (left' = {})
    BY <1>3, AskAdds
  <2>2. UNCHANGED <<chain, moments>> /\ OursNow \in moments /\ left # {} /\ ~done
    BY <1>3 DEF Ask, MomentsOK, Scanning
  <2>3. CASE backend # "node"
    BY <2>1, <2>2, <2>3 DEF chain, OneMoment
  <2>4. CASE backend = "node"
    <3>1. unspents = {} /\ left = Ours /\ scripts = Ours
      BY <2>1, <2>2, <2>4 DEF Calls
    <3>2. left' = {} /\ done' = TRUE /\ \A d : ~Found(d)
      BY <2>1, <3>1 DEF Found
    <3>3. unspents' = {Told(c) : c \in {c \in Unspent : pays[c] \in Ours} \cup odd}
      BY <2>1, <3>1, <3>2
    <3>4. {u.coin : u \in Result'} = OursNow
      <4>1. Result' = {u \in unspents' : pays[u.coin] \in Ours}
        BY <2>2 DEF Result, KeptKind, chain
      <4>2. ASSUME NEW c \in OursNow PROVE Told(c) \in Result' /\ Told(c).coin = c
        BY <3>3, <4>1, <4>2, ToldCoin DEF OursNow
      <4>3. ASSUME NEW u \in Result' PROVE u.coin \in OursNow
        BY <3>3, <4>1, <4>3, ToldCoin DEF OursNow
      <4> QED
        BY <4>2, <4>3
    <3>5. OneMoment'
      BY <2>2, <3>4 DEF OneMoment
    <3> QED
      BY <3>2, <3>5
  <2> QED
    BY <2>3, <2>4
<1>4. CASE UNCHANGED vars
  BY <1>4 DEF vars, chain, OneMoment, Result, KeptKind
<1> QED
  BY <1>1, <1>2, <1>3, <1>4 DEF Next

LEMMA AgesStep == IInv /\ [Next]_vars => AgesOK'
<1> SUFFICES ASSUME IInv, [Next]_vars, ~reorged' PROVE AgesOK'
  BY DEF AgesOK
<1> USE ScanAssumption DEF IInv
<1>0. \A u \in unspents : u.coin \in Coins /\ u.coin[1] \in Txs
  BY CoinsHaveTxs DEF TypeOK
<1>1. CASE Block
  BY <1>0, <1>1 DEF Block, TypeOK, AgesOK
<1>2. ~Reorg
  BY DEF Reorg
<1>3. CASE Begin \/ UNCHANGED vars
  BY <1>3 DEF Begin, chain, vars, AgesOK
<1>4. CASE Ask
  <2>1. PICK new \in SUBSET Unspent : unspents' = unspents \cup {Told(c) : c \in new}
    BY <1>4 DEF Ask
  <2>2. UNCHANGED <<chain, reorged>> /\ height' = tip
    BY <1>4 DEF Ask, Highest, AgesOK, TypeOK
  <2>3. ASSUME NEW u \in unspents
        PROVE  LET block == minedAt[u.coin[1]]
               IN /\ block # 0 /\ block <= tip /\ u.height \in {-1, block}
                  /\ u.confs = -1 \/ u.confs + block <= tip + 1
    <3>1. minedAt[u.coin[1]] \in Int /\ u.confs \in Int /\ height \in Int /\ tip \in Int
      BY <1>0 DEF TypeOK
    <3> QED
      BY <2>2, <3>1 DEF AgesOK
  <2>4. ASSUME NEW c \in new
        PROVE  LET block == minedAt[c[1]]
                   u     == Told(c)
               IN /\ u.coin = c /\ block # 0 /\ block <= tip /\ u.height \in {-1, block}
                  /\ u.confs = -1 \/ u.confs + block <= tip + 1
    BY CoinsHaveTxs DEF Told, Unspent, Mined, TypeOK, ChainOK
  <2>5. minedAt' = minedAt /\ tip' = tip /\ tip <= tip
    BY <2>2 DEF chain, TypeOK
  <2>6. ASSUME NEW u \in unspents'
        PROVE  LET block == minedAt[u.coin[1]]
               IN /\ block # 0 /\ block <= tip /\ u.height \in {-1, block}
                  /\ u.confs = -1 \/ u.confs + block <= tip + 1
    BY <2>1, <2>3, <2>4
  <2> QED
    BY <2>2, <2>5, <2>6 DEF AgesOK
<1> QED
  BY <1>1, <1>2, <1>3, <1>4 DEF Next
-----------------------------------------------------------------------------
LEMMA AlwaysIInv == Spec => []IInv
<1>1. Init => IInv
  BY Initially
<1>2. IInv /\ [Next]_vars => IInv'
  BY TypeStep, ChainStep, MomentsStep, CompleteStep, UniqueStep, OneCallStep, AgesStep DEF IInv
<1> QED
  BY <1>1, <1>2, PTL DEF Spec

\* The types of the scan's state hold in every state (wallet_scan, ExplorerRPC).
THEOREM TypeCorrect == Spec => []TypeOK
<1>1. IInv => TypeOK
  BY DEF IInv
<1> QED
  BY <1>1, AlwaysIInv, PTL

\* Every coin that stays unspent through a scan is counted exactly once, and no coin twice,
\* whatever the chain does between the requests (scantxoutset, "never count one output twice").
THEOREM EveryCoinCountedOnce == Spec => []CountedOnce
<1>1. ASSUME IInv, done, NEW c \in Coins
      PROVE  LET times == Cardinality({u \in Result : u.coin = c})
             IN times <= 1 /\ ((\A m \in moments : c \in m) => times = 1)
  <2> DEFINE S == {u \in Result : u.coin = c}
  <2>1. \A u, v \in S : u = v
    BY <1>1 DEF IInv, Unique, Result
  <2>2. S = {} \/ \E u : S = {u}
    BY <2>1, Zenon
  <2>3. Cardinality(S) <= 1 /\ (S # {} => Cardinality(S) = 1)
    <3>1. CASE S = {}
      BY <3>1, FS_EmptySet
    <3>2. CASE \E u : S = {u}
      BY <3>2, FS_Singleton
    <3> QED
      BY <2>2, <3>1, <3>2
  <2>4. ASSUME \A m \in moments : c \in m PROVE S # {}
    <3>1. pays[c] \in Ours /\ left = {}
      BY <1>1, <2>4 DEF IInv, MomentsOK, OneCall
    <3>2. PICK u \in unspents : u.coin = c
      BY <1>1, <2>4, <3>1 DEF IInv, Complete, Found
    <3>3. u \in S
      BY <3>1, <3>2 DEF Result, KeptKind
    <3> QED
      BY <3>3
  <2> QED
    BY <2>3, <2>4
<1>2. IInv => CountedOnce
  BY <1>1 DEF CountedOnce
<1> QED
  BY <1>2, AlwaysIInv, PTL

\* What one call of the node answered is the wallet's unspent coins at one moment of the
\* scan (wallet_scan: one descriptor list for both scripts).
THEOREM NodeAnswersOneMoment == Spec => []OneMoment
<1>1. IInv => OneMoment
  BY DEF IInv, OneCall, OneMoment
<1> QED
  BY <1>1, AlwaysIInv, PTL

\* Coins called mature can be spent in the next block and the others no earlier than told,
\* also when the answers came at different heights (classify_utxos).
THEOREM MaturityIsNeverEarly == Spec => []MaturityIsTrue
<1>1. ASSUME IInv, ~reorged, NEW u \in unspents
      PROVE  /\ Confirmations(u) + minedAt[u.coin[1]] <= height + 1
             /\ Confirmations(u) \in Int /\ minedAt[u.coin[1]] \in Int
             /\ height \in Int /\ tip \in Int /\ height <= tip
  <2>1. minedAt[u.coin[1]] \in Int /\ u.confs \in Int /\ u.height \in Int /\ height \in Int /\ tip \in Int
    BY <1>1, CoinsHaveTxs DEF IInv, TypeOK
  <2>2. height <= tip /\ minedAt[u.coin[1]] # 0 /\ minedAt[u.coin[1]] <= height
        /\ u.height \in {-1, minedAt[u.coin[1]]}
        /\ (u.confs = -1 \/ u.confs + minedAt[u.coin[1]] <= height + 1)
    BY <1>1 DEF IInv, AgesOK
  <2> QED
    BY <2>1, <2>2 DEF Confirmations
<1>2. IInv => MatureIsMature
  BY <1>1, ScanAssumption DEF MatureIsMature, Mature, Young, Result, Spendable
<1>3. IInv => NotTooSoon
  BY <1>1, ScanAssumption DEF NotTooSoon, Immature, Result, BlocksToMaturity
<1>4. IInv => MaturityIsTrue
  BY <1>2, <1>3 DEF MaturityIsTrue
<1> QED
  BY <1>4, AlwaysIInv, PTL
-----------------------------------------------------------------------------
(* The walk of history: as long as no block is taken back, the chain only  *)
(* grows above the height that was asked for, so that each of the many     *)
(* answers adds to one truth, and what a transaction spends of the wallet  *)
(* does not depend on when it is read.                                     *)

\* A place of the chain is a height and a number in the block.
Earlier(k, m, h, n) == k < h \/ (k = h /\ m < n)

HistoryTypes ==
  /\ blocks \in Seq(Seq(Transfers)) /\ mempool \subseteq Transfers /\ IsFiniteSet(mempool)
  /\ step \in {"start", "blocks", "list", "mempool", "done", "failed"}
  /\ from \in Nat \ {0} /\ walked \in Nat /\ tipAsked \in 0..Len(blocks)
  /\ steady \subseteq Known

\* A transaction has one place, after the transactions it spends of, and no two spend one coin.
OnePlace ==
  \A h, k \in DOMAIN blocks : \A n \in DOMAIN blocks[h], m \in DOMAIN blocks[k] :
    blocks[h][n] = blocks[k][m] => h = k /\ n = m
NotWaiting == Confirmed \cap mempool = {}
ParentsFirst ==
  \A h \in DOMAIN blocks : \A n \in DOMAIN blocks[h] : \A p \in Parents(blocks[h][n]) :
    \E k \in DOMAIN blocks : \E m \in DOMAIN blocks[k] : blocks[k][m] = p /\ Earlier(k, m, h, n)
SpentOnce == \A t, u \in Known : t # u => Inputs[t] \cap Inputs[u] = {}
PlacesOK == OnePlace /\ NotWaiting /\ ParentsFirst /\ SpentOnce

\* The events that are true of the heights asked for, and where a true event stands.
TrueEvents == {Event(t, h, Received(t), Spent(t)) : t \in Transfers, h \in Nat}
Placed(e) ==
  IF e.height = Unconfirmed THEN e.tx \notin MinedIn(1, tipAsked)
  ELSE e.height \in from..tipAsked /\ e.tx \in ToSet(blocks[e.height])
Single(list) == \A i, j \in DOMAIN list : list[i].tx = list[j].tx => i = j
Listed(list, t) == \E i \in DOMAIN list : list[i].tx = t
EventsOK(list) == list \in Seq(TrueEvents) /\ Single(list) /\ \A i \in DOMAIN list : Placed(list[i])

\* What the walk knows once it has read the transactions of a set.
Kept(read) == {o \in Scripts : o[1] \in read} \ UNION {Inputs[t] : t \in read}
Tally(outs, list, read) ==
  /\ outs = Kept(read)
  /\ EventsOK(list)
  /\ \A i \in DOMAIN list : list[i].tx \in read
  /\ \A t \in read : Touches(t) => Listed(list, t)

Unread == step = "start" => walked = from /\ my_outpoints = {} /\ events = <<>>

Walking ==
  step \in {"blocks", "list"} =>
    /\ walked >= from /\ (walked = from \/ walked <= tipAsked + 1)
    /\ Tally(my_outpoints, events, MinedIn(from, walked - 1))
    /\ step = "list" => MinedIn(from, walked - 1) = MinedIn(from, tipAsked)

Asking ==
  step \in {"mempool", "done"} =>
    /\ my_outpoints = Came \ Went
    /\ EventsOK(events)
    /\ \A t \in MinedIn(from, tipAsked) : Touches(t) => Listed(events, t)
    /\ listed \cap MinedIn(1, tipAsked) = {} /\ \A t \in listed : ~Listed(events, t)
    /\ listed \subseteq Transfers
    /\ Len(blocks) = tipAsked => \A t \in steady \cap mempool :
         t \in listed \/ (Touches(t) => Listed(events, t))
    /\ step = "done" => listed = {}

HistoryInv ==
  /\ shortened \in BOOLEAN
  /\ ~shortened => HistoryTypes /\ PlacesOK /\ Unread /\ Walking /\ Asking
-----------------------------------------------------------------------------
\* Induction over the naturals for a set: no natural number is the least one missing.
Below == {p \in Nat \X Nat : p[1] < p[2]}

LEMMA BelowIsWellFounded == IsWellFoundedOn(Below, Nat)
BY Zenon, NatLessThanWellFounded DEF Below, OpToRel

LEMMA Induction ==
  ASSUME NEW S, 0 \in S, \A n \in Nat : n \in S => n + 1 \in S
  PROVE  Nat \subseteq S
<1> DEFINE Missing == Nat \ S
<1> SUFFICES ASSUME Missing # {} PROVE FALSE
  OBVIOUS
<1>1. PICK least \in Missing : \A n \in Missing : <<n, least>> \notin Below
  <2>1. Missing \subseteq Nat /\ IsWellFoundedOn(Below, Nat) /\ Missing # {}
    BY BelowIsWellFounded
  <2> HIDE DEF Missing
  <2> QED
    BY <2>1, WFMin
<1>2. least \in Nat /\ least # 0
  OBVIOUS
<1>3. least - 1 \in Nat /\ <<least - 1, least>> \in Below
  BY <1>2 DEF Below
<1> QED
  BY <1>1, <1>2, <1>3, least - 1 + 1 = least

\* Reading a block: what the walk knows after each transaction exists ...
LEMMA ReadBlockIs ==
  ASSUME NEW block, Len(block) \in Nat
  PROVE  ReadBlock(block) =
           [n \in 0..Len(block) |-> IF n = 0 THEN [outs |-> my_outpoints, events |-> events]
                                    ELSE ReadTx(ReadBlock(block)[n - 1], block[n])]
<1> DEFINE Nothing       == [outs |-> my_outpoints, events |-> events]
           Read0(w, l)   == w = [n \in 0..l |-> IF n = 0 THEN Nothing ELSE ReadTx(w[n - 1], block[n])]
           Done          == {l \in Nat : \E w : Read0(w, l)}
<1>1. 0 \in Done
  <2> DEFINE w == [n \in 0..0 |-> Nothing]
  <2> HIDE DEF Nothing
  <2>1. Read0(w, 0)
    OBVIOUS
  <2> QED
    BY <2>1
<1>2. ASSUME NEW l \in Nat, l \in Done PROVE l + 1 \in Done
  <2>1. PICK w : Read0(w, l)
    BY <1>2
  <2> HIDE DEF Nothing
  <2> DEFINE x == [n \in 0..(l + 1) |-> IF n = 0 THEN Nothing ELSE ReadTx(w[n - 1], block[n])]
  <2>2. \A n \in 0..l : x[n] = w[n]
    BY <2>1
  <2>3. \A n \in 0..(l + 1) : n # 0 => n - 1 \in 0..l
    OBVIOUS
  <2>4. Read0(x, l + 1)
    <3>1. \A n \in 0..(l + 1) : (IF n = 0 THEN Nothing ELSE ReadTx(w[n - 1], block[n]))
                                  = IF n = 0 THEN Nothing ELSE ReadTx(x[n - 1], block[n])
      BY <2>2, <2>3
    <3> DEFINE y == [n \in 0..(l + 1) |-> IF n = 0 THEN Nothing ELSE ReadTx(x[n - 1], block[n])]
    <3>2. x = y
      BY <3>1
    <3> HIDE DEF x
    <3> QED
      BY <3>2
  <2>5. \E g : Read0(g, l + 1)
    BY <2>4
  <2> HIDE DEF Read0, x
  <2> QED
    BY <2>5
<1> HIDE DEF Done
<1>3. Len(block) \in Done
  BY <1>1, <1>2, Induction
<1>4. PICK w : Read0(w, Len(block))
  BY <1>3 DEF Done
<1>5. ReadBlock(block) = CHOOSE g : Read0(g, Len(block))
  BY DEF ReadBlock
<1> QED
  BY <1>4, <1>5

\* ... and comes of the one before.
LEMMA ReadBlockStep ==
  ASSUME NEW block, Len(block) \in Nat
  PROVE  /\ ReadBlock(block)[0] = [outs |-> my_outpoints, events |-> events]
         /\ \A n \in 1..Len(block) : ReadBlock(block)[n] = ReadTx(ReadBlock(block)[n - 1], block[n])
<1> DEFINE R == ReadBlock(block)
           Nothing == [outs |-> my_outpoints, events |-> events]
<1>1. R = [n \in 0..Len(block) |-> IF n = 0 THEN Nothing ELSE ReadTx(R[n - 1], block[n])]
  BY ReadBlockIs
<1> HIDE DEF R, Nothing
<1>2. 0 \in 0..Len(block) /\ \A n \in 1..Len(block) : n \in 0..Len(block) /\ n # 0
  OBVIOUS
<1>3. R[0] = Nothing /\ \A n \in 1..Len(block) : R[n] = ReadTx(R[n - 1], block[n])
  BY <1>1, <1>2
<1> QED
  BY <1>3 DEF R, Nothing
-----------------------------------------------------------------------------
(* The chain while no block is taken back.                                  *)

\* A sequence with one element more.
LEMMA OneMore ==
  ASSUME NEW S, NEW list \in Seq(S), NEW e \in S
  PROVE  /\ Append(list, e) \in Seq(S)
         /\ Len(Append(list, e)) = Len(list) + 1
         /\ DOMAIN Append(list, e) = DOMAIN list \cup {Len(list) + 1}
         /\ \A i \in DOMAIN list : i # Len(list) + 1 /\ Append(list, e)[i] = list[i]
         /\ Append(list, e)[Len(list) + 1] = e
<1>1. Append(list, e) \in Seq(S) /\ Len(Append(list, e)) = Len(list) + 1 /\ Len(list) \in Nat
  OBVIOUS
<1>2. DOMAIN Append(list, e) = 1..(Len(list) + 1) /\ DOMAIN list = 1..Len(list)
  BY <1>1
<1>3. 1..(Len(list) + 1) = (1..Len(list)) \cup {Len(list) + 1}
  BY <1>1
<1>4. \A i \in 1..Len(list) : i # Len(list) + 1 /\ Append(list, e)[i] = list[i]
  BY <1>1
<1> QED
  BY <1>1, <1>2, <1>3, <1>4

LEMMA BlockTypes ==
  ASSUME HistoryTypes
  PROVE  /\ blocks \in Seq(Seq(Transfers)) /\ Len(blocks) \in Nat /\ DOMAIN blocks = 1..Len(blocks)
         /\ \A h \in DOMAIN blocks :
              /\ blocks[h] \in Seq(Transfers) /\ Len(blocks[h]) \in Nat
              /\ DOMAIN blocks[h] = 1..Len(blocks[h])
              /\ \A n \in DOMAIN blocks[h] : blocks[h][n] \in Transfers
<1>1. blocks \in Seq(Seq(Transfers)) /\ Len(blocks) \in Nat /\ DOMAIN blocks = 1..Len(blocks)
  BY DEF HistoryTypes
<1>2. \A h \in DOMAIN blocks : blocks[h] \in Seq(Transfers)
  BY <1>1
<1>3. \A h \in DOMAIN blocks : Len(blocks[h]) \in Nat /\ DOMAIN blocks[h] = 1..Len(blocks[h])
                                 /\ \A n \in DOMAIN blocks[h] : blocks[h][n] \in Transfers
  BY <1>2
<1> QED
  BY <1>1, <1>2, <1>3

\* Membership, by places.
LEMMA MinedAt ==
  \A lo, hi, t : t \in MinedIn(lo, hi) <=>
    \E h \in DOMAIN blocks : h \in lo..hi /\ \E n \in DOMAIN blocks[h] : blocks[h][n] = t
BY DEF MinedIn, ToSet

LEMMA ConfirmedAt ==
  \A t : t \in Confirmed <=> \E h \in DOMAIN blocks : \E n \in DOMAIN blocks[h] : blocks[h][n] = t
BY DEF Confirmed, ToSet

\* Whatever the chain grows by, what is said of the heights asked for stays.
Grows ==
  /\ Len(blocks') \in Nat /\ DOMAIN blocks' = 1..Len(blocks') /\ Len(blocks) <= Len(blocks')
  /\ \A h \in 1..Len(blocks) : blocks'[h] = blocks[h]
  /\ UNCHANGED <<from, tipAsked>>

LEMMA MinedStays ==
  ASSUME HistoryTypes, Grows, NEW lo \in Int, NEW hi \in Int, hi <= Len(blocks)
  PROVE  MinedIn(lo, hi)' = MinedIn(lo, hi)
<1>1. DOMAIN blocks = 1..Len(blocks) /\ Len(blocks) \in Nat
  BY BlockTypes
<1>2. (lo..hi) \cap DOMAIN blocks' = (lo..hi) \cap DOMAIN blocks
  BY <1>1 DEF Grows
<1>3. \A h \in (lo..hi) \cap DOMAIN blocks : blocks'[h] = blocks[h]
  BY <1>1 DEF Grows
<1> QED
  BY <1>2, <1>3 DEF MinedIn, ToSet

LEMMA TruthStays ==
  ASSUME HistoryTypes, Grows
  PROVE  /\ Came' = Came /\ Went' = Went /\ TrueEvents' = TrueEvents
         /\ MinedIn(from, tipAsked)' = MinedIn(from, tipAsked)
         /\ MinedIn(1, tipAsked)' = MinedIn(1, tipAsked)
         /\ \A t : Touches(t)' <=> Touches(t)
         /\ \A e : Placed(e)' <=> Placed(e)
         /\ \A list : EventsOK(list)' <=> EventsOK(list)
<1>1. /\ from \in Nat /\ tipAsked \in Nat /\ 1 \in Int /\ tipAsked <= Len(blocks) /\ Len(blocks) \in Nat
      /\ from' = from /\ tipAsked' = tipAsked
  BY DEF HistoryTypes, Grows
<1>2. MinedIn(from, tipAsked)' = MinedIn(from, tipAsked)
  BY <1>1, MinedStays
<1>3. MinedIn(1, tipAsked)' = MinedIn(1, tipAsked)
  BY <1>1, MinedStays
<1>4. Came' = Came /\ Went' = Went
  BY <1>2 DEF Came, Went
<1>5. (\A t : Received(t)' = Received(t)) /\ (\A t : Spent(t)' = Spent(t))
  BY <1>4 DEF Received, Spent
<1>6. TrueEvents' = TrueEvents
  BY <1>5 DEF TrueEvents, Event
<1>7. \A t : Touches(t)' <=> Touches(t)
  BY <1>5 DEF Touches
<1>8. \A e : Placed(e)' <=> Placed(e)
  <2> SUFFICES ASSUME NEW e PROVE Placed(e)' <=> Placed(e)
    OBVIOUS
  <2>1. CASE e.height = Unconfirmed
    BY <1>1, <1>3, <2>1 DEF Placed, Unconfirmed
  <2>2. CASE e.height # Unconfirmed /\ e.height \in from..tipAsked
    <3>1. e.height \in 1..Len(blocks)
      BY <1>1, <2>2 DEF HistoryTypes
    <3>2. blocks'[e.height] = blocks[e.height]
      BY <3>1 DEF Grows
    <3> QED
      BY <1>1, <2>2, <3>2 DEF Placed, Unconfirmed, ToSet
  <2>3. CASE e.height # Unconfirmed /\ e.height \notin from..tipAsked
    BY <1>1, <2>3 DEF Placed, Unconfirmed
  <2> QED
    BY <2>1, <2>2, <2>3
<1>9. \A list : EventsOK(list)' <=> EventsOK(list)
  BY <1>6, <1>8 DEF EventsOK, Single
<1> QED
  BY <1>2, <1>3, <1>4, <1>6, <1>7, <1>8, <1>9
-----------------------------------------------------------------------------
(* A block is read.                                                         *)

\* What has been read when n transactions of the block at the height walked have.
ReadTo(n) == MinedIn(from, walked - 1) \cup {blocks[walked][j] : j \in 1..n}
InBlock   == walked \in from..tipAsked

LEMMA ReadToAt ==
  ASSUME HistoryTypes, InBlock, NEW n \in 0..Len(blocks[walked])
  PROVE  /\ walked \in DOMAIN blocks /\ from \in 1..walked /\ walked <= tipAsked
         /\ tipAsked \in Nat /\ walked \in Nat /\ from \in Nat
         /\ \A t : t \in ReadTo(n) <=>
              \E h \in DOMAIN blocks : \E m \in DOMAIN blocks[h] :
                blocks[h][m] = t /\ from <= h /\ Earlier(h, m, walked, n + 1)
<1>1. /\ walked \in DOMAIN blocks /\ from \in 1..walked /\ walked <= tipAsked
      /\ tipAsked \in Nat /\ walked \in Nat /\ from \in Nat
  BY BlockTypes DEF HistoryTypes, InBlock
<1>2. DOMAIN blocks = 1..Len(blocks) /\ Len(blocks) \in Nat /\ Len(blocks[walked]) \in Nat
      /\ DOMAIN blocks[walked] = 1..Len(blocks[walked])
      /\ \A h \in DOMAIN blocks : DOMAIN blocks[h] = 1..Len(blocks[h]) /\ Len(blocks[h]) \in Nat
  BY <1>1, BlockTypes
<1>3. ASSUME NEW t, t \in ReadTo(n)
      PROVE  \E h \in DOMAIN blocks : \E m \in DOMAIN blocks[h] :
                blocks[h][m] = t /\ from <= h /\ Earlier(h, m, walked, n + 1)
  <2>1. CASE t \in MinedIn(from, walked - 1)
    <3>1. PICK h \in DOMAIN blocks : h \in from..(walked - 1) /\ \E m \in DOMAIN blocks[h] : blocks[h][m] = t
      BY <2>1, MinedAt
    <3>2. from <= h /\ h < walked
      BY <1>1, <1>2, <3>1
    <3> QED
      BY <3>1, <3>2 DEF Earlier
  <2>2. CASE t \in {blocks[walked][j] : j \in 1..n}
    <3>1. PICK j \in 1..n : t = blocks[walked][j]
      BY <2>2
    <3>2. j \in DOMAIN blocks[walked] /\ j < n + 1 /\ from <= walked
      BY <1>1, <1>2, <3>1
    <3> QED
      BY <1>1, <3>1, <3>2 DEF Earlier
  <2> QED
    BY <1>3, <2>1, <2>2 DEF ReadTo
<1>4. ASSUME NEW h \in DOMAIN blocks, NEW m \in DOMAIN blocks[h], from <= h, Earlier(h, m, walked, n + 1)
      PROVE  blocks[h][m] \in ReadTo(n)
  <2>0. h \in Nat /\ m \in Nat /\ m >= 1
    BY <1>2
  <2>1. CASE h < walked
    <3>1. h \in from..(walked - 1)
      BY <1>1, <1>4, <2>0, <2>1
    <3> QED
      BY <3>1, MinedAt DEF ReadTo
  <2>2. CASE h = walked /\ m < n + 1
    <3>1. m \in 1..n
      BY <2>0, <2>2
    <3> QED
      BY <2>2, <3>1 DEF ReadTo
  <2> QED
    BY <1>4, <2>1, <2>2 DEF Earlier
<1> QED
  BY <1>1, <1>3, <1>4

\* What a transaction of the block spends, of the coins the walk knows, is what it spends of
\* all that came: its parents were read before it, and nobody else spends those coins.
LEMMA SpendsWhatCame ==
  ASSUME HistoryTypes, PlacesOK, InBlock, NEW n \in 1..Len(blocks[walked])
  PROVE  LET t == blocks[walked][n]
             o == Kept(ReadTo(n - 1))
         IN  /\ t \in Transfers /\ t \notin ReadTo(n - 1) /\ ReadTo(n) = ReadTo(n - 1) \cup {t}
             /\ Inputs[t] \cap o = Inputs[t] \cap Came
             /\ (o \ Inputs[t]) \cup {p \in Scripts : p[1] = t} = Kept(ReadTo(n))
<1> DEFINE t == blocks[walked][n]
           outs == Kept(ReadTo(n - 1))
<1>0. /\ walked \in DOMAIN blocks /\ from \in 1..walked /\ walked <= tipAsked
      /\ tipAsked \in Nat /\ walked \in Nat /\ from \in Nat
      /\ n \in DOMAIN blocks[walked] /\ n \in Nat /\ n - 1 \in 0..Len(blocks[walked])
      /\ n \in 0..Len(blocks[walked]) /\ (n - 1) + 1 = n
  <2>1. walked \in DOMAIN blocks
    BY BlockTypes DEF HistoryTypes, InBlock
  <2>2. Len(blocks[walked]) \in Nat /\ DOMAIN blocks[walked] = 1..Len(blocks[walked])
    BY <2>1, BlockTypes
  <2> QED
    BY <2>1, <2>2 DEF HistoryTypes, InBlock
<1>1. \A u : u \in ReadTo(n - 1) <=>
        \E h \in DOMAIN blocks : \E m \in DOMAIN blocks[h] :
          blocks[h][m] = u /\ from <= h /\ Earlier(h, m, walked, n)
  BY <1>0, ReadToAt
<1>2. DOMAIN blocks = 1..Len(blocks) /\ Len(blocks) \in Nat
      /\ \A h \in DOMAIN blocks : DOMAIN blocks[h] = 1..Len(blocks[h]) /\ Len(blocks[h]) \in Nat
  BY BlockTypes
<1>3. t \in Transfers /\ t \in Known
  BY <1>0, BlockTypes, ConfirmedAt DEF Known
<1>4. t \notin ReadTo(n - 1)
  <2> SUFFICES ASSUME NEW h \in DOMAIN blocks, NEW m \in DOMAIN blocks[h], blocks[h][m] = t,
                      Earlier(h, m, walked, n)
               PROVE  FALSE
    BY <1>1
  <2>1. h = walked /\ m = n
    BY <1>0 DEF PlacesOK, OnePlace
  <2> QED
    BY <1>0, <2>1 DEF Earlier
<1>5. ReadTo(n) = ReadTo(n - 1) \cup {t}
  <2>1. 1..n = (1..(n - 1)) \cup {n}
    BY <1>0
  <2> QED
    BY <2>1 DEF ReadTo
<1>6. ReadTo(n - 1) \subseteq Known
  BY <1>1, ConfirmedAt DEF Known
<1>7. \A u \in ReadTo(n - 1) : Inputs[u] \cap Inputs[t] = {}
  BY <1>3, <1>4, <1>6 DEF PlacesOK, SpentOnce
<1>8. \A p \in Parents(t) : p \in MinedIn(from, tipAsked) => p \in ReadTo(n - 1)
  <2> SUFFICES ASSUME NEW p \in Parents(t), p \in MinedIn(from, tipAsked) PROVE p \in ReadTo(n - 1)
    OBVIOUS
  <2>1. PICK k \in DOMAIN blocks : \E m \in DOMAIN blocks[k] : blocks[k][m] = p /\ Earlier(k, m, walked, n)
    BY <1>0 DEF PlacesOK, ParentsFirst
  <2>2. PICK h \in DOMAIN blocks : h \in from..tipAsked /\ \E j \in DOMAIN blocks[h] : blocks[h][j] = p
    BY MinedAt
  <2>3. h = k
    BY <2>1, <2>2 DEF PlacesOK, OnePlace
  <2>4. from <= k
    BY <1>0, <2>2, <2>3
  <2> QED
    BY <1>1, <2>1, <2>4
<1>9. ReadTo(n - 1) \subseteq MinedIn(from, tipAsked)
  <2> SUFFICES ASSUME NEW h \in DOMAIN blocks, NEW m \in DOMAIN blocks[h], from <= h,
                      Earlier(h, m, walked, n)
               PROVE  blocks[h][m] \in MinedIn(from, tipAsked)
    BY <1>1
  <2>1. h \in from..tipAsked
    BY <1>0, <1>2 DEF Earlier
  <2> QED
    BY <2>1, MinedAt
<1>10. \A u \in ReadTo(n) : t \notin Parents(u)
  <2> SUFFICES ASSUME NEW u \in ReadTo(n), t \in Parents(u) PROVE FALSE
    OBVIOUS
  <2>1. PICK h \in DOMAIN blocks : \E m \in DOMAIN blocks[h] :
          blocks[h][m] = u /\ Earlier(h, m, walked, n + 1)
    BY <1>0, ReadToAt
  <2>2. PICK m \in DOMAIN blocks[h] : blocks[h][m] = u /\ Earlier(h, m, walked, n + 1)
    BY <2>1
  <2>3. Earlier(walked, n, h, m)
    BY <1>0, <2>2 DEF PlacesOK, OnePlace, ParentsFirst
  <2>4. h \in Nat /\ m \in Nat
    BY <1>2
  <2> QED
    BY <1>0, <2>2, <2>3, <2>4 DEF Earlier
<1> HIDE DEF t
<1>11. Inputs[t] \cap outs = Inputs[t] \cap Came
  <2>1. \A o \in Inputs[t] : o[1] \in Parents(t)
    BY DEF Parents
  <2> QED
    BY <1>7, <1>8, <1>9, <2>1 DEF Came, Kept
<1>12. (outs \ Inputs[t]) \cup {o \in Scripts : o[1] = t} = Kept(ReadTo(n))
  <2>1. \A u \in ReadTo(n) : \A o \in Inputs[u] : o[1] # t
    BY <1>10 DEF Parents
  <2> QED
    BY <1>5, <2>1 DEF Kept
<1> QED
  BY <1>3, <1>4, <1>5, <1>11, <1>12 DEF t
-----------------------------------------------------------------------------
\* One transaction more is in the tally once it is read.
LEMMA TallyTx ==
  ASSUME HistoryTypes, PlacesOK, InBlock, NEW n \in 1..Len(blocks[walked]), NEW outs, NEW list,
         Tally(outs, list, ReadTo(n - 1))
  PROVE  LET next == ReadTx([outs |-> outs, events |-> list], blocks[walked][n])
         IN  next = [outs |-> next.outs, events |-> next.events] /\ Tally(next.outs, next.events, ReadTo(n))
<1> DEFINE t    == blocks[walked][n]
           e    == Event(t, walked, Received(t), Spent(t))
           rest == (outs \ Inputs[t]) \cup {o \in Scripts : o[1] = t}
           more == IF Touches(t) THEN Append(list, e) ELSE list
<1>0. outs = Kept(ReadTo(n - 1))
  BY DEF Tally
<1>1. /\ t \in Transfers /\ t \notin ReadTo(n - 1) /\ ReadTo(n) = ReadTo(n - 1) \cup {t}
      /\ Inputs[t] \cap outs = Inputs[t] \cap Came
      /\ rest = Kept(ReadTo(n))
  BY <1>0, SpendsWhatCame
<1>2. ReadTx([outs |-> outs, events |-> list], t) = [outs |-> rest, events |-> more]
  <2>1. Sum(Inputs[t] \cap outs) = Spent(t) /\ Sum({o \in Scripts : o[1] = t}) = Received(t)
    BY <1>1 DEF Spent, Received
  <2>2. IsEvent(e) <=> Touches(t)
    BY DEF IsEvent, Touches, Event
  <2>3. outs \ (Inputs[t] \cap outs) = outs \ Inputs[t]
    OBVIOUS
  <2>4. ReadTx([outs |-> outs, events |-> list], t) =
          [outs |-> (outs \ (Inputs[t] \cap outs)) \cup {o \in Scripts : o[1] = t},
           events |-> IF IsEvent(e) THEN Append(list, e) ELSE list]
    <3> HIDE DEF t
    <3> QED
      BY <2>1 DEF ReadTx
  <2> QED
    BY <2>2, <2>3, <2>4
<1>3. /\ walked \in from..tipAsked /\ walked \in Nat /\ walked # 0
      /\ walked \in DOMAIN blocks /\ n \in DOMAIN blocks[walked]
  <2>1. walked \in DOMAIN blocks
    BY BlockTypes DEF HistoryTypes, InBlock
  <2>2. DOMAIN blocks[walked] = 1..Len(blocks[walked])
    BY <2>1, BlockTypes
  <2> QED
    BY <2>1, <2>2 DEF HistoryTypes, InBlock
<1>4. e \in TrueEvents /\ e.tx = t /\ Placed(e)
  <2>1. e \in TrueEvents
    BY <1>1, <1>3 DEF TrueEvents
  <2>2. e.tx = t /\ e.height = walked
    BY DEF Event
  <2>3. t \in ToSet(blocks[walked])
    BY <1>3 DEF ToSet
  <2> HIDE DEF e, t
  <2> QED
    BY <1>3, <2>1, <2>2, <2>3 DEF Placed, Unconfirmed
<1> HIDE DEF t, e, rest
<1>5. list \in Seq(TrueEvents) /\ Single(list) /\ (\A i \in DOMAIN list : Placed(list[i]))
      /\ (\A i \in DOMAIN list : list[i].tx \in ReadTo(n - 1))
      /\ \A u \in ReadTo(n - 1) : Touches(u) => Listed(list, u)
  BY DEF Tally, EventsOK
<1>6. ASSUME ~Touches(t) PROVE Tally(rest, more, ReadTo(n))
  <2>1. more = list
    BY <1>6
  <2> HIDE DEF more
  <2>2. (\A i \in DOMAIN more : more[i].tx \in ReadTo(n)) /\ EventsOK(more)
    BY <1>1, <1>5, <2>1 DEF EventsOK
  <2>3. \A u \in ReadTo(n) : Touches(u) => Listed(more, u)
    BY <1>1, <1>5, <1>6, <2>1
  <2> QED
    BY <1>1, <2>2, <2>3 DEF Tally
<1>7. ASSUME Touches(t) PROVE Tally(rest, more, ReadTo(n))
  <2>1. /\ more \in Seq(TrueEvents) /\ DOMAIN more = DOMAIN list \cup {Len(list) + 1}
        /\ \A i \in DOMAIN list : i # Len(list) + 1 /\ more[i] = list[i]
        /\ more[Len(list) + 1] = e
    BY <1>4, <1>5, <1>7, OneMore
  <2> HIDE DEF more
  <2>2. Single(more)
    BY <1>1, <1>4, <1>5, <2>1 DEF Single
  <2>3. \A i \in DOMAIN more : Placed(more[i]) /\ more[i].tx \in ReadTo(n)
    BY <1>1, <1>4, <1>5, <2>1
  <2>4. \A u \in ReadTo(n) : Touches(u) => Listed(more, u)
    <3>1. Listed(more, t)
      BY <1>4, <2>1 DEF Listed
    <3>2. \A u : Listed(list, u) => Listed(more, u)
      BY <2>1 DEF Listed
    <3> QED
      BY <1>1, <1>5, <3>1, <3>2
  <2> QED
    BY <1>1, <2>1, <2>2, <2>3, <2>4 DEF Tally, EventsOK
<1> DEFINE next == [outs |-> rest, events |-> more]
<1>8. next.outs = rest /\ next.events = more /\ Tally(rest, more, ReadTo(n))
  BY <1>6, <1>7
<1> HIDE DEF more
<1>9. ReadTx([outs |-> outs, events |-> list], blocks[walked][n]) = next
  BY <1>2 DEF t
<1> HIDE DEF next
<1>10. next = [outs |-> rest, events |-> more]
  BY DEF next
<1> QED
  BY <1>8, <1>9, <1>10

\* So a block's transactions are all in it when the block is.
LEMMA BlockRead ==
  ASSUME HistoryTypes, PlacesOK, InBlock, Tally(my_outpoints, events, MinedIn(from, walked - 1))
  PROVE  LET read == ReadBlock(blocks[walked])[Len(blocks[walked])]
         IN  Tally(read.outs, read.events, MinedIn(from, walked))
<1> DEFINE block == blocks[walked]
           R     == ReadBlock(block)
           Good  == {n \in Nat : n <= Len(block) =>
                       R[n] = [outs |-> R[n].outs, events |-> R[n].events]
                       /\ Tally(R[n].outs, R[n].events, ReadTo(n))}
<1>1. /\ walked \in DOMAIN blocks /\ from \in 1..walked /\ walked \in Nat /\ Len(block) \in Nat
      /\ DOMAIN block = 1..Len(block)
  <2>1. walked \in DOMAIN blocks /\ from \in 1..walked /\ walked \in Nat
    BY BlockTypes DEF HistoryTypes, InBlock
  <2> QED
    BY <2>1, BlockTypes
<1>2. /\ R[0] = [outs |-> my_outpoints, events |-> events]
      /\ \A n \in 1..Len(block) : R[n] = ReadTx(R[n - 1], block[n])
  BY <1>1, ReadBlockStep
<1>3. ReadTo(0) = MinedIn(from, walked - 1)
  BY DEF ReadTo
<1>4. ReadTo(Len(block)) = MinedIn(from, walked)
  <2>1. \A t : t \in ReadTo(Len(block)) <=> t \in MinedIn(from, walked - 1) \/ \E j \in DOMAIN block : t = block[j]
    BY <1>1 DEF ReadTo
  <2>2. \A h \in DOMAIN blocks : h \in from..walked <=> h \in from..(walked - 1) \/ h = walked
    BY <1>1, BlockTypes
  <2>3. \A t : t \in MinedIn(from, walked) <=> t \in MinedIn(from, walked - 1) \/ \E j \in DOMAIN block : t = block[j]
    BY <1>1, <2>2, MinedAt
  <2> HIDE DEF block
  <2> QED
    BY <2>1, <2>3
<1> HIDE DEF R
<1>5. 0 \in Good
  <2>1. R[0].outs = my_outpoints /\ R[0].events = events
    BY <1>2
  <2> QED
    BY <1>2, <1>3, <2>1
<1>6. ASSUME NEW n \in Nat, n \in Good PROVE n + 1 \in Good
  <2> SUFFICES ASSUME n + 1 <= Len(block)
               PROVE  R[n + 1] = [outs |-> R[n + 1].outs, events |-> R[n + 1].events]
                      /\ Tally(R[n + 1].outs, R[n + 1].events, ReadTo(n + 1))
    OBVIOUS
  <2>1. n + 1 \in 1..Len(block) /\ (n + 1) - 1 = n /\ n <= Len(block)
    BY <1>1
  <2>2. R[n] = [outs |-> R[n].outs, events |-> R[n].events] /\ Tally(R[n].outs, R[n].events, ReadTo(n))
    BY <1>6, <2>1
  <2>3. R[n + 1] = ReadTx([outs |-> R[n].outs, events |-> R[n].events], block[n + 1])
    BY <1>2, <2>1, <2>2
  <2>4. Tally(R[n].outs, R[n].events, ReadTo((n + 1) - 1))
    BY <2>1, <2>2
  <2> HIDE DEF Good
  <2> QED
    BY <2>1, <2>3, <2>4, TallyTx
<1> HIDE DEF Good
<1>7. Len(block) \in Good
  BY <1>1, <1>5, <1>6, Induction
<1>8. Tally(R[Len(block)].outs, R[Len(block)].events, ReadTo(Len(block)))
  BY <1>1, <1>7 DEF Good
<1> QED
  BY <1>4, <1>8 DEF R
-----------------------------------------------------------------------------
(* What stays as it is while the chain grows.                               *)

\* A step that leaves the chain alone lets it grow by nothing.
LEMMA NoGrowth == ASSUME HistoryTypes, UNCHANGED <<blocks, from, tipAsked>> PROVE Grows
BY BlockTypes DEF Grows

LEMMA EventsMove ==
  ASSUME HistoryTypes, Grows, NEW list, EventsOK(list), events' = list
  PROVE  EventsOK(events)'
<1>1. TrueEvents' = TrueEvents /\ \A e : Placed(e)' <=> Placed(e)
  BY TruthStays
<1>2. (events \in Seq(TrueEvents))' /\ Single(events)'
  BY <1>1 DEF EventsOK, Single
<1>3. \A i \in DOMAIN list : Placed(list[i])'
  BY <1>1 DEF EventsOK
<1>4. (\A i \in DOMAIN events : Placed(events[i]))'
  BY <1>3 DEF Placed
<1> QED
  BY <1>2, <1>4 DEF EventsOK

LEMMA TallyMoves ==
  ASSUME HistoryTypes, Grows, NEW outs, NEW list, NEW read, Tally(outs, list, read),
         my_outpoints' = outs, events' = list, MinedIn(from, walked - 1)' = read
  PROVE  Tally(my_outpoints, events, MinedIn(from, walked - 1))'
<1>1. EventsOK(events)'
  BY EventsMove DEF Tally
<1>2. \A t : Touches(t)' <=> Touches(t)
  BY TruthStays
<1>3. \A t \in read : Touches(t)' => Listed(list, t)
  BY <1>2 DEF Tally
<1>4. (\A t \in MinedIn(from, walked - 1) : Touches(t) => Listed(events, t))'
  BY <1>3 DEF Listed
<1> QED
  BY <1>1, <1>4 DEF Tally

\* The heights walked are below the tip, or none.
LEMMA WalkedStays ==
  ASSUME HistoryTypes, Grows, walked' = walked, walked >= from, walked = from \/ walked <= tipAsked + 1
  PROVE  MinedIn(from, walked - 1)' = MinedIn(from, walked - 1)
<1>1. from \in Nat /\ walked \in Nat /\ tipAsked \in Nat /\ tipAsked <= Len(blocks) /\ Len(blocks) \in Nat /\ from' = from
  BY DEF HistoryTypes, Grows
<1>2. CASE walked = from
  <2>1. from..(walked - 1) = {}
    BY <1>1, <1>2
  <2>2. (from..(walked - 1) = {})'
    BY <1>1, <2>1
  <2> QED
    BY <2>1, <2>2 DEF MinedIn
<1>3. CASE walked <= tipAsked + 1
  <2>1. walked - 1 \in Int /\ walked - 1 <= Len(blocks) /\ from \in Int
    BY <1>1, <1>3
  <2>2. \A lo, hi \in Int : hi <= Len(blocks) => MinedIn(lo, hi)' = MinedIn(lo, hi)
    BY MinedStays
  <2>3. ASSUME NEW lo, NEW hi, lo = from, hi = walked - 1
        PROVE  MinedIn(from, walked - 1)' = MinedIn(lo, hi)'
    BY <1>1, <2>3 DEF MinedIn
  <2> QED
    BY <2>1, <2>2, <2>3
<1> QED
  BY <1>2, <1>3

LEMMA WalkStays ==
  ASSUME HistoryTypes, Grows, Walking, UNCHANGED walkVars
  PROVE  Walking'
<1> SUFFICES ASSUME step \in {"blocks", "list"} PROVE Walking'
  BY DEF Walking, walkVars
<1>1. /\ walked >= from /\ (walked = from \/ walked <= tipAsked + 1)
      /\ Tally(my_outpoints, events, MinedIn(from, walked - 1))
      /\ step = "list" => MinedIn(from, walked - 1) = MinedIn(from, tipAsked)
  BY DEF Walking
<1>2. MinedIn(from, walked - 1)' = MinedIn(from, walked - 1)
  BY <1>1, WalkedStays DEF walkVars
<1>3. Tally(my_outpoints, events, MinedIn(from, walked - 1))'
  BY <1>1, <1>2, TallyMoves DEF walkVars
<1>4. MinedIn(from, tipAsked)' = MinedIn(from, tipAsked)
  BY TruthStays
<1> QED
  BY <1>1, <1>2, <1>3, <1>4 DEF Walking, walkVars

\* A transaction that was there all the time and waits now has waited before.
LEMMA AskingStays ==
  ASSUME HistoryTypes, Grows, Asking, UNCHANGED walkVars,
         Len(blocks') = tipAsked => Len(blocks) = tipAsked /\ steady' \cap mempool' \subseteq steady \cap mempool
  PROVE  Asking'
<1> SUFFICES ASSUME step \in {"mempool", "done"} PROVE Asking'
  BY DEF Asking, walkVars
<1>1. /\ my_outpoints = Came \ Went
      /\ EventsOK(events)
      /\ \A t \in MinedIn(from, tipAsked) : Touches(t) => Listed(events, t)
      /\ listed \cap MinedIn(1, tipAsked) = {} /\ \A t \in listed : ~Listed(events, t)
      /\ listed \subseteq Transfers
      /\ step = "done" => listed = {}
  BY DEF Asking
<1>2. Len(blocks) = tipAsked => \A t \in steady \cap mempool :
         t \in listed \/ (Touches(t) => Listed(events, t))
  BY DEF Asking
<1>3. /\ UNCHANGED <<step, my_outpoints, events, listed, tipAsked>>
      /\ Came' = Came /\ Went' = Went
      /\ MinedIn(from, tipAsked)' = MinedIn(from, tipAsked)
      /\ MinedIn(1, tipAsked)' = MinedIn(1, tipAsked)
      /\ \A t : Touches(t)' <=> Touches(t)
  BY TruthStays DEF walkVars
<1>4. EventsOK(events)'
  BY <1>1, <1>3, EventsMove
<1>5. \A t : Listed(events, t)' <=> Listed(events, t)
  BY <1>3 DEF Listed
<1>6. (Len(blocks) = tipAsked => \A t \in steady \cap mempool :
         t \in listed \/ (Touches(t) => Listed(events, t)))'
  BY <1>2, <1>3, <1>5
<1>7. (\A t \in MinedIn(from, tipAsked) : Touches(t) => Listed(events, t))'
  BY <1>1, <1>3, <1>5
<1>8. (\A t \in listed : ~Listed(events, t))'
  BY <1>1, <1>3, <1>5
<1> QED
  BY <1>1, <1>3, <1>4, <1>6, <1>7, <1>8 DEF Asking
-----------------------------------------------------------------------------
(* The node's steps.                                                        *)
Good == HistoryTypes /\ PlacesOK /\ Unread /\ Walking /\ Asking

LEMMA ArriveGood == ASSUME Good, NEW t \in Transfers, Arrive(t) PROVE Good'
<1>1. /\ UNCHANGED walkVars /\ t \notin Known /\ Parents(t) \subseteq Known
      /\ \A u \in Known : Inputs[t] \cap Inputs[u] = {}
      /\ mempool' = mempool \cup {t} /\ blocks' = blocks /\ steady' = steady
  BY DEF Arrive, NodeMoves
<1>2. HistoryTypes /\ PlacesOK /\ Unread /\ Walking /\ Asking
  BY DEF Good
<1>3. Grows
  BY <1>1, <1>2, NoGrowth DEF walkVars
<1>4. Confirmed' = Confirmed /\ Known' = Known \cup {t} /\ \A u : Parents(u)' = Parents(u)
  BY <1>1 DEF Confirmed, Known, ToSet, Parents
<1>5. HistoryTypes'
  <2>1. IsFiniteSet(mempool')
    BY <1>1, <1>2, FS_AddElement DEF HistoryTypes
  <2>2. steady' \subseteq Known'
    BY <1>1, <1>2, <1>4 DEF HistoryTypes
  <2> QED
    BY <1>1, <1>2, <2>1, <2>2 DEF HistoryTypes, walkVars
<1>6. OnePlace' /\ ParentsFirst'
  BY <1>1, <1>2, <1>4 DEF PlacesOK, OnePlace, ParentsFirst, Earlier
<1>7. NotWaiting'
  BY <1>1, <1>2, <1>4 DEF PlacesOK, NotWaiting, Known
<1>8. SpentOnce'
  <2> SUFFICES ASSUME NEW u \in Known', NEW v \in Known', u # v PROVE Inputs[u] \cap Inputs[v] = {}
    BY DEF SpentOnce
  <2> QED
    BY <1>1, <1>2, <1>4 DEF PlacesOK, SpentOnce
<1>9. Unread' /\ Walking'
  BY <1>1, <1>2, <1>3, WalkStays DEF Unread, walkVars
<1>10. steady' \cap mempool' \subseteq steady \cap mempool
  BY <1>1, <1>2 DEF HistoryTypes
<1>11. Asking'
  BY <1>1, <1>2, <1>3, <1>10, AskingStays DEF walkVars
<1> QED
  BY <1>5, <1>6, <1>7, <1>8, <1>9, <1>11 DEF Good, PlacesOK

LEMMA DropGood == ASSUME Good, NEW t \in Transfers, Drop(t) PROVE Good'
<1>1. /\ UNCHANGED walkVars /\ t \in mempool
      /\ mempool' = mempool \ {t} /\ blocks' = blocks /\ steady' = steady \ {t}
  BY DEF Drop, NodeMoves
<1>2. HistoryTypes /\ PlacesOK /\ Unread /\ Walking /\ Asking
  BY DEF Good
<1>3. Grows
  BY <1>1, <1>2, NoGrowth DEF walkVars
<1>4. Confirmed' = Confirmed /\ Known \ {t} \subseteq Known' /\ Known' \subseteq Known
      /\ \A u : Parents(u)' = Parents(u)
  BY <1>1 DEF Confirmed, Known, ToSet, Parents
<1>5. HistoryTypes'
  <2>1. IsFiniteSet(mempool')
    BY <1>1, <1>2, FS_Subset DEF HistoryTypes
  <2>2. steady' \subseteq Known'
    BY <1>1, <1>2, <1>4 DEF HistoryTypes
  <2> QED
    BY <1>1, <1>2, <2>1, <2>2 DEF HistoryTypes, walkVars
<1>6. OnePlace' /\ ParentsFirst'
  BY <1>1, <1>2, <1>4 DEF PlacesOK, OnePlace, ParentsFirst, Earlier
<1>7. NotWaiting'
  BY <1>1, <1>2, <1>4 DEF PlacesOK, NotWaiting
<1>8. SpentOnce'
  BY <1>1, <1>2, <1>4 DEF PlacesOK, SpentOnce
<1>9. Unread' /\ Walking'
  BY <1>1, <1>2, <1>3, WalkStays DEF Unread, walkVars
<1>10. steady' \cap mempool' \subseteq steady \cap mempool
  BY <1>1
<1>11. Asking'
  BY <1>1, <1>2, <1>3, <1>10, AskingStays DEF walkVars
<1> QED
  BY <1>5, <1>6, <1>7, <1>8, <1>9, <1>11 DEF Good, PlacesOK

\* A new block: each of its transactions once, and out of the mempool.
LEMMA NewBlock ==
  ASSUME Good, NEW chosen \in SUBSET mempool, NEW block \in SetToSeqs(chosen)
  PROVE  /\ block \in Seq(Transfers) /\ Len(block) \in Nat /\ DOMAIN block = 1..Len(block)
         /\ ToSet(block) \subseteq mempool
         /\ \A n, m \in DOMAIN block : block[n] = block[m] => n = m
<1>1. IsFiniteSet(chosen) /\ chosen \subseteq Transfers
  BY FS_Subset DEF Good, HistoryTypes
<1>2. Cardinality(chosen) \in Nat
  BY <1>1, FS_CardinalityType
<1>3. /\ block \in [1..Cardinality(chosen) -> chosen]
      /\ \A n, m \in 1..Cardinality(chosen) : n # m => block[n] # block[m]
  BY DEF SetToSeqs
<1>4. block \in Seq(chosen) /\ Len(block) = Cardinality(chosen) /\ DOMAIN block = 1..Cardinality(chosen)
  BY <1>2, <1>3
<1>5. \A n \in DOMAIN block : block[n] \in chosen
  BY <1>3, <1>4
<1>6. block \in Seq(Transfers)
  BY <1>1, <1>4, <1>5
<1> QED
  BY <1>2, <1>3, <1>4, <1>5, <1>6 DEF ToSet

LEMMA MineBlockGood == ASSUME Good, MineBlock PROVE Good'
<1>1. PICK chosen \in SUBSET mempool : \E block \in SetToSeqs(chosen) :
        /\ \A i \in DOMAIN block : Parents(block[i]) \subseteq Confirmed \cup {block[j] : j \in 1..i - 1}
        /\ blocks' = Append(blocks, block) /\ mempool' = mempool \ ToSet(block)
  BY DEF MineBlock
<1>2. PICK block \in SetToSeqs(chosen) :
        /\ \A i \in DOMAIN block : Parents(block[i]) \subseteq Confirmed \cup {block[j] : j \in 1..i - 1}
        /\ blocks' = Append(blocks, block) /\ mempool' = mempool \ ToSet(block)
  BY <1>1
<1>3. UNCHANGED walkVars /\ steady' = steady
  BY DEF MineBlock, NodeMoves
<1>4. HistoryTypes /\ PlacesOK /\ Unread /\ Walking /\ Asking
  BY DEF Good
<1>5. /\ block \in Seq(Transfers) /\ Len(block) \in Nat /\ DOMAIN block = 1..Len(block)
      /\ ToSet(block) \subseteq mempool
      /\ \A n, m \in DOMAIN block : block[n] = block[m] => n = m
  BY NewBlock
<1> DEFINE N == Len(blocks) + 1
<1>6. /\ blocks \in Seq(Seq(Transfers)) /\ Len(blocks) \in Nat /\ DOMAIN blocks = 1..Len(blocks)
      /\ N \in Nat /\ N \notin DOMAIN blocks
  BY <1>4, BlockTypes
<1>7. /\ blocks' \in Seq(Seq(Transfers)) /\ Len(blocks') = N /\ DOMAIN blocks' = DOMAIN blocks \cup {N}
      /\ \A h \in DOMAIN blocks : blocks'[h] = blocks[h]
      /\ blocks'[N] = block
  BY <1>2, <1>5, <1>6, OneMore
<1>8. Grows
  <2>1. DOMAIN blocks' = 1..Len(blocks') /\ Len(blocks) <= Len(blocks') /\ Len(blocks') \in Nat
    BY <1>6, <1>7
  <2> QED
    BY <1>3, <1>6, <1>7, <2>1 DEF Grows, walkVars
<1> HIDE DEF N
<1>9. Confirmed' = Confirmed \cup ToSet(block)
  BY <1>6, <1>7 DEF Confirmed
<1>10. Known' = Known
  BY <1>2, <1>5, <1>9 DEF Known
<1>11. HistoryTypes'
  <2>1. IsFiniteSet(mempool') /\ mempool' \subseteq Transfers
    BY <1>2, <1>4, FS_Subset DEF HistoryTypes
  <2>2. tipAsked' \in 0..Len(blocks')
    BY <1>3, <1>4, <1>6, <1>8 DEF HistoryTypes, Grows
  <2> QED
    BY <1>3, <1>4, <1>7, <1>10, <2>1, <2>2 DEF HistoryTypes, walkVars
<1>12. \A n \in DOMAIN block : block[n] \in mempool /\ block[n] \notin Confirmed
  BY <1>4, <1>5 DEF PlacesOK, NotWaiting, ToSet
<1>13. OnePlace'
  <2> SUFFICES ASSUME NEW h \in DOMAIN blocks', NEW k \in DOMAIN blocks', NEW n \in DOMAIN blocks'[h],
                      NEW m \in DOMAIN blocks'[k], blocks'[h][n] = blocks'[k][m]
               PROVE  h = k /\ n = m
    BY DEF OnePlace
  <2>1. CASE h = N /\ k = N
    BY <1>5, <1>7, <2>1
  <2>2. CASE h \in DOMAIN blocks /\ k \in DOMAIN blocks
    BY <1>4, <1>7, <2>2 DEF PlacesOK, OnePlace
  <2>3. CASE h = N /\ k \in DOMAIN blocks
    BY <1>7, <1>12, <2>3, ConfirmedAt
  <2>4. CASE h \in DOMAIN blocks /\ k = N
    BY <1>7, <1>12, <2>4, ConfirmedAt
  <2> QED
    BY <1>7, <2>1, <2>2, <2>3, <2>4
<1>14. NotWaiting'
  BY <1>2, <1>4, <1>9 DEF PlacesOK, NotWaiting
<1>15. ParentsFirst'
  <2> SUFFICES ASSUME NEW h \in DOMAIN blocks', NEW n \in DOMAIN blocks'[h], NEW p \in Parents(blocks'[h][n])
               PROVE  \E k \in DOMAIN blocks' : \E m \in DOMAIN blocks'[k] :
                        blocks'[k][m] = p /\ Earlier(k, m, h, n)
    BY DEF ParentsFirst, Earlier, Parents
  <2>1. CASE h \in DOMAIN blocks
    BY <1>4, <1>7, <2>1 DEF PlacesOK, ParentsFirst
  <2>2. CASE h = N
    <3>1. n \in DOMAIN block /\ p \in Parents(block[n])
      BY <1>7, <2>2
    <3>2. CASE p \in Confirmed
      <4>1. PICK k \in DOMAIN blocks : \E m \in DOMAIN blocks[k] : blocks[k][m] = p
        BY <3>2, ConfirmedAt
      <4>2. k < h /\ k \in DOMAIN blocks' /\ blocks'[k] = blocks[k]
        BY <1>6, <1>7, <2>2 DEF N
      <4> QED
        BY <4>1, <4>2 DEF Earlier
    <3>3. CASE p \in {block[j] : j \in 1..n - 1}
      <4>1. PICK j \in 1..n - 1 : p = block[j]
        BY <3>3
      <4>2. j \in DOMAIN block /\ j < n
        BY <1>5, <3>1
      <4> QED
        BY <1>7, <2>2, <4>1, <4>2 DEF Earlier
    <3> QED
      BY <1>2, <3>1, <3>2, <3>3
  <2> QED
    BY <1>7, <2>1, <2>2
<1>16. SpentOnce'
  BY <1>4, <1>10 DEF PlacesOK, SpentOnce
<1>17. Unread' /\ Walking'
  BY <1>3, <1>4, <1>8, WalkStays DEF Unread, walkVars
<1>18. Len(blocks') # tipAsked
  BY <1>4, <1>6, <1>7 DEF HistoryTypes, N
<1>19. Asking'
  BY <1>3, <1>4, <1>8, <1>18, AskingStays
<1> QED
  BY <1>11, <1>13, <1>14, <1>15, <1>16, <1>17, <1>19 DEF Good, PlacesOK
-----------------------------------------------------------------------------
(* The walk's steps.                                                        *)

LEMMA PlacesStay ==
  ASSUME PlacesOK, UNCHANGED chainVars
  PROVE  PlacesOK' /\ Known' = Known /\ Confirmed' = Confirmed
<1>1. blocks' = blocks /\ mempool' = mempool
  BY DEF chainVars
<1>2. Confirmed' = Confirmed /\ Known' = Known /\ \A u : Parents(u)' = Parents(u)
  BY <1>1 DEF Confirmed, Known, ToSet, Parents
<1> QED
  BY <1>1, <1>2 DEF PlacesOK, OnePlace, NotWaiting, ParentsFirst, SpentOnce, Earlier

LEMMA GetBlockCountGood == ASSUME Good, GetBlockCount PROVE Good'
<1>1. /\ step = "start" /\ step' = "blocks" /\ tipAsked' = Len(blocks) /\ steady' = Known
      /\ UNCHANGED <<chainVars, from, walked, my_outpoints, events, listed>>
  BY DEF GetBlockCount
<1>2. HistoryTypes /\ PlacesOK /\ Unread
  BY DEF Good
<1>3. PlacesOK' /\ Known' = Known
  BY <1>1, <1>2, PlacesStay
<1>4. blocks' = blocks /\ mempool' = mempool /\ Len(blocks) \in Nat
  BY <1>1, <1>2, BlockTypes DEF chainVars
<1>5. HistoryTypes'
  BY <1>1, <1>2, <1>3, <1>4 DEF HistoryTypes
<1>6. Unread' /\ Asking'
  BY <1>1 DEF Unread, Asking
<1>7. walked' = from' /\ my_outpoints' = {} /\ events' = <<>> /\ from' \in Nat
  BY <1>1, <1>2 DEF Unread, HistoryTypes
<1>8. (MinedIn(from, walked - 1) = {})'
  <2>0. \A h \in Nat : h..(h - 1) = {}
    OBVIOUS
  <2>1. (from..(walked - 1) = {})'
    BY <1>7, <2>0
  <2> QED
    BY <2>1 DEF MinedIn
<1>9. Tally(my_outpoints, events, MinedIn(from, walked - 1))'
  <2>1. events' \in Seq(TrueEvents') /\ DOMAIN events' = {}
    BY <1>7
  <2>2. EventsOK(events)'
    BY <2>1 DEF EventsOK, Single
  <2> QED
    BY <1>7, <1>8, <2>1, <2>2 DEF Tally, Kept
<1>10. Walking'
  BY <1>1, <1>7, <1>9 DEF Walking
<1> QED
  BY <1>3, <1>5, <1>6, <1>10 DEF Good

LEMMA GetBlockGood == ASSUME Good, GetBlock PROVE Good'
<1> DEFINE read == ReadBlock(blocks[walked])[Len(blocks[walked])]
<1>1. /\ step = "blocks" /\ walked <= tipAsked /\ walked' = walked + 1
      /\ my_outpoints' = read.outs /\ events' = read.events
      /\ UNCHANGED <<chainVars, step, from, tipAsked, listed, steady>>
  BY DEF GetBlock, InRange
<1>2. HistoryTypes /\ PlacesOK /\ Walking
  BY DEF Good
<1>3. walked \in Nat /\ from \in Nat /\ tipAsked \in Nat /\ from' = from /\ tipAsked' = tipAsked
  BY <1>1, <1>2 DEF HistoryTypes
<1>4. walked >= from /\ Tally(my_outpoints, events, MinedIn(from, walked - 1))
  BY <1>1, <1>2 DEF Walking
<1>5. InBlock
  BY <1>1, <1>3, <1>4 DEF InBlock
<1>6. Tally(read.outs, read.events, MinedIn(from, walked))
  BY <1>2, <1>4, <1>5, BlockRead
<1> HIDE DEF read
<1>7. PlacesOK' /\ Known' = Known /\ blocks' = blocks /\ mempool' = mempool
  BY <1>1, <1>2, PlacesStay DEF chainVars
<1>8. Grows
  BY <1>2, <1>3, <1>7, NoGrowth
<1>9. HistoryTypes'
  BY <1>1, <1>2, <1>3, <1>7 DEF HistoryTypes
<1>10. MinedIn(from, walked - 1)' = MinedIn(from, walked)
  <2>1. walked' - 1 = walked
    BY <1>1, <1>3
  <2> QED
    BY <1>3, <1>7, <2>1 DEF MinedIn, ToSet
<1>11. Tally(my_outpoints, events, MinedIn(from, walked - 1))'
  BY <1>1, <1>2, <1>6, <1>8, <1>10, TallyMoves
<1>12. walked' >= from' /\ walked' <= tipAsked' + 1
  BY <1>1, <1>3, <1>4
<1>13. Walking' /\ Unread' /\ Asking'
  BY <1>1, <1>11, <1>12 DEF Walking, Unread, Asking
<1> QED
  BY <1>7, <1>9, <1>13 DEF Good

LEMMA NoSuchBlockGood == ASSUME Good, NoSuchBlock PROVE Good'
<1>1. step' = "failed" /\ UNCHANGED <<chainVars, from, walked, tipAsked, my_outpoints, events, listed, steady>>
  BY DEF NoSuchBlock
<1>2. PlacesOK' /\ Known' = Known /\ blocks' = blocks /\ mempool' = mempool
  BY <1>1, PlacesStay DEF Good, chainVars
<1>3. HistoryTypes'
  BY <1>1, <1>2 DEF Good, HistoryTypes
<1> QED
  BY <1>1, <1>2, <1>3 DEF Good, Unread, Walking, Asking

LEMMA BlocksReadGood == ASSUME Good, BlocksRead PROVE Good'
<1>1. /\ step = "blocks" /\ ~(walked <= tipAsked) /\ step' = "list"
      /\ UNCHANGED <<chainVars, from, walked, tipAsked, my_outpoints, events, listed, steady>>
  BY DEF BlocksRead, InRange
<1>2. HistoryTypes /\ PlacesOK /\ Walking
  BY DEF Good
<1>3. PlacesOK' /\ Known' = Known /\ blocks' = blocks /\ mempool' = mempool
  BY <1>1, <1>2, PlacesStay DEF chainVars
<1>4. HistoryTypes'
  BY <1>1, <1>2, <1>3 DEF HistoryTypes
<1>5. /\ walked >= from /\ (walked = from \/ walked <= tipAsked + 1)
      /\ Tally(my_outpoints, events, MinedIn(from, walked - 1))
  BY <1>1, <1>2 DEF Walking
<1>6. Grows
  BY <1>1, <1>2, <1>3, NoGrowth
<1>7. MinedIn(from, walked - 1)' = MinedIn(from, walked - 1)
  BY <1>1, <1>2, <1>5, <1>6, WalkedStays
<1>8. Tally(my_outpoints, events, MinedIn(from, walked - 1))'
  BY <1>1, <1>2, <1>5, <1>6, <1>7, TallyMoves
<1>9. MinedIn(from, walked - 1) = MinedIn(from, tipAsked)
  <2>1. walked \in Nat /\ from \in Nat /\ tipAsked \in Nat
    BY <1>2 DEF HistoryTypes
  <2>2. from..(walked - 1) = from..tipAsked
    BY <1>1, <1>5, <2>1
  <2> QED
    BY <2>2 DEF MinedIn
<1>10. MinedIn(from, tipAsked)' = MinedIn(from, tipAsked)
  BY <1>2, <1>6, TruthStays
<1>11. Walking'
  BY <1>1, <1>5, <1>7, <1>8, <1>9, <1>10 DEF Walking
<1> QED
  BY <1>1, <1>3, <1>4, <1>11 DEF Good, Unread, Asking

LEMMA GetRawMempoolGood == ASSUME Good, GetRawMempool PROVE Good'
<1>1. /\ step = "list" /\ step' = "mempool" /\ listed' = mempool
      /\ UNCHANGED <<chainVars, from, walked, tipAsked, my_outpoints, events, steady>>
  BY DEF GetRawMempool
<1>2. HistoryTypes /\ PlacesOK /\ Walking
  BY DEF Good
<1>3. PlacesOK' /\ Known' = Known /\ blocks' = blocks /\ mempool' = mempool
  BY <1>1, <1>2, PlacesStay DEF chainVars
<1>4. HistoryTypes'
  BY <1>1, <1>2, <1>3 DEF HistoryTypes
<1>5. Tally(my_outpoints, events, MinedIn(from, tipAsked))
  BY <1>1, <1>2 DEF Walking
<1>6. Grows
  BY <1>1, <1>2, <1>3, NoGrowth
<1>7. /\ Came' = Came /\ Went' = Went
      /\ MinedIn(from, tipAsked)' = MinedIn(from, tipAsked)
      /\ MinedIn(1, tipAsked)' = MinedIn(1, tipAsked)
      /\ \A t : Touches(t)' <=> Touches(t)
  BY <1>2, <1>6, TruthStays
<1>8. my_outpoints' = Came' \ Went'
  BY <1>1, <1>5, <1>7 DEF Tally, Kept, Came, Went
<1>9. EventsOK(events)'
  BY <1>1, <1>2, <1>5, <1>6, EventsMove DEF Tally
<1>10. \A t : Listed(events, t)' <=> Listed(events, t)
  BY <1>1 DEF Listed
<1>11. (\A t \in MinedIn(from, tipAsked) : Touches(t) => Listed(events, t))'
  BY <1>5, <1>7, <1>10 DEF Tally
<1>12. MinedIn(from, tipAsked) \subseteq Confirmed /\ MinedIn(1, tipAsked) \subseteq Confirmed
  BY MinedAt, ConfirmedAt
<1>13. Confirmed \cap mempool = {}
  BY <1>2 DEF PlacesOK, NotWaiting
<1>14. (listed \cap MinedIn(1, tipAsked) = {})' /\ listed' \subseteq Transfers
  BY <1>1, <1>2, <1>7, <1>12, <1>13 DEF HistoryTypes
<1>15. \A t \in mempool : ~Listed(events, t)
  BY <1>5, <1>12, <1>13 DEF Tally, Listed
<1>16. (\A t \in listed : ~Listed(events, t))'
  BY <1>1, <1>10, <1>15
<1>17. (\A t \in steady \cap mempool : t \in listed)'
  BY <1>1, <1>3
<1>18. Asking'
  BY <1>1, <1>8, <1>9, <1>11, <1>14, <1>16, <1>17 DEF Asking
<1> QED
  BY <1>1, <1>3, <1>4, <1>18 DEF Good, Unread, Walking

LEMMA ShowHistoryGood == ASSUME Good, ShowHistory PROVE Good'
<1>1. /\ step = "mempool" /\ listed = {} /\ step' = "done"
      /\ UNCHANGED <<chainVars, from, walked, tipAsked, my_outpoints, events, listed, steady>>
  BY DEF ShowHistory
<1>2. HistoryTypes /\ PlacesOK /\ Asking
  BY DEF Good
<1>3. PlacesOK' /\ Known' = Known /\ blocks' = blocks /\ mempool' = mempool
  BY <1>1, <1>2, PlacesStay DEF chainVars
<1>4. HistoryTypes'
  BY <1>1, <1>2, <1>3 DEF HistoryTypes
<1>5. Grows
  BY <1>1, <1>2, <1>3, NoGrowth
<1>6. /\ Came' = Came /\ Went' = Went
      /\ MinedIn(from, tipAsked)' = MinedIn(from, tipAsked)
      /\ \A t : Touches(t)' <=> Touches(t)
  BY <1>2, <1>5, TruthStays
<1>7. /\ my_outpoints = Came \ Went
      /\ EventsOK(events)
      /\ \A t \in MinedIn(from, tipAsked) : Touches(t) => Listed(events, t)
      /\ Len(blocks) = tipAsked => \A t \in steady \cap mempool : Touches(t) => Listed(events, t)
  BY <1>1, <1>2 DEF Asking
<1>8. EventsOK(events)'
  BY <1>1, <1>2, <1>5, <1>7, EventsMove
<1>9. \A t : Listed(events, t)' <=> Listed(events, t)
  BY <1>1 DEF Listed
<1>10. (\A t \in MinedIn(from, tipAsked) : Touches(t) => Listed(events, t))'
  BY <1>6, <1>7, <1>9
<1>11. (Len(blocks) = tipAsked => \A t \in steady \cap mempool : Touches(t) => Listed(events, t))'
  BY <1>1, <1>3, <1>6, <1>7, <1>9
<1>12. Asking'
  BY <1>1, <1>6, <1>7, <1>8, <1>10, <1>11 DEF Asking
<1> QED
  BY <1>1, <1>3, <1>4, <1>12 DEF Good, Unread, Walking
-----------------------------------------------------------------------------
\* getrawtransaction: the transaction waits, or is in a block above the height asked for by now.
LEMMA GetRawTransactionGood == ASSUME Good, NEW t \in Transfers, GetRawTransaction(t) PROVE Good'
<1> DEFINE e == Event(t, Unconfirmed, Received(t), Sum(Inputs[t] \cap my_outpoints))
<1>1. /\ step = "mempool" /\ t \in listed /\ listed' = listed \ {t}
      /\ UNCHANGED <<chainVars, step, from, walked, tipAsked, my_outpoints, steady>>
      /\ \/ t \in Known /\ events' = IF IsEvent(e) THEN Append(events, e) ELSE events
         \/ t \notin mempool /\ events' = events
  BY DEF GetRawTransaction, Received
<1>2. HistoryTypes /\ PlacesOK /\ Asking
  BY DEF Good
<1>3. PlacesOK' /\ Known' = Known /\ blocks' = blocks /\ mempool' = mempool
  BY <1>1, <1>2, PlacesStay DEF chainVars
<1>4. HistoryTypes'
  BY <1>1, <1>2, <1>3 DEF HistoryTypes
<1>5. Grows
  BY <1>1, <1>2, <1>3, NoGrowth
<1>6. /\ Came' = Came /\ Went' = Went
      /\ MinedIn(from, tipAsked)' = MinedIn(from, tipAsked)
      /\ MinedIn(1, tipAsked)' = MinedIn(1, tipAsked)
      /\ \A u : Touches(u)' <=> Touches(u)
  BY <1>2, <1>5, TruthStays
<1>7. /\ my_outpoints = Came \ Went
      /\ EventsOK(events)
      /\ \A u \in MinedIn(from, tipAsked) : Touches(u) => Listed(events, u)
      /\ listed \cap MinedIn(1, tipAsked) = {} /\ \A u \in listed : ~Listed(events, u)
      /\ listed \subseteq Transfers
  BY <1>1, <1>2 DEF Asking
<1>8. Len(blocks) = tipAsked => \A u \in steady \cap mempool :
         u \in listed \/ (Touches(u) => Listed(events, u))
  BY <1>1, <1>2 DEF Asking
<1>9. PICK list : list = events'
  OBVIOUS
<1>10. /\ EventsOK(list)
       /\ \A u : Listed(events, u) => Listed(list, u)
       /\ \A u : u # t /\ Listed(list, u) => Listed(events, u)
       /\ t \in mempool => (Touches(t) => Listed(list, t))
  <2>1. CASE t \notin mempool /\ events' = events
    BY <1>7, <1>9, <2>1
  <2>2. CASE t \in Known /\ events' = IF IsEvent(e) THEN Append(events, e) ELSE events
    <3>1. MinedIn(from, tipAsked) \subseteq MinedIn(1, tipAsked) /\ MinedIn(from, tipAsked) \subseteq Confirmed
      <4>1. \A h : h \in from..tipAsked => h \in 1..tipAsked
        BY <1>2 DEF HistoryTypes
      <4> QED
        BY <4>1, MinedAt, ConfirmedAt
    <3>2. t \notin MinedIn(1, tipAsked) /\ t \notin MinedIn(from, tipAsked)
      BY <1>1, <1>7, <3>1
    <3>3. \A u \in MinedIn(from, tipAsked) : Inputs[u] \cap Inputs[t] = {}
      BY <1>2, <2>2, <3>1, <3>2 DEF PlacesOK, SpentOnce, Known
    <3>4. Inputs[t] \cap my_outpoints = Inputs[t] \cap Came
      BY <1>7, <3>3 DEF Went
    <3>5. e = Event(t, Unconfirmed, Received(t), Spent(t))
      BY <3>4 DEF Spent
    <3>6. IsEvent(e) <=> Touches(t)
      BY <3>5 DEF IsEvent, Touches, Event
    <3>7. e \in TrueEvents /\ e.tx = t /\ Placed(e)
      <4>1. e.tx = t /\ e.height = Unconfirmed /\ Unconfirmed \in Nat
        BY DEF Event, Unconfirmed
      <4>2. e \in TrueEvents
        BY <3>5, <4>1 DEF TrueEvents
      <4> HIDE DEF e
      <4> QED
        BY <3>2, <4>1, <4>2 DEF Placed
    <3> HIDE DEF e
    <3>8. CASE ~Touches(t)
      BY <1>7, <1>9, <2>2, <3>6, <3>8
    <3>9. CASE Touches(t)
      <4>1. events \in Seq(TrueEvents) /\ Single(events) /\ \A i \in DOMAIN events : Placed(events[i])
        BY <1>7 DEF EventsOK
      <4>2. \A i \in DOMAIN events : events[i].tx # t
        BY <1>1, <1>7 DEF Listed
      <4>3. /\ list \in Seq(TrueEvents) /\ DOMAIN list = DOMAIN events \cup {Len(events) + 1}
            /\ \A i \in DOMAIN events : i # Len(events) + 1 /\ list[i] = events[i]
            /\ list[Len(events) + 1] = e
        BY <1>9, <2>2, <3>6, <3>7, <3>9, <4>1, OneMore
      <4>4. Single(list)
        BY <3>7, <4>1, <4>2, <4>3 DEF Single
      <4>5. \A i \in DOMAIN list : Placed(list[i])
        BY <3>7, <4>1, <4>3
      <4>6. \A u : Listed(list, u) <=> Listed(events, u) \/ u = t
        BY <3>7, <4>3 DEF Listed
      <4> QED
        BY <4>3, <4>4, <4>5, <4>6 DEF EventsOK
    <3> QED
      BY <3>8, <3>9
  <2> QED
    BY <1>1, <2>1, <2>2
<1>11. EventsOK(events)'
  BY <1>2, <1>5, <1>9, <1>10, EventsMove
<1>12. \A u : Listed(events, u)' <=> Listed(list, u)
  BY <1>9 DEF Listed
<1>13. (\A u \in MinedIn(from, tipAsked) : Touches(u) => Listed(events, u))'
  BY <1>6, <1>7, <1>10, <1>12
<1>14. (listed \cap MinedIn(1, tipAsked) = {})' /\ listed' \subseteq Transfers
  BY <1>1, <1>6, <1>7
<1>15. (\A u \in listed : ~Listed(events, u))'
  BY <1>1, <1>7, <1>10, <1>12
<1>16. (Len(blocks) = tipAsked => \A u \in steady \cap mempool :
          u \in listed \/ (Touches(u) => Listed(events, u)))'
  BY <1>1, <1>3, <1>6, <1>8, <1>10, <1>12
<1>17. my_outpoints' = Came' \ Went' /\ step' = "mempool"
  BY <1>1, <1>6, <1>7
<1>18. Asking'
  BY <1>11, <1>13, <1>14, <1>15, <1>16, <1>17 DEF Asking
<1> QED
  BY <1>3, <1>4, <1>17, <1>18 DEF Good, Unread, Walking
-----------------------------------------------------------------------------
LEMMA HistoryStarts == HistoryInit => HistoryInv
<1> SUFFICES ASSUME HistoryInit PROVE HistoryInv
  OBVIOUS
<1>1. /\ blocks = <<>> /\ mempool = {} /\ shortened = FALSE /\ step = "start"
      /\ from \in FromHeights /\ walked = from /\ tipAsked = 0
      /\ my_outpoints = {} /\ events = <<>> /\ steady = {}
  BY DEF HistoryInit
<1>2. blocks \in Seq(Seq(Transfers)) /\ Len(blocks) = 0 /\ DOMAIN blocks = {}
  BY <1>1
<1>3. Confirmed = {} /\ Known = {}
  BY <1>1, <1>2 DEF Confirmed, Known
<1>4. HistoryTypes
  BY <1>1, <1>2, HistoryAssumption, FS_EmptySet DEF HistoryTypes
<1>5. PlacesOK
  BY <1>2, <1>3 DEF PlacesOK, OnePlace, NotWaiting, ParentsFirst, SpentOnce
<1> QED
  BY <1>1, <1>4, <1>5 DEF HistoryInv, Unread, Walking, Asking

LEMMA HistoryStep == HistoryInv /\ [HistoryNext]_historyVars => HistoryInv'
<1> SUFFICES ASSUME HistoryInv, [HistoryNext]_historyVars PROVE HistoryInv'
  OBVIOUS
<1>1. CASE TakeBack
  BY <1>1 DEF TakeBack, HistoryInv
<1>2. ASSUME ~TakeBack PROVE shortened' = shortened
  <2>1. \A t : Arrive(t) \/ Drop(t) \/ GetRawTransaction(t) => shortened' = shortened
    BY DEF Arrive, Drop, GetRawTransaction, chainVars
  <2>2. MineBlock \/ GetBlockCount \/ GetBlock \/ NoSuchBlock \/ BlocksRead \/ GetRawMempool \/ ShowHistory
          => shortened' = shortened
    BY DEF MineBlock, GetBlockCount, GetBlock, NoSuchBlock, BlocksRead, GetRawMempool, ShowHistory, chainVars
  <2> QED
    BY <1>2, <2>1, <2>2 DEF HistoryNext, historyVars, chainVars
<1>3. ASSUME ~TakeBack, ~shortened PROVE Good'
  <2>1. Good
    BY <1>3 DEF HistoryInv, Good
  <2>2. CASE \E t \in Transfers : Arrive(t) \/ Drop(t) \/ GetRawTransaction(t)
    BY <2>1, <2>2, ArriveGood, DropGood, GetRawTransactionGood
  <2>3. CASE MineBlock \/ GetBlockCount \/ GetBlock
    BY <2>1, <2>3, MineBlockGood, GetBlockCountGood, GetBlockGood
  <2>4. CASE NoSuchBlock \/ BlocksRead \/ GetRawMempool \/ ShowHistory
    BY <2>1, <2>4, NoSuchBlockGood, BlocksReadGood, GetRawMempoolGood, ShowHistoryGood
  <2>5. CASE UNCHANGED historyVars
    <3>1. /\ UNCHANGED walkVars /\ steady' = steady /\ UNCHANGED chainVars
          /\ HistoryTypes /\ PlacesOK /\ Unread /\ Walking /\ Asking
      BY <2>1, <2>5 DEF historyVars, walkVars, Good
    <3>2. PlacesOK' /\ Known' = Known /\ blocks' = blocks /\ mempool' = mempool
      BY <3>1, PlacesStay DEF chainVars
    <3>3. HistoryTypes'
      BY <3>1, <3>2 DEF HistoryTypes, walkVars
    <3>4. Grows
      BY <3>1, <3>2, NoGrowth DEF walkVars
    <3>5. Walking' /\ Asking' /\ Unread'
      BY <3>1, <3>2, <3>4, WalkStays, AskingStays DEF Unread, walkVars
    <3> QED
      BY <3>2, <3>3, <3>5 DEF Good
  <2> QED
    BY <1>3, <2>2, <2>3, <2>4, <2>5 DEF HistoryNext
<1> QED
  BY <1>1, <1>2, <1>3 DEF HistoryInv, Good

\* What is printed at the end follows.
LEMMA HistoryEnds == HistoryInv => HistoryIsTrue
<1> SUFFICES ASSUME HistoryInv, step = "done", ~shortened PROVE HistoryIsTrue
  BY DEF HistoryIsTrue
<1>1. HistoryTypes /\ PlacesOK
  BY DEF HistoryInv
<1>2. /\ my_outpoints = Came \ Went
      /\ EventsOK(events)
      /\ \A t \in MinedIn(from, tipAsked) : Touches(t) => Listed(events, t)
      /\ listed = {}
  BY DEF HistoryInv, Asking
<1>3. Len(blocks) = tipAsked => \A t \in steady \cap mempool : Touches(t) => Listed(events, t)
  BY <1>2 DEF HistoryInv, Asking
<1>4. \A t : Listed(events, t) <=> EventsOf(t) # {}
  BY DEF Listed, EventsOf
<1>5. \A t \in Transfers : Cardinality(EventsOf(t)) <= 1
  <2> TAKE t \in Transfers
  <2>1. CASE EventsOf(t) = {}
    BY <2>1, FS_EmptySet
  <2>2. CASE EventsOf(t) # {}
    <3>1. PICK i \in DOMAIN events : events[i].tx = t
      BY <2>2 DEF EventsOf
    <3>2. EventsOf(t) = {i}
      BY <1>2, <3>1 DEF EventsOf, EventsOK, Single
    <3>3. Cardinality({i}) = 1
      BY FS_Singleton
    <3> QED
      BY <3>2, <3>3
  <2> QED
    BY <2>1, <2>2
<1>6. ASSUME NEW i \in DOMAIN events
      PROVE  LET e == events[i]
             IN  /\ e.received = Received(e.tx) /\ e.spent = Spent(e.tx)
                 /\ IF e.height = Unconfirmed THEN e.tx \notin MinedIn(1, tipAsked)
                    ELSE e.height \in from..tipAsked /\ e.tx \in ToSet(blocks[e.height])
  <2>1. events \in Seq(TrueEvents) /\ Placed(events[i])
    BY <1>2, <1>6 DEF EventsOK
  <2>2. events[i] \in TrueEvents
    BY <1>6, <2>1
  <2>3. events[i].received = Received(events[i].tx) /\ events[i].spent = Spent(events[i].tx)
    <3>1. PICK t \in Transfers, h \in Nat : events[i] = Event(t, h, Received(t), Spent(t))
      BY <2>2 DEF TrueEvents
    <3> QED
      BY <3>1 DEF Event
  <2> QED
    BY <2>1, <2>3 DEF Placed
<1>7. ASSUME Len(blocks) = tipAsked, NEW t \in steady \ MinedIn(1, from - 1), Touches(t)
      PROVE  EventsOf(t) # {}
  <2>1. t \in Confirmed \/ t \in mempool
    BY <1>1 DEF HistoryTypes, Known
  <2>2. CASE t \in mempool
    BY <1>3, <1>4, <1>7, <2>2
  <2>3. CASE t \in Confirmed
    <3>1. PICK h \in DOMAIN blocks : \E n \in DOMAIN blocks[h] : blocks[h][n] = t
      BY <2>3, ConfirmedAt
    <3>2. h \notin 1..(from - 1)
      BY <1>7, <3>1, MinedAt
    <3>3. h \in from..tipAsked
      BY <1>1, <1>7, <3>1, <3>2, BlockTypes DEF HistoryTypes
    <3>4. t \in MinedIn(from, tipAsked)
      BY <3>1, <3>3, MinedAt
    <3> QED
      BY <1>2, <1>4, <1>7, <3>4
  <2> QED
    BY <2>1, <2>2, <2>3
<1>8. \A t \in MinedIn(from, tipAsked) : Touches(t) => EventsOf(t) # {}
  BY <1>2, <1>4
<1> QED
  BY <1>2, <1>5, <1>6, <1>7, <1>8 DEF HistoryIsTrue

\* history, over any chain that moves meanwhile: as long as no block is taken back, its many
\* answers add up to the wallet's past as of the height it asked for first.
THEOREM WalkTellsTheTruth == HistorySpec => []HistoryIsTrue
<1>1. HistoryInit => HistoryInv
  BY HistoryStarts
<1>2. HistoryInv /\ [HistoryNext]_historyVars => HistoryInv'
  BY HistoryStep
<1>3. HistoryInv => HistoryIsTrue
  BY HistoryEnds
<1> QED
  BY <1>1, <1>2, <1>3, PTL DEF HistorySpec
=============================================================================

------------------------------- MODULE History -------------------------------
(***************************************************************************)
(* cmd_history: the blocks are walked by height, one call each, and then   *)
(* the mempool, transaction by transaction, while blocks come, the last    *)
(* one may be taken back, and transactions come, are mined or are dropped. *)
(***************************************************************************)
EXTENDS Integers, Sequences, FiniteSets, SequencesExt, FiniteSetsExt

CONSTANTS
  Transfers,     \* transactions
  Inputs,        \* the outpoints, <<transaction, vout>>, each of them spends
  Amounts,       \* the amounts of the outpoints on the wallet's two scripts
  FromHeights,   \* --from-height
  MaxHeight      \* bound: the chain's height

Scripts == DOMAIN Amounts

ASSUME HistoryAssumption ==
  /\ DOMAIN Inputs = Transfers /\ \A o \in Scripts : o[1] \in Transfers /\ Amounts[o] \in Nat \ {0}
  /\ FromHeights \subseteq Nat \ {0} /\ MaxHeight \in Nat

VARIABLES
  blocks,       \* the chain: sequences of transactions
  mempool,
  step,         \* "start", "blocks", "list", "mempool", "done" or "failed"
  from, walked, \* --from-height, and the next height
  tipAsked,     \* getblockcount's answer
  my_outpoints, \* the wallet's coins as the walk knows them
  events,
  listed,       \* getrawmempool's answer, what is left of it
  steady,       \* history: transactions in the chain or the mempool ever since the start
  shortened     \* history: a block was taken back meanwhile

chainVars   == <<blocks, mempool, shortened>>
historyVars == <<chainVars, step, from, walked, tipAsked, my_outpoints, events, listed, steady>>
walkVars    == <<step, from, walked, tipAsked, my_outpoints, events, listed>>

Confirmed == UNION {ToSet(blocks[i]) : i \in DOMAIN blocks}
Known     == Confirmed \cup mempool
Underway  == step \in {"blocks", "list", "mempool"}
Sum(outs) == MapThenSumSet(LAMBDA o : Amounts[o], outs)

HistoryInit ==
  /\ blocks = <<>> /\ mempool = {} /\ shortened = FALSE
  /\ step = "start" /\ from \in FromHeights /\ walked = from /\ tipAsked = 0
  /\ my_outpoints = {} /\ events = <<>> /\ listed = {} /\ steady = {}
-----------------------------------------------------------------------------
(* The node.                                                                *)

\* What comes after the walk is not looked at.
NodeMoves == (step = "start" \/ Underway) /\ UNCHANGED walkVars

Parents(t) == {o[1] : o \in Inputs[t]}

Arrive(t) ==
  /\ NodeMoves /\ t \notin Known /\ Parents(t) \subseteq Known
  /\ \A u \in Known : Inputs[t] \cap Inputs[u] = {}
  /\ mempool' = mempool \cup {t}
  /\ UNCHANGED <<blocks, shortened, steady>>

\* A block takes some of the mempool, parents first.
MineBlock ==
  /\ NodeMoves /\ Len(blocks) < MaxHeight
  /\ \E chosen \in SUBSET mempool : \E block \in SetToSeqs(chosen) :
       /\ \A i \in DOMAIN block :
            Parents(block[i]) \subseteq Confirmed \cup {block[j] : j \in 1..i - 1}
       /\ blocks' = Append(blocks, block) /\ mempool' = mempool \ ToSet(block)
  /\ UNCHANGED <<shortened, steady>>

\* The last block is taken back, once in a walk (a bound).
TakeBack ==
  /\ NodeMoves /\ Underway /\ ~shortened /\ blocks # <<>>
  /\ blocks' = Front(blocks) /\ mempool' = mempool \cup ToSet(Last(blocks)) /\ shortened' = TRUE
  /\ UNCHANGED steady

\* A transaction nobody waits for leaves the mempool.
Drop(t) ==
  /\ NodeMoves /\ t \in mempool /\ \A u \in mempool : t \notin Parents(u)
  /\ mempool' = mempool \ {t} /\ steady' = steady \ {t}
  /\ UNCHANGED <<blocks, shortened>>
-----------------------------------------------------------------------------
(* The walk.                                                                *)

\* Mutant: the block at the tip is left out.
BelowTip == walked < tipAsked
InRange == walked <= tipAsked

GetBlockCount ==
  /\ step = "start" /\ step' = "blocks" /\ tipAsked' = Len(blocks)
  /\ steady' = Known
  /\ UNCHANGED <<chainVars, from, walked, my_outpoints, events, listed>>

Event(t, height, received, spent) == [tx |-> t, height |-> height, received |-> received, spent |-> spent]
IsEvent(e) == e.received > 0 \/ e.spent > 0
Unconfirmed == 0   \* None, as a height

\* One transaction of a block: coins it spends leave my_outpoints, its own come in.
ReadTx(acc, t) ==
  LET gone == Inputs[t] \cap acc.outs
      new  == {o \in Scripts : o[1] = t}
      e    == Event(t, walked, Sum(new), Sum(gone))
  IN  [outs |-> (acc.outs \ gone) \cup new,
       events |-> IF IsEvent(e) THEN Append(acc.events, e) ELSE acc.events]

\* What the walk knows after each transaction of a block.
ReadBlock(block) ==
  LET read[n \in 0..Len(block)] ==
        IF n = 0 THEN [outs |-> my_outpoints, events |-> events] ELSE ReadTx(read[n - 1], block[n])
  IN  read

\* getblockhash and getblock: a block that is taken back between the two is still answered.
GetBlock ==
  /\ step = "blocks" /\ InRange /\ walked <= Len(blocks)
  /\ LET read == ReadBlock(blocks[walked])[Len(blocks[walked])]
     IN  my_outpoints' = read.outs /\ events' = read.events
  /\ walked' = walked + 1
  /\ UNCHANGED <<chainVars, step, from, tipAsked, listed, steady>>

\* The chain got shorter: there is no block of that height, and the command ends with an error.
NoSuchBlock ==
  /\ step = "blocks" /\ InRange /\ walked > Len(blocks) /\ step' = "failed"
  /\ UNCHANGED <<chainVars, from, walked, tipAsked, my_outpoints, events, listed, steady>>

BlocksRead ==
  /\ step = "blocks" /\ ~InRange /\ step' = "list"
  /\ UNCHANGED <<chainVars, from, walked, tipAsked, my_outpoints, events, listed, steady>>

GetRawMempool ==
  /\ step = "list" /\ step' = "mempool" /\ listed' = mempool
  /\ UNCHANGED <<chainVars, from, walked, tipAsked, my_outpoints, events, steady>>

\* getrawtransaction knows the mempool, and with an index of transactions the chain too.
GetRawTransaction(t) ==
  /\ step = "mempool" /\ t \in listed /\ listed' = listed \ {t}
  /\ \/ /\ t \in Known
        /\ LET e == Event(t, Unconfirmed, Sum({o \in Scripts : o[1] = t}), Sum(Inputs[t] \cap my_outpoints))
           IN  events' = IF IsEvent(e) THEN Append(events, e) ELSE events
     \/ t \notin mempool /\ UNCHANGED events
  /\ UNCHANGED <<chainVars, step, from, walked, tipAsked, my_outpoints, steady>>

ShowHistory ==
  /\ step = "mempool" /\ listed = {} /\ step' = "done"
  /\ UNCHANGED <<chainVars, from, walked, tipAsked, my_outpoints, events, listed, steady>>

HistoryNext ==
  \/ \E t \in Transfers : Arrive(t) \/ Drop(t) \/ GetRawTransaction(t)
  \/ MineBlock \/ TakeBack
  \/ GetBlockCount \/ GetBlock \/ NoSuchBlock \/ BlocksRead \/ GetRawMempool \/ ShowHistory
  \/ step \in {"done", "failed"} /\ UNCHANGED historyVars

HistorySpec == HistoryInit /\ [][HistoryNext]_historyVars
-----------------------------------------------------------------------------
\* The truth, as of the height asked for: coins that came and went in the heights walked.
MinedIn(lo, hi)  == UNION {ToSet(blocks[i]) : i \in (lo..hi) \cap DOMAIN blocks}
Came             == {o \in Scripts : o[1] \in MinedIn(from, tipAsked)}
Went             == UNION {Inputs[t] : t \in MinedIn(from, tipAsked)}
Received(t)      == Sum({o \in Scripts : o[1] = t})
Spent(t)         == Sum(Inputs[t] \cap Came)
Touches(t)       == Received(t) > 0 \/ Spent(t) > 0
EventsOf(t)      == {i \in DOMAIN events : events[i].tx = t}

\* While no block is taken back, the history is the wallet's as of one height, although it was
\* gathered in many calls: the coins left over are those of that height; each transaction
\* that moved them is listed once, with its height and both its sums, and one of the mempool with
\* its own; a transaction that was there all the time is only missed when a block came meanwhile.
HistoryIsTrue == step = "done" /\ ~shortened =>
  /\ my_outpoints = Came \ Went
  /\ \A t \in Transfers : Cardinality(EventsOf(t)) <= 1
  /\ \A t \in MinedIn(from, tipAsked) : Touches(t) => EventsOf(t) # {}
  /\ \A i \in DOMAIN events :
       LET e == events[i]
       IN  /\ e.received = Received(e.tx) /\ e.spent = Spent(e.tx)
           /\ IF e.height = Unconfirmed THEN e.tx \notin MinedIn(1, tipAsked)
              ELSE e.height \in from..tipAsked /\ e.tx \in ToSet(blocks[e.height])
  /\ Len(blocks) = tipAsked =>
       \A t \in steady \ MinedIn(1, from - 1) : Touches(t) => EventsOf(t) # {}
=============================================================================

---------------------------- MODULE PaymentPlan ----------------------------
(***************************************************************************)
(* plan_payment (wallet_cli.py): how a payment is cut into independent     *)
(* transactions.  Coins are taken largest first, at most Cap to one        *)
(* transaction; a transaction that cannot finish the payment pays          *)
(* everything it carries, less its fee, to the destination and the next    *)
(* one carries on.  Amounts are whole satoshis.                            *)
(*                                                                         *)
(* One step is one pass of the inner "for" loop, or the code behind that   *)
(* loop.  `k' is len(selected), the coins of the transaction being built   *)
(* are coins[pos+1 .. pos+k].                                              *)
(***************************************************************************)
EXTENDS Integers, Sequences, FiniteSets

CONSTANTS
  Cap,           \* max_inputs(): the most inputs one transaction carries
  Dust,          \* DUST_CHANGE, the smallest output the network accepts
  Wallets,       \* the coin lists a scan may return (amounts, in any order)
  Amounts,       \* what the user may ask to send
  FeeSchedules   \* the fee of a transaction of n inputs and two outputs

ASSUME PlanAssumption ==
  /\ Cap \in Nat \ {0}
  /\ Dust \in Nat \ {0}
  /\ Wallets \subseteq Seq(Nat)
  /\ Amounts \subseteq Nat
  /\ FeeSchedules \subseteq [1..Cap -> Nat]

VARIABLES
  coins,     \* the wallet's mature coins, sorted largest first
  amount,    \* the payment
  feeOf,     \* the fee schedule of this send
  fixed,     \* --fee was given: feeOf is constant
  split,     \* --split was given
  pos,       \* coins already used by the planned transactions
  left,      \* what the planned transactions leave to be paid
  k, total,  \* inputs taken for the transaction being built, and their sum
  plan,      \* the planned transactions
  outcome    \* how the planner ended

request  == <<coins, amount, feeOf, fixed, split>>
progress == <<pos, left, k, total, plan, outcome>>
vars     == <<request, progress>>

Outcomes == {"planning", "planned", "insufficient", "over_cap", "fee_not_splittable"}

\* sum(): the amounts of s at the places in a set, added one after another.
SumsOf(s, at) ==
  LET sum[i \in 0..Len(s)] == IF i = 0 THEN 0 ELSE sum[i - 1] + (IF i \in at THEN s[i] ELSE 0) IN sum
SumAt(s, at) == SumsOf(s, at)[Len(s)]

\* Mutant: the scan's own order is kept (`sorted' dropped).
AnyOrder(s) == TRUE
LargestFirst(s) == \A i, j \in 1..Len(s) : i < j => s[i] >= s[j]

\* A planned transaction spends coins[from+1 .. from+n], worth `total'.
Tx(pay, fee, change, n, sum) ==
  [from |-> pos, n |-> n, total |-> sum, pay |-> pay, fee |-> fee, change |-> change]

\* cmd_send refuses an amount below DUST_CHANGE before it plans.
Init ==
  /\ coins \in {w \in Wallets : LargestFirst(w)}
  /\ amount \in {a \in Amounts : a >= Dust}
  /\ feeOf \in FeeSchedules
  /\ fixed \in {FALSE} \cup (IF \A i \in 1..Cap : feeOf[i] = feeOf[1] THEN {TRUE} ELSE {})
  /\ split \in BOOLEAN
  /\ pos = 0 /\ left = amount /\ k = 0 /\ total = 0
  /\ plan = <<>> /\ outcome = "planning"

MoreCoins  == k < Cap /\ pos + k < Len(coins)
NextTotal  == total + coins[pos + k + 1]
NextFee    == feeOf[k + 1]

\* One more coin, and the payment is still not covered.
TakeCoin ==
  /\ outcome = "planning" /\ MoreCoins
  /\ NextTotal < left + NextFee
  /\ k' = k + 1 /\ total' = NextTotal
  /\ UNCHANGED <<request, pos, left, plan, outcome>>

Spare == NextTotal - left - NextFee

\* Mutant: small change is kept.
AllSpare == Spare

\* Change the network would refuse joins the fee.
LastFee    == IF Spare < Dust THEN NextFee + Spare ELSE NextFee
LastChange == IF Spare < Dust THEN 0 ELSE Spare

\* The coin that covers the rest.
Finish ==
  /\ outcome = "planning" /\ MoreCoins
  /\ NextTotal >= left + NextFee
  /\ plan' = Append(plan, Tx(left, LastFee, LastChange, k + 1, NextTotal))
  /\ outcome' = "planned" /\ k' = k + 1 /\ total' = NextTotal
  /\ UNCHANGED <<request, pos, left>>

GroupIsFull == outcome = "planning" /\ ~MoreCoins
LastGroup   == k < Cap \/ pos + Cap >= Len(coins)
AllFunds    == SumAt(coins, DOMAIN coins)

\* What a full group pays: all it carries less the fee; if that would leave a
\* rest too small to be an output of its own, Dust stays behind as change.
GroupPay ==
  LET all == total - feeOf[k]
  IN IF left - all < Dust THEN [pay |-> all - Dust, change |-> Dust]
                          ELSE [pay |-> all, change |-> 0]

GiveUp(why) ==
  /\ outcome' = why
  /\ UNCHANGED <<request, pos, left, k, total, plan>>

\* Nothing more to draw on, or too little in the group for an output.
Insufficient ==
  /\ GroupIsFull
  /\ \/ LastGroup
     \/ ~split /\ AllFunds < amount
     \/ ~LastGroup /\ split /\ ~fixed /\ GroupPay.pay < Dust
  /\ GiveUp("insufficient")

\* The wallet has the money, but one transaction cannot carry it.
OverCap ==
  /\ GroupIsFull /\ ~LastGroup /\ ~split
  /\ AllFunds >= amount
  /\ GiveUp("over_cap")

FeeNotSplittable ==
  /\ GroupIsFull /\ ~LastGroup /\ split /\ fixed
  /\ GiveUp("fee_not_splittable")

\* Mutant: the kept Dust counts as paid.
LeftOfCarried  == left - (total - feeOf[k])
NextPos  == pos + Cap
NextLeft == left - GroupPay.pay

NextGroup ==
  /\ GroupIsFull /\ ~LastGroup /\ split /\ ~fixed
  /\ GroupPay.pay >= Dust
  /\ plan' = Append(plan, Tx(GroupPay.pay, feeOf[k], GroupPay.change, k, total))
  /\ left' = NextLeft /\ pos' = NextPos
  /\ k' = 0 /\ total' = 0
  /\ UNCHANGED <<request, outcome>>

Done == outcome # "planning" /\ UNCHANGED vars

Next == TakeCoin \/ Finish \/ Insufficient \/ OverCap \/ FeeNotSplittable \/ NextGroup \/ Done

Spec == Init /\ [][Next]_vars
-----------------------------------------------------------------------------
Planned == [from : Nat, n : 1..Cap, total : Nat, pay : Nat, fee : Nat, change : Nat]

TypeOK ==
  /\ coins \in Seq(Nat) /\ amount \in Nat /\ feeOf \in [1..Cap -> Nat]
  /\ fixed \in BOOLEAN /\ split \in BOOLEAN
  /\ pos \in Nat /\ left \in Nat /\ k \in 0..Cap /\ total \in Nat
  /\ plan \in Seq(Planned)
  /\ outcome \in Outcomes

Txs == 1..Len(plan)

\* No value is made or lost: what a transaction spends is what it pays, keeps as
\* change and burns as fee (the fold of small change into the fee included).
ValueConserved == \A i \in Txs : plan[i].total = plan[i].pay + plan[i].fee + plan[i].change

\* "Every payment and change is >= DUST_CHANGE" (docstring of plan_payment): no
\* planned transaction has an output the consensus rules refuse, whatever rest
\* the groups before it left.
OutputsAboveFloor ==
  \A i \in Txs : plan[i].pay >= Dust /\ (plan[i].change = 0 \/ plan[i].change >= Dust)

\* The transactions are independent: each spends its own run of coins, so no
\* coin is spent twice and any of them may fail without touching the others.
CoinsSpentOnce ==
  \A i \in Txs :
    /\ plan[i].from = (IF i = 1 THEN 0 ELSE plan[i - 1].from + plan[i - 1].n)
    /\ plan[i].from + plan[i].n <= Len(coins)

\* Each transaction pays at least the fee of its own size, and by less than Dust
\* more (the folded change): the fee guard of cmd_send sees no hidden overpayment.
FeesJustEnough ==
  \A i \in Txs : plan[i].fee >= feeOf[plan[i].n] /\ plan[i].fee < feeOf[plan[i].n] + Dust

\* A finished plan pays exactly the amount, an unfinished one exactly the
\* amount less what is left, from coins that are really worth that much.
PaysTheAmount ==
  /\ SumAt([i \in Txs |-> plan[i].pay], Txs) = (IF outcome = "planned" THEN amount ELSE amount - left)
  /\ \A i \in Txs : plan[i].total =
       SumAt(coins, plan[i].from + 1 .. plan[i].from + plan[i].n)

\* The coin sets one transaction could spend to make this payment.
Covering(S) == S # {} /\ Cardinality(S) <= Cap /\ SumAt(coins, S) >= amount + feeOf[Cardinality(S)]

\* When a send without --split is refused, no choice of coins could have made
\* it: taking the largest first misses no payment the wallet can make.
RefusalIsSound ==
  ~split /\ outcome \in {"insufficient", "over_cap"} =>
    ~\E S \in SUBSET (1..Len(coins)) : Covering(S)

\* A single-transaction plan uses as few inputs as any choice of coins would.
FewestInputs ==
  outcome = "planned" /\ Len(plan) = 1 =>
    ~\E S \in SUBSET (1..Len(coins)) : Covering(S) /\ Cardinality(S) < plan[1].n

\* A split is planned only when one transaction cannot carry the payment.
SplitOnlyWhenNeeded ==
  Len(plan) > 1 => ~\E S \in SUBSET (1..Len(coins)) : Covering(S)

\* Every transaction of a plan is one the network accepts, whatever the others do: it
\* loses no value, has no dust, spends its own coins and pays its own fee.
PlanSound == ValueConserved /\ OutputsAboveFloor /\ CoinsSpentOnce /\ FeesJustEnough

\* The plan pays exactly the amount, in one transaction where one can, and then with as
\* few inputs as any choice of coins.
BestPlan == PaysTheAmount /\ FewestInputs /\ SplitOnlyWhenNeeded
=============================================================================

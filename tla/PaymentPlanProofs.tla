------------------------- MODULE PaymentPlanProofs -------------------------
(***************************************************************************)
(* Proofs about plan_payment for every wallet, amount, input limit, dust   *)
(* floor and fee schedule: every planned transaction is sound, and no      *)
(* other choice of coins would have done better.                           *)
(***************************************************************************)
EXTENDS PaymentPlan, SequenceTheorems, FiniteSetTheorems, NaturalsInduction, WellFoundedInduction, TLAPS

\* The group being built does not yet cover what is left of the payment, and
\* what is left is itself payable: the reason the next group can go on.
GroupFallsShort ==
  outcome = "planning" =>
    /\ left >= Dust
    /\ k = 0 => total = 0
    /\ k > 0 => total < left + feeOf[k]

\* The coins in use are coins of the wallet, and the next group starts where the
\* planned ones end.
CoinsInWallet ==
  /\ pos + k <= Len(coins)
  /\ outcome # "planned" =>
       pos = (IF plan = <<>> THEN 0 ELSE plan[Len(plan)].from + plan[Len(plan)].n)

IInv ==
  /\ TypeOK
  /\ GroupFallsShort
  /\ CoinsInWallet
  /\ ValueConserved
  /\ OutputsAboveFloor
  /\ CoinsSpentOnce
  /\ FeesJustEnough

\* Appending one transaction that is right by itself, and starts where the plan
\* ends, keeps the whole plan right.
LEMMA PlanGrows ==
  ASSUME IInv, outcome = "planning",
         NEW tx \in Planned, plan' = Append(plan, tx),
         UNCHANGED <<coins, feeOf>>,
         tx.from = pos, pos + tx.n <= Len(coins),
         tx.total = tx.pay + tx.fee + tx.change,
         tx.pay >= Dust, tx.change = 0 \/ tx.change >= Dust,
         tx.fee >= feeOf[tx.n], tx.fee < feeOf[tx.n] + Dust
  PROVE  /\ plan' \in Seq(Planned) /\ plan' # <<>>
         /\ plan'[Len(plan')] = tx
         /\ ValueConserved' /\ OutputsAboveFloor' /\ CoinsSpentOnce' /\ FeesJustEnough'
<1>1. plan \in Seq(Planned) /\ Len(plan) \in Nat
  BY DEF IInv, TypeOK
<1>2. /\ plan' \in Seq(Planned) /\ Len(plan') = Len(plan) + 1 /\ plan'[Len(plan) + 1] = tx
      /\ \A j \in 1..Len(plan) : plan'[j] = plan[j]
  BY <1>1
<1>3. plan' # <<>>
  BY <1>1, <1>2
<1>4. Txs' = Txs \cup {Len(plan) + 1}
  BY <1>1, <1>2 DEF Txs
<1>5. ValueConserved' /\ OutputsAboveFloor'
  BY <1>1, <1>2, <1>4 DEF IInv, ValueConserved, OutputsAboveFloor, Txs
<1>6. FeesJustEnough'
  BY <1>1, <1>2, <1>4 DEF IInv, FeesJustEnough, Txs
<1>7. CoinsSpentOnce'
  <2> SUFFICES ASSUME NEW j \in Txs'
               PROVE /\ plan'[j].from = (IF j = 1 THEN 0 ELSE plan'[j - 1].from + plan'[j - 1].n)
                     /\ plan'[j].from + plan'[j].n <= Len(coins)
    BY DEF CoinsSpentOnce
  <2>1. CASE j \in Txs
    BY <1>1, <1>2, <2>1 DEF IInv, CoinsSpentOnce, Txs
  <2>2. CASE j = Len(plan) + 1
    <3>1. pos = (IF plan = <<>> THEN 0 ELSE plan[Len(plan)].from + plan[Len(plan)].n)
      BY DEF IInv, CoinsInWallet
    <3>2. CASE plan = <<>>
      BY <1>2, <2>2, <3>1, <3>2
    <3>3. CASE plan # <<>>
      <4>1. Len(plan) \in 1..Len(plan) /\ j # 1 /\ j - 1 = Len(plan)
        BY <1>1, <2>2, <3>3
      <4> QED
        BY <1>2, <2>2, <3>1, <3>3, <4>1
    <3> QED
      BY <3>2, <3>3
  <2> QED
    BY <1>4, <2>1, <2>2
<1> QED
  BY <1>1, <1>2, <1>3, <1>5, <1>6, <1>7

LEMMA InitIInv == Init => IInv
<1> SUFFICES ASSUME Init PROVE IInv
  OBVIOUS
<1> USE PlanAssumption
<1>1. coins \in Seq(Nat) /\ amount \in Nat /\ feeOf \in [1..Cap -> Nat] /\ amount >= Dust
  BY DEF Init
<1>2. plan = <<>> /\ Txs = {}
  BY DEF Init, Txs
<1>3. fixed \in BOOLEAN
  BY DEF Init
<1>4. plan \in Seq(Planned)
  BY <1>2
<1>5. TypeOK
  BY <1>1, <1>3, <1>4 DEF Init, TypeOK, Outcomes
<1>6. GroupFallsShort /\ CoinsInWallet
  BY <1>1, <1>2 DEF Init, GroupFallsShort, CoinsInWallet
<1> QED
  BY <1>2, <1>5, <1>6 DEF IInv, ValueConserved, OutputsAboveFloor, CoinsSpentOnce, FeesJustEnough

\* The plan's own conjuncts only read the plan, the coins and the fees.
LEMMA PlanKept ==
  ASSUME IInv, UNCHANGED <<coins, feeOf, plan>>
  PROVE  ValueConserved' /\ OutputsAboveFloor' /\ CoinsSpentOnce' /\ FeesJustEnough'
BY DEF IInv, ValueConserved, OutputsAboveFloor, CoinsSpentOnce, FeesJustEnough, Txs

LEMMA Amount == ASSUME NEW s \in Seq(Nat), NEW j \in 1..Len(s) PROVE s[j] \in Nat
OBVIOUS

\* A coin the group has room for is a coin of the wallet, with a fee of its own.
LEMMA NextCoin ==
  ASSUME TypeOK, MoreCoins
  PROVE  /\ k + 1 \in 1..Cap /\ pos + (k + 1) <= Len(coins)
         /\ NextTotal \in Nat /\ NextFee \in Nat
<1>1. coins \in Seq(Nat) /\ Len(coins) \in Nat /\ pos + k + 1 \in 1..Len(coins) /\ k + 1 \in 1..Cap
  BY PlanAssumption DEF TypeOK, MoreCoins
<1>2. coins[pos + k + 1] \in Nat
  BY <1>1, Amount
<1>3. feeOf[k + 1] \in Nat
  BY <1>1 DEF TypeOK
<1>4. total \in Nat /\ pos \in Nat /\ k \in Int
  BY PlanAssumption DEF TypeOK
<1> QED
  BY <1>1, <1>2, <1>3, <1>4 DEF NextTotal, NextFee

LEMMA TakeCoinIInv == ASSUME IInv, TakeCoin PROVE IInv'
<1> USE PlanAssumption
<1>1. /\ k + 1 \in 1..Cap /\ pos + (k + 1) <= Len(coins)
      /\ NextTotal \in Nat /\ NextFee \in Nat
  BY NextCoin DEF IInv, TakeCoin
<1>2. UNCHANGED <<coins, amount, feeOf, fixed, split, pos, left, plan, outcome>>
  BY DEF TakeCoin, request
<1>3. TypeOK'
  BY <1>1, <1>2 DEF IInv, TypeOK, TakeCoin
<1>4. GroupFallsShort'
  BY <1>1, <1>2 DEF IInv, TypeOK, TakeCoin, GroupFallsShort, NextFee
<1>5. CoinsInWallet'
  BY <1>1, <1>2 DEF IInv, TypeOK, TakeCoin, CoinsInWallet
<1> QED
  BY <1>2, <1>3, <1>4, <1>5, PlanKept DEF IInv

LEMMA FinishIInv == ASSUME IInv, Finish PROVE IInv'
<1> USE PlanAssumption
<1>1. /\ k + 1 \in 1..Cap /\ pos + (k + 1) <= Len(coins)
      /\ NextTotal \in Nat /\ NextFee \in Nat
  BY NextCoin DEF IInv, Finish
<1>2. UNCHANGED <<coins, amount, feeOf, fixed, split, pos, left>>
  BY DEF Finish, request
<1> DEFINE tx == Tx(left, LastFee, LastChange, k + 1, NextTotal)
<1>3. left \in Nat /\ left >= Dust /\ Spare \in Nat
  BY <1>1 DEF IInv, TypeOK, Finish, GroupFallsShort, Spare
<1>4. /\ LastFee \in Nat /\ LastChange \in Nat
      /\ NextTotal = left + LastFee + LastChange
      /\ LastFee >= NextFee /\ LastFee < NextFee + Dust
      /\ LastChange = 0 \/ LastChange >= Dust
  BY <1>1, <1>3 DEF LastFee, LastChange, Spare
<1>5. tx \in Planned
  BY <1>1, <1>3, <1>4 DEF Tx, Planned, IInv, TypeOK
<1>6. /\ plan' \in Seq(Planned) /\ plan' # <<>> /\ plan'[Len(plan')] = tx
      /\ ValueConserved' /\ OutputsAboveFloor' /\ CoinsSpentOnce' /\ FeesJustEnough'
  BY <1>1, <1>2, <1>3, <1>4, <1>5, PlanGrows DEF Tx, Finish, NextFee
<1>7. TypeOK'
  <2>1. outcome' = "planned" /\ k' = k + 1 /\ total' = NextTotal
    BY DEF Finish
  <2> HIDE DEF tx
  <2> QED
    BY <1>1, <1>2, <1>6, <2>1 DEF IInv, TypeOK, Outcomes
<1>8. GroupFallsShort' /\ CoinsInWallet'
  BY <1>1, <1>2 DEF IInv, TypeOK, Finish, GroupFallsShort, CoinsInWallet
<1> QED
  BY <1>6, <1>7, <1>8 DEF IInv

\* A full group that is not the last pays out an amount that leaves a payable rest.
LEMMA GroupLeavesPayableRest ==
  ASSUME IInv, NextGroup
  PROVE  /\ k = Cap /\ feeOf[k] \in Nat
         /\ GroupPay.pay \in Nat /\ GroupPay.pay >= Dust
         /\ GroupPay.change \in {0, Dust}
         /\ total = GroupPay.pay + feeOf[k] + GroupPay.change
         /\ NextLeft \in Nat /\ NextLeft >= Dust
<1> DEFINE fee  == feeOf[k]
           pay  == GroupPay.pay
           rest == GroupPay.change
<1>0. Cap \in Nat \ {0} /\ Dust \in Nat \ {0}
  BY PlanAssumption
<1>1. k = Cap
  BY PlanAssumption DEF IInv, TypeOK, NextGroup, GroupIsFull, MoreCoins, LastGroup
<1>2. fee \in Nat /\ left \in Nat /\ total \in Nat
  BY PlanAssumption, <1>1 DEF IInv, TypeOK
<1>3. total < left + fee
  <2>1. GroupFallsShort /\ outcome = "planning" /\ k > 0
    BY <1>0, <1>1 DEF IInv, NextGroup, GroupIsFull
  <2> QED
    BY <2>1 DEF GroupFallsShort
<1>4. pay >= Dust
  BY DEF NextGroup
<1>5. \/ left - (total - fee) < Dust /\ pay = total - fee - Dust /\ rest = Dust
      \/ ~(left - (total - fee) < Dust) /\ pay = total - fee /\ rest = 0
  BY DEF GroupPay
<1>6. NextLeft = left - pay
  BY DEF NextLeft
<1> HIDE DEF fee, pay, rest
<1>7. pay \in Nat /\ rest \in {0, Dust} /\ total = pay + fee + rest /\ left - pay \in Nat /\ left - pay >= Dust
  BY <1>0, <1>2, <1>3, <1>4, <1>5
<1> QED
  BY <1>1, <1>2, <1>4, <1>6, <1>7 DEF fee, pay, rest

LEMMA NextGroupIInv == ASSUME IInv, NextGroup PROVE IInv'
<1> USE PlanAssumption
<1>1. /\ k = Cap /\ feeOf[k] \in Nat
      /\ GroupPay.pay \in Nat /\ GroupPay.pay >= Dust
      /\ GroupPay.change \in {0, Dust}
      /\ total = GroupPay.pay + feeOf[k] + GroupPay.change
      /\ NextLeft \in Nat /\ NextLeft >= Dust
  BY GroupLeavesPayableRest
<1>2. UNCHANGED <<coins, amount, feeOf, fixed, split, outcome>>
  BY DEF NextGroup, request
<1> DEFINE tx == Tx(GroupPay.pay, feeOf[k], GroupPay.change, k, total)
<1>3. outcome = "planning" /\ pos + k <= Len(coins) /\ pos \in Nat /\ Len(coins) \in Nat
  BY DEF IInv, TypeOK, CoinsInWallet, NextGroup, GroupIsFull
<1>4. tx \in Planned
  BY SMTT(20), <1>1, <1>3 DEF Tx, Planned, IInv, TypeOK
<1>5. /\ plan' \in Seq(Planned) /\ plan' # <<>> /\ plan'[Len(plan')] = tx
      /\ ValueConserved' /\ OutputsAboveFloor' /\ CoinsSpentOnce' /\ FeesJustEnough'
  <2>1. tx.from = pos /\ tx.n = k /\ tx.total = total
        /\ tx.pay = GroupPay.pay /\ tx.fee = feeOf[k] /\ tx.change = GroupPay.change
    BY DEF Tx
  <2>2. plan' = Append(plan, tx)
    BY DEF NextGroup
  <2>3. /\ pos + tx.n <= Len(coins) /\ tx.total = tx.pay + tx.fee + tx.change
        /\ tx.pay >= Dust /\ (tx.change = 0 \/ tx.change >= Dust)
        /\ tx.fee >= feeOf[tx.n] /\ tx.fee < feeOf[tx.n] + Dust
    BY <1>1, <1>3, <2>1
  <2> HIDE DEF tx
  <2> QED
    BY <1>2, <1>3, <1>4, <2>1, <2>2, <2>3, PlanGrows
<1>6. TypeOK'
  BY SMTT(20), <1>1, <1>2, <1>3, <1>5 DEF IInv, TypeOK, NextGroup, NextPos
<1>7. GroupFallsShort'
  BY <1>1 DEF GroupFallsShort, NextGroup
<1>8. CoinsInWallet'
  <2>1. pos' = pos + k /\ k' = 0
    BY <1>1 DEF NextGroup, NextPos
  <2> QED
    BY <1>2, <1>3, <1>5, <2>1 DEF CoinsInWallet, Tx
<1> QED
  BY <1>5, <1>6, <1>7, <1>8 DEF IInv

LEMMA RefusalIInv ==
  ASSUME IInv, Insufficient \/ OverCap \/ FeeNotSplittable
  PROVE  IInv'
<1>1. PICK why \in {"insufficient", "over_cap", "fee_not_splittable"} : GiveUp(why) /\ outcome = "planning"
  BY DEF Insufficient, OverCap, FeeNotSplittable, GroupIsFull
<1>2. UNCHANGED <<coins, amount, feeOf, fixed, split, pos, left, k, total, plan>> /\ outcome' = why
  BY <1>1 DEF GiveUp, request
<1>3. TypeOK'
  BY <1>2 DEF IInv, TypeOK, Outcomes
<1>4. GroupFallsShort' /\ CoinsInWallet'
  BY <1>1, <1>2 DEF IInv, GroupFallsShort, CoinsInWallet
<1> QED
  BY <1>2, <1>3, <1>4, PlanKept DEF IInv

LEMMA StutterIInv == ASSUME IInv, UNCHANGED vars PROVE IInv'
<1>1. UNCHANGED <<coins, amount, feeOf, fixed, split, pos, left, k, total, plan, outcome>>
  BY DEF vars, request, progress
<1>2. TypeOK' /\ GroupFallsShort' /\ CoinsInWallet'
  BY <1>1 DEF IInv, TypeOK, GroupFallsShort, CoinsInWallet
<1> QED
  BY <1>1, <1>2, PlanKept DEF IInv

LEMMA NextIInv == IInv /\ [Next]_vars => IInv'
<1> SUFFICES ASSUME IInv, [Next]_vars PROVE IInv'
  OBVIOUS
<1>1. CASE TakeCoin BY <1>1, TakeCoinIInv
<1>2. CASE Finish BY <1>2, FinishIInv
<1>3. CASE Insufficient \/ OverCap \/ FeeNotSplittable BY <1>3, RefusalIInv
<1>4. CASE NextGroup BY <1>4, NextGroupIInv
<1>5. CASE Done \/ UNCHANGED vars BY <1>5, StutterIInv DEF Done
<1> QED
  BY <1>1, <1>2, <1>3, <1>4, <1>5 DEF Next

LEMMA Inductive == Spec => []IInv
BY InitIInv, NextIInv, PTL DEF Spec

\* plan_payment works on whole, non-negative amounts at every step: no payment,
\* fee, change or rest goes negative, and no transaction exceeds the input limit.
THEOREM TypeCorrect == Spec => []TypeOK
BY Inductive, PTL DEF IInv

\* plan_payment makes and loses no value in any transaction of any plan.
THEOREM PlansConserveValue == Spec => []ValueConserved
BY Inductive, PTL DEF IInv

\* "Every payment and change is >= DUST_CHANGE" (docstring of plan_payment), for
\* every dust floor and every wallet.
THEOREM NoOutputBelowFloor == Spec => []OutputsAboveFloor
BY Inductive, PTL DEF IInv

\* The transactions of a plan spend consecutive, so disjoint, runs of the wallet's
\* own coins: plan_payment never offers an input twice.
THEOREM NoCoinSpentTwice == Spec => []CoinsSpentOnce
BY Inductive, PTL DEF IInv

\* Each transaction of a plan pays the fee of its size and less than the dust
\* floor above it.
THEOREM FeesAreTight == Spec => []FeesJustEnough
BY Inductive, PTL DEF IInv

\* What plan_payment still has to pay can always be paid by one more output: the
\* rest after a group is never dust, and no group covers it unnoticed.
THEOREM RestStaysPayable == Spec => []GroupFallsShort
BY Inductive, PTL DEF IInv

\* Every transaction that plan_payment plans is sound by itself, for every wallet, amount,
\* fee schedule, dust floor and input limit.
THEOREM PlansAreSound == Spec => []PlanSound
BY PlansConserveValue, NoOutputBelowFloor, NoCoinSpentTwice, FeesAreTight, PTL DEF PlanSound
-----------------------------------------------------------------------------
(* Sums of amounts, and why the largest coins are the best choice.          *)

\* Induction over the naturals for a set: no natural number is the least one missing.
Below == {p \in Nat \X Nat : p[1] < p[2]}

LEMMA BelowIsWellFounded == IsWellFoundedOn(Below, Nat)
BY Zenon, NatLessThanWellFounded DEF Below, OpToRel

LEMMA Induction ==
  ASSUME NEW S, 0 \in S, \A n \in Nat : n \in S => n + 1 \in S
  PROVE  Nat \subseteq S
<1> DEFINE Missing == Nat \ S
<1> SUFFICES ASSUME Missing # {} PROVE FALSE
  OBVIOUS
<1>1. PICK least \in Missing : \A n \in Missing : <<n, least>> \notin Below
  <2>1. Missing \subseteq Nat /\ IsWellFoundedOn(Below, Nat) /\ Missing # {}
    BY BelowIsWellFounded
  <2> HIDE DEF Missing
  <2> QED
    BY <2>1, WFMin
<1>2. least \in Nat /\ least # 0
  OBVIOUS
<1>3. least - 1 \in Nat /\ <<least - 1, least>> \in Below
  BY <1>2 DEF Below
<1> QED
  BY <1>1, <1>2, <1>3, least - 1 + 1 = least

\* The partial sums of SumsOf exist ...
LEMMA SumsOfIs ==
  ASSUME NEW s, NEW at, Len(s) \in Nat
  PROVE  SumsOf(s, at) =
           [i \in 0..Len(s) |-> IF i = 0 THEN 0
                                ELSE SumsOf(s, at)[i - 1] + (IF i \in at THEN s[i] ELSE 0)]
<1> DEFINE Sums(f, l) == f = [i \in 0..l |-> IF i = 0 THEN 0 ELSE f[i - 1] + (IF i \in at THEN s[i] ELSE 0)]
           Reach       == {l \in Nat : \E f : Sums(f, l)}
<1>1. 0 \in Reach
  <2> DEFINE f == [i \in 0..0 |-> 0]
  <2>1. Sums(f, 0)
    OBVIOUS
  <2> QED
    BY <2>1
<1>2. ASSUME NEW l \in Nat, l \in Reach PROVE l + 1 \in Reach
  <2>1. PICK f : Sums(f, l)
    BY <1>2
  <2> DEFINE g == [i \in 0..(l + 1) |-> IF i = 0 THEN 0 ELSE f[i - 1] + (IF i \in at THEN s[i] ELSE 0)]
  <2>2. \A i \in 0..l : g[i] = f[i]
    BY <2>1
  <2>3. \A i \in 0..(l + 1) : i # 0 => i - 1 \in 0..l
    OBVIOUS
  <2>4. Sums(g, l + 1)
    <3> DEFINE h == [i \in 0..(l + 1) |-> IF i = 0 THEN 0 ELSE g[i - 1] + (IF i \in at THEN s[i] ELSE 0)]
    <3>1. \A i \in 0..(l + 1) : (IF i = 0 THEN 0 ELSE f[i - 1] + (IF i \in at THEN s[i] ELSE 0))
                               = IF i = 0 THEN 0 ELSE g[i - 1] + (IF i \in at THEN s[i] ELSE 0)
      BY <2>2, <2>3
    <3>2. g = h
      BY <3>1
    <3> HIDE DEF g
    <3> QED
      BY <3>2
  <2>5. \E x : Sums(x, l + 1)
    BY <2>4
  <2> HIDE DEF Sums, g
  <2> QED
    BY <2>5
<1> HIDE DEF Reach
<1>3. Len(s) \in Reach
  BY <1>1, <1>2, Induction
<1>4. PICK f : Sums(f, Len(s))
  BY <1>3 DEF Reach
<1>5. SumsOf(s, at) = CHOOSE x : Sums(x, Len(s))
  BY DEF SumsOf
<1> QED
  BY <1>4, <1>5

\* ... each comes of the one before, and of amounts they are amounts.
LEMMA SumsStep ==
  ASSUME NEW s \in Seq(Nat), NEW at
  PROVE  /\ SumsOf(s, at)[0] = 0
         /\ \A i \in 1..Len(s) :
              SumsOf(s, at)[i] = SumsOf(s, at)[i - 1] + (IF i \in at THEN s[i] ELSE 0)
         /\ \A i \in 0..Len(s) : SumsOf(s, at)[i] \in Nat
<1> DEFINE F    == SumsOf(s, at)
           Good == {i \in Nat : i <= Len(s) => F[i] \in Nat}
<1>1. Len(s) \in Nat /\ \A i \in 1..Len(s) : s[i] \in Nat
  OBVIOUS
<1>2. F = [i \in 0..Len(s) |-> IF i = 0 THEN 0 ELSE F[i - 1] + (IF i \in at THEN s[i] ELSE 0)]
  BY <1>1, SumsOfIs
<1> HIDE DEF F
<1>3. 0 \in 0..Len(s) /\ \A i \in 1..Len(s) : i \in 0..Len(s) /\ i # 0
  BY <1>1
<1>4. F[0] = 0 /\ \A i \in 1..Len(s) : F[i] = F[i - 1] + (IF i \in at THEN s[i] ELSE 0)
  BY <1>2, <1>3
<1>5. 0 \in Good
  BY <1>4
<1>6. ASSUME NEW i \in Nat, i \in Good PROVE i + 1 \in Good
  <2> SUFFICES ASSUME i + 1 <= Len(s) PROVE F[i + 1] \in Nat
    OBVIOUS
  <2>1. i + 1 \in 1..Len(s) /\ (i + 1) - 1 = i /\ i <= Len(s)
    BY <1>1
  <2>2. F[i + 1] = F[i] + (IF i + 1 \in at THEN s[i + 1] ELSE 0) /\ F[i] \in Nat
    BY <1>4, <1>6, <2>1
  <2>3. s[i + 1] \in Nat
    BY <1>1, <2>1
  <2> QED
    BY <2>2, <2>3
<1> HIDE DEF Good
<1>7. Nat \subseteq Good
  BY <1>5, <1>6, Induction
<1>8. \A i \in 0..Len(s) : F[i] \in Nat
  <2>1. \A i \in 0..Len(s) : i \in Nat /\ i <= Len(s)
    BY <1>1
  <2> QED
    BY <1>7, <2>1 DEF Good
<1> QED
  BY <1>4, <1>8 DEF F

LEMMA SumNat == ASSUME NEW s \in Seq(Nat), NEW at PROVE SumAt(s, at) \in Nat
<1>1. Len(s) \in 0..Len(s)
  OBVIOUS
<1> QED
  BY <1>1, SumsStep DEF SumAt

\* Sums up to the same place of amounts that are the same up to there are the same.
Alike(s, S, t, T, n) == \A i \in 1..n : (i \in S <=> i \in T) /\ s[i] = t[i]

LEMMA SumsAgree ==
  ASSUME NEW s \in Seq(Nat), NEW t \in Seq(Nat), NEW S, NEW T,
         NEW n \in Nat, n <= Len(s), n <= Len(t), Alike(s, S, t, T, n)
  PROVE  SumsOf(s, S)[n] = SumsOf(t, T)[n]
<1> DEFINE F    == SumsOf(s, S)
           G    == SumsOf(t, T)
           Good == {i \in Nat : i <= n => F[i] = G[i]}
<1>1. Len(s) \in Nat /\ Len(t) \in Nat
  OBVIOUS
<1>2. /\ F[0] = 0 /\ \A i \in 1..Len(s) : F[i] = F[i - 1] + (IF i \in S THEN s[i] ELSE 0)
      /\ G[0] = 0 /\ \A i \in 1..Len(t) : G[i] = G[i - 1] + (IF i \in T THEN t[i] ELSE 0)
  BY SumsStep
<1> HIDE DEF F, G
<1>3. 0 \in Good
  BY <1>2
<1>4. ASSUME NEW i \in Nat, i \in Good PROVE i + 1 \in Good
  <2> SUFFICES ASSUME i + 1 <= n PROVE F[i + 1] = G[i + 1]
    OBVIOUS
  <2>1. i + 1 \in 1..n /\ i + 1 \in 1..Len(s) /\ i + 1 \in 1..Len(t) /\ (i + 1) - 1 = i /\ i <= n
    BY <1>1
  <2>2. /\ F[i + 1] = F[i] + (IF i + 1 \in S THEN s[i + 1] ELSE 0)
        /\ G[i + 1] = G[i] + (IF i + 1 \in T THEN t[i + 1] ELSE 0)
    BY <1>2, <2>1
  <2>3. (i + 1 \in S <=> i + 1 \in T) /\ s[i + 1] = t[i + 1] /\ F[i] = G[i]
    BY <1>4, <2>1 DEF Alike
  <2> QED
    BY <2>2, <2>3
<1> HIDE DEF Good
<1>5. n \in Good
  BY <1>3, <1>4, Induction
<1> QED
  BY <1>5 DEF Good, F, G

\* One place more adds its amount.
LEMMA SumWithOne ==
  ASSUME NEW s \in Seq(Nat), NEW S, NEW p \in 1..Len(s), p \notin S
  PROVE  SumAt(s, S \cup {p}) = SumAt(s, S) + s[p]
<1> DEFINE F    == SumsOf(s, S)
           G    == SumsOf(s, S \cup {p})
           Good == {i \in Nat : i <= Len(s) => G[i] = F[i] + (IF p <= i THEN s[p] ELSE 0)}
<1>1. Len(s) \in Nat /\ p \in Nat /\ p # 0 /\ \A i \in 1..Len(s) : s[i] \in Nat
  OBVIOUS
<1>2. /\ F[0] = 0 /\ \A i \in 1..Len(s) : F[i] = F[i - 1] + (IF i \in S THEN s[i] ELSE 0)
      /\ \A i \in 0..Len(s) : F[i] \in Nat
      /\ G[0] = 0 /\ \A i \in 1..Len(s) : G[i] = G[i - 1] + (IF i \in S \cup {p} THEN s[i] ELSE 0)
  BY SumsStep
<1> HIDE DEF F, G
<1>3. 0 \in Good
  BY <1>1, <1>2
<1>4. ASSUME NEW i \in Nat, i \in Good PROVE i + 1 \in Good
  <2> SUFFICES ASSUME i + 1 <= Len(s)
               PROVE  G[i + 1] = F[i + 1] + (IF p <= i + 1 THEN s[p] ELSE 0)
    OBVIOUS
  <2>1. i + 1 \in 1..Len(s) /\ (i + 1) - 1 = i /\ i <= Len(s) /\ i \in 0..Len(s)
    BY <1>1
  <2>2. /\ G[i] = F[i] + (IF p <= i THEN s[p] ELSE 0)
        /\ G[i + 1] = G[i] + (IF i + 1 \in S \cup {p} THEN s[i + 1] ELSE 0)
        /\ F[i + 1] = F[i] + (IF i + 1 \in S THEN s[i + 1] ELSE 0)
        /\ F[i] \in Nat /\ s[i + 1] \in Nat /\ s[p] \in Nat
    BY <1>1, <1>2, <1>4, <2>1
  <2>3. CASE i + 1 = p
    BY <1>1, <2>2, <2>3
  <2>4. CASE i + 1 # p
    <3>1. (i + 1 \in S \cup {p} <=> i + 1 \in S) /\ (p <= i + 1 <=> p <= i)
      BY <1>1, <2>4
    <3> QED
      BY <2>2, <3>1
  <2> QED
    BY <2>3, <2>4
<1> HIDE DEF Good
<1>5. Len(s) \in Good
  BY <1>1, <1>3, <1>4, Induction
<1> QED
  BY <1>1, <1>5 DEF Good, F, G, SumAt

\* A run of coins and the coin behind it.
LEMMA SumOfRun ==
  ASSUME NEW s \in Seq(Nat), NEW a \in Nat, NEW n \in Nat, a + n + 1 <= Len(s)
  PROVE  SumAt(s, a + 1 .. a + (n + 1)) = SumAt(s, a + 1 .. a + n) + s[a + n + 1]
<1> DEFINE p   == a + n + 1
           Run == a + 1 .. a + n
<1>1. a + 1 .. a + (n + 1) = Run \cup {p}
  OBVIOUS
<1>2. p \notin Run /\ p \in 1..Len(s)
  OBVIOUS
<1> HIDE DEF p, Run
<1>3. SumAt(s, Run \cup {p}) = SumAt(s, Run) + s[p]
  BY <1>2, SumWithOne
<1> QED
  BY <1>1, <1>3 DEF p, Run

LEMMA SumOfNone ==
  ASSUME NEW s \in Seq(Nat) PROVE SumAt(s, {}) = 0
<1> DEFINE F    == SumsOf(s, {})
           Good == {i \in Nat : i <= Len(s) => F[i] = 0}
<1>1. Len(s) \in Nat
  OBVIOUS
<1>2. F[0] = 0 /\ \A i \in 1..Len(s) : F[i] = F[i - 1] + 0
  BY SumsStep
<1> HIDE DEF F
<1>3. 0 \in Good
  BY <1>2
<1>4. ASSUME NEW i \in Nat, i \in Good PROVE i + 1 \in Good
  <2> SUFFICES ASSUME i + 1 <= Len(s) PROVE F[i + 1] = 0
    OBVIOUS
  <2>1. i + 1 \in 1..Len(s) /\ (i + 1) - 1 = i /\ i <= Len(s)
    BY <1>1
  <2> QED
    BY <1>2, <1>4, <2>1
<1> HIDE DEF Good
<1>5. Len(s) \in Good
  BY <1>1, <1>3, <1>4, Induction
<1> QED
  BY <1>1, <1>5 DEF Good, F, SumAt

\* Up to every place, a choice of places is worth no more than as many of the largest.
LEMMA LargestAreBest ==
  ASSUME NEW s \in Seq(Nat), LargestFirst(s), NEW S \in SUBSET (1..Len(s))
  PROVE  /\ IsFiniteSet(S) /\ Cardinality(S) \in 0..Len(s)
         /\ SumAt(s, S) <= SumAt(s, 1..Cardinality(S))
<1> DEFINE F     == SumsOf(s, S)
           In(i) == S \cap (1..i)
           C(i)  == Cardinality(In(i))
           Best(n) == SumAt(s, 1..n)
           Good  == {i \in Nat : i <= Len(s) =>
                       IsFiniteSet(In(i)) /\ C(i) \in 0..i /\ F[i] <= Best(C(i))}
<1>1. Len(s) \in Nat /\ \A i \in 1..Len(s) : s[i] \in Nat
  OBVIOUS
<1>2. /\ F[0] = 0 /\ \A i \in 1..Len(s) : F[i] = F[i - 1] + (IF i \in S THEN s[i] ELSE 0)
      /\ \A i \in 0..Len(s) : F[i] \in Nat
  BY SumsStep
<1>3. \A n \in Nat : Best(n) \in Nat
  BY SumNat
<1>4. ASSUME NEW n \in Nat, n + 1 <= Len(s) PROVE Best(n + 1) = Best(n) + s[n + 1]
  <2>1. 0 + n + 1 <= Len(s) /\ 0 + 1 = 1 /\ 0 + n = n /\ 0 + (n + 1) = n + 1 /\ 0 + n + 1 = n + 1
    BY <1>4
  <2>2. SumAt(s, 0 + 1 .. 0 + (n + 1)) = SumAt(s, 0 + 1 .. 0 + n) + s[0 + n + 1]
    BY <2>1, SumOfRun
  <2> QED
    BY <2>1, <2>2
<1> HIDE DEF F, Best, C, In
<1>5. 0 \in Good
  <2>1. In(0) = {}
    BY DEF In
  <2>2. IsFiniteSet(In(0)) /\ C(0) = 0
    BY <2>1, FS_EmptySet DEF C
  <2>3. Best(0) \in Nat
    BY <1>3
  <2> QED
    BY <1>2, <2>2, <2>3
<1>6. ASSUME NEW i \in Nat, i \in Good PROVE i + 1 \in Good
  <2> SUFFICES ASSUME i + 1 <= Len(s)
               PROVE  /\ IsFiniteSet(In(i + 1)) /\ C(i + 1) \in 0..(i + 1)
                      /\ F[i + 1] <= Best(C(i + 1))
    OBVIOUS
  <2>1. i + 1 \in 1..Len(s) /\ (i + 1) - 1 = i /\ i <= Len(s) /\ i \in 0..Len(s)
    BY <1>1
  <2>2. IsFiniteSet(In(i)) /\ C(i) \in 0..i /\ F[i] <= Best(C(i))
    BY <1>6, <2>1
  <2>3. F[i + 1] = F[i] + (IF i + 1 \in S THEN s[i + 1] ELSE 0) /\ F[i] \in Nat
    BY <1>2, <2>1
  <2>4. CASE i + 1 \notin S
    <3>1. In(i + 1) = In(i)
      BY <2>4 DEF In
    <3>2. F[i + 1] = F[i]
      BY <2>3, <2>4
    <3>3. C(i + 1) = C(i)
      BY <3>1 DEF C
    <3> QED
      BY <2>2, <3>1, <3>2, <3>3
  <2>5. CASE i + 1 \in S
    <3>1. In(i + 1) = In(i) \cup {i + 1} /\ i + 1 \notin In(i)
      BY <2>5 DEF In
    <3>2. IsFiniteSet(In(i + 1)) /\ C(i + 1) = C(i) + 1
      BY <2>2, <3>1, FS_AddElement DEF C
    <3>3. C(i) \in Nat /\ C(i) + 1 <= i + 1 /\ C(i) + 1 \in 1..Len(s) /\ C(i) + 1 <= Len(s)
      BY <1>1, <2>1, <2>2
    <3>4. Best(C(i) + 1) = Best(C(i)) + s[C(i) + 1]
      BY <1>4, <3>3
    <3>5. s[C(i) + 1] >= s[i + 1] /\ s[C(i) + 1] \in Nat /\ s[i + 1] \in Nat
      <4>1. CASE C(i) + 1 = i + 1
        BY <1>1, <2>1, <4>1
      <4>2. CASE C(i) + 1 < i + 1
        BY <1>1, <2>1, <3>3, <4>2 DEF LargestFirst
      <4> QED
        BY <2>2, <3>3, <4>1, <4>2
    <3>6. F[i + 1] = F[i] + s[i + 1]
      BY <2>3, <2>5
    <3>7. Best(C(i)) \in Nat
      BY <1>3, <3>3
    <3>8. F[i + 1] <= Best(C(i) + 1)
      BY SMTT(15), <2>2, <2>3, <3>4, <3>5, <3>6, <3>7
    <3>9. C(i + 1) \in 0..(i + 1)
      BY <3>2, <3>3
    <3> QED
      BY <3>2, <3>8, <3>9
  <2> QED
    BY <2>4, <2>5
<1>7. Len(s) \in Good
  <2> HIDE DEF Good
  <2> QED
    BY <1>1, <1>5, <1>6, Induction
<1>8. In(Len(s)) = S
  BY DEF In
<1>9. IsFiniteSet(In(Len(s))) /\ C(Len(s)) \in 0..Len(s) /\ F[Len(s)] <= Best(C(Len(s)))
  BY <1>1, <1>7
<1>10. C(Len(s)) = Cardinality(S)
  BY <1>8 DEF C
<1>11. F[Len(s)] = SumAt(s, S)
  BY DEF F, SumAt
<1>12. Best(Cardinality(S)) = SumAt(s, 1..Cardinality(S))
  BY DEF Best
<1> QED
  BY <1>8, <1>9, <1>10, <1>11, <1>12

\* What a plan pays with one transaction more.
LEMMA PaysGrow ==
  ASSUME NEW p \in Seq(Planned), NEW tx \in Planned, NEW q, q = Append(p, tx)
  PROVE  SumAt([i \in 1..Len(q) |-> q[i].pay], 1..Len(q)) = SumAt([i \in 1..Len(p) |-> p[i].pay], 1..Len(p)) + tx.pay
<1> DEFINE P == [i \in 1..Len(p) |-> p[i].pay]
           Q == [i \in 1..Len(q) |-> q[i].pay]
<1>1. /\ Len(p) \in Nat /\ q \in Seq(Planned) /\ Len(q) = Len(p) + 1 /\ q[Len(p) + 1] = tx
      /\ \A i \in 1..Len(p) : q[i] = p[i] /\ p[i] \in Planned
      /\ \A i \in 1..Len(q) : q[i] \in Planned
  OBVIOUS
<1>2. \A t \in Planned : t.pay \in Nat
  BY DEF Planned
<1>3. P \in Seq(Nat) /\ Len(P) = Len(p)
  BY <1>1, <1>2
<1>4. Q \in Seq(Nat) /\ Len(Q) = Len(q)
  BY <1>1, <1>2
<1>5. Q[Len(p) + 1] = tx.pay /\ \A i \in 1..Len(p) : Q[i] = P[i]
  BY <1>1
<1> HIDE DEF P, Q
<1>6. SumsOf(P, 1..Len(p))[Len(p)] = SumsOf(Q, 1..Len(q))[Len(p)]
  <2>1. Len(p) <= Len(P) /\ Len(p) <= Len(Q)
    BY <1>1, <1>3, <1>4
  <2> DEFINE n    == Len(p)
             Old  == 1..Len(p)
             New  == 1..Len(q)
  <2>2. Alike(P, Old, Q, New, n)
    BY <1>1, <1>5 DEF Alike
  <2>3. n \in Nat /\ n <= Len(P) /\ n <= Len(Q)
    BY <1>1, <2>1
  <2> HIDE DEF n, Old, New
  <2>4. SumsOf(P, Old)[n] = SumsOf(Q, New)[n]
    BY <1>3, <1>4, <2>2, <2>3, SumsAgree
  <2> QED
    BY <2>4 DEF n, Old, New
<1>7. SumsOf(Q, 1..Len(q))[Len(q)] = SumsOf(Q, 1..Len(q))[Len(p)] + tx.pay
  <2>1. Len(q) \in 1..Len(Q) /\ Len(q) - 1 = Len(p) /\ Len(q) \in 1..Len(q)
    BY <1>1, <1>4
  <2> DEFINE G == SumsOf(Q, 1..Len(q))
  <2>2. \A i \in 1..Len(Q) : G[i] = G[i - 1] + (IF i \in 1..Len(q) THEN Q[i] ELSE 0)
    BY <1>4, SumsStep
  <2> HIDE DEF G
  <2>3. G[Len(q)] = G[Len(p)] + tx.pay
    BY <1>1, <1>5, <2>1, <2>2
  <2> QED
    BY <2>3 DEF G
<1>8. SumAt(Q, 1..Len(q)) = SumAt(P, 1..Len(p)) + tx.pay
  BY <1>3, <1>4, <1>6, <1>7 DEF SumAt
<1> QED
  BY <1>8 DEF P, Q

-----------------------------------------------------------------------------
(* The best plan.                                                           *)

\* None of the first n choices of one transaction, the n largest coins at most, pays.
FirstFallShort(n) == \A j \in 1..n : j <= Len(coins) => SumAt(coins, 1..j) < amount + feeOf[j]

\* Up to the first planned transaction the coins were tried one by one, each largest
\* first; a second one is begun only after the first was full.
FirstChoice ==
  /\ LargestFirst(coins)
  /\ plan = <<>> => pos = 0 /\ left = amount /\ outcome # "planned" /\ FirstFallShort(k)
  /\ plan # <<>> => FirstFallShort(plan[1].n - 1)
  /\ Len(plan) > 1 \/ (plan # <<>> /\ outcome # "planned") => split /\ FirstFallShort(Cap)
  /\ plan = <<>> /\ outcome # "planning" => k = Cap \/ k = Len(coins)

\* What is counted for the coins in use is what they are worth, and the plan leaves what
\* it has not paid.
Counted ==
  /\ outcome = "planning" => total = SumAt(coins, pos + 1 .. pos + k)
  /\ PaysTheAmount

BestInv == FirstChoice /\ Counted

\* Where the n largest coins fall short, any choice of n or fewer does.
LEMMA CoveringIsLarger ==
  ASSUME TypeOK, LargestFirst(coins), NEW n \in Nat, FirstFallShort(n),
         NEW S \in SUBSET (1..Len(coins)), Covering(S)
  PROVE  /\ Cardinality(S) \in Nat /\ Cardinality(S) > n
         /\ Cardinality(S) <= Cap /\ Cardinality(S) <= Len(coins)
<1> DEFINE c == Cardinality(S)
           worth == SumAt(coins, S)
           best  == SumAt(coins, 1..c)
<1>1. coins \in Seq(Nat) /\ Len(coins) \in Nat /\ Cap \in Nat /\ amount \in Nat
  BY PlanAssumption DEF TypeOK
<1>2. IsFiniteSet(S) /\ c \in 0..Len(coins) /\ worth <= best
  BY <1>1, LargestAreBest
<1>3. S # {} /\ c <= Cap /\ worth >= amount + feeOf[c]
  BY DEF Covering
<1>4. c # 0
  BY <1>2, <1>3, FS_EmptySet
<1>5. worth \in Nat /\ best \in Nat
  BY <1>1, SumNat
<1>6. c \in 1..Cap /\ feeOf[c] \in Nat
  <2>1. c \in 1..Cap
    BY <1>1, <1>2, <1>3, <1>4
  <2> HIDE DEF c
  <2> QED
    BY <2>1 DEF TypeOK
<1>7. ASSUME c <= n PROVE FALSE
  <2>1. c \in 1..n /\ c <= Len(coins)
    BY <1>1, <1>2, <1>4, <1>7
  <2> HIDE DEF c
  <2>2. best < amount + feeOf[c]
    BY <2>1 DEF FirstFallShort
  <2> HIDE DEF best, worth
  <2> QED
    BY <1>1, <1>2, <1>3, <1>5, <1>6, <2>2
<1> HIDE DEF c
<1>8. c > n /\ c <= Len(coins)
  BY <1>1, <1>2, <1>7
<1> QED
  BY <1>2, <1>3, <1>8 DEF c

LEMMA BestInvGivesBestPlan ==
  ASSUME IInv, BestInv PROVE BestPlan /\ RefusalIsSound
<1>1. /\ TypeOK /\ LargestFirst(coins) /\ Cap \in Nat /\ Len(coins) \in Nat /\ k \in Nat
      /\ plan \in Seq(Planned) /\ Len(plan) \in Nat
  BY PlanAssumption DEF IInv, BestInv, FirstChoice, TypeOK
<1>2. PaysTheAmount
  BY DEF BestInv, Counted
<1>3. FewestInputs
  <2> SUFFICES ASSUME outcome = "planned", Len(plan) = 1,
                      NEW S \in SUBSET (1..Len(coins)), Covering(S), Cardinality(S) < plan[1].n
               PROVE  FALSE
    BY DEF FewestInputs
  <2>1. plan # <<>> /\ plan[1] \in Planned
    BY <1>1
  <2>2. FirstFallShort(plan[1].n - 1)
    BY <2>1 DEF BestInv, FirstChoice
  <2>3. plan[1].n \in Nat /\ plan[1].n - 1 \in Nat
    BY <1>1, <2>1 DEF Planned
  <2>4. Cardinality(S) \in Nat /\ Cardinality(S) > plan[1].n - 1
    BY <1>1, <2>2, <2>3, CoveringIsLarger
  <2> QED
    BY <2>3, <2>4
<1>4. SplitOnlyWhenNeeded
  <2> SUFFICES ASSUME Len(plan) > 1, NEW S \in SUBSET (1..Len(coins)), Covering(S)
               PROVE  FALSE
    BY DEF SplitOnlyWhenNeeded
  <2>1. FirstFallShort(Cap)
    BY DEF BestInv, FirstChoice
  <2>2. Cardinality(S) \in Nat /\ Cardinality(S) > Cap /\ Cardinality(S) <= Cap
    BY <1>1, <2>1, CoveringIsLarger
  <2> QED
    BY <1>1, <2>2
<1>5. RefusalIsSound
  <2> SUFFICES ASSUME ~split, outcome \in {"insufficient", "over_cap"},
                      NEW S \in SUBSET (1..Len(coins)), Covering(S)
               PROVE  FALSE
    BY DEF RefusalIsSound
  <2>1. outcome # "planned" /\ outcome # "planning"
    OBVIOUS
  <2>2. plan = <<>> /\ FirstFallShort(k) /\ (k = Cap \/ k = Len(coins))
    BY <2>1 DEF BestInv, FirstChoice
  <2>3. /\ Cardinality(S) \in Nat /\ Cardinality(S) > k
        /\ Cardinality(S) <= Cap /\ Cardinality(S) <= Len(coins)
    BY <1>1, <2>2, CoveringIsLarger
  <2> QED
    BY <1>1, <2>2, <2>3
<1> QED
  BY <1>2, <1>3, <1>4, <1>5 DEF BestPlan

\* What the plan's transactions pay, and what each spends is worth.
Paid == SumAt([i \in Txs |-> plan[i].pay], Txs)
Worth(tx) == SumAt(coins, tx.from + 1 .. tx.from + tx.n)

LEMMA CountedIs ==
  PaysTheAmount <=> /\ Paid = (IF outcome = "planned" THEN amount ELSE amount - left)
                    /\ \A i \in Txs : plan[i].total = Worth(plan[i])
BY DEF PaysTheAmount, Paid, Worth

LEMMA BestInit == Init => BestInv
<1> SUFFICES ASSUME Init PROVE BestInv
  OBVIOUS
<1>1. /\ coins \in Seq(Nat) /\ LargestFirst(coins) /\ amount \in Nat /\ left = amount
      /\ pos = 0 /\ k = 0 /\ total = 0 /\ plan = <<>> /\ outcome = "planning"
  BY PlanAssumption DEF Init
<1>2. Len(plan) = 0 /\ Txs = {}
  BY <1>1 DEF Txs
<1>3. FirstChoice
  BY <1>1, <1>2 DEF FirstChoice, FirstFallShort
<1>4. total = SumAt(coins, pos + 1 .. pos + k)
  <2>1. pos + 1 .. pos + k = {}
    BY <1>1
  <2> QED
    BY <1>1, <2>1, SumOfNone
<1>5. Paid = 0
  <2>1. [i \in Txs |-> plan[i].pay] = <<>> /\ <<>> \in Seq(Nat)
    BY <1>2
  <2> QED
    BY <1>2, <2>1, SumOfNone DEF Paid
<1>6. PaysTheAmount
  BY <1>1, <1>2, <1>5, CountedIs
<1> QED
  BY <1>3, <1>4, <1>6 DEF BestInv, Counted

\* A transaction that spends the coins it says adds what it pays.
LEMMA PaidGrows ==
  ASSUME IInv, BestInv, UNCHANGED coins,
         NEW tx \in Planned, plan' = Append(plan, tx), tx.total = Worth(tx)
  PROVE  /\ Paid' = Paid + tx.pay
         /\ \A i \in Txs' : plan'[i].total = Worth(plan'[i])
<1>1. plan \in Seq(Planned) /\ Len(plan) \in Nat
  BY DEF IInv, TypeOK
<1>2. /\ Len(plan') = Len(plan) + 1 /\ plan'[Len(plan) + 1] = tx
      /\ \A j \in 1..Len(plan) : plan'[j] = plan[j]
  BY <1>1
<1>3. Txs' = Txs \cup {Len(plan) + 1}
  BY <1>1, <1>2 DEF Txs
<1>4. \A i \in Txs : plan[i].total = Worth(plan[i])
  BY CountedIs DEF BestInv, Counted
<1>5. \A i \in Txs' : plan'[i].total = Worth(plan'[i])
  BY <1>2, <1>3, <1>4 DEF Txs
<1>6. ASSUME NEW q, q = plan'
      PROVE  SumAt([i \in 1..Len(q) |-> q[i].pay], 1..Len(q)) = Paid + tx.pay
  BY <1>1, <1>6, PaysGrow DEF Paid, Txs
<1>7. Paid' = Paid + tx.pay
  BY <1>6 DEF Paid, Txs
<1> QED
  BY <1>5, <1>7

\* The amounts that the first group tried are those of the largest coins.
LEMMA NextTotalIsWorth ==
  ASSUME IInv, BestInv, outcome = "planning", MoreCoins
  PROVE  NextTotal = SumAt(coins, pos + 1 .. pos + (k + 1))
<1>1. coins \in Seq(Nat) /\ pos \in Nat /\ k \in Nat /\ pos + k + 1 <= Len(coins)
  BY PlanAssumption DEF IInv, TypeOK, MoreCoins
<1>2. SumAt(coins, pos + 1 .. pos + (k + 1)) = SumAt(coins, pos + 1 .. pos + k) + coins[pos + k + 1]
  BY <1>1, SumOfRun
<1> QED
  BY <1>2 DEF NextTotal, BestInv, Counted

LEMMA BestTakeCoin == ASSUME IInv, BestInv, TakeCoin PROVE BestInv'
<1>1. /\ outcome = "planning" /\ outcome' = "planning"
      /\ UNCHANGED <<coins, amount, feeOf, split, pos, left, plan>>
      /\ k' = k + 1 /\ total' = NextTotal /\ k \in Nat /\ MoreCoins
  BY PlanAssumption DEF TakeCoin, request, IInv, TypeOK
<1>2. total' = SumAt(coins, pos + 1 .. pos + (k + 1))
  BY <1>1, NextTotalIsWorth
<1>3. Paid' = Paid /\ Txs' = Txs
  BY <1>1 DEF Paid, Txs
<1>4. Counted'
  <2>1. Paid = amount - left /\ \A i \in Txs : plan[i].total = Worth(plan[i])
    BY <1>1, CountedIs DEF BestInv, Counted
  <2>2. PaysTheAmount'
    BY <1>1, <1>3, <2>1 DEF PaysTheAmount, Paid, Worth
  <2> QED
    BY <1>1, <1>2, <2>2 DEF Counted
<1>5. ASSUME plan = <<>> PROVE FirstFallShort(k + 1)
  <2>1. FirstFallShort(k) /\ pos = 0 /\ left = amount
    BY <1>5 DEF BestInv, FirstChoice
  <2>2. NextTotal = SumAt(coins, 1..(k + 1)) /\ NextTotal < amount + feeOf[k + 1]
    BY <1>1, <1>2, <2>1 DEF TakeCoin, NextFee
  <2>3. \A j \in 1..(k + 1) : j \in 1..k \/ j = k + 1
    BY <1>1
  <2> QED
    BY <2>1, <2>2, <2>3 DEF FirstFallShort
<1>6. FirstChoice'
  <2>1. \A n : FirstFallShort(n) => \A j \in 1..n : j <= Len(coins') => SumAt(coins', 1..j) < amount' + feeOf'[j]
    BY <1>1 DEF FirstFallShort
  <2> QED
    BY <1>1, <1>5, <2>1 DEF BestInv, FirstChoice, FirstFallShort, LargestFirst
<1> QED
  BY <1>4, <1>6 DEF BestInv

\* What the first choices fell short of does not change when a transaction is planned.
LEMMA FirstFallShortKept ==
  ASSUME UNCHANGED <<coins, amount, feeOf>>, NEW n, FirstFallShort(n)
  PROVE  \A j \in 1..n : j <= Len(coins') => SumAt(coins', 1..j) < amount' + feeOf'[j]
BY DEF FirstFallShort

\* The invariant's claim about the first choices, after one transaction more.
LEMMA FirstChoiceGrows ==
  ASSUME IInv, BestInv, outcome = "planning", UNCHANGED <<coins, amount, feeOf, split>>,
         NEW tx \in Planned, plan' = Append(plan, tx),
         plan = <<>> => FirstFallShort(tx.n - 1),
         outcome' # "planned" => split /\ FirstFallShort(Cap)
  PROVE  FirstChoice'
<1>1. plan \in Seq(Planned) /\ Len(plan) \in Nat
  BY DEF IInv, TypeOK
<1>2. /\ Len(plan') = Len(plan) + 1 /\ plan'[Len(plan) + 1] = tx /\ plan' # <<>>
      /\ \A j \in 1..Len(plan) : plan'[j] = plan[j]
  BY <1>1
<1>3. LargestFirst(coins)
  BY DEF BestInv, FirstChoice
<1>4. FirstFallShort(plan'[1].n - 1)
  <2>1. CASE plan = <<>>
    BY <1>2, <2>1
  <2>2. CASE plan # <<>>
    <3>1. plan'[1] = plan[1]
      BY <1>1, <1>2, <2>2
    <3> QED
      BY <2>2, <3>1 DEF BestInv, FirstChoice
  <2> QED
    BY <2>1, <2>2
<1>5. Len(plan') > 1 \/ outcome' # "planned" => split /\ FirstFallShort(Cap)
  <2>1. Len(plan') > 1 => plan # <<>>
    BY <1>1, <1>2
  <2>2. plan # <<>> => split /\ FirstFallShort(Cap)
    BY DEF BestInv, FirstChoice
  <2> QED
    BY <2>1, <2>2
<1>6. ASSUME NEW n, n = plan'[1].n - 1
      PROVE  \A j \in 1..n : j <= Len(coins') => SumAt(coins', 1..j) < amount' + feeOf'[j]
  BY <1>4, <1>6, FirstFallShortKept
<1>7. Len(plan') > 1 \/ outcome' # "planned"
        => split' /\ \A j \in 1..Cap : j <= Len(coins') => SumAt(coins', 1..j) < amount' + feeOf'[j]
  BY <1>5, FirstFallShortKept
<1> QED
  BY <1>2, <1>3, <1>6, <1>7 DEF FirstChoice, FirstFallShort, LargestFirst

LEMMA BestFinish == ASSUME IInv, BestInv, Finish PROVE BestInv'
<1>1. /\ outcome = "planning" /\ outcome' = "planned" /\ MoreCoins
      /\ UNCHANGED <<coins, amount, feeOf, split, pos, left>>
  BY DEF Finish, request
<1> DEFINE tx == Tx(left, LastFee, LastChange, k + 1, NextTotal)
<1>2. tx \in Planned
  <2>1. /\ k + 1 \in 1..Cap /\ NextTotal \in Nat /\ NextFee \in Nat
    BY NextCoin DEF IInv, Finish
  <2>2. left \in Nat /\ Spare \in Nat /\ pos \in Nat
    BY <2>1 DEF IInv, TypeOK, Finish, Spare
  <2>3. LastFee \in Nat /\ LastChange \in Nat
    BY <2>1, <2>2 DEF LastFee, LastChange
  <2> QED
    BY <2>1, <2>2, <2>3 DEF Tx, Planned
<1>3. tx.from = pos /\ tx.n = k + 1 /\ tx.pay = left /\ tx.total = NextTotal
  BY DEF Tx
<1>4. tx.total = Worth(tx)
  BY <1>1, <1>3, NextTotalIsWorth DEF Worth
<1>5. plan' = Append(plan, tx)
  BY DEF Finish
<1> HIDE DEF tx
<1>6. Paid' = Paid + left /\ \A i \in Txs' : plan'[i].total = Worth(plan'[i])
  BY <1>1, <1>2, <1>3, <1>4, <1>5, PaidGrows
<1>7. Paid = amount - left /\ amount \in Nat /\ left \in Nat
  BY <1>1, CountedIs DEF BestInv, Counted, IInv, TypeOK
<1>8. Paid' = amount' /\ outcome' = "planned"
  BY <1>1, <1>6, <1>7
<1>9. PaysTheAmount'
  BY <1>1, <1>6, <1>8 DEF PaysTheAmount, Paid, Worth
<1>10. Counted'
  BY <1>8, <1>9 DEF Counted
<1>11. plan = <<>> => FirstFallShort(tx.n - 1)
  <2>1. tx.n - 1 = k
    BY <1>3, PlanAssumption DEF IInv, TypeOK
  <2> QED
    BY <2>1 DEF BestInv, FirstChoice
<1>12. FirstChoice'
  BY <1>1, <1>2, <1>5, <1>11, FirstChoiceGrows
<1> QED
  BY <1>10, <1>12 DEF BestInv

LEMMA BestNextGroup == ASSUME IInv, BestInv, NextGroup PROVE BestInv'
<1>1. /\ k = Cap /\ feeOf[k] \in Nat /\ GroupPay.pay \in Nat /\ GroupPay.change \in {0, Dust}
      /\ k \in 1..Cap /\ Dust \in Nat
  BY GroupLeavesPayableRest, PlanAssumption
<1>2. /\ outcome = "planning" /\ outcome' = "planning" /\ split
      /\ UNCHANGED <<coins, amount, feeOf, split>>
      /\ left' = left - GroupPay.pay /\ k' = 0 /\ total' = 0
  BY DEF NextGroup, NextLeft, GroupIsFull, request
<1> DEFINE tx == Tx(GroupPay.pay, feeOf[k], GroupPay.change, k, total)
<1>3. tx.from = pos /\ tx.n = k /\ tx.pay = GroupPay.pay /\ tx.total = total
  BY DEF Tx
<1>4. tx \in Planned
  <2>1. pos \in Nat /\ total \in Nat
    BY DEF IInv, TypeOK
  <2>2. GroupPay.change \in Nat
    BY <1>1
  <2> QED
    BY <1>1, <2>1, <2>2 DEF Tx, Planned
<1>5. plan' = Append(plan, tx)
  BY DEF NextGroup
<1>6. tx.total = Worth(tx)
  BY <1>2, <1>3 DEF Worth, BestInv, Counted
<1> HIDE DEF tx
<1>7. Paid' = Paid + tx.pay /\ \A i \in Txs' : plan'[i].total = Worth(plan'[i])
  BY <1>2, <1>4, <1>5, <1>6, PaidGrows
<1>8. Paid = amount - left /\ amount \in Nat /\ left \in Nat
  BY <1>2, CountedIs DEF BestInv, Counted, IInv, TypeOK
<1>9. Paid' = amount' - left' /\ outcome' # "planned"
  BY <1>1, <1>2, <1>3, <1>7, <1>8
<1>10. PaysTheAmount'
  BY <1>2, <1>7, <1>9 DEF PaysTheAmount, Paid, Worth
<1>11. total' = SumAt(coins', pos' + 1 .. pos' + k')
  <2>1. pos' \in Nat /\ coins' \in Seq(Nat)
    BY NextGroupIInv DEF IInv, TypeOK
  <2>2. pos' + 1 .. pos' + k' = {}
    <3>1. \A p \in Nat : p + 1 .. p + 0 = {}
      OBVIOUS
    <3> QED
      BY <1>2, <2>1, <3>1
  <2>3. ASSUME NEW s \in Seq(Nat) PROVE SumAt(s, {}) = 0
    BY SumOfNone
  <2> QED
    BY <1>2, <2>1, <2>2, <2>3
<1>12. FirstFallShort(Cap)
  BY <1>1, <1>2 DEF BestInv, FirstChoice
<1>13. plan = <<>> => FirstFallShort(tx.n - 1)
  BY <1>1, <1>3, <1>12 DEF FirstFallShort
<1>14. FirstChoice'
  BY <1>2, <1>4, <1>5, <1>12, <1>13, FirstChoiceGrows
<1> QED
  BY <1>10, <1>11, <1>14 DEF BestInv, Counted

LEMMA BestRefusal ==
  ASSUME IInv, BestInv, Insufficient \/ OverCap \/ FeeNotSplittable PROVE BestInv'
<1>1. PICK why \in {"insufficient", "over_cap", "fee_not_splittable"} : GiveUp(why) /\ GroupIsFull
  BY DEF Insufficient, OverCap, FeeNotSplittable
<1>2. /\ UNCHANGED <<coins, amount, feeOf, split, pos, left, k, total, plan>> /\ outcome' = why
      /\ outcome = "planning" /\ ~MoreCoins
  BY <1>1 DEF GiveUp, request, GroupIsFull
<1>3. plan = <<>> => k = Cap \/ k = Len(coins)
  BY <1>2, PlanAssumption DEF MoreCoins, IInv, TypeOK, CoinsInWallet, BestInv, FirstChoice
<1>4. FirstChoice'
  BY <1>2, <1>3 DEF BestInv, FirstChoice, FirstFallShort, LargestFirst
<1>5. PaysTheAmount'
  <2>1. Paid = amount - left /\ \A i \in Txs : plan[i].total = Worth(plan[i])
    BY <1>2, CountedIs DEF BestInv, Counted
  <2>2. Paid' = Paid /\ Txs' = Txs
    BY <1>2 DEF Paid, Txs
  <2> QED
    BY <1>2, <2>1, <2>2 DEF PaysTheAmount, Paid, Worth
<1> QED
  BY <1>2, <1>4, <1>5 DEF BestInv, Counted

LEMMA BestStutter == ASSUME BestInv, UNCHANGED vars PROVE BestInv'
<1>1. UNCHANGED <<coins, amount, feeOf, split, pos, left, k, total, plan, outcome>>
  BY DEF vars, request, progress
<1>2. FirstChoice'
  BY <1>1 DEF BestInv, FirstChoice, FirstFallShort, LargestFirst
<1>3. Counted'
  BY <1>1 DEF BestInv, Counted, PaysTheAmount, Txs
<1> QED
  BY <1>2, <1>3 DEF BestInv

LEMMA BestNext == IInv /\ BestInv /\ [Next]_vars => BestInv'
<1> SUFFICES ASSUME IInv, BestInv, [Next]_vars PROVE BestInv'
  OBVIOUS
<1>1. CASE TakeCoin BY <1>1, BestTakeCoin
<1>2. CASE Finish BY <1>2, BestFinish
<1>3. CASE Insufficient \/ OverCap \/ FeeNotSplittable BY <1>3, BestRefusal
<1>4. CASE NextGroup BY <1>4, BestNextGroup
<1>5. CASE Done \/ UNCHANGED vars BY <1>5, BestStutter DEF Done
<1> QED
  BY <1>1, <1>2, <1>3, <1>4, <1>5 DEF Next

LEMMA BestInductive == Spec => [](IInv /\ BestInv)
BY InitIInv, NextIInv, BestInit, BestNext, PTL DEF Spec

\* plan_payment pays exactly the amount, from coins that are worth what it counts, in one
\* transaction whenever any choice of coins would do in one, and then with as few inputs as
\* any choice: for every wallet, amount, fee schedule (rising or not) and input limit.
THEOREM PlansAreBest == Spec => []BestPlan
<1>1. IInv /\ BestInv => BestPlan
  BY BestInvGivesBestPlan
<1> QED
  BY <1>1, BestInductive, PTL

\* When plan_payment refuses a send without --split, no choice of the wallet's coins could
\* have made the payment in one transaction.
THEOREM RefusalsAreSound == Spec => []RefusalIsSound
<1>1. IInv /\ BestInv => RefusalIsSound
  BY BestInvGivesBestPlan
<1> QED
  BY <1>1, BestInductive, PTL
=============================================================================

----------------------------- MODULE SendProofs -----------------------------
(***************************************************************************)
(* Proofs about `send', for any number of transactions and of runs: its    *)
(* safety invariants, and that it implements SendPromise.                  *)
(***************************************************************************)
EXTENDS Send, TLAPS

Early == {"confirm", "sign", "check", "decide"}
Loop  == {"send", "wait"}

\* The loop: the first `sent' transactions were counted, and the one the command is
\* at is the next; only transactions that were tried can be, or get, on the network.
LoopState ==
  /\ pc \notin Loop => sent = 0 /\ tried = {} /\ answer = "none"
  /\ pc \in {"decide", "pause"} => i = 1
  /\ pc = "send" => sent < n /\ i = sent + 1 /\ tried = 1..sent /\ answer = "none"
  /\ pc = "wait" =>
       \/ sent < n /\ i = sent + 1 /\ tried = 1..(sent + 1)
       \/ outcome = "done" /\ sent = n /\ tried = 1..n
  /\ outcome = "done" => pc = "wait" /\ sent = n /\ tried = 1..n
  /\ mine \cup Flying \subseteq tried

\* What was counted, and what an answer says of the transaction it is about.
AnswersTrue ==
  /\ 1..sent \subseteq net /\ heard \subseteq 1..sent
  /\ answer \in {"txid", "already"} => i \in net
  /\ answer = "refused" => i \notin mine \cup Flying

\* The commit point lies behind the last check and before the first request; behind
\* the pause no cancel is on its way, nor can one be sent.
CommitPoint ==
  /\ pc \in Early => ~committed
  /\ pc = "check" => \A t \in 1..(i - 1) : check[t] # "none"
  /\ pc \notin {"confirm", "sign", "check"} /\ opt.node => \A t \in Tx : check[t] # "none"
  /\ pc \notin Early =>
       /\ committed /\ ~opt.dry /\ (\A t \in Tx : check[t] # "refused")
       /\ opt.events => begin # "unwritten"
  /\ ~opt.events => ~cancel
  /\ pc \in Loop => ~cancel /\ (opt.events => begin = "read" \/ parent = "gone")
  /\ outcome = "killed" => pc \notin Loop

\* What an ended run told its user.
Outcome ==
  /\ outcome \in {"declined", "failed", "dry_done"} => pc \in Early
  /\ outcome \in {"first_unknown", "partial_unknown", "partial_refused"} => pc = "wait" /\ sent < n
  /\ outcome = "first_unknown" => sent = 0
  /\ outcome = "partial_refused" => sent + 1 \notin mine \cup Flying
  /\ outcome = "nothing_sent" => mine \cup Flying = {}

IInv == TypeOK /\ LoopState /\ AnswersTrue /\ CommitPoint /\ Outcome

LEMMA FlagsStep == IInv /\ [Next]_vars => FlagsOK'
<1> SUFFICES ASSUME IInv, [Next]_vars PROVE FlagsOK'
  OBVIOUS
<1> USE DEF IInv, TypeOK, FlagsOK, At, End, Running, Tx, Flying, control, outside, network
<1>1. CASE Confirm
  BY <1>1, Zenon DEF Confirm
<1>2. CASE SignTx
  BY <1>2, Zenon DEF SignTx, FirstTx, LastTx
<1>3. CASE CheckTx
  BY <1>3, Zenon DEF CheckTx, FirstTx, LastTx
<1>4. CASE FailEarly
  BY <1>4, Zenon DEF FailEarly
<1>5. CASE RefusedByCheck
  BY <1>5, Zenon DEF RefusedByCheck, WriteRaises
<1>6. CASE DryRun
  BY <1>6, Zenon DEF DryRun, WriteRaises
<1>7. CASE BroadcastBegin
  BY <1>7, Zenon DEF BroadcastBegin, WriteRaises, Bad
<1>8. CASE PauseOver
  BY <1>8, Zenon DEF PauseOver, GraceOver
<1>9. CASE SendRequest
  BY <1>9, Zenon DEF SendRequest
<1>10. CASE CallFails
  BY <1>10, Zenon DEF CallFails
<1>11. CASE CountAsSent
  BY <1>11, Zenon DEF CountAsSent, SentAnswers, WriteRaises, LastTx
<1>12. CASE StopRefused
  BY <1>12, Zenon DEF StopRefused, RefusedAnswers
<1>13. CASE StopUnknown
  BY <1>13, Zenon DEF StopUnknown
<1>14. ASSUME NEW m \in wire, Deliver(m) PROVE FlagsOK'
  BY <1>14, Zenon DEF Deliver
<1>15. ASSUME NEW m \in wire, Lose(m) PROVE FlagsOK'
  BY <1>15, Zenon DEF Lose
<1>16. CASE ParentReads
  BY <1>16, Zenon DEF ParentReads
<1>17. CASE ParentCancels
  BY <1>17, Zenon DEF ParentCancels
<1>18. CASE CancelLands
  BY <1>18, Zenon DEF CancelLands
<1>19. CASE ParentDies
  BY <1>19, Zenon DEF ParentDies
<1>20. CASE Interrupt
  BY <1>20, Zenon DEF Interrupt
<1>21. CASE Repeat
  BY <1>21, Zenon DEF Repeat
<1>22. CASE Over
  BY <1>22, Zenon DEF Over, vars
<1>23. CASE UNCHANGED vars
  BY <1>23, Zenon DEF vars
<1> QED
  BY <1>1, <1>2, <1>3, <1>4, <1>5, <1>6, <1>7, <1>8, <1>9, <1>10, <1>11, <1>12,
     <1>13, <1>14, <1>15, <1>16, <1>17, <1>18, <1>19, <1>20, <1>21, <1>22, <1>23
     DEF Next, Command, Network, Others

LEMMA DataStep == IInv /\ [Next]_vars => DataOK'
<1> SUFFICES ASSUME IInv, [Next]_vars PROVE DataOK'
  OBVIOUS
<1> USE SendAssumption DEF IInv, TypeOK, DataOK, Outcomes, LoopState, Early, Loop,
    At, End, Running, Tx, Flying, control, outside, network
<1>1. CASE Confirm
  BY <1>1 DEF Confirm
<1>2. CASE SignTx
  BY <1>2 DEF SignTx, FirstTx, LastTx
<1>3. CASE CheckTx
  BY <1>3 DEF CheckTx, FirstTx, LastTx
<1>4. CASE FailEarly
  BY <1>4 DEF FailEarly
<1>5. CASE RefusedByCheck
  BY <1>5 DEF RefusedByCheck, WriteRaises
<1>6. CASE DryRun
  BY <1>6 DEF DryRun, WriteRaises
<1>7. CASE BroadcastBegin
  BY <1>7 DEF BroadcastBegin, WriteRaises, Bad
<1>8. CASE PauseOver
  BY <1>8 DEF PauseOver, GraceOver
<1>9. CASE SendRequest
  BY <1>9 DEF SendRequest
<1>10. CASE CallFails
  BY <1>10 DEF CallFails
<1>11. CASE CountAsSent
  BY <1>11 DEF CountAsSent, SentAnswers, WriteRaises, LastTx
<1>12. CASE StopRefused
  BY <1>12 DEF StopRefused, RefusedAnswers
<1>13. CASE StopUnknown
  BY <1>13 DEF StopUnknown
<1>14. ASSUME NEW m \in wire, Deliver(m) PROVE DataOK'
  <2>1. UNCHANGED <<opt, n, run, pc, i, check, committed, sent, outcome, outside, tried>> /\ wire' \subseteq wire
    BY <1>14 DEF Deliver
  <2>2. answer' \in {"none", "waiting", "txid", "already", "refused", "fault"}
    BY <1>14 DEF Deliver
  <2>3. net' \subseteq Tx /\ mine' \subseteq net'
    BY <1>14 DEF Deliver
  <2> QED
    BY <2>1, <2>2, <2>3
<1>15. ASSUME NEW m \in wire, Lose(m) PROVE DataOK'
  BY <1>15 DEF Lose
<1>16. CASE ParentReads
  BY <1>16 DEF ParentReads
<1>17. CASE ParentCancels
  BY <1>17 DEF ParentCancels
<1>18. CASE CancelLands
  BY <1>18 DEF CancelLands
<1>19. CASE ParentDies
  BY <1>19 DEF ParentDies
<1>20. CASE Interrupt
  BY <1>20 DEF Interrupt
<1>21. CASE Repeat
  BY <1>21 DEF Repeat
<1>22. CASE Over
  BY <1>22 DEF Over, vars
<1>23. CASE UNCHANGED vars
  BY <1>23 DEF vars
<1> QED
  BY <1>1, <1>2, <1>3, <1>4, <1>5, <1>6, <1>7, <1>8, <1>9, <1>10, <1>11, <1>12,
     <1>13, <1>14, <1>15, <1>16, <1>17, <1>18, <1>19, <1>20, <1>21, <1>22, <1>23
     DEF Next, Command, Network, Others

LEMMA LoopStep == IInv /\ [Next]_vars => LoopState'
<1> SUFFICES ASSUME IInv, [Next]_vars PROVE LoopState'
  OBVIOUS
<1> USE SendAssumption DEF IInv, TypeOK, DataOK, Outcomes, LoopState, AnswersTrue, CommitPoint, Early, Loop,
    At, End, Running, Tx, Flying, control, outside, network
<1>1. CASE Confirm
  BY <1>1 DEF Confirm
<1>2. CASE SignTx
  BY <1>2 DEF SignTx, FirstTx, LastTx
<1>3. CASE CheckTx
  BY <1>3 DEF CheckTx, FirstTx, LastTx
<1>4. CASE FailEarly
  BY <1>4 DEF FailEarly
<1>5. CASE RefusedByCheck
  BY <1>5 DEF RefusedByCheck, WriteRaises
<1>6. CASE DryRun
  BY <1>6 DEF DryRun, WriteRaises
<1>7. CASE BroadcastBegin
  BY <1>7 DEF BroadcastBegin, WriteRaises, Bad
<1>8. CASE PauseOver
  BY <1>8 DEF PauseOver, GraceOver
<1>9. CASE SendRequest
  BY <1>9 DEF SendRequest
<1>10. CASE CallFails
  BY <1>10 DEF CallFails
<1>11. CASE CountAsSent
  BY <1>11 DEF CountAsSent, SentAnswers, WriteRaises, LastTx
<1>12. CASE StopRefused
  BY <1>12 DEF StopRefused, RefusedAnswers
<1>13. CASE StopUnknown
  BY <1>13 DEF StopUnknown
<1>14. ASSUME NEW m \in wire, Deliver(m) PROVE LoopState'
  BY <1>14 DEF Deliver
<1>15. ASSUME NEW m \in wire, Lose(m) PROVE LoopState'
  BY <1>15 DEF Lose
<1>16. CASE ParentReads
  BY <1>16 DEF ParentReads
<1>17. CASE ParentCancels
  BY <1>17 DEF ParentCancels
<1>18. CASE CancelLands
  BY <1>18 DEF CancelLands
<1>19. CASE ParentDies
  BY <1>19 DEF ParentDies
<1>20. CASE Interrupt
  BY <1>20 DEF Interrupt
<1>21. CASE Repeat
  BY <1>21 DEF Repeat
<1>22. CASE Over
  BY <1>22 DEF Over, vars
<1>23. CASE UNCHANGED vars
  BY <1>23 DEF vars
<1> QED
  BY <1>1, <1>2, <1>3, <1>4, <1>5, <1>6, <1>7, <1>8, <1>9, <1>10, <1>11, <1>12,
     <1>13, <1>14, <1>15, <1>16, <1>17, <1>18, <1>19, <1>20, <1>21, <1>22, <1>23
     DEF Next, Command, Network, Others

LEMMA AnswersStep == IInv /\ [Next]_vars => AnswersTrue'
<1> SUFFICES ASSUME IInv, [Next]_vars PROVE AnswersTrue'
  OBVIOUS
<1> USE SendAssumption DEF IInv, TypeOK, DataOK, Outcomes, LoopState, AnswersTrue, CommitPoint, Early, Loop,
    At, End, Running, Tx, Flying, control, outside, network
<1>1. CASE Confirm
  BY <1>1 DEF Confirm
<1>2. CASE SignTx
  BY <1>2 DEF SignTx, FirstTx, LastTx
<1>3. CASE CheckTx
  BY <1>3 DEF CheckTx, FirstTx, LastTx
<1>4. CASE FailEarly
  BY <1>4 DEF FailEarly
<1>5. CASE RefusedByCheck
  BY <1>5 DEF RefusedByCheck, WriteRaises
<1>6. CASE DryRun
  BY <1>6 DEF DryRun, WriteRaises
<1>7. CASE BroadcastBegin
  BY <1>7 DEF BroadcastBegin, WriteRaises, Bad
<1>8. CASE PauseOver
  BY <1>8 DEF PauseOver, GraceOver
<1>9. CASE SendRequest
  BY <1>9 DEF SendRequest
<1>10. CASE CallFails
  BY <1>10 DEF CallFails
<1>11. CASE CountAsSent
  BY <1>11 DEF CountAsSent, SentAnswers, WriteRaises, LastTx
<1>12. CASE StopRefused
  BY <1>12 DEF StopRefused, RefusedAnswers
<1>13. CASE StopUnknown
  BY <1>13 DEF StopUnknown
<1>14. ASSUME NEW m \in wire, Deliver(m) PROVE AnswersTrue'
  BY <1>14 DEF Deliver
<1>15. ASSUME NEW m \in wire, Lose(m) PROVE AnswersTrue'
  BY <1>15 DEF Lose
<1>16. CASE ParentReads
  BY <1>16 DEF ParentReads
<1>17. CASE ParentCancels
  BY <1>17 DEF ParentCancels
<1>18. CASE CancelLands
  BY <1>18 DEF CancelLands
<1>19. CASE ParentDies
  BY <1>19 DEF ParentDies
<1>20. CASE Interrupt
  BY <1>20 DEF Interrupt
<1>21. CASE Repeat
  BY <1>21 DEF Repeat
<1>22. CASE Over
  BY <1>22 DEF Over, vars
<1>23. CASE UNCHANGED vars
  BY <1>23 DEF vars
<1> QED
  BY <1>1, <1>2, <1>3, <1>4, <1>5, <1>6, <1>7, <1>8, <1>9, <1>10, <1>11, <1>12,
     <1>13, <1>14, <1>15, <1>16, <1>17, <1>18, <1>19, <1>20, <1>21, <1>22, <1>23
     DEF Next, Command, Network, Others

LEMMA CommitStep == IInv /\ [Next]_vars => CommitPoint'
<1> SUFFICES ASSUME IInv, [Next]_vars PROVE CommitPoint'
  OBVIOUS
<1> USE SendAssumption DEF IInv, TypeOK, DataOK, Outcomes, FlagsOK, LoopState, CommitPoint, Early, Loop,
    At, End, Running, Tx, Flying, control, outside, network
<1>1. CASE Confirm
  BY <1>1 DEF Confirm
<1>2. CASE SignTx
  BY <1>2 DEF SignTx, FirstTx, LastTx
<1>3. CASE CheckTx
  BY <1>3 DEF CheckTx, FirstTx, LastTx
<1>4. CASE FailEarly
  BY <1>4 DEF FailEarly
<1>5. CASE RefusedByCheck
  BY <1>5 DEF RefusedByCheck, WriteRaises
<1>6. CASE DryRun
  BY <1>6 DEF DryRun, WriteRaises
<1>7. CASE BroadcastBegin
  BY <1>7 DEF BroadcastBegin, WriteRaises, Bad
<1>8. CASE PauseOver
  BY <1>8 DEF PauseOver, GraceOver
<1>9. CASE SendRequest
  BY <1>9 DEF SendRequest
<1>10. CASE CallFails
  BY <1>10 DEF CallFails
<1>11. CASE CountAsSent
  BY <1>11 DEF CountAsSent, SentAnswers, WriteRaises, LastTx
<1>12. CASE StopRefused
  BY <1>12 DEF StopRefused, RefusedAnswers
<1>13. CASE StopUnknown
  BY <1>13 DEF StopUnknown
<1>14. ASSUME NEW m \in wire, Deliver(m) PROVE CommitPoint'
  BY <1>14 DEF Deliver
<1>15. ASSUME NEW m \in wire, Lose(m) PROVE CommitPoint'
  BY <1>15 DEF Lose
<1>16. CASE ParentReads
  BY <1>16 DEF ParentReads
<1>17. CASE ParentCancels
  BY <1>17 DEF ParentCancels
<1>18. CASE CancelLands
  BY <1>18 DEF CancelLands
<1>19. CASE ParentDies
  BY <1>19 DEF ParentDies
<1>20. CASE Interrupt
  BY <1>20 DEF Interrupt
<1>21. CASE Repeat
  BY <1>21 DEF Repeat
<1>22. CASE Over
  BY <1>22 DEF Over, vars
<1>23. CASE UNCHANGED vars
  BY <1>23 DEF vars
<1> QED
  BY <1>1, <1>2, <1>3, <1>4, <1>5, <1>6, <1>7, <1>8, <1>9, <1>10, <1>11, <1>12,
     <1>13, <1>14, <1>15, <1>16, <1>17, <1>18, <1>19, <1>20, <1>21, <1>22, <1>23
     DEF Next, Command, Network, Others

LEMMA OutcomeStep == IInv /\ [Next]_vars => Outcome'
<1> SUFFICES ASSUME IInv, [Next]_vars PROVE Outcome'
  OBVIOUS
<1> USE SendAssumption DEF IInv, TypeOK, DataOK, Outcomes, LoopState, AnswersTrue, CommitPoint, Outcome, Early, Loop,
    At, End, Running, Tx, Flying, control, outside, network
<1>1. CASE Confirm
  BY <1>1 DEF Confirm
<1>2. CASE SignTx
  BY <1>2 DEF SignTx, FirstTx, LastTx
<1>3. CASE CheckTx
  BY <1>3 DEF CheckTx, FirstTx, LastTx
<1>4. CASE FailEarly
  BY <1>4 DEF FailEarly
<1>5. CASE RefusedByCheck
  BY <1>5 DEF RefusedByCheck, WriteRaises
<1>6. CASE DryRun
  BY <1>6 DEF DryRun, WriteRaises
<1>7. CASE BroadcastBegin
  BY <1>7 DEF BroadcastBegin, WriteRaises, Bad
<1>8. CASE PauseOver
  BY <1>8 DEF PauseOver, GraceOver
<1>9. CASE SendRequest
  BY <1>9 DEF SendRequest
<1>10. CASE CallFails
  BY <1>10 DEF CallFails
<1>11. CASE CountAsSent
  BY <1>11 DEF CountAsSent, SentAnswers, WriteRaises, LastTx
<1>12. CASE StopRefused
  BY <1>12 DEF StopRefused, RefusedAnswers
<1>13. CASE StopUnknown
  BY <1>13 DEF StopUnknown
<1>14. ASSUME NEW m \in wire, Deliver(m) PROVE Outcome'
  BY <1>14 DEF Deliver
<1>15. ASSUME NEW m \in wire, Lose(m) PROVE Outcome'
  BY <1>15 DEF Lose
<1>16. CASE ParentReads
  BY <1>16 DEF ParentReads
<1>17. CASE ParentCancels
  BY <1>17 DEF ParentCancels
<1>18. CASE CancelLands
  BY <1>18 DEF CancelLands
<1>19. CASE ParentDies
  BY <1>19 DEF ParentDies
<1>20. CASE Interrupt
  BY <1>20 DEF Interrupt
<1>21. CASE Repeat
  BY <1>21 DEF Repeat
<1>22. CASE Over
  BY <1>22 DEF Over, vars
<1>23. CASE UNCHANGED vars
  BY <1>23 DEF vars
<1> QED
  BY <1>1, <1>2, <1>3, <1>4, <1>5, <1>6, <1>7, <1>8, <1>9, <1>10, <1>11, <1>12,
     <1>13, <1>14, <1>15, <1>16, <1>17, <1>18, <1>19, <1>20, <1>21, <1>22, <1>23
     DEF Next, Command, Network, Others

LEMMA Initially == Init => IInv
<1> SUFFICES ASSUME Init PROVE IInv
  OBVIOUS
<1> USE SendAssumption DEF Init, Fresh
<1>1. DataOK /\ LoopState /\ AnswersTrue /\ CommitPoint /\ Outcome
  BY DEF DataOK, Outcomes, LoopState, AnswersTrue, CommitPoint, Outcome, Early, Loop, Tx, Flying
<1>2. FlagsOK
  BY Zenon DEF FlagsOK
<1> QED
  BY <1>1, <1>2 DEF IInv, TypeOK

LEMMA Inductive == Spec => []IInv
<1>1. IInv /\ [Next]_vars => IInv'
  BY FlagsStep, DataStep, LoopStep, AnswersStep, CommitStep, OutcomeStep DEF IInv, TypeOK
<1> QED
  BY Initially, <1>1, PTL DEF Spec

\* Every variable keeps its type in every reachable state.
THEOREM TypeCorrect == Spec => []TypeOK
<1>1. IInv => TypeOK
  BY DEF IInv
<1> QED
  BY Inductive, <1>1, PTL

\* What the report or a broadcast line calls out is on the network.
THEOREM OutIsOut == Spec => []ReportedOutIsOut
<1>1. IInv => ReportedOutIsOut
  BY DEF IInv, AnswersTrue, ReportedOutIsOut, ToldOut
<1> QED
  BY Inductive, <1>1, PTL

\* What the report calls unsent this run neither put on the network nor still may.
LEMMA UnsentHolds == IInv => UnsentIsUnsent
<1> SUFFICES ASSUME IInv, NEW t \in ToldUnsent PROVE t \notin mine \cup Flying
  BY DEF UnsentIsUnsent
<1> USE DEF IInv, TypeOK, DataOK, LoopState, Outcome, Early, Loop, ToldUnsent, ToldOut, LookUp, Reported, Tx
<1>1. CASE outcome \in {"declined", "failed", "dry_done", "nothing_sent"}
  BY <1>1
<1>2. CASE outcome \in {"first_unknown", "partial_unknown", "done"}
  BY <1>2
<1>3. CASE outcome = "partial_refused"
  BY <1>3
<1> QED
  BY <1>1, <1>2, <1>3 DEF Outcomes

\* "NOT SENT" is true, whatever requests and answers the network lost or delayed.
THEOREM UnsentStaysUnsent == Spec => []UnsentIsUnsent
BY Inductive, UnsentHolds, PTL

\* The report of a send is true of the network, sent and unsent alike, for any number of
\* transactions, runs, lost requests and late answers.
THEOREM ReportsAreTrue == Spec => []ReportIsTrue
BY OutIsOut, UnsentStaysUnsent, PTL DEF ReportIsTrue

\* Nothing is tried before every check is passed and the parent is told.
THEOREM CommitFirst == Spec => []OutOnlyAfterCommit
<1>1. IInv => OutOnlyAfterCommit
  <2> SUFFICES ASSUME IInv, tried # {}
               PROVE  /\ committed /\ ~opt.dry
                      /\ opt.node => \A t \in Tx : check[t] \in {"ok", "already"}
                      /\ opt.events => begin # "unwritten"
    BY DEF OutOnlyAfterCommit
  <2>1. pc \notin Early
    BY DEF IInv, LoopState, Early, Loop
  <2>2. /\ committed /\ ~opt.dry /\ (opt.events => begin # "unwritten")
        /\ \A t \in Tx : check[t] # "refused"
    BY <2>1 DEF IInv, CommitPoint
  <2>3. opt.node => \A t \in Tx : check[t] # "none"
    BY <2>1 DEF IInv, CommitPoint, Early
  <2>4. \A t \in Tx : check[t] \in {"none", "ok", "refused", "already"}
    BY SendAssumption DEF IInv, TypeOK, DataOK, Tx
  <2> QED
    BY <2>2, <2>3, <2>4
<1> QED
  BY Inductive, <1>1, PTL

\* A parent's cancel never leaves a part of a send behind.
THEOREM CancelIsClean == Spec => []CancelIsAllOrNothing
<1>1. IInv => CancelIsAllOrNothing
  BY DEF IInv, LoopState, CommitPoint, CancelIsAllOrNothing
<1> QED
  BY Inductive, <1>1, PTL

\* The transactions are tried in order, each once.
THEOREM InOrder == Spec => []TriedInOrder
<1>1. IInv => TriedInOrder
  <2>1. 1..0 = {}
    OBVIOUS
  <2> QED
    BY <2>1 DEF IInv, TypeOK, DataOK, LoopState, TriedInOrder, Loop
<1> QED
  BY Inductive, <1>1, PTL

-----------------------------------------------------------------------------
(* The refinement.                                                          *)

Report == {"out", "unsent", "doubt"}

HonestReport ==
  /\ told \in [1..MaxTx -> Report]
  /\ \A t \in 1..MaxTx : told[t] = "out" => t \in net
  /\ \A t \in 1..MaxTx : told[t] = "unsent" => t \notin mine \cup Flying
  /\ \A t, u \in 1..MaxTx : told[t] = "doubt" /\ told[u] = "doubt" => t = u

LEMMA ReportsAreHonest == IInv => (Reported => HonestReport)
<1> SUFFICES ASSUME IInv, Reported PROVE HonestReport
  OBVIOUS
<1>1. told \in [1..MaxTx -> Report]
  BY DEF told, Report
<1>2. \A t \in 1..MaxTx : told[t] = "out" => t \in net
  BY DEF told, ToldOut, IInv, AnswersTrue
<1>3. \A t \in 1..MaxTx : told[t] = "unsent" => t \notin mine \cup Flying
  BY UnsentHolds DEF told, UnsentIsUnsent, ToldUnsent, Flying, IInv, TypeOK, DataOK
<1>4. \A t, u \in 1..MaxTx : told[t] = "doubt" /\ told[u] = "doubt" => t = u
  BY DEF told, LookUp
<1> QED
  BY <1>1, <1>2, <1>3, <1>4 DEF HonestReport

\* While the command runs, and when it is killed, its user was told nothing.
LEMMA SilentIsOpen == ~Reported => told = [t \in 1..MaxTx |-> "open"]
BY DEF told

LEMMA SameReport == UNCHANGED <<outcome, sent, n>> => told' = told
BY DEF told, ToldOut, LookUp, Reported, Tx

\* A step that ends the command tells the user an honest report.
LEMMA Telling ==
  ASSUME IInv, IInv', ~Reported, Reported', UNCHANGED <<n, run, net, mine, wire>>
  PROVE  Promise!Tell
<1>1. HonestReport'
  BY ReportsAreHonest, PTL
<1>2. UNCHANGED <<net, mine, Flying>>
  BY DEF Flying, Tx
<1>3. told = Promise!Open
  BY SilentIsOpen DEF Promise!Open
<1>4. Promise!Honest(told')
  BY <1>1, <1>2 DEF Promise!Honest, HonestReport
<1> QED
  BY <1>1, <1>2, <1>3, <1>4 DEF Promise!Tell, HonestReport, Report

LEMMA PromiseStep == IInv /\ IInv' /\ [Next]_vars => [Promise!Next]_Promise!vars
<1> SUFFICES ASSUME IInv, IInv', [Next]_vars PROVE Promise!Next \/ UNCHANGED Promise!vars
  OBVIOUS
<1> USE DEF Promise!vars
<1>1. ASSUME UNCHANGED <<net, mine, wire, run, n>>, Running
      PROVE  Promise!Next \/ UNCHANGED Promise!vars
  <2>1. UNCHANGED Flying /\ told = [t \in 1..MaxTx |-> "open"]
    BY <1>1, SilentIsOpen DEF Flying, Tx, Running, Reported
  <2>2. CASE Reported'
    <3>1. Promise!Tell
      BY <1>1, <2>2, Telling DEF Running, Reported
    <3> QED
      BY <3>1 DEF Promise!Next
  <2>3. CASE ~Reported'
    BY <1>1, <2>1, <2>3 DEF told
  <2> QED
    BY <2>2, <2>3
<1>2. ASSUME UNCHANGED <<net, mine, wire, run, n, outcome, sent>>
      PROVE  Promise!Next \/ UNCHANGED Promise!vars
  BY <1>2, SameReport DEF Flying, Tx
<1>3. CASE SendRequest
  <2>1. told = Promise!Open /\ told' = told
    BY <1>3, SilentIsOpen, SameReport DEF SendRequest, At, Running, Reported, Promise!Open
  <2>2. Flying' = Flying \cup {i}
    BY <1>3 DEF SendRequest, Flying, Tx, IInv, TypeOK, DataOK
  <2>3. i \in 1..MaxTx
    BY SendAssumption DEF IInv, TypeOK, DataOK, Tx
  <2>4. Promise!Offer(i)
    BY <1>3, <2>1, <2>2 DEF SendRequest, Promise!Offer
  <2> QED
    BY <2>3, <2>4 DEF Promise!Next
<1>4. ASSUME NEW m \in wire, wire' = wire \ {m}, UNCHANGED <<n, run, outcome, sent>>,
             \/ UNCHANGED <<net, mine>>
             \/ /\ net' = net \cup {m.tx}
                /\ mine' = IF m.run = run THEN mine \cup {m.tx} ELSE mine
      PROVE  Promise!Next \/ UNCHANGED Promise!vars
  <2>1. told' = told
    BY <1>4, SameReport
  <2>2. m = [tx |-> m.tx, run |-> m.run] /\ m.tx \in Tx /\ m.tx \in 1..MaxTx
    BY SendAssumption DEF IInv, TypeOK, DataOK, Tx
  <2>3. CASE m.run = run
    <3>1. m.tx \in Flying /\ Flying' = Flying \ {m.tx}
      BY <1>4, <2>2, <2>3 DEF Flying, Tx
    <3>2. Promise!Arrive(m.tx)
      BY <1>4, <2>1, <2>3, <3>1 DEF Promise!Arrive
    <3> QED
      BY <2>2, <3>2 DEF Promise!Next
  <2>4. CASE m.run # run
    <3>1. Flying' = Flying
      BY <1>4, <2>2, <2>4 DEF Flying, Tx
    <3>2. Promise!ArriveLate(m.tx) \/ UNCHANGED Promise!vars
      BY <1>4, <2>1, <2>4, <3>1 DEF Promise!ArriveLate
    <3> QED
      BY <2>2, <3>2 DEF Promise!Next
  <2> QED
    BY <2>3, <2>4
<1>5. CASE Repeat
  <2>1. told' = Promise!Open
    BY <1>5 DEF Repeat, told, Reported, Promise!Open
  <2>2. Flying' = {}
    BY <1>5 DEF Repeat, Flying, Tx, IInv, TypeOK, DataOK
  <2>3. Promise!Again
    BY <1>5, <2>1, <2>2 DEF Repeat, Promise!Again
  <2> QED
    BY <2>3 DEF Promise!Next
<1>6. ASSUME NEW m \in wire, Deliver(m) PROVE Promise!Next \/ UNCHANGED Promise!vars
  <2>1. /\ wire' = wire \ {m}
        /\ UNCHANGED <<n, run, outcome, sent>>
        /\ \/ UNCHANGED <<net, mine>>
           \/ /\ net' = net \cup {m.tx}
              /\ mine' = IF m.run = run THEN mine \cup {m.tx} ELSE mine
    BY <1>6 DEF Deliver
  <2> QED
    BY <1>4, <2>1
<1>7. ASSUME NEW m \in wire, Lose(m) PROVE Promise!Next \/ UNCHANGED Promise!vars
  BY <1>4, <1>7 DEF Lose, control
<1>8. CASE UNCHANGED vars
  BY <1>2, <1>8 DEF vars, control, network
<1>9. CASE Command /\ ~SendRequest
  <2>1. Running /\ UNCHANGED <<net, mine, wire, run, n>>
    BY <1>9 DEF Command, Confirm, SignTx, CheckTx, FailEarly, RefusedByCheck, DryRun, BroadcastBegin, PauseOver,
                CallFails, CountAsSent, StopRefused, StopUnknown, At, Running, network
  <2> QED
    BY <1>1, <2>1
<1>10. CASE CancelLands \/ Interrupt
  BY <1>1, <1>10 DEF CancelLands, Interrupt, network
<1>11. CASE ParentReads \/ ParentCancels \/ ParentDies \/ Over
  BY <1>2, <1>11 DEF ParentReads, ParentCancels, ParentDies, Over, vars, control, network
<1> QED
  BY <1>3, <1>5, <1>6, <1>7, <1>8, <1>9, <1>10, <1>11 DEF Next, Network, Others

\* `send' keeps its promise: every run of the detailed specification is one of
\* SendPromise, whatever number of transactions, runs and lost messages.
THEOREM SendKeepsItsPromise == Spec => KeepsPromise
<1>1. Init => Promise!Init
  BY DEF Init, Fresh, Promise!Init, Promise!Open, Flying, told, Reported
<1> QED
  BY Inductive, PromiseStep, <1>1, PTL DEF Spec, KeepsPromise, Promise!Spec

=============================================================================

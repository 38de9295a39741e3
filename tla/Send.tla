-------------------------------- MODULE Send --------------------------------
(***************************************************************************)
(* The signing and broadcasting half of `send' (cmd_send, broadcast_begin, *)
(* say and event in wallet_cli.py; the sendrawtransaction calls of RPC and *)
(* ExplorerRPC), with the parts it races against: the network, which may   *)
(* lose or delay a request or an answer; the parent program (MMM), which   *)
(* reads XCOIN-EVENT lines, may send SIGTERM and may die; and the user at  *)
(* the terminal, who may press Ctrl-C and may repeat the send.             *)
(*                                                                         *)
(* The plan is fixed: n transactions, numbered in the order they are       *)
(* signed and sent.  A repeated send makes the same plan, so the same      *)
(* txids, as long as no block has changed the scanned coins.               *)
(***************************************************************************)
EXTENDS Integers, FiniteSets

CONSTANTS
  MaxTx,      \* bound: transactions of one send
  MaxRuns     \* bound: how often the user runs the same send

ASSUME SendAssumption == MaxTx \in Nat \ {0} /\ MaxRuns \in Nat \ {0}

VARIABLES
  opt,        \* node backend (or explorer), XCOIN_EVENTS=1, --dry-run
  n,          \* len(txs)
  run,        \* which run of the send this is
  pc, i,      \* where the command is, and the transaction it is at
  check,      \* testmempoolaccept's verdict on each transaction
  committed,  \* COMMITTED
  answer,     \* the broadcast call in progress and how it ended
  sent,       \* len(sent): the first `sent' transactions count as broadcast
  outcome,    \* how the command ended
  parent,     \* the program that started this one
  begin,      \* the broadcast-begin line: unwritten, written, read
  cancel,     \* a SIGTERM of the parent is on its way
  heard,      \* transactions the parent got a `broadcast' line for
  wire,       \* broadcast requests still travelling
  net,        \* transactions the network has (mempool or block)
  mine,       \* those of them it accepted from this run
  tried       \* transactions this run made a broadcast call for

control == <<pc, i, check, committed, answer, sent, outcome>>
outside == <<parent, begin, cancel, heard>>
network == <<wire, net, mine, tried>>
vars    == <<opt, n, run, control, outside, network>>

Tx     == 1..n
Flying == {t \in Tx : [tx |-> t, run |-> run] \in wire}
Running == outcome = "running"

Fresh ==
  /\ pc = "confirm" /\ i = 1 /\ check = [t \in 1..MaxTx |-> "none"]
  /\ committed = FALSE /\ answer = "none" /\ sent = 0 /\ outcome = "running"
  /\ parent = "alive" /\ begin = "unwritten" /\ cancel = FALSE /\ heard = {}

Init ==
  /\ opt \in [node : BOOLEAN, events : BOOLEAN, dry : BOOLEAN]
  /\ n \in 1..MaxTx /\ run = 1
  /\ Fresh
  /\ wire = {} /\ net = {} /\ mine = {} /\ tried = {}

At(label) == Running /\ pc = label
End(how)  == outcome' = how

\* Mutants: a closed pipe never raises; it raises even once committed.
NeverRaises  == FALSE
AlwaysRaises == opt.events /\ parent = "gone"

\* say, event: a line to a parent that is gone raises BrokenPipeError before the
\* commit point and is dropped behind it; without XCOIN_EVENTS none is written.
WriteRaises == opt.events /\ parent = "gone" /\ ~committed

FirstTx == 1
LastTx  == i = n
-----------------------------------------------------------------------------
(* Up to the commit point: any failure ends the command with nothing sent.  *)

\* "Type SEND to sign": anything else cancels.
Confirm ==
  /\ At("confirm")
  /\ \/ pc' = "sign" /\ UNCHANGED outcome
     \/ End("declined") /\ UNCHANGED pc
  /\ UNCHANGED <<opt, n, run, i, check, committed, answer, sent, outside, network>>

\* One pass of the signing loop: the `signing' line, createrawtransaction and the
\* keytool.  Every transaction is signed before the next phase begins.
SignTx ==
  /\ At("sign") /\ ~WriteRaises
  /\ IF LastTx THEN i' = FirstTx /\ pc' = IF opt.node THEN "check" ELSE "decide"
               ELSE i' = i + 1 /\ UNCHANGED pc
  /\ UNCHANGED <<opt, n, run, check, committed, answer, sent, outcome, outside, network>>

\* testmempoolaccept, one transaction per call.  (The explorer checks at broadcast.)
CheckTx ==
  /\ At("check")
  /\ \E v \in IF i \in net THEN {"already"} ELSE {"ok", "refused"} : check' = [check EXCEPT ![i] = v]
  /\ IF LastTx THEN i' = FirstTx /\ pc' = "decide" ELSE i' = i + 1 /\ UNCHANGED pc
  /\ UNCHANGED <<opt, n, run, committed, answer, sent, outcome, outside, network>>

\* Planning, a node call, the keytool or the pipe to the parent failed: the
\* exception ends the run.
FailEarly ==
  /\ At("confirm") \/ At("sign") \/ At("check")
  /\ End("failed")
  /\ UNCHANGED <<opt, n, run, pc, i, check, committed, answer, sent, outside, network>>

Bad == {t \in Tx : check[t] = "refused"}

\* `bad and not args.dry_run': the node answered no before anything went out.
RefusedByCheck ==
  /\ At("decide") /\ Bad # {} /\ ~opt.dry
  /\ End(IF WriteRaises THEN "failed" ELSE "nothing_sent")
  /\ UNCHANGED <<opt, n, run, pc, i, check, committed, answer, sent, outside, network>>

DryRun ==
  /\ At("decide") /\ opt.dry
  /\ End(IF WriteRaises THEN "failed" ELSE "dry_done")
  /\ UNCHANGED <<opt, n, run, pc, i, check, committed, answer, sent, outside, network>>

\* broadcast_begin: the strict write of the line, and only then the commitment.
BroadcastBegin ==
  /\ At("decide") /\ Bad = {} /\ ~opt.dry
  /\ IF WriteRaises
     THEN End("failed") /\ UNCHANGED <<pc, committed, begin>>
     ELSE /\ committed' = TRUE
          /\ pc' = IF opt.events THEN "pause" ELSE "send"
          /\ begin' = IF opt.events /\ parent = "alive" THEN "written" ELSE begin
          /\ UNCHANGED outcome
  /\ UNCHANGED <<opt, n, run, i, check, answer, sent, parent, cancel, heard, network>>

\* Mutant: no pause.
NoGrace == TRUE

\* BROADCAST_GRACE: half a second is taken to be long enough for the parent to
\* read the line and for a SIGTERM it sent before that to arrive.
GraceOver == ~cancel /\ (begin = "read" \/ parent = "gone")

PauseOver ==
  /\ At("pause") /\ GraceOver
  /\ pc' = "send"
  /\ UNCHANGED <<opt, n, run, i, check, committed, answer, sent, outcome, outside, network>>
-----------------------------------------------------------------------------
(* The broadcast loop.                                                      *)

SendRequest ==
  /\ At("send")
  /\ wire' = wire \cup {[tx |-> i, run |-> run]}
  /\ tried' = tried \cup {i}
  /\ answer' = "waiting" /\ pc' = "wait"
  /\ UNCHANGED <<opt, n, run, i, check, committed, sent, outcome, outside, net, mine>>

\* Mutant: calls without a timeout.
WaitsForever == FALSE

\* A timeout, a dropped connection: the request may still be travelling.
CallFails ==
  /\ At("wait") /\ answer = "waiting"
  /\ answer' = "fault"
  /\ UNCHANGED <<opt, n, run, pc, i, check, committed, sent, outcome, outside, network>>

\* Mutant: an answer that never came counts as a refusal.
HarshAnswers   == {"refused", "fault"}
SentAnswers    == {"txid", "already"}
RefusedAnswers == {"refused"}

\* `sent.append(t)' and the broadcast line to the parent.
CountAsSent ==
  /\ At("wait") /\ answer \in SentAnswers
  /\ sent' = sent + 1
  /\ heard' = IF opt.events /\ parent = "alive" THEN heard \cup {i} ELSE heard
  /\ answer' = "none"
  /\ IF LastTx \/ WriteRaises
     THEN End(IF WriteRaises THEN "failed" ELSE "done") /\ UNCHANGED <<i, pc>>
     ELSE i' = i + 1 /\ pc' = "send" /\ UNCHANGED outcome
  /\ UNCHANGED <<opt, n, run, check, committed, parent, begin, cancel, network>>

\* BroadcastRejected: certain that this one is not out.
StopRefused ==
  /\ At("wait") /\ answer \in RefusedAnswers
  /\ End(IF sent = 0 THEN "nothing_sent" ELSE "partial_refused")
  /\ UNCHANGED <<opt, n, run, pc, i, check, committed, answer, sent, outside, network>>

\* Any other exception: this one may be out.
StopUnknown ==
  /\ At("wait") /\ answer = "fault"
  /\ End(IF sent = 0 THEN "first_unknown" ELSE "partial_unknown")
  /\ UNCHANGED <<opt, n, run, pc, i, check, committed, answer, sent, outside, network>>
-----------------------------------------------------------------------------
(* The network: sendrawtransaction at the node, or behind the explorer.     *)

\* The node takes the transaction or refuses it; its verdict reaches a caller
\* that still waits, or is lost on the way back (503, an answer that is none).
Deliver(m) ==
  /\ m \in wire
  /\ wire' = wire \ {m}
  /\ \E v \in IF m.tx \in net THEN {"txid", "already"} ELSE {"txid", "refused"} :
       /\ IF v = "txid" /\ m.tx \notin net
          THEN net' = net \cup {m.tx} /\ mine' = IF m.run = run THEN mine \cup {m.tx} ELSE mine
          ELSE UNCHANGED <<net, mine>>
       /\ IF Running /\ answer = "waiting" /\ m = [tx |-> i, run |-> run]
          THEN answer' \in {v, "fault"}
          ELSE UNCHANGED answer
  /\ UNCHANGED <<opt, n, run, pc, i, check, committed, sent, outcome, outside, tried>>

Lose(m) ==
  /\ m \in wire
  /\ wire' = wire \ {m}
  /\ UNCHANGED <<opt, n, run, control, outside, net, mine, tried>>
-----------------------------------------------------------------------------
(* The parent program and the user.                                         *)

ParentReads ==
  /\ parent = "alive" /\ begin = "written"
  /\ begin' = "read"
  /\ UNCHANGED <<opt, n, run, control, parent, cancel, heard, network>>

\* The parent stops offering cancel once it has read the line (README, XCOIN_EVENTS).
ParentCancels ==
  /\ Running /\ opt.events /\ parent = "alive" /\ begin # "read" /\ ~cancel
  /\ cancel' = TRUE
  /\ UNCHANGED <<opt, n, run, control, parent, begin, heard, network>>

CancelLands ==
  /\ Running /\ cancel
  /\ End("killed") /\ cancel' = FALSE
  /\ UNCHANGED <<opt, n, run, pc, i, check, committed, answer, sent, parent, begin, heard, network>>

ParentDies ==
  /\ opt.events /\ parent = "alive"
  /\ parent' = "gone"
  /\ UNCHANGED <<opt, n, run, control, begin, cancel, heard, network>>

\* Ctrl-C: KeyboardInterrupt is no Exception, no handler of cmd_send sees it and
\* main ends with "cancelled".
Interrupt ==
  /\ Running
  /\ End("cancelled")
  /\ UNCHANGED <<opt, n, run, pc, i, check, committed, answer, sent, outside, network>>

\* The user runs the same send again; requests of the earlier run still travel.
Repeat ==
  /\ ~Running /\ run < MaxRuns
  /\ run' = run + 1
  /\ pc' = "confirm" /\ i' = 1 /\ check' = [t \in 1..MaxTx |-> "none"]
  /\ committed' = FALSE /\ answer' = "none" /\ sent' = 0 /\ outcome' = "running"
  /\ parent' = "alive" /\ begin' = "unwritten" /\ cancel' = FALSE /\ heard' = {}
  /\ mine' = {} /\ tried' = {}
  /\ UNCHANGED <<opt, n, wire, net>>

Over == ~Running /\ UNCHANGED vars

Command ==
  \/ Confirm \/ SignTx \/ CheckTx \/ FailEarly \/ RefusedByCheck \/ DryRun \/ BroadcastBegin
  \/ PauseOver \/ SendRequest \/ CallFails \/ CountAsSent \/ StopRefused \/ StopUnknown
Network == \E m \in wire : Deliver(m) \/ Lose(m)
Others  == ParentReads \/ ParentCancels \/ CancelLands \/ ParentDies \/ Interrupt \/ Repeat

Next == Command \/ Network \/ Others \/ Over

\* The command always takes its next step (every call has a timeout), a pending
\* signal is delivered and a living parent reads its pipe.  Nobody is bound to
\* cancel, to die, to interrupt or to try again, and the network may stay silent.
Fairness == WF_vars(Command) /\ WF_vars(CancelLands) /\ WF_vars(ParentReads)

Spec == Init /\ [][Next]_vars /\ Fairness
-----------------------------------------------------------------------------
Outcomes == {"running", "declined", "failed", "nothing_sent", "dry_done", "first_unknown",
             "partial_refused", "partial_unknown", "done", "killed", "cancelled"}

DataOK ==
  /\ n \in 1..MaxTx /\ run \in 1..MaxRuns
  /\ pc \in {"confirm", "sign", "check", "decide", "pause", "send", "wait"}
  /\ i \in Tx /\ check \in [1..MaxTx -> {"none", "ok", "refused", "already"}]
  /\ sent \in 0..n /\ outcome \in Outcomes
  /\ answer \in {"none", "waiting", "txid", "already", "refused", "fault"}
  /\ parent \in {"alive", "gone"} /\ begin \in {"unwritten", "written", "read"}
  /\ heard \subseteq Tx /\ wire \subseteq [tx : Tx, run : 1..run]
  /\ net \subseteq Tx /\ mine \subseteq net /\ tried \subseteq Tx

FlagsOK ==
  /\ opt \in [node : BOOLEAN, events : BOOLEAN, dry : BOOLEAN]
  /\ committed \in BOOLEAN /\ cancel \in BOOLEAN

TypeOK == DataOK /\ FlagsOK

\* What the command told its user, once it ended by itself.
ToldOut  == IF outcome \in {"done", "partial_refused", "partial_unknown"} THEN 1..sent ELSE {}

\* Mutant: the report forgets the transaction that failed.
NothingToLookUp == {}
LookUp   == IF outcome \in {"first_unknown", "partial_unknown"} THEN {sent + 1} ELSE {}
Reported == outcome \notin {"running", "killed", "cancelled"}
ToldUnsent == IF Reported THEN Tx \ (ToldOut \cup LookUp) ELSE {}

\* Every txid reported as broadcast, in the report or in a line to the parent, is
\* on the network: an `already' answer included, and a lost answer never is.
ReportedOutIsOut == ToldOut \cup heard \subseteq net

\* "Nothing was sent", "NOT SENT", "never tried" (README): this run did not put
\* such a transaction on the network, and no request of it that could still do so
\* is travelling.  So the one transaction to look up is the only doubt left.
UnsentIsUnsent == ToldUnsent \cap (mine \cup Flying) = {}

\* What the report says was sent was sent, and what it says was not never will be: the user
\* may pay again exactly what is reported unsent.
ReportIsTrue == ReportedOutIsOut /\ UnsentIsUnsent

\* Nothing goes out before the commit point: all signed, none refused by the
\* node's check, no dry run, and the parent, if there is one, was alive to be told.
OutOnlyAfterCommit ==
  tried # {} =>
    /\ committed /\ ~opt.dry
    /\ opt.node => \A t \in Tx : check[t] \in {"ok", "already"}
    /\ opt.events => begin # "unwritten"

\* A parent's cancel stops the whole send or nothing of it: no SIGTERM, however
\* late it was sent before the line was read, leaves some transactions out.
CancelIsAllOrNothing == outcome = "killed" => mine \cup Flying = {}

\* The loop tries the transactions in order and stops at the first that fails.
TriedInOrder == tried = 1..sent \/ tried = 1..(sent + 1)

\* An orphan finishes its work: once committed, every transaction is tried unless
\* a broadcast itself fails or the user at the terminal stops it.
CommittedFinishes ==
  committed ~> (tried = Tx \/ outcome \in {"nothing_sent", "first_unknown", "partial_refused",
                                            "partial_unknown", "killed", "cancelled"})

\* The command never hangs, whatever the network and the parent do.
AlwaysEnds == []<>~Running
-----------------------------------------------------------------------------
\* The command implements the promise it makes its user (module SendPromise).
told == [t \in 1..MaxTx |-> IF ~Reported THEN "open" ELSE IF t \in ToldOut THEN "out"
                      ELSE IF t \in LookUp THEN "doubt" ELSE "unsent"]
Promise == INSTANCE SendPromise WITH Txs <- 1..MaxTx, flying <- Flying
KeepsPromise == Promise!Spec
-----------------------------------------------------------------------------
(* What the documents say and the code does not do.                         *)

\* README: a transaction the network already has "counts as sent"; a partial
\* report lists those after the failed one as NOT SENT, known out or not.
KnownOutIsNotToldUnsent ==
  outcome \in {"partial_refused", "partial_unknown"} => \A t \in ToldUnsent : check[t] # "already"
=============================================================================

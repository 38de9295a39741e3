---------------------------- MODULE ReaderProofs ----------------------------
(***************************************************************************)
(* At the card reader: the waits for a card (NoSecondConnect and SwapIsSeen*)
(* of ReaderWait), and the exchanges with it (ExchangesAreWhole of         *)
(* Session), for every set of readers, any number of cards, slices of time *)
(* and retries, and for all keys, calls and faults.                        *)
(***************************************************************************)
EXTENDS ReaderWait, Session, TLAPS

-----------------------------------------------------------------------------
(* The waits.  What happens between two status calls the program does not  *)
(* see; so the invariant relates what the wait remembers (tried, cand) to  *)
(* the cards that are on the readers now.                                  *)

\* A card this wait has connected to, and that is still there, is on a reader it has
\* tried; cards to come were not connected to.
TriedIsTouched ==
  \A n \in Readers, k \in 0..MaxArrivals :
    /\ k > arrival[n] => touched[<<n, k>>] = 0
    /\ k = arrival[n] /\ n \in on /\ n \notin tried => touched[<<n, k>>] = 0

\* Only the waits for a card have something to connect to.
TodoIsForTaps == pc \notin {"tap", "swap"} => todo = {}

\* The card that was read: until all readers were seen empty, it left or its reader is
\* watched; from then on, it left.
FirstIsWatched ==
  /\ \A a \in first : a[2] <= arrival[a[1]]
  /\ pc = "removal" => \A a \in first : Left(a) \/ a[1] \in cand
  /\ pc \in {"swap", "provision"} => \A a \in first : Left(a)

IInv == TypeOK /\ TriedIsTouched /\ TodoIsForTaps /\ FirstIsWatched /\ NoSecondConnect
-----------------------------------------------------------------------------
LEMMA Initially == Init => IInv
<1> SUFFICES ASSUME Init PROVE IInv
  OBVIOUS
<1> USE ReaderAssumption DEF Init
<1>1. TypeOK
  BY DEF TypeOK, Waits, Arrivals
<1>2. TriedIsTouched
  BY DEF TriedIsTouched, Arrivals
<1>3. NoSecondConnect
  BY DEF NoSecondConnect
<1> QED
  BY <1>1, <1>2, <1>3 DEF IInv, TodoIsForTaps, FirstIsWatched

LEMMA TypeStep == TypeOK /\ [Next]_vars => TypeOK'
<1> SUFFICES ASSUME TypeOK, [Next]_vars PROVE TypeOK'
  OBVIOUS
<1> USE ReaderAssumption DEF TypeOK, Waits, Stopped
<1>1. ASSUME NEW n \in Readers, Place(n) PROVE TypeOK'
  BY <1>1 DEF Place
<1>2. ASSUME NEW n \in Readers, Shift(n) \/ Take(n) \/ Unplug(n) \/ Plug(n) PROVE TypeOK'
  BY <1>2 DEF Shift, Take, Unplug, Plug
<1>3. CASE Tick \/ TimeIsUp \/ ReadFails
  BY <1>3 DEF Tick, TimeIsUp, ReadFails, End, world
<1>4. CASE Report
  BY <1>4 DEF Report, End, Wait, StillTried, world
<1>5. ASSUME NEW n \in Readers, Connect(n) PROVE TypeOK'
  <2>1. On(n) \in Arrivals
    BY DEF On, Arrivals
  <2> QED
    BY <1>5, <2>1 DEF Connect, world
<1>6. CASE ReadCard
  BY <1>6 DEF ReadCard, Wait, world
<1>7. CASE RetryRead
  BY <1>7 DEF RetryRead, Wait, MayRetry, NextAttempt, world
<1>8. CASE UNCHANGED vars
  BY <1>8 DEF vars
<1> QED
  BY <1>1, <1>2, <1>3, <1>4, <1>5, <1>6, <1>7, <1>8 DEF Next, User, Program, Over

LEMMA TodoStep == IInv /\ [Next]_vars => TodoIsForTaps'
<1> SUFFICES ASSUME IInv, [Next]_vars PROVE TodoIsForTaps'
  OBVIOUS
<1> USE DEF IInv, TodoIsForTaps
<1>1. CASE User \/ Tick \/ Over \/ UNCHANGED vars
  BY <1>1 DEF User, Place, Shift, Take, Unplug, Plug, Tick, Over, vars
<1>2. CASE Report
  BY <1>2 DEF Report, End, Wait, Waits
<1>3. CASE TimeIsUp \/ ReadFails
  BY <1>3 DEF TimeIsUp, ReadFails, End
<1>4. CASE ReadCard \/ RetryRead
  BY <1>4 DEF ReadCard, RetryRead, Wait
<1>5. ASSUME NEW n \in Readers, Connect(n) PROVE TodoIsForTaps'
  BY <1>5 DEF Connect
<1> QED
  BY <1>1, <1>2, <1>3, <1>4, <1>5 DEF Next, Program

\* A wait that begins has connected to nothing.
LEMMA FreshWait ==
  ASSUME TypeOK, NEW step, Wait(step), UNCHANGED world
  PROVE  TriedIsTouched' /\ NoSecondConnect'
BY DEF Wait, world, TypeOK, TriedIsTouched, NoSecondConnect, Arrivals

LEMMA TouchedStep == IInv /\ [Next]_vars => TriedIsTouched' /\ NoSecondConnect'
<1> SUFFICES ASSUME IInv, [Next]_vars PROVE TriedIsTouched' /\ NoSecondConnect'
  OBVIOUS
<1> USE ReaderAssumption DEF IInv
<1>1. ASSUME NEW n \in Readers, Place(n) PROVE TriedIsTouched' /\ NoSecondConnect'
  BY <1>1 DEF Place, TypeOK, TriedIsTouched, NoSecondConnect
<1>2. ASSUME NEW n \in Readers, Shift(n) \/ Take(n) \/ Unplug(n) \/ Plug(n)
      PROVE TriedIsTouched' /\ NoSecondConnect'
  BY <1>2 DEF Shift, Take, Unplug, Plug, TriedIsTouched, NoSecondConnect
<1>3. CASE Tick \/ TimeIsUp \/ ReadFails \/ UNCHANGED vars
  BY <1>3 DEF Tick, TimeIsUp, ReadFails, End, world, vars, TriedIsTouched, NoSecondConnect
<1>4. CASE Report
  <2>1. CASE \E step : Wait(step)
    BY <1>4, <2>1, FreshWait DEF Report
  <2>2. CASE tried' = tried \cap on /\ UNCHANGED <<world, touched>>
    BY <2>2 DEF world, TriedIsTouched, NoSecondConnect
  <2>3. CASE UNCHANGED <<world, tried, touched>>
    BY <2>3 DEF world, TriedIsTouched, NoSecondConnect
  <2> QED
    BY <1>4, <2>1, <2>2, <2>3 DEF Report, End, StillTried
<1>5. ASSUME NEW n \in Readers, Connect(n) PROVE TriedIsTouched' /\ NoSecondConnect'
  <2>1. UNCHANGED world /\ tried' = tried \cup {n} /\ n \notin tried
    BY <1>5 DEF Connect, TypeOK
  <2>2. CASE n \notin on
    BY <1>5, <2>1, <2>2 DEF Connect, world, TriedIsTouched, NoSecondConnect
  <2>3. CASE n \in on
    <3>1. arrival[n] \in 0..MaxArrivals /\ On(n) \in Arrivals /\ On(n) = <<n, arrival[n]>>
      BY DEF TypeOK, On, Arrivals
    <3>2. touched[On(n)] = 0
      BY <2>1, <2>3, <3>1 DEF TriedIsTouched
    <3>3. touched' = [touched EXCEPT ![On(n)] = 1]
      BY <1>5, <2>3, <3>2 DEF Connect
    <3>4. NoSecondConnect'
      BY <3>3 DEF NoSecondConnect, TypeOK
    <3>5. ASSUME NEW m \in Readers, NEW k \in 0..MaxArrivals, <<m, k>> # On(n)
          PROVE  touched'[<<m, k>>] = touched[<<m, k>>]
      BY <3>3, <3>5 DEF TypeOK, Arrivals
    <3>6. ASSUME NEW m \in Readers, NEW k \in 0..MaxArrivals,
                 k > arrival'[m] \/ (k = arrival'[m] /\ m \in on' /\ m \notin tried')
          PROVE  touched'[<<m, k>>] = 0
      <4>1. arrival' = arrival /\ on' = on /\ n \in tried'
        BY <2>1 DEF world
      <4>2. <<m, k>> # On(n)
        BY <3>1, <3>6, <4>1 DEF TypeOK
      <4> QED
        BY <2>1, <3>5, <3>6, <4>1, <4>2 DEF TriedIsTouched
    <3>7. TriedIsTouched'
      BY <3>6 DEF TriedIsTouched
    <3> QED
      BY <3>4, <3>7
  <2> QED
    BY <2>2, <2>3
<1>6. CASE ReadCard
  BY <1>6, FreshWait DEF ReadCard, world, TriedIsTouched, NoSecondConnect
<1>7. CASE RetryRead
  BY <1>7, FreshWait DEF RetryRead
<1> QED
  BY <1>1, <1>2, <1>3, <1>4, <1>5, <1>6, <1>7 DEF Next, User, Program, Over

\* Whoever left does not come back: the next card is another arrival.
LEMMA StaysLeft ==
  ASSUME TypeOK, User, NEW a \in Arrivals, a[2] <= arrival[a[1]]
  PROVE  a[2] <= arrival'[a[1]] /\ (Left(a) => Left(a)')
<1>1. a[1] \in Readers /\ a[2] \in 0..MaxArrivals
  BY DEF Arrivals
<1>2. ASSUME NEW n \in Readers, Place(n) PROVE a[2] <= arrival'[a[1]] /\ (Left(a) => Left(a)')
  BY <1>1, <1>2 DEF Place, Left, TypeOK
<1>3. ASSUME NEW n \in Readers, Shift(n) \/ Take(n) \/ Unplug(n) \/ Plug(n)
      PROVE  a[2] <= arrival'[a[1]] /\ (Left(a) => Left(a)')
  BY <1>3 DEF Shift, Take, Unplug, Plug, Left
<1> QED
  BY <1>2, <1>3 DEF User

LEMMA FirstStep == IInv /\ [Next]_vars => FirstIsWatched'
<1> SUFFICES ASSUME IInv, [Next]_vars PROVE FirstIsWatched'
  OBVIOUS
<1> USE ReaderAssumption DEF IInv
<1>0. first \subseteq Arrivals
  BY DEF TypeOK
<1>1. CASE User
  <2>1. UNCHANGED <<pc, cand, first>>
    BY <1>1 DEF User, Place, Shift, Take, Unplug, Plug
  <2> QED
    BY <1>0, <1>1, <2>1, StaysLeft DEF FirstIsWatched
<1>2. CASE Tick \/ TimeIsUp \/ ReadFails \/ UNCHANGED vars
  BY <1>2 DEF Tick, TimeIsUp, ReadFails, End, world, vars, FirstIsWatched, Left
<1>3. CASE Report
  BY <1>3 DEF Report, End, Wait, AllEmpty, world, FirstIsWatched, Left
<1>4. ASSUME NEW n \in Readers, Connect(n) PROVE FirstIsWatched'
  BY <1>4 DEF Connect, TodoIsForTaps, world, FirstIsWatched, Left
<1>5. CASE ReadCard
  <2>1. UNCHANGED world /\ first' \subseteq {On(n) : n \in on}
    BY <1>5 DEF ReadCard
  <2>2. \A a \in first' : a[2] = arrival[a[1]] /\ a[1] \in on
    BY <2>1 DEF On
  <2>3. \A a \in first' : a[2] <= arrival[a[1]]
    BY <2>1, <2>2 DEF On, TypeOK
  <2>4. pc' = "removal" => cand' = plugged
    BY <1>5 DEF ReadCard, Wait
  <2>5. pc' \in {"unlocked", "removal", "failed"}
    BY <1>5 DEF ReadCard, Wait
  <2> QED
    BY <2>1, <2>2, <2>3, <2>4, <2>5 DEF FirstIsWatched, world, TypeOK
<1>6. CASE RetryRead
  BY <1>6 DEF RetryRead, Wait, world, FirstIsWatched, Left
<1> QED
  BY <1>1, <1>2, <1>3, <1>4, <1>5, <1>6 DEF Next, Program, Over
-----------------------------------------------------------------------------
LEMMA AlwaysIInv == Spec => []IInv
<1>1. Init => IInv
  BY Initially
<1>2. IInv /\ [Next]_vars => IInv'
  BY TypeStep, TodoStep, TouchedStep, FirstStep DEF IInv
<1> QED
  BY <1>1, <1>2, PTL DEF Spec

\* The types of the reader's state hold in every state (PCSCTransport, read_card).
THEOREM TypeCorrect == Spec => []TypeOK
<1>1. IInv => TypeOK
  BY DEF IInv
<1> QED
  BY <1>1, AlwaysIInv, PTL

\* A wait connects at most once to a card that stays on its reader, whatever comes and
\* goes on the others (wait_for_card, arrived: "SCardConnect once per arrival").
THEOREM ConnectsOncePerArrival == Spec => []NoSecondConnect
<1>1. IInv => NoSecondConnect
  BY DEF IInv
<1> QED
  BY <1>1, AlwaysIInv, PTL

\* card-backup --auto-swap provisions a card only when the one it read has gone
\* (wait_for_removal, then wait_for_card).
THEOREM SwapNeverTakesTheFirstCard == Spec => []SwapIsSeen
<1>1. IInv => SwapIsSeen
  BY DEF IInv, FirstIsWatched, SwapIsSeen
<1> QED
  BY <1>1, AlwaysIInv, PTL

-----------------------------------------------------------------------------
(* The exchanges.  The invariant says of what the random numbers, commands *)
(* and answers met so far are made, that none of the past commands makes   *)
(* the card act again (Past, Linked, Harmless), and what an answer that    *)
(* fits says of the card (ProofTold, MacTold, HonestTold, Quiet).          *)

\* A random number drawn so far, and one rotated.
DrawnBy(x, f)  == \E n \in 1..(f - 1) : x = Random(n)
TurnedBy(x, f) == \E n \in 1..(f - 1) : x = Rotated(Random(n))

\* What an object, the simulator and a card are made of.
CardOK(c) == c = [keys |-> c.keys, data |-> c.data] /\ c.keys = [n \in Numbers |-> c.keys[n]]

ObjectOK(o, f) ==
  /\ o = [keys |-> o.keys, ti |-> o.ti, ctr |-> o.ctr, authenticated |-> o.authenticated, no |-> o.no]
  /\ o.ctr \in Nat /\ (o.authenticated <=> o.keys # NoKeys)
  /\ o.keys # NoKeys => DrawnBy(o.keys[2], f) /\ o.no \in Numbers

SimOK(s, f) ==
  /\ s = [keys |-> s.keys, ti |-> s.ti, ctr |-> s.ctr, no |-> s.no, pending |-> s.pending]
  /\ s.pending = [no |-> s.pending.no, rnd |-> s.pending.rnd]
  /\ s.ctr \in Nat
  /\ s.pending.no # -1 => s.pending.no \in Numbers /\ DrawnBy(s.pending.rnd, f)

\* Where a call is, and what the last one told.
CallOK ==
  /\ call = [op |-> call.op, of |-> call.of, key |-> call.key, old |-> call.old, new |-> call.new, rnd |-> call.rnd,
             at |-> call.at, by |-> call.by, byKey |-> call.byKey]
  /\ \/ call.at = "idle" /\ call.op = "none"
     \/ call.at \in {"part1", "part2"} /\ call.op = "auth"
     \/ call.at = "full" /\ call.op \in {"read", "write"}
     \/ call.at = "same" /\ call.op = "same"
     \/ call.at = "diff" /\ call.op = "diff"
     \/ call.at = "refused" /\ call.op \in {"read", "write", "same", "diff"}
  /\ call.op \in {"auth", "same", "diff"} => call.of \in Numbers
  /\ call.op = "auth" => call.by = call.of /\ call.byKey = call.key /\ ntag.keys = NoKeys
  /\ call.at \in {"full", "same", "diff"} => ntag.keys # NoKeys /\ call.by = ntag.no /\ call.byKey = ntag.keys[1]
  /\ call.at = "same" => call.of = call.by
  /\ call.at = "diff" => call.of # call.by
  /\ call.at = "refused" => ~Promise!Works(card, Exchange)

TurnOK ==
  /\ fresh \in Nat \ {0}
  /\ did \in BOOLEAN /\ honest \in BOOLEAN /\ trouble \in BOOLEAN
  /\ IF call.at = "idle" THEN told.how \in {"done", "raised"} ELSE told = Waiting
  /\ wire.at \in {"nowhere", "card", "reader"}
  /\ wire.at # "nowhere" => wire = [at |-> wire.at, msg |-> wire.msg]
  /\ wire.at = "nowhere" <=> call.at \in {"idle", "refused"}
  /\ wire.at = "card" \/ call.at \in {"part1", "refused"} => ~did
  /\ call.at # "idle" /\ ~honest => trouble

\* The command of each call.
SentFull ==
  IF call.op = "read" THEN Command("AD", 3, NoText, CmdMac(ntag, "AD", 3, NoText))
  ELSE LET body == Enc(ntag.keys, CmdIv(ntag), <<call.new>>)
       IN  Command("8D", 3, body, CmdMac(ntag, "8D", 3, body))
SentChange(text) ==
  LET body == Enc(ntag.keys, CmdIv(ntag), text) IN Command("C4", call.of, body, CmdMac(ntag, "C4", call.of, body))
SentOK == wire.at = "card" =>
  /\ call.at = "part1" => wire.msg = Command("71", call.of, NoText, NoMac)
  /\ call.at = "part2" =>
       wire.msg = Command("AF", -1, Enc(LongTerm(call.key), ZeroIv, <<call.rnd[1], Rotated(call.rnd[2])>>), NoMac)
  /\ call.at = "full" => wire.msg = SentFull
  /\ call.at = "same" => wire.msg = SentChange(<<call.new>>)
  /\ call.at = "diff" => wire.msg = SentChange(<<XorKeys(call.new, call.old), call.new>>)

\* The session of a reader that goes on is the card's.
Working == ntag.keys # NoKeys /\ told.how # "raised"
Acted   == did /\ call.at \in {"full", "diff"}
Linked ==
  Working /\ ~(call.at = "same" /\ did) =>
    /\ session.keys = ntag.keys /\ session.ti = ntag.ti /\ session.no = ntag.no
    /\ card.keys[ntag.no] = ntag.keys[1]
    /\ Acted => session.ctr = ntag.ctr + 1
    /\ ~Acted => session.ctr <= ntag.ctr /\ (~trouble => session.ctr = ntag.ctr)

\* Commands: what they are made of, and why none of the past acts again.
InSession == {"AD", "8D", "C4"}
Commands  == handled \cup (IF wire.at = "card" THEN {wire.msg} ELSE {})
CommandOK(m, f) ==
  /\ m.ins \in {"71", "AF"} \cup InSession
  /\ m.ins = "71" => m.of \in Numbers
  /\ m.ins = "AF" => /\ m.body.text = <<m.body.text[1], m.body.text[2]>> /\ DrawnBy(m.body.text[1], f)
                     /\ m.body.text[2] = {} \/ TurnedBy(m.body.text[2], f)
  /\ m.ins \in InSession => m.mac.under # NoKeys /\ DrawnBy(m.mac.under[2], f) /\ m.mac.over[2] \in Nat
CommandsOK == \A m \in Commands : CommandOK(m, fresh)
Past == Working => \A m \in Commands : m.ins \in InSession /\ m.mac.under = ntag.keys => m.mac.over[2] <= ntag.ctr

\* What makes the card act on a command of a session.
Acts(m, s, c) ==
  /\ s.keys # NoKeys /\ m.mac = CmdMac(s, m.ins, m.of, m.body)
  /\ m.ins = "AD" => s.no \in {KeyRead, KeyWrite}
  /\ m.ins = "8D" => s.no = KeyWrite
  /\ m.ins = "C4" =>
       /\ s.no = KeyMaster
       /\ m.of # KeyMaster =>
            LET plain == Dec(s.keys, CmdIv(s), m.body) IN XorKeys(plain[1], c.keys[m.of]) = plain[2]
Harmless == \A m \in handled :
  /\ m.ins \in InSession => ~Acts(m, session, card)
  /\ m.ins = "AF" /\ session.pending.no # -1 => m.body.text[2] # Rotated(session.pending.rnd)

\* Answers: what they are made of, and what it means when one fits.
Answers == heard \cup (IF Here THEN {Resp} ELSE {})
AnswerOK(a, f) ==
  /\ a.st = "more" => a.body.text = <<a.body.text[1]>> /\ DrawnBy(a.body.text[1], f)
  /\ Len(a.body.text) = 2 => TurnedBy(a.body.text[2], f)
  /\ a.mac.under # NoKeys => DrawnBy(a.mac.under[2], f) /\ a.mac.over[2] \in Nat
AnswersOK == \A a \in Answers : AnswerOK(a, fresh)

PendingKnown ==
  /\ call.at = "part1" /\ Here /\ session.pending.no # -1 => \A a \in Answers :
       a.st = "more" /\ a.body.text[1] = session.pending.rnd => session.pending.no = call.of
  /\ call.at = "part2" /\ session.pending.no # -1 /\ call.rnd[2] = session.pending.rnd => session.pending.no = call.of
NumbersNew == call.at = "part2" =>
  /\ call.rnd = <<call.rnd[1], call.rnd[2]>> /\ DrawnBy(call.rnd[1], fresh)
  /\ call.rnd[2] = {} \/ DrawnBy(call.rnd[2], fresh)
  /\ \A m \in Commands : m.ins \in InSession => m.mac.under[2] # call.rnd[1]
  /\ \A a \in Answers : a.mac.under # NoKeys => a.mac.under[2] # call.rnd[1]
Opened(ti) ==
  /\ did /\ session.keys = <<call.key, call.rnd[1], call.rnd[2]>> /\ session.ti = ti /\ session.ctr = 0
  /\ session.no = call.of /\ card.keys[call.of] = call.key
ProofTold == call.at = "part2" => \A a \in Answers :
  a.st = "ok" /\ Len(a.body.text) = 2 /\ a.body.text[2] = Rotated(call.rnd[1]) => Opened(a.body.text[1])
MacTold == Working => \A a \in Answers : a.mac.under = ntag.keys =>
  \/ a.mac.over[2] <= ntag.ctr
  \/ /\ Acted /\ a.mac.over[2] = ntag.ctr + 1
     /\ a.body = IF call.op = "read" THEN Enc(ntag.keys, RespIv(CountedUp(ntag)), <<card.data>>) ELSE NoText

\* An answer that came as it was given, ...
HonestTold == honest /\ Here /\ Resp.st = "ok" =>
  /\ call.at = "same" => did
  /\ call.at = "diff" => did /\ Resp.mac # NoMac
\* ... and a session in which nothing went wrong.
Quiet == ~trouble =>
  /\ call.at = "part1" /\ Here =>
       /\ session.pending.no = call.of
       /\ Resp = Answer("more", Enc(LongTerm(card.keys[call.of]), ZeroIv, <<session.pending.rnd>>), NoMac)
  /\ call.at = "part2" /\ wire.at = "card" =>
       session.pending.no = call.of /\ (card.keys[call.of] = call.key => call.rnd[2] = session.pending.rnd)
  /\ call.at = "part2" /\ Here =>
       (did /\ Resp.st = "ok" /\ ProofHolds) \/ (~did /\ card.keys[call.of] # call.key)
  /\ call.at \in {"full", "same", "diff"} /\ Here =>
       \/ did /\ Resp.st = "ok" /\ (call.at # "same" => MacFits)
       \/ ~did /\ Resp.st = "error" /\ ~Promise!Works(card, Exchange)

SessionInv ==
  /\ CardOK(card) /\ ObjectOK(ntag, fresh) /\ SimOK(session, fresh) /\ CallOK /\ TurnOK /\ SentOK /\ Linked
  /\ CommandsOK /\ Past /\ Harmless /\ AnswersOK /\ PendingKnown /\ NumbersNew /\ ProofTold /\ MacTold
  /\ HonestTold /\ Quiet
-----------------------------------------------------------------------------

LEMMA KeyNumbers == KeyMaster \in Numbers /\ KeyRead \in Numbers /\ KeyWrite \in Numbers /\ -1 \notin Numbers
BY SessionAssumption DEF Numbers

\* Random numbers: those drawn differ from the next one, also when they are rotated.
LEMMA DrawnGrows ==
  ASSUME NEW x, NEW f \in Nat, NEW g \in Nat, f <= g
  PROVE  (DrawnBy(x, f) => DrawnBy(x, g)) /\ (TurnedBy(x, f) => TurnedBy(x, g))
BY DEF DrawnBy, TurnedBy

LEMMA RotatedRandom == ASSUME NEW n \in Nat PROVE Rotated(Random(n)) = {-n}
BY DEF Rotated, Random

LEMMA FreshIsDrawn ==
  ASSUME NEW f \in Nat \ {0}
  PROVE  DrawnBy(Random(f), f + 1) /\ TurnedBy(Rotated(Random(f)), f + 1)
BY DEF DrawnBy, TurnedBy

LEMMA FreshIsNew ==
  ASSUME NEW f \in Nat \ {0}, NEW x
  PROVE  /\ DrawnBy(x, f) => x # Random(f) /\ x # {}
         /\ x = {} \/ TurnedBy(x, f) => x # Rotated(Random(f))
<1>1. DrawnBy(x, f) => x # Random(f) /\ x # {}
  BY DEF DrawnBy, Random
<1>2. Rotated(Random(f)) = {-f}
  BY RotatedRandom
<1>3. ASSUME NEW n \in 1..(f - 1) PROVE Rotated(Random(n)) = {-n}
  BY RotatedRandom
<1>4. TurnedBy(x, f) => \E n \in 1..(f - 1) : x = {-n}
  BY <1>3 DEF TurnedBy
<1> QED
  BY <1>1, <1>2, <1>4

LEMMA RotatedApart ==
  ASSUME NEW f \in Nat, NEW x, NEW y, x = {} \/ DrawnBy(x, f), y = {} \/ DrawnBy(y, f)
  PROVE  /\ Rotated(x) = Rotated(y) => x = y
         /\ x = {} => Rotated(x) = {}
         /\ x # {} => TurnedBy(Rotated(x), f)
<1>1. Rotated({}) = {}
  BY DEF Rotated
<1>2. ASSUME NEW n \in 1..(f - 1) PROVE Rotated(Random(n)) = {-n}
  BY RotatedRandom
<1>3. x # {} => \E n \in 1..(f - 1) : x = Random(n) /\ Rotated(x) = {-n}
  BY <1>2 DEF DrawnBy
<1>4. y # {} => \E n \in 1..(f - 1) : y = Random(n) /\ Rotated(y) = {-n}
  BY <1>2 DEF DrawnBy
<1>5. Rotated(x) = Rotated(y) => x = y
  <2>1. ASSUME NEW n \in 1..(f - 1), NEW m \in 1..(f - 1), {-n} = {-m} PROVE n = m
    <3>1. -n = -m
      BY <2>1
    <3> QED
      BY <3>1
  <2>2. CASE x = {} \/ y = {}
    BY <1>1, <1>3, <1>4, <2>2
  <2>3. CASE x # {} /\ y # {}
    BY <1>3, <1>4, <2>1, <2>3
  <2> QED
    BY <2>2, <2>3
<1>6. x # {} => TurnedBy(Rotated(x), f)
  BY DEF DrawnBy, TurnedBy
<1> QED
  BY <1>1, <1>5, <1>6

\* What was drawn stays drawn.
LEMMA OKsGrow ==
  ASSUME NEW f \in Nat, NEW g \in Nat, f <= g, NEW x
  PROVE  /\ ObjectOK(x, f) => ObjectOK(x, g)
         /\ SimOK(x, f) => SimOK(x, g)
         /\ CommandOK(x, f) => CommandOK(x, g)
         /\ AnswerOK(x, f) => AnswerOK(x, g)
<1>1. ObjectOK(x, f) => ObjectOK(x, g)
  BY DrawnGrows DEF ObjectOK
<1>2. SimOK(x, f) => SimOK(x, g)
  BY DrawnGrows DEF SimOK
<1>3. CommandOK(x, f) => CommandOK(x, g)
  BY DrawnGrows DEF CommandOK
<1>4. AnswerOK(x, f) => AnswerOK(x, g)
  BY DrawnGrows DEF AnswerOK
<1> QED
  BY <1>1, <1>2, <1>3, <1>4

\* XOR twice is XOR never.
LEMMA XorTwice == ASSUME NEW a, NEW b, NEW c PROVE XorKeys(XorKeys(a, b), c) = a <=> b = c
BY DEF XorKeys
-----------------------------------------------------------------------------
LEMMA Starts == SessionInit => SessionInv
<1> SUFFICES ASSUME SessionInit PROVE SessionInv
  OBVIOUS
<1> USE DEF SessionInit
<1>1. CardOK(card)
  BY SessionAssumption DEF CardOK
<1>2. ObjectOK(ntag, fresh) /\ SimOK(session, fresh)
  BY DEF ObjectOK, SimOK, NewObject, NoSession, NoKeys
<1>3. CallOK
  BY DEF CallOK, Idle
<1>4. TurnOK
  <2>1. fresh \in Nat \ {0} /\ call.at = "idle" /\ wire.at = "nowhere" /\ told.how = "raised"
    BY DEF Idle, Nowhere, Told
  <2> QED
    BY <2>1, Zenon DEF TurnOK
<1>5. SentOK /\ HonestTold /\ Quiet
  BY DEF SentOK, HonestTold, Quiet, Here, Nowhere
<1>6. Linked /\ Past /\ MacTold
  BY DEF Linked, Past, MacTold, Working, NewObject, NoKeys
<1>7. CommandsOK /\ Harmless /\ AnswersOK
  BY DEF CommandsOK, Harmless, AnswersOK, Commands, Answers, Here, Nowhere
<1>8. PendingKnown /\ NumbersNew /\ ProofTold
  BY DEF PendingKnown, NumbersNew, ProofTold, Idle
<1> QED
  BY <1>1, <1>2, <1>3, <1>4, <1>5, <1>6, <1>7, <1>8 DEF SessionInv
-----------------------------------------------------------------------------
(* A method is called. *)
LEMMA NothingRuns == ASSUME SessionInv, told.how # "waiting" PROVE call.at = "idle" /\ wire.at = "nowhere" /\ ~Here /\ ~Acted
<1>1. call.at = "idle"
  <2>1. call.at = "idle" \/ told = Waiting
    BY DEF SessionInv, TurnOK
  <2> QED
    BY <2>1 DEF Waiting, Told
<1>2. wire.at = "nowhere"
  BY <1>1 DEF SessionInv, TurnOK
<1> QED
  BY <1>1, <1>2 DEF Here, Acted

\* What the beginnings have in common: nothing ran, and nothing happened yet.
Begun ==
  /\ told.how # "waiting" /\ GaveUp
  /\ UNCHANGED <<card, session, fresh, handled, heard, trouble>>
  /\ told' = Waiting /\ did' = FALSE /\ honest' = TRUE /\ call'.at # "idle" /\ call'.at # "part2"

LEMMA BeginKeeps ==
  ASSUME SessionInv, Begun,
         ObjectOK(ntag, fresh)', CallOK', SentOK', ntag' = ntag \/ ntag'.keys = NoKeys,
         \/ wire' = Nowhere /\ call'.at = "refused"
         \/ \E x : /\ wire' = [at |-> "card", msg |-> x] /\ call'.at # "refused" /\ CommandOK(x, fresh)
                   /\ ntag'.keys # NoKeys /\ x.ins \in InSession => x.mac.over[2] <= ntag.ctr
  PROVE  SessionInv'
<1>1. call.at = "idle" /\ wire.at = "nowhere" /\ ~Here /\ ~Acted
  BY NothingRuns DEF Begun
<1>2. /\ UNCHANGED <<card, session, fresh, handled, heard, trouble>>
      /\ told' = Waiting /\ did' = FALSE /\ honest' = TRUE
      /\ call'.at # "idle" /\ call'.at # "part2"
  BY DEF Begun
<1>3. CardOK(card)' /\ SimOK(session, fresh)'
  BY <1>2 DEF SessionInv
<1>4. wire'.at \in {"nowhere", "card"} /\ (wire'.at = "nowhere" <=> call'.at = "refused") /\ ~Here'
  <2>1. CASE wire' = Nowhere /\ call'.at = "refused"
    BY <2>1 DEF Nowhere, Here
  <2>2. CASE call'.at # "refused" /\ \E x : wire' = [at |-> "card", msg |-> x]
    BY <2>2 DEF Here
  <2> QED
    BY <2>1, <2>2
<1>5. TurnOK'
  <2>1. fresh' \in Nat \ {0} /\ trouble' \in BOOLEAN
    BY <1>2 DEF SessionInv, TurnOK
  <2> QED
    BY <1>2, <1>4, <2>1 DEF TurnOK
<1>6. Working' => Working /\ ntag' = ntag
  <2>1. told.how = "raised" => ntag.keys = NoKeys
    <3>1. GaveUp
      BY DEF Begun
    <3> QED
      BY <3>1 DEF GaveUp, NewObject
  <2> QED
    BY <2>1 DEF Working
<1>7. Linked'
  BY <1>1, <1>2, <1>6 DEF SessionInv, Linked, Acted
<1>8. ASSUME NEW m \in Commands'
      PROVE  m \in Commands \/ (CommandOK(m, fresh) /\ (ntag'.keys # NoKeys /\ m.ins \in InSession => m.mac.over[2] <= ntag.ctr))
  <2>1. m \in handled \/ (wire'.at = "card" /\ m = wire'.msg)
    BY <1>2 DEF Commands
  <2>2. CASE m \in handled
    BY <2>2 DEF Commands
  <2>3. CASE wire'.at = "card" /\ m = wire'.msg
    BY <2>3 DEF Nowhere
  <2> QED
    BY <2>1, <2>2, <2>3
<1>9. CommandsOK' /\ Past'
  BY <1>2, <1>6, <1>8 DEF SessionInv, CommandsOK, Past, Working
<1>10. Harmless'
  BY <1>2 DEF SessionInv, Harmless
<1>11. Answers' \subseteq Answers
  BY <1>2, <1>4 DEF Answers
<1>12. AnswersOK'
  BY <1>2, <1>11 DEF SessionInv, AnswersOK
<1>13. PendingKnown' /\ NumbersNew' /\ ProofTold' /\ HonestTold' /\ Quiet'
  BY <1>2, <1>4 DEF PendingKnown, NumbersNew, ProofTold, HonestTold, Quiet
<1>14. MacTold'
  BY <1>1, <1>6, <1>11 DEF SessionInv, MacTold
<1> QED
  BY <1>3, <1>5, <1>7, <1>9, <1>10, <1>12, <1>13, <1>14 DEF SessionInv

LEMMA CallsAreKnown ==
  ASSUME NEW c \in Calls
  PROVE  /\ c.op \in {"auth", "read", "write", "same", "diff"}
         /\ c.op \in {"auth", "same", "diff"} => c.of \in Numbers
BY SessionAssumption

LEMMA ObjectIsOK == ASSUME SessionInv PROVE ObjectOK(ntag, fresh) /\ fresh \in Nat \ {0}
BY DEF SessionInv, TurnOK

LEMMA AuthBegins == ASSUME SessionInv, NEW c \in Calls, AuthEv2(c) PROVE SessionInv'
<1>1. /\ call' = [op |-> "auth", of |-> c.of, key |-> c.key, old |-> c.old, new |-> c.new, rnd |-> <<>>,
                  at |-> "part1", by |-> c.of, byKey |-> c.key]
      /\ wire' = [at |-> "card", msg |-> Command("71", c.of, NoText, NoMac)] /\ ntag' = Reset(ntag) /\ fresh' = fresh
      /\ c.op = "auth"
  BY DEF AuthEv2, Begins, Send
<1>2. Begun
  <2>1. /\ told.how # "waiting" /\ GaveUp /\ UNCHANGED <<card, session, fresh, handled, heard, trouble>>
        /\ told' = Waiting /\ did' = FALSE /\ honest' = TRUE
    BY DEF AuthEv2, Begins
  <2> QED
    BY <1>1, <2>1 DEF Begun
<1>3. ObjectOK(ntag, fresh)' /\ ntag'.keys = NoKeys
  BY <1>1 DEF ObjectOK, Reset, NewObject
<1>4. CallOK'
  BY <1>1, <1>3, CallsAreKnown DEF CallOK
<1>5. SentOK'
  BY <1>1 DEF SentOK
<1>6. CommandOK(Command("71", c.of, NoText, NoMac), fresh)
  BY <1>1, CallsAreKnown DEF CommandOK, Command, InSession
<1> QED
  BY <1>1, <1>2, <1>3, <1>4, <1>5, <1>6, BeginKeeps

\* A command of a session.
LEMMA CommandIsOK ==
  ASSUME ObjectOK(ntag, fresh), ntag.keys # NoKeys, NEW ins, ins \in InSession, NEW of, NEW body
  PROVE  LET m == Command(ins, of, body, CmdMac(ntag, ins, of, body))
         IN  CommandOK(m, fresh) /\ m.mac.over[2] <= ntag.ctr
BY DEF ObjectOK, CommandOK, Command, CmdMac, InSession

LEMMA FullBegins == ASSUME SessionInv, NEW c \in Calls, Full(c) PROVE SessionInv'
<1>1. c.op \in {"read", "write"} /\ ntag.keys # NoKeys
  BY ObjectIsOK DEF Full, ObjectOK
<1>2. /\ call' = [op |-> c.op, of |-> c.of, key |-> c.key, old |-> c.old, new |-> c.new, rnd |-> <<>>,
                  at |-> "full", by |-> ntag.no, byKey |-> ntag.keys[1]]
      /\ ntag' = ntag /\ fresh' = fresh
  BY <1>1 DEF Full, Begins
<1>3. Begun
  BY <1>2 DEF Full, Begins, Begun
<1>4. ObjectOK(ntag, fresh)'
  BY <1>2, ObjectIsOK DEF ObjectOK
<1>5. CallOK'
  BY <1>1, <1>2, CallsAreKnown DEF CallOK
<1>6. wire' = [at |-> "card", msg |-> SentFull']
  BY <1>1, <1>2 DEF Full, Send, SentFull, CmdMac, CmdIv
<1>7. SentOK'
  BY <1>2, <1>6 DEF SentOK
<1>8. CommandOK(SentFull', fresh) /\ SentFull'.mac.over[2] <= ntag.ctr
  <2>1. /\ c.op = "read" => SentFull' = Command("AD", 3, NoText, CmdMac(ntag, "AD", 3, NoText))
        /\ c.op = "write" => LET body == Enc(ntag.keys, CmdIv(ntag), <<c.new>>)
                             IN  SentFull' = Command("8D", 3, body, CmdMac(ntag, "8D", 3, body))
    BY <1>2 DEF SentFull, CmdMac, CmdIv
  <2> QED
    BY <1>1, <2>1, ObjectIsOK, CommandIsOK DEF InSession
<1> QED
  BY <1>2, <1>3, <1>4, <1>5, <1>6, <1>7, <1>8, BeginKeeps

LEMMA SameBegins == ASSUME SessionInv, NEW c \in Calls, ChangeKeySame(c) PROVE SessionInv'
<1>1. c.op = "same" /\ ntag.keys # NoKeys /\ c.of = ntag.no
  BY DEF ChangeKeySame
<1>2. /\ call' = [op |-> "same", of |-> c.of, key |-> c.key, old |-> c.old, new |-> c.new, rnd |-> <<>>,
                  at |-> "same", by |-> ntag.no, byKey |-> ntag.keys[1]]
      /\ ntag' = ntag /\ fresh' = fresh
  BY <1>1 DEF ChangeKeySame, Begins
<1>3. Begun
  BY <1>2 DEF ChangeKeySame, Begins, Begun
<1>4. ObjectOK(ntag, fresh)'
  BY <1>2, ObjectIsOK DEF ObjectOK
<1>5. CallOK'
  BY <1>1, <1>2, CallsAreKnown DEF CallOK
<1>6. wire' = [at |-> "card", msg |-> SentChange(<<call.new>>)']
  BY <1>1, <1>2 DEF ChangeKeySame, Send, SentChange, CmdMac, CmdIv
<1>7. SentOK'
  BY <1>2, <1>6 DEF SentOK
<1>8. LET body == Enc(ntag.keys, CmdIv(ntag), <<c.new>>)
      IN  wire'.msg = Command("C4", c.of, body, CmdMac(ntag, "C4", c.of, body))
  BY <1>2 DEF ChangeKeySame, Send
<1>9. CommandOK(wire'.msg, fresh) /\ wire'.msg.mac.over[2] <= ntag.ctr
  BY <1>1, <1>8, ObjectIsOK, CommandIsOK DEF InSession
<1> QED
  BY <1>2, <1>3, <1>4, <1>5, <1>6, <1>7, <1>9, BeginKeeps

LEMMA DiffBegins == ASSUME SessionInv, NEW c \in Calls, ChangeKeyDiff(c) PROVE SessionInv'
<1>1. c.op = "diff" /\ ntag.keys # NoKeys /\ c.of # ntag.no
  BY DEF ChangeKeyDiff
<1>2. /\ call' = [op |-> "diff", of |-> c.of, key |-> c.key, old |-> c.old, new |-> c.new, rnd |-> <<>>,
                  at |-> "diff", by |-> ntag.no, byKey |-> ntag.keys[1]]
      /\ ntag' = ntag /\ fresh' = fresh
  BY <1>1 DEF ChangeKeyDiff, Begins
<1>3. Begun
  BY <1>2 DEF ChangeKeyDiff, Begins, Begun
<1>4. ObjectOK(ntag, fresh)'
  BY <1>2, ObjectIsOK DEF ObjectOK
<1>5. CallOK'
  BY <1>1, <1>2, CallsAreKnown DEF CallOK
<1>6. wire' = [at |-> "card", msg |-> SentChange(<<XorKeys(call.new, call.old), call.new>>)']
  BY <1>1, <1>2 DEF ChangeKeyDiff, Send, SentChange, CmdMac, CmdIv
<1>7. SentOK'
  BY <1>2, <1>6 DEF SentOK
<1>8. LET body == Enc(ntag.keys, CmdIv(ntag), <<XorKeys(c.new, c.old), c.new>>)
      IN  wire'.msg = Command("C4", c.of, body, CmdMac(ntag, "C4", c.of, body))
  BY <1>2 DEF ChangeKeyDiff, Send
<1>9. CommandOK(wire'.msg, fresh) /\ wire'.msg.mac.over[2] <= ntag.ctr
  BY <1>1, <1>8, ObjectIsOK, CommandIsOK DEF InSession
<1> QED
  BY <1>2, <1>3, <1>4, <1>5, <1>6, <1>7, <1>9, BeginKeeps

LEMMA RefusalBegins == ASSUME SessionInv, NEW c \in Calls, RefusesCall(c) PROVE SessionInv'
<1>1. /\ call' = [op |-> c.op, of |-> c.of, key |-> c.key, old |-> c.old, new |-> c.new, rnd |-> <<>>,
                  at |-> "refused", by |-> IF ntag.keys = NoKeys THEN -1 ELSE ntag.no,
                  byKey |-> IF ntag.keys = NoKeys THEN {} ELSE ntag.keys[1]]
      /\ ntag' = ntag /\ fresh' = fresh /\ card' = card /\ wire' = Nowhere
      /\ c.op \in {"read", "write", "same", "diff"}
  BY DEF RefusesCall, Begins
<1>2. Begun
  BY <1>1 DEF RefusesCall, Begins, Begun
<1>3. ObjectOK(ntag, fresh)'
  BY <1>1, ObjectIsOK DEF ObjectOK
<1>4. ~Promise!Works(card, Exchange)'
  <2>1. /\ Exchange'.op = c.op /\ Exchange'.of = c.of
        /\ Exchange'.no = IF ntag.keys = NoKeys THEN -1 ELSE ntag.no
    BY <1>1 DEF Exchange
  <2>2. -1 \notin DOMAIN card.keys
    BY KeyNumbers DEF SessionInv, CardOK
  <2>3. CASE ntag.keys = NoKeys
    BY <1>1, <2>1, <2>2, <2>3 DEF Promise!Works
  <2>4. CASE ntag.keys # NoKeys
    <3>1. (c.op = "same" /\ c.of # ntag.no) \/ (c.op = "diff" /\ c.of = ntag.no)
      BY <2>4, ObjectIsOK DEF RefusesCall, ObjectOK
    <3> QED
      BY <1>1, <2>1, <2>4, <3>1 DEF Promise!Works
  <2> QED
    BY <2>3, <2>4
<1>5. CallOK'
  BY <1>1, <1>4, CallsAreKnown DEF CallOK
<1>6. SentOK'
  BY <1>1 DEF SentOK, Nowhere
<1> QED
  BY <1>1, <1>2, <1>3, <1>5, <1>6, BeginKeeps
-----------------------------------------------------------------------------
(* A method returns or raises. *)

\* What the returns have in common.
Returned ==
  /\ UNCHANGED <<card, session, fresh, did, honest>> /\ call' = Idle /\ wire' = Nowhere
  /\ told'.how \in {"done", "raised"} /\ trouble' \in BOOLEAN /\ handled' \subseteq handled /\ heard' \subseteq heard

LEMMA ReturnKeeps ==
  ASSUME SessionInv, Returned, ObjectOK(ntag, fresh)', Linked', Past', MacTold'
  PROVE  SessionInv'
<1>1. /\ UNCHANGED <<card, session, fresh, did, honest>> /\ call' = Idle /\ wire' = Nowhere
      /\ told'.how \in {"done", "raised"} /\ trouble' \in BOOLEAN /\ handled' \subseteq handled /\ heard' \subseteq heard
  BY DEF Returned
<1>2. call'.at = "idle" /\ wire'.at = "nowhere" /\ ~Here'
  BY <1>1 DEF Idle, Nowhere, Here
<1>3. CardOK(card)' /\ SimOK(session, fresh)'
  BY <1>1 DEF SessionInv
<1>4. CallOK'
  BY <1>1 DEF CallOK, Idle
<1>5. TurnOK'
  <2>1. fresh' \in Nat \ {0} /\ did' \in BOOLEAN /\ honest' \in BOOLEAN
    BY <1>1 DEF SessionInv, TurnOK
  <2> QED
    BY <1>1, <1>2, <2>1 DEF TurnOK
<1>6. Commands' \subseteq Commands /\ Answers' \subseteq Answers
  BY <1>1, <1>2 DEF Commands, Answers
<1>7. CommandsOK' /\ AnswersOK' /\ Harmless'
  BY <1>1, <1>6 DEF SessionInv, CommandsOK, AnswersOK, Harmless
<1>8. SentOK' /\ PendingKnown' /\ NumbersNew' /\ ProofTold' /\ HonestTold' /\ Quiet'
  BY <1>2 DEF SentOK, PendingKnown, NumbersNew, ProofTold, HonestTold, Quiet
<1> QED
  BY <1>3, <1>4, <1>5, <1>7, <1>8 DEF SessionInv

\* Without a session, or once a method raised, nothing more is said.
LEMMA EndKeeps ==
  ASSUME SessionInv, Returned, ObjectOK(ntag, fresh)', told'.how = "raised" \/ ntag'.keys = NoKeys
  PROVE  SessionInv'
<1>1. ~Working'
  BY DEF Working
<1> QED
  BY <1>1, ReturnKeeps DEF Linked, Past, MacTold

LEMMA RaiseReturns ==
  ASSUME SessionInv, Raise, UNCHANGED <<card, session, fresh, did, honest>>, handled' \subseteq handled,
         heard' \subseteq heard, trouble' \in BOOLEAN
  PROVE  Returned /\ told'.how = "raised"
BY DEF Raise, Return, Returned, Told

LEMMA TroubleIsBool == ASSUME SessionInv PROVE trouble \in BOOLEAN
BY DEF SessionInv, TurnOK

LEMMA AuthFailsKeeps == ASSUME SessionInv, AuthFails PROVE SessionInv'
<1>1. Returned /\ told'.how = "raised"
  BY RaiseReturns, TroubleIsBool DEF AuthFails, cardVars, faultVars
<1>2. ObjectOK(ntag, fresh)'
  BY ObjectIsOK DEF AuthFails, ObjectOK
<1> QED
  BY <1>1, <1>2, EndKeeps

LEMMA CommandFailsKeeps == ASSUME SessionInv, CommandFails \/ Refuses PROVE SessionInv'
<1>1. Returned /\ told'.how = "raised"
  BY RaiseReturns, TroubleIsBool DEF CommandFails, Refuses, cardVars, faultVars
<1>2. ObjectOK(ntag, fresh)'
  BY ObjectIsOK DEF CommandFails, Refuses, ObjectOK
<1> QED
  BY <1>1, <1>2, EndKeeps

LEMMA LoseKeeps == ASSUME SessionInv, Lose PROVE SessionInv'
<1>1. Returned /\ told'.how = "raised"
  BY RaiseReturns DEF Lose, Fault
<1>2. ObjectOK(ntag, fresh)'
  BY ObjectIsOK DEF Lose, ObjectOK
<1> QED
  BY <1>1, <1>2, EndKeeps

LEMMA SameDoneKeeps == ASSUME SessionInv, SameDone PROVE SessionInv'
<1>1. Returned
  BY TroubleIsBool DEF SameDone, Return, Returned, Told, cardVars, faultVars
<1>2. ObjectOK(ntag, fresh)' /\ ntag'.keys = NoKeys
  BY ObjectIsOK DEF SameDone, Reset, NewObject, ObjectOK
<1> QED
  BY <1>1, <1>2, EndKeeps

LEMMA ReconnectKeeps == ASSUME SessionInv, Reconnect PROVE SessionInv'
<1>1. call.at = "idle" /\ wire.at = "nowhere" /\ ~Here
  BY NothingRuns DEF Reconnect
<1>2. /\ UNCHANGED <<call, wire, card, fresh, handled, heard, did, told, honest, trouble>>
      /\ ntag' = NewObject /\ session' \in {session, NoSession}
  BY DEF Reconnect, faultVars
<1>3. CardOK(card)' /\ ObjectOK(ntag, fresh)' /\ SimOK(session, fresh)'
  <2>1. SimOK(NoSession, fresh)
    BY DEF SimOK, NoSession
  <2>2. ObjectOK(NewObject, fresh)
    BY DEF ObjectOK, NewObject
  <2> QED
    BY <1>2, <2>1, <2>2 DEF SessionInv
<1>4. CallOK'
  <2>1. call.op = "none" /\ call'.at = "idle"
    BY <1>1, <1>2 DEF SessionInv, CallOK
  <2> QED
    BY <1>2, <2>1 DEF SessionInv, CallOK
<1>5. TurnOK'
  BY <1>2 DEF SessionInv, TurnOK
<1>6. Linked' /\ Past' /\ MacTold'
  BY <1>2 DEF Linked, Past, MacTold, Working, NewObject
<1>7. Commands' = Commands /\ Answers' = Answers /\ ~Here'
  BY <1>1, <1>2 DEF Commands, Answers, Here
<1>8. CommandsOK' /\ AnswersOK'
  BY <1>2, <1>7 DEF SessionInv, CommandsOK, AnswersOK
<1>9. Harmless'
  <2>1. CASE session' = session
    BY <1>2, <2>1 DEF SessionInv, Harmless
  <2>2. CASE session' = NoSession
    BY <2>2 DEF Harmless, Acts, NoSession
  <2> QED
    BY <1>2, <2>1, <2>2
<1>10. SentOK' /\ PendingKnown' /\ NumbersNew' /\ ProofTold' /\ HonestTold' /\ Quiet'
  BY <1>1, <1>2, <1>7 DEF SentOK, PendingKnown, NumbersNew, ProofTold, HonestTold, Quiet
<1> QED
  BY <1>3, <1>4, <1>5, <1>6, <1>8, <1>9, <1>10 DEF SessionInv

\* The proof is right: the card opened this session.
LEMMA AuthDoneKeeps == ASSUME SessionInv, AuthDone PROVE SessionInv'
<1>1. /\ Here /\ call.at = "part2" /\ Resp.st = "ok" /\ Len(Proof) = 2 /\ Proof[2] = Rotated(call.rnd[1])
      /\ ntag' = [keys |-> <<call.key, call.rnd[1], call.rnd[2]>>, ti |-> Proof[1], ctr |-> 0,
                  authenticated |-> TRUE, no |-> call.of]
  BY DEF AuthDone, ProofHolds
<1>2. Returned /\ trouble' = FALSE
  BY DEF AuthDone, Return, Returned, Told, cardVars
<1>3. Proof = Resp.body.text
  <2>1. Proof = Resp.body.text \/ Proof = <<>>
    BY DEF Proof, Dec, Garbage
  <2>2. Len(<<>>) = 0
    OBVIOUS
  <2>3. Len(Proof) = 2
    BY <1>1
  <2>4. Proof # <<>>
    BY <2>2, <2>3
  <2> QED
    BY <2>1, <2>4
<1>4. Resp \in Answers
  BY <1>1 DEF Answers
<1>5. Opened(Proof[1])
  BY <1>1, <1>3, <1>4 DEF SessionInv, ProofTold
<1>6. /\ DrawnBy(call.rnd[1], fresh)
      /\ \A m \in Commands : m.ins \in InSession => m.mac.under[2] # call.rnd[1]
      /\ \A a \in Answers : a.mac.under # NoKeys => a.mac.under[2] # call.rnd[1]
  BY <1>1 DEF SessionInv, NumbersNew
<1>7. call.of \in Numbers
  BY <1>1 DEF SessionInv, CallOK
<1>8. ntag'.keys # NoKeys /\ ntag'.keys[2] = call.rnd[1] /\ ntag'.keys[1] = call.key
  BY <1>1 DEF NoKeys
<1>9. ObjectOK(ntag, fresh)'
  BY <1>1, <1>2, <1>6, <1>7, <1>8 DEF ObjectOK, Returned
<1>10. call' = Idle /\ UNCHANGED <<session, card>> /\ Commands' \subseteq Commands /\ Answers' \subseteq Answers
  BY <1>2 DEF Returned, Commands, Answers, Nowhere, Here
<1>11. ~Acted'
  BY <1>10 DEF Acted, Idle
<1>12. Linked'
  <2>1. /\ ntag'.keys = <<call.key, call.rnd[1], call.rnd[2]>> /\ ntag'.ti = Proof[1] /\ ntag'.ctr = 0
        /\ ntag'.no = call.of
    BY <1>1
  <2>2. /\ session.keys = ntag'.keys /\ session.ti = ntag'.ti /\ session.no = ntag'.no
        /\ card.keys[ntag'.no] = ntag'.keys[1] /\ session.ctr = ntag'.ctr /\ session.ctr = 0
    BY <1>5, <1>8, <2>1 DEF Opened
  <2>3. session' = session /\ card' = card /\ session'.ctr <= ntag'.ctr
    BY <1>10, <2>1, <2>2
  <2> QED
    BY <1>11, <2>2, <2>3 DEF Linked
<1>13. Past'
  BY <1>6, <1>8, <1>10 DEF Past
<1>14. MacTold'
  BY <1>6, <1>8, <1>10 DEF MacTold
<1> QED
  BY <1>2, <1>9, <1>12, <1>13, <1>14, ReturnKeeps

LEMMA SessionRuns ==
  ASSUME SessionInv, call.at \in {"full", "same", "diff"}
  PROVE  Working /\ ntag.keys # NoKeys /\ told = Waiting
<1>1. ntag.keys # NoKeys /\ told = Waiting
  BY DEF SessionInv, CallOK, TurnOK
<1> QED
  BY <1>1 DEF Working, Waiting, Told

LEMMA CountedIsOK == ASSUME SessionInv, ntag' = CountedUp(ntag), fresh' = fresh PROVE ObjectOK(ntag, fresh)'
<1>1. /\ ntag'.keys = ntag.keys /\ ntag'.ti = ntag.ti /\ ntag'.ctr = ntag.ctr + 1
      /\ ntag'.authenticated = ntag.authenticated /\ ntag'.no = ntag.no
      /\ ntag' = [keys |-> ntag'.keys, ti |-> ntag'.ti, ctr |-> ntag'.ctr, authenticated |-> ntag'.authenticated,
                  no |-> ntag'.no]
  BY ObjectIsOK DEF CountedUp, ObjectOK
<1> QED
  BY <1>1, ObjectIsOK DEF ObjectOK

\* A command was answered with "ok" and counted.
LEMMA CountedKeeps ==
  ASSUME SessionInv, call.at \in {"full", "diff"}, Returned, ntag' = CountedUp(ntag), trouble' = trouble,
         did \/ trouble
  PROVE  SessionInv'
<1>1. Working /\ ntag.keys # NoKeys
  BY SessionRuns
<1>2. ObjectOK(ntag, fresh)'
  BY CountedIsOK DEF Returned
<1>3. /\ ntag'.keys = ntag.keys /\ ntag'.ti = ntag.ti /\ ntag'.ctr = ntag.ctr + 1 /\ ntag'.no = ntag.no
      /\ ntag.ctr \in Nat
  BY ObjectIsOK DEF CountedUp, ObjectOK
<1>4. call' = Idle /\ UNCHANGED <<session, card>> /\ Commands' \subseteq Commands /\ Answers' \subseteq Answers
  BY DEF Returned, Commands, Answers, Nowhere, Here
<1>5. ~Acted'
  BY <1>4 DEF Acted, Idle
<1>6. session.ctr \in Nat
  BY DEF SessionInv, SimOK
<1>7. /\ session.keys = ntag.keys /\ session.ti = ntag.ti /\ session.no = ntag.no
      /\ card.keys[ntag.no] = ntag.keys[1]
      /\ Acted => session.ctr = ntag.ctr + 1
      /\ ~Acted => session.ctr <= ntag.ctr
  BY <1>1 DEF SessionInv, Linked
<1>8. Acted \/ trouble
  BY DEF Acted
<1>9. Linked'
  BY <1>3, <1>4, <1>5, <1>6, <1>7, <1>8 DEF Linked
<1>10. Past'
  <2>1. ASSUME NEW m \in Commands, m.ins \in InSession PROVE m.mac.over[2] \in Nat
    BY <2>1 DEF SessionInv, CommandsOK, CommandOK
  <2> QED
    BY <1>1, <1>3, <1>4, <2>1 DEF SessionInv, Past
<1>11. MacTold'
  <2>1. ASSUME NEW a \in Answers, a.mac.under = ntag.keys PROVE a.mac.over[2] \in Nat
    BY <1>1, <2>1 DEF SessionInv, AnswersOK, AnswerOK
  <2>2. ASSUME NEW a \in Answers, a.mac.under = ntag.keys PROVE a.mac.over[2] <= ntag.ctr \/ a.mac.over[2] = ntag.ctr + 1
    BY <1>1, <2>2 DEF SessionInv, MacTold
  <2> QED
    BY <1>3, <1>4, <2>1, <2>2 DEF MacTold
<1> QED
  BY <1>2, <1>9, <1>10, <1>11, ReturnKeeps

\* A MAC that fits says that the card did it.
LEMMA FitMeansDone ==
  ASSUME SessionInv, call.at \in {"full", "diff"}, Here, MacFits
  PROVE  /\ did
         /\ Resp.body = IF call.op = "read" THEN Enc(ntag.keys, RespIv(CountedUp(ntag)), <<card.data>>) ELSE NoText
<1>1. Working /\ Resp \in Answers
  BY SessionRuns DEF Answers
<1>2. Resp.mac.under = ntag.keys /\ Resp.mac.over[2] = ntag.ctr + 1 /\ ntag.ctr \in Nat
  BY ObjectIsOK DEF MacFits, RespMac, CountedUp, ObjectOK
<1>3. ~(Resp.mac.over[2] <= ntag.ctr)
  BY <1>2
<1> QED
  BY <1>1, <1>2, <1>3 DEF SessionInv, MacTold, Acted

LEMMA FullDoneKeeps == ASSUME SessionInv, FullDone PROVE SessionInv'
<1>1. /\ Here /\ call.at = "full" /\ ntag' = CountedUp(ntag)
      /\ Returned /\ (MacFits \/ told'.how = "raised") /\ trouble' = trouble
  BY TroubleIsBool DEF FullDone, Raise, Return, Returned, Told, cardVars, faultVars
<1>2. CASE MacFits
  BY <1>1, <1>2, FitMeansDone, CountedKeeps
<1>3. CASE told'.how = "raised"
  BY <1>1, <1>3, CountedIsOK, EndKeeps DEF Returned
<1> QED
  BY <1>1, <1>2, <1>3

\* An answer to a key change that is believed without a MAC is the card's, or something
\* else went wrong.
LEMMA DiffBelieved ==
  ASSUME SessionInv, Here, call.at = "diff", Resp.st = "ok", Resp.mac = NoMac \/ MacFits
  PROVE  did \/ (~honest /\ trouble)
<1>1. CASE MacFits
  BY <1>1, FitMeansDone
<1>2. CASE Resp.mac = NoMac /\ honest
  BY <1>2 DEF SessionInv, HonestTold
<1>3. CASE ~honest
  BY <1>3 DEF SessionInv, TurnOK
<1> QED
  BY <1>1, <1>2, <1>3

LEMMA DiffDoneKeeps == ASSUME SessionInv, DiffDone PROVE SessionInv'
<1>1. /\ Here /\ call.at = "diff" /\ Resp.st = "ok" /\ ntag' = CountedUp(ntag)
      /\ Returned /\ (Resp.mac = NoMac \/ MacFits \/ told'.how = "raised") /\ trouble' = trouble
  BY TroubleIsBool DEF DiffDone, Raise, Return, Returned, Told, cardVars, faultVars
<1>2. CASE Resp.mac = NoMac \/ MacFits
  BY <1>1, <1>2, DiffBelieved, CountedKeeps
<1>3. CASE told'.how = "raised"
  BY <1>1, <1>3, CountedIsOK, EndKeeps DEF Returned
<1> QED
  BY <1>1, <1>2, <1>3
-----------------------------------------------------------------------------
(* The reader answers the card's random number with its own. *)
\* The second command of an authentication.
SentAuth2(rndA, rndB) == Command("AF", -1, Enc(LongTerm(call.key), ZeroIv, <<rndA, Rotated(rndB)>>), NoMac)

LEMMA AuthPart2Sends ==
  ASSUME SessionInv, AuthPart2
  PROVE  \E rndB :
    /\ call' = [op |-> call.op, of |-> call.of, key |-> call.key, old |-> call.old, new |-> call.new,
             rnd |-> <<Random(fresh), rndB>>, at |-> "part2", by |-> call.by, byKey |-> call.byKey]
    /\ wire' = [at |-> "card", msg |-> SentAuth2(Random(fresh), rndB)]
    /\ rndB = {} \/ (DrawnBy(rndB, fresh) /\ rndB = Resp.body.text[1])
    /\ Resp.body = Enc(LongTerm(call.key), ZeroIv, <<session.pending.rnd>>) => rndB = session.pending.rnd
<1> DEFINE plain == Dec(LongTerm(call.key), ZeroIv, Resp.body)
           rndB  == IF plain = Garbage THEN {} ELSE plain[1]
<1>1. /\ call' = [op |-> call.op, of |-> call.of, key |-> call.key, old |-> call.old, new |-> call.new,
               rnd |-> <<Random(fresh), rndB>>, at |-> "part2", by |-> call.by, byKey |-> call.byKey]
      /\ wire' = [at |-> "card", msg |-> SentAuth2(Random(fresh), rndB)]
      /\ Here /\ Resp.st = "more"
  <2>1. call = [op |-> call.op, of |-> call.of, key |-> call.key, old |-> call.old, new |-> call.new, rnd |-> call.rnd,
                at |-> call.at, by |-> call.by, byKey |-> call.byKey]
    BY DEF SessionInv, CallOK
  <2> QED
    BY <2>1 DEF AuthPart2, Send, SentAuth2
<1>2. DrawnBy(Resp.body.text[1], fresh)
  BY <1>1 DEF SessionInv, AnswersOK, Answers, AnswerOK
<1>3. plain = Garbage \/ plain = Resp.body.text
  BY DEF Dec
<1>4. rndB = {} \/ (DrawnBy(rndB, fresh) /\ rndB = Resp.body.text[1])
  BY <1>2, <1>3
<1>5. ASSUME Resp.body = Enc(LongTerm(call.key), ZeroIv, <<session.pending.rnd>>) PROVE rndB = session.pending.rnd
  <2>1. plain = <<session.pending.rnd>>
    BY <1>5 DEF Dec, Enc
  <2>2. plain # Garbage
    BY <2>1 DEF Garbage
  <2> QED
    BY <2>1, <2>2
<1> HIDE DEF rndB
<1> QED
  BY <1>1, <1>4, <1>5

LEMMA AuthPart2Keeps == ASSUME SessionInv, AuthPart2 PROVE SessionInv'
<1>1. /\ Here /\ call.at = "part1" /\ Resp.st = "more" /\ fresh' = fresh + 1
      /\ UNCHANGED <<ntag, count, told, card, session, handled, heard, did, honest, trouble>>
  BY DEF AuthPart2, cardVars, faultVars
<1>2. PICK rndB :
        /\ call' = [op |-> call.op, of |-> call.of, key |-> call.key, old |-> call.old, new |-> call.new,
                 rnd |-> <<Random(fresh), rndB>>, at |-> "part2", by |-> call.by, byKey |-> call.byKey]
        /\ wire' = [at |-> "card", msg |-> SentAuth2(Random(fresh), rndB)]
        /\ rndB = {} \/ (DrawnBy(rndB, fresh) /\ rndB = Resp.body.text[1])
        /\ Resp.body = Enc(LongTerm(call.key), ZeroIv, <<session.pending.rnd>>) => rndB = session.pending.rnd
  BY AuthPart2Sends
<1>3. fresh \in Nat \ {0} /\ fresh' \in Nat \ {0} /\ fresh <= fresh'
  BY <1>1, ObjectIsOK
<1>4. /\ call'.at = "part2" /\ call'.rnd = <<Random(fresh), rndB>> /\ call'.op = "auth" /\ call'.of = call.of
      /\ call'.key = call.key /\ call'.by = call.of /\ call'.byKey = call.key /\ call.of \in Numbers
      /\ call' = [op |-> call'.op, of |-> call'.of, key |-> call'.key, old |-> call'.old, new |-> call'.new,
                  rnd |-> call'.rnd, at |-> call'.at, by |-> call'.by, byKey |-> call'.byKey]
      /\ ntag.keys = NoKeys /\ call.op = "auth"
  BY <1>1, <1>2 DEF SessionInv, CallOK
<1>5. wire'.at = "card" /\ ~Here' /\ wire'.msg.ins = "AF"
      /\ wire'.msg.body.text = <<Random(fresh), Rotated(rndB)>>
  BY <1>2 DEF Here, Command, Enc, SentAuth2
<1>6. CardOK(card)' /\ ObjectOK(ntag, fresh)' /\ SimOK(session, fresh)'
  BY <1>1, <1>3, OKsGrow DEF SessionInv
<1>7. CallOK'
  BY <1>1, <1>4 DEF CallOK
<1>8. TurnOK'
  <2>1. told = Waiting /\ ~did /\ did \in BOOLEAN /\ honest \in BOOLEAN /\ trouble \in BOOLEAN /\ (~honest => trouble)
    BY <1>1 DEF SessionInv, TurnOK
  <2>2. told' = Waiting /\ ~did' /\ did' \in BOOLEAN /\ honest' \in BOOLEAN /\ trouble' \in BOOLEAN /\ (~honest' => trouble')
    BY <1>1, <2>1
  <2>3. call'.at # "idle" /\ call'.at # "refused" /\ wire'.at = "card"
    BY <1>4, <1>5
  <2> QED
    BY <1>2, <1>3, <2>2, <2>3 DEF TurnOK
<1>9. SentOK'
  BY <1>2, <1>4 DEF SentOK, SentAuth2
<1>10. Linked' /\ Past' /\ MacTold'
  BY <1>1, <1>4 DEF Linked, Past, MacTold, Working
<1>11. Commands' = handled \cup {wire'.msg} /\ Answers' \subseteq Answers /\ handled \subseteq Commands
  BY <1>1, <1>5 DEF Commands, Answers
<1>12. DrawnBy(Random(fresh), fresh')
  BY <1>1, <1>3, FreshIsDrawn
<1>13. rndB = {} \/ DrawnBy(rndB, fresh')
  BY <1>2, <1>3, DrawnGrows
<1>14. CommandOK(wire'.msg, fresh')
  <2>1. Rotated(rndB) = {} \/ TurnedBy(Rotated(rndB), fresh')
    BY <1>3, <1>13, RotatedApart
  <2> QED
    BY <1>5, <1>12, <2>1 DEF CommandOK, InSession
<1>15. CommandsOK'
  BY <1>3, <1>11, <1>14, OKsGrow DEF SessionInv, CommandsOK
<1>16. Harmless'
  BY <1>1 DEF SessionInv, Harmless
<1>17. AnswersOK'
  BY <1>3, <1>11, OKsGrow DEF SessionInv, AnswersOK
<1>18. PendingKnown'
  <2>1. ASSUME session.pending.no # -1, rndB = session.pending.rnd PROVE session.pending.no = call.of
    <3>1. DrawnBy(session.pending.rnd, fresh)
      BY <2>1 DEF SessionInv, SimOK
    <3>2. rndB # {}
      BY <1>3, <2>1, <3>1, FreshIsNew
    <3>3. rndB = Resp.body.text[1] /\ Resp \in Answers
      BY <1>1, <1>2, <3>2 DEF Answers
    <3> QED
      BY <1>1, <2>1, <3>3 DEF SessionInv, PendingKnown
  <2> QED
    BY <1>1, <1>4, <2>1 DEF PendingKnown
<1>19. NumbersNew'
  <2>1. ASSUME NEW m \in Commands', m.ins \in InSession PROVE m.mac.under[2] # Random(fresh)
    <3>1. m \in Commands
      BY <1>5, <1>11, <2>1 DEF InSession
    <3>2. DrawnBy(m.mac.under[2], fresh)
      BY <2>1, <3>1 DEF SessionInv, CommandsOK, CommandOK
    <3> QED
      BY <1>3, <3>2, FreshIsNew
  <2>2. ASSUME NEW a \in Answers', a.mac.under # NoKeys PROVE a.mac.under[2] # Random(fresh)
    <3>1. DrawnBy(a.mac.under[2], fresh)
      BY <1>11, <2>2 DEF SessionInv, AnswersOK, AnswerOK
    <3> QED
      BY <1>3, <3>1, FreshIsNew
  <2> QED
    BY <1>4, <1>12, <1>13, <2>1, <2>2 DEF NumbersNew
<1>20. ProofTold'
  <2>1. ASSUME NEW a \in Answers', Len(a.body.text) = 2 PROVE a.body.text[2] # Rotated(Random(fresh))
    <3>1. TurnedBy(a.body.text[2], fresh)
      BY <1>11, <2>1 DEF SessionInv, AnswersOK, AnswerOK
    <3> QED
      BY <1>3, <3>1, FreshIsNew
  <2> QED
    BY <1>4, <2>1 DEF ProofTold
<1>21. HonestTold'
  BY <1>5 DEF HonestTold
<1>22. Quiet'
  <2>1. ASSUME ~trouble
        PROVE  session.pending.no = call.of /\ (card.keys[call.of] = call.key => rndB = session.pending.rnd)
    <3>1. /\ session.pending.no = call.of
          /\ Resp.body = Enc(LongTerm(card.keys[call.of]), ZeroIv, <<session.pending.rnd>>)
      BY <1>1, <2>1 DEF SessionInv, Quiet, Answer
    <3>2. card.keys[call.of] = call.key => Resp.body = Enc(LongTerm(call.key), ZeroIv, <<session.pending.rnd>>)
      BY <3>1
    <3> QED
      BY <1>2, <3>1, <3>2
  <2> QED
    BY <1>1, <1>4, <1>5, <2>1 DEF Quiet
<1> QED
  BY <1>6, <1>7, <1>8, <1>9, <1>10, <1>15, <1>16, <1>17, <1>18, <1>19, <1>20, <1>21, <1>22 DEF SessionInv
-----------------------------------------------------------------------------
(* What the card makes of a command. *)

\* A command of a session that does not fit it is refused.
LEMMA Ignored ==
  ASSUME NEW m, m.ins \in InSession, ~Acts(m, session, card)
  PROVE  Dispatch(m) = Refusal(session)
<1>1. CASE m.ins = "AD"
  <2>1. Dispatch(m) = OnRead(m)
    BY <1>1 DEF Dispatch
  <2> QED
    BY <1>1, <2>1 DEF OnRead, MacRight, Acts
<1>2. CASE m.ins = "8D"
  <2>1. Dispatch(m) = OnWrite(m)
    BY <1>2 DEF Dispatch
  <2> QED
    BY <1>2, <2>1 DEF OnWrite, MacRight, Acts
<1>3. CASE m.ins = "C4"
  <2>1. Dispatch(m) = OnChangeKey(m)
    BY <1>3 DEF Dispatch
  <2>2. CASE ~MacRight(m) \/ session.no # KeyMaster
    BY <2>1, <2>2 DEF OnChangeKey
  <2>3. CASE MacRight(m) /\ session.no = KeyMaster
    <3>1. m.of # KeyMaster /\ XorKeys(Plain(m)[1], card.keys[m.of]) # Plain(m)[2]
      BY <1>3, <2>3 DEF Acts, MacRight, Plain
    <3> QED
      BY <2>1, <2>3, <3>1 DEF OnChangeKey
  <2> QED
    BY <2>2, <2>3
<1> QED
  BY <1>1, <1>2, <1>3 DEF InSession

\* The second half of an authentication that is not the one begun.
LEMMA StaleProof ==
  ASSUME NEW m, m.ins = "AF", session.pending.no # -1, m.body.text[2] # Rotated(session.pending.rnd)
  PROVE  Dispatch(m) = Refusal(NotPending(session))
<1> DEFINE plain == Dec(LongTerm(card.keys[session.pending.no]), ZeroIv, m.body)
<1>1. Dispatch(m) = OnAuth2(m)
  BY DEF Dispatch
<1>2. plain = m.body.text \/ plain = <<>>
  BY DEF Dec, Garbage
<1>3. Len(plain) # 2 \/ plain[2] # Rotated(session.pending.rnd)
  <2>1. Len(<<>>) = 0
    OBVIOUS
  <2>2. plain = <<>> => Len(plain) # 2
    BY <2>1
  <2> QED
    BY <1>2, <2>2
<1> HIDE DEF plain
<1> QED
  BY <1>1, <1>3 DEF OnAuth2, plain

\* What is pending after an earlier command came again.
NowPending(p) ==
  \/ p = session.pending \/ p = NoSession.pending
  \/ \E n \in Numbers : p = [no |-> n, rnd |-> Random(fresh)]

LEMMA AgainIsHarmless ==
  ASSUME SessionInv, NEW m \in handled
  PROVE  /\ Dispatch(m).card = card
         /\ \E p : NowPending(p) /\ Dispatch(m).session = [session EXCEPT !.pending = p]
<1>1. CommandOK(m, fresh)
  BY DEF SessionInv, CommandsOK, Commands
<1>2. [session EXCEPT !.pending = session.pending] = session
  BY DEF SessionInv, SimOK
<1>3. CASE m.ins \in InSession
  <2>1. Dispatch(m) = Refusal(session)
    BY <1>3, Ignored DEF SessionInv, Harmless
  <2>2. NowPending(session.pending)
    BY DEF NowPending
  <2> QED
    BY <1>2, <2>1, <2>2 DEF Refusal, Outcome
<1>4. CASE m.ins = "71"
  <2>1. Dispatch(m) = OnAuth1(m) /\ m.of \in Numbers
    BY <1>1, <1>4 DEF Dispatch, CommandOK
  <2>2. NowPending([no |-> m.of, rnd |-> Random(fresh)])
    BY <2>1 DEF NowPending
  <2> QED
    BY <2>1, <2>2 DEF OnAuth1, Outcome
<1>5. CASE m.ins = "AF" /\ session.pending.no = -1
  <2>1. Dispatch(m) = Refusal(session)
    BY <1>5 DEF Dispatch, OnAuth2
  <2>2. NowPending(session.pending)
    BY DEF NowPending
  <2> QED
    BY <1>2, <2>1, <2>2 DEF Refusal, Outcome
<1>6. CASE m.ins = "AF" /\ session.pending.no # -1
  <2>1. Dispatch(m) = Refusal(NotPending(session))
    BY <1>6, StaleProof DEF SessionInv, Harmless
  <2>2. NowPending(NoSession.pending)
    BY DEF NowPending
  <2> QED
    BY <2>1, <2>2 DEF Refusal, Outcome, NotPending
<1> QED
  BY <1>1, <1>3, <1>4, <1>5, <1>6 DEF CommandOK

LEMMA RepeatKeeps == ASSUME SessionInv, Repeat PROVE SessionInv'
<1>1. PICK m \in handled : card' = Dispatch(m).card /\ session' = Dispatch(m).session
  BY DEF Repeat
<1>2. /\ UNCHANGED <<ntag, call, wire, did, told, honest>> /\ fresh' = fresh + 1 /\ trouble' = TRUE
      /\ handled' \subseteq handled /\ heard' \subseteq heard
  BY DEF Repeat, Fault
<1>3. PICK p : NowPending(p) /\ session' = [session EXCEPT !.pending = p]
  BY <1>1, AgainIsHarmless
<1>4. card' = card
  BY <1>1, AgainIsHarmless
<1>5. fresh \in Nat \ {0} /\ fresh' \in Nat \ {0} /\ fresh <= fresh'
  BY <1>2, ObjectIsOK
<1>6. /\ session' = [keys |-> session.keys, ti |-> session.ti, ctr |-> session.ctr, no |-> session.no, pending |-> p]
      /\ session.ctr \in Nat
  BY <1>3 DEF SessionInv, SimOK
<1>7. /\ session'.keys = session.keys /\ session'.ti = session.ti /\ session'.ctr = session.ctr
      /\ session'.no = session.no /\ session'.pending = p
  BY <1>6
<1>8. p = session.pending \/ p.no = -1 \/ (p.no \in Numbers /\ p.rnd = Random(fresh) /\ p = [no |-> p.no, rnd |-> p.rnd])
  BY <1>3 DEF NowPending, NoSession
<1>9. p = [no |-> p.no, rnd |-> p.rnd]
  BY <1>3 DEF NowPending, NoSession, SessionInv, SimOK
<1>10. CardOK(card)' /\ ObjectOK(ntag, fresh)'
  BY <1>2, <1>4, <1>5, OKsGrow DEF SessionInv
<1>11. SimOK(session, fresh)'
  <2>1. p.no # -1 => p.no \in Numbers /\ DrawnBy(p.rnd, fresh')
    BY <1>2, <1>5, <1>8, DrawnGrows, FreshIsDrawn DEF SessionInv, SimOK
  <2> QED
    BY <1>6, <1>7, <1>9, <2>1 DEF SimOK
<1>12. CallOK'
  BY <1>2, <1>4 DEF SessionInv, CallOK, Exchange
<1>13. TurnOK'
  BY <1>2, <1>5 DEF SessionInv, TurnOK
<1>14. SentOK'
  BY <1>2 DEF SessionInv, SentOK, SentFull, SentChange
<1>15. Linked'
  BY <1>2, <1>4, <1>7 DEF SessionInv, Linked, Working, Acted
<1>16. Commands' \subseteq Commands /\ Answers' \subseteq Answers
  BY <1>2 DEF Commands, Answers, Here, Resp
<1>17. CommandsOK' /\ AnswersOK'
  BY <1>5, <1>16, OKsGrow DEF SessionInv, CommandsOK, AnswersOK
<1>18. Past' /\ MacTold'
  BY <1>2, <1>4, <1>16 DEF SessionInv, Past, MacTold, Working, Acted
<1>19. Harmless'
  <2>1. ASSUME NEW c \in handled PROVE Acts(c, session', card') <=> Acts(c, session, card)
    BY <1>4, <1>7 DEF Acts, CmdMac, CmdIv
  <2>2. ASSUME NEW c \in handled, c.ins = "AF", p.no # -1 PROVE c.body.text[2] # Rotated(p.rnd)
    <3>1. CASE p = session.pending
      BY <2>2, <3>1 DEF SessionInv, Harmless
    <3>2. CASE p.rnd = Random(fresh)
      <4>1. c.body.text[2] = {} \/ TurnedBy(c.body.text[2], fresh)
        BY <2>2 DEF SessionInv, CommandsOK, Commands, CommandOK
      <4> QED
        BY <1>5, <3>2, <4>1, FreshIsNew
    <3> QED
      BY <1>8, <2>2, <3>1, <3>2
  <2> QED
    BY <1>2, <1>7, <2>1, <2>2 DEF SessionInv, Harmless
<1>20. PendingKnown'
  <2>1. ASSUME call.at = "part1", Here, p.no # -1, NEW a \in Answers, a.st = "more", a.body.text[1] = p.rnd
        PROVE  p.no = call.of
    <3>1. CASE p = session.pending
      BY <2>1, <3>1 DEF SessionInv, PendingKnown
    <3>2. CASE p.rnd = Random(fresh)
      <4>1. DrawnBy(a.body.text[1], fresh)
        BY <2>1 DEF SessionInv, AnswersOK, AnswerOK
      <4> QED
        BY <1>5, <2>1, <3>2, <4>1, FreshIsNew
    <3> QED
      BY <1>8, <2>1, <3>1, <3>2
  <2>2. ASSUME call.at = "part2", p.no # -1, call.rnd[2] = p.rnd PROVE p.no = call.of
    <3>1. CASE p = session.pending
      BY <2>2, <3>1 DEF SessionInv, PendingKnown
    <3>2. CASE p.rnd = Random(fresh)
      <4>1. call.rnd[2] = {} \/ DrawnBy(call.rnd[2], fresh)
        BY <2>2 DEF SessionInv, NumbersNew
      <4>2. Random(fresh) # {}
        BY DEF Random
      <4> QED
        BY <1>5, <2>2, <3>2, <4>1, <4>2, FreshIsNew
    <3> QED
      BY <1>8, <2>2, <3>1, <3>2
  <2> QED
    BY <1>2, <1>7, <1>16, <2>1, <2>2 DEF PendingKnown, Here
<1>21. NumbersNew'
  BY <1>2, <1>5, <1>16, DrawnGrows DEF SessionInv, NumbersNew
<1>22. ProofTold'
  BY <1>2, <1>4, <1>7, <1>16 DEF SessionInv, ProofTold, Opened
<1>23. HonestTold'
  BY <1>2 DEF SessionInv, HonestTold, Here, Resp
<1>24. Quiet'
  BY <1>2 DEF Quiet
<1> QED
  BY <1>10, <1>11, <1>12, <1>13, <1>14, <1>15, <1>17, <1>18, <1>19, <1>20, <1>21, <1>22, <1>23, <1>24 DEF SessionInv

LEMMA ReplaceKeeps == ASSUME SessionInv, Replace PROVE SessionInv'
<1>1. PICK a \in heard : wire' = [wire EXCEPT !.msg = a]
  BY DEF Replace
<1>2. /\ Here /\ UNCHANGED <<ntag, call, fresh, card, session, did, told>> /\ trouble' = TRUE /\ honest' = FALSE
      /\ handled' \subseteq handled /\ heard' \subseteq heard
  BY DEF Replace, Fault
<1>3. wire' = [at |-> "reader", msg |-> a]
  BY <1>1, <1>2 DEF SessionInv, TurnOK, Here
<1>4. Here' /\ Resp' = a /\ wire.at = "reader" /\ wire'.at = "reader"
  BY <1>2, <1>3 DEF Here, Resp
<1>5. CardOK(card)' /\ ObjectOK(ntag, fresh)' /\ SimOK(session, fresh)'
  BY <1>2 DEF SessionInv
<1>6. CallOK'
  BY <1>2 DEF SessionInv, CallOK, Exchange
<1>7. TurnOK'
  BY <1>2, <1>3, <1>4 DEF SessionInv, TurnOK
<1>8. SentOK' /\ HonestTold' /\ Quiet'
  BY <1>2, <1>4 DEF SentOK, HonestTold, Quiet
<1>9. Linked'
  BY <1>2 DEF SessionInv, Linked, Working, Acted
<1>10. Commands' \subseteq Commands /\ Answers' \subseteq Answers
  BY <1>1, <1>2, <1>4 DEF Commands, Answers
<1>11. CommandsOK' /\ AnswersOK' /\ Harmless'
  BY <1>2, <1>10 DEF SessionInv, CommandsOK, AnswersOK, Harmless
<1>12. Past' /\ MacTold'
  BY <1>2, <1>10 DEF SessionInv, Past, MacTold, Working, Acted
<1>13. PendingKnown' /\ NumbersNew'
  BY <1>2, <1>10 DEF SessionInv, PendingKnown, NumbersNew
<1>14. ProofTold'
  BY <1>2, <1>10 DEF SessionInv, ProofTold, Opened
<1> QED
  BY <1>5, <1>6, <1>7, <1>8, <1>9, <1>11, <1>12, <1>13, <1>14 DEF SessionInv
-----------------------------------------------------------------------------
(* The card gets the command of a running session. *)
Running == call.at \in {"full", "same", "diff"} /\ wire.at = "card"

LEMMA SentParts ==
  ASSUME SessionInv, Running
  PROVE  /\ wire.msg.ins \in InSession /\ ~did /\ ~Acted /\ Working /\ ntag.keys # NoKeys
         /\ call.op \in {"read", "write", "same", "diff"} /\ (call.at = "same" <=> call.op = "same")
         /\ wire.msg.mac = CmdMac(ntag, wire.msg.ins, wire.msg.of, wire.msg.body)
         /\ call.op = "read" => wire.msg.ins = "AD"
         /\ call.op = "write" => wire.msg.ins = "8D" /\ wire.msg.body = Enc(ntag.keys, CmdIv(ntag), <<call.new>>)
         /\ call.op = "same" => /\ wire.msg.ins = "C4" /\ wire.msg.of = call.of /\ call.of = ntag.no
                                /\ wire.msg.body = Enc(ntag.keys, CmdIv(ntag), <<call.new>>)
         /\ call.op = "diff" => /\ wire.msg.ins = "C4" /\ wire.msg.of = call.of /\ call.of # ntag.no
                                /\ wire.msg.body = Enc(ntag.keys, CmdIv(ntag), <<XorKeys(call.new, call.old), call.new>>)
<1>1. Working /\ ntag.keys # NoKeys
  BY SessionRuns DEF Running
<1>2. ~did /\ ~Acted
  BY DEF Running, SessionInv, TurnOK, Acted
<1>3. \/ call.at = "full" /\ call.op \in {"read", "write"}
      \/ call.at = "same" /\ call.op = "same"
      \/ call.at = "diff" /\ call.op = "diff"
  BY DEF Running, SessionInv, CallOK
<1>4. /\ call.at = "full" => wire.msg = SentFull
      /\ call.at = "same" => wire.msg = SentChange(<<call.new>>)
      /\ call.at = "diff" => wire.msg = SentChange(<<XorKeys(call.new, call.old), call.new>>)
  BY DEF Running, SessionInv, SentOK
<1>5. (call.at = "same" => call.of = ntag.no) /\ (call.at = "diff" => call.of # ntag.no)
  BY DEF Running, SessionInv, CallOK
<1>6. CASE call.op = "read"
  <2>1. wire.msg = Command("AD", 3, NoText, CmdMac(ntag, "AD", 3, NoText))
    BY <1>3, <1>4, <1>6 DEF SentFull
  <2> QED
    BY <1>1, <1>2, <1>3, <1>6, <2>1 DEF Command, InSession
<1>7. CASE call.op = "write"
  <2> DEFINE body == Enc(ntag.keys, CmdIv(ntag), <<call.new>>)
  <2>1. wire.msg = Command("8D", 3, body, CmdMac(ntag, "8D", 3, body))
    BY <1>3, <1>4, <1>7 DEF SentFull
  <2> HIDE DEF body
  <2>2. wire.msg.ins = "8D" /\ wire.msg.body = body /\ wire.msg.mac = CmdMac(ntag, wire.msg.ins, wire.msg.of, body)
    BY <2>1 DEF Command
  <2> QED
    BY <1>1, <1>2, <1>3, <1>7, <2>2 DEF InSession, body
<1>8. ASSUME NEW text, wire.msg = SentChange(text)
      PROVE  /\ wire.msg.ins = "C4" /\ wire.msg.of = call.of /\ wire.msg.body = Enc(ntag.keys, CmdIv(ntag), text)
             /\ wire.msg.mac = CmdMac(ntag, wire.msg.ins, wire.msg.of, wire.msg.body)
  BY <1>8 DEF SentChange, Command
<1>9. CASE call.op = "same"
  BY <1>1, <1>2, <1>3, <1>4, <1>5, <1>8, <1>9 DEF InSession
<1>10. CASE call.op = "diff"
  BY <1>1, <1>2, <1>3, <1>4, <1>5, <1>8, <1>10 DEF InSession
<1> QED
  BY <1>3, <1>6, <1>7, <1>9, <1>10

\* The card's session as the reader's.
LEMMA RunningLinked ==
  ASSUME SessionInv, Running
  PROVE  /\ session.keys = ntag.keys /\ session.ti = ntag.ti /\ session.no = ntag.no
         /\ card.keys[ntag.no] = ntag.keys[1] /\ session.ctr <= ntag.ctr /\ (~trouble => session.ctr = ntag.ctr)
         /\ ntag.no \in Numbers /\ Exchange.no = ntag.no /\ Exchange.key = ntag.keys[1]
         /\ Exchange.op = call.op /\ Exchange.of = call.of /\ Exchange.old = call.old /\ Exchange.new = call.new
<1>1. Working /\ ~did /\ ~Acted /\ ntag.keys # NoKeys /\ call.op \in {"read", "write", "same", "diff"}
  BY SentParts
<1>2. /\ session.keys = ntag.keys /\ session.ti = ntag.ti /\ session.no = ntag.no
      /\ card.keys[ntag.no] = ntag.keys[1] /\ session.ctr <= ntag.ctr /\ (~trouble => session.ctr = ntag.ctr)
  BY <1>1 DEF SessionInv, Linked
<1>3. ntag.no \in Numbers
  BY <1>1, ObjectIsOK DEF ObjectOK
<1>4. call.by = ntag.no /\ call.byKey = ntag.keys[1]
  BY DEF Running, SessionInv, CallOK
<1> QED
  BY <1>1, <1>2, <1>3, <1>4 DEF Exchange

LEMMA RunningActs ==
  ASSUME SessionInv, Running, Acts(wire.msg, session, card)
  PROVE  session.ctr = ntag.ctr /\ CmdIv(session) = CmdIv(ntag)
<1>1. CmdMac(ntag, wire.msg.ins, wire.msg.of, wire.msg.body) = CmdMac(session, wire.msg.ins, wire.msg.of, wire.msg.body)
  BY SentParts DEF Acts
<1>2. session.ctr = ntag.ctr
  BY <1>1 DEF CmdMac
<1> QED
  BY <1>2, RunningLinked DEF CmdIv

\* What the card would do as asked it does, in a session in which nothing went wrong.
LEMMA WorksActs ==
  ASSUME SessionInv, Running, session.ctr = ntag.ctr, Promise!Works(card, Exchange)
  PROVE  Acts(wire.msg, session, card)
<1>1. /\ session.keys = ntag.keys /\ session.ti = ntag.ti /\ session.no = ntag.no
      /\ Exchange.no = ntag.no /\ Exchange.op = call.op /\ Exchange.of = call.of /\ Exchange.old = call.old
      /\ ntag.keys # NoKeys /\ call.op # "auth"
  BY SentParts, RunningLinked
<1>2. \/ call.op = "read" /\ ntag.no \in {KeyRead, KeyWrite}
      \/ call.op = "write" /\ ntag.no = KeyWrite
      \/ call.op = "diff" /\ ntag.no = KeyMaster /\ call.of # KeyMaster /\ card.keys[call.of] = call.old
      \/ call.op = "same" /\ ntag.no = KeyMaster /\ call.of = KeyMaster
  BY <1>1 DEF Promise!Works
<1>3. wire.msg.mac = CmdMac(session, wire.msg.ins, wire.msg.of, wire.msg.body)
  BY <1>1, SentParts DEF CmdMac
<1>4. CASE call.op = "read"
  BY <1>1, <1>2, <1>3, <1>4, SentParts DEF Acts
<1>5. CASE call.op = "write"
  BY <1>1, <1>2, <1>3, <1>5, SentParts DEF Acts
<1>6. CASE call.op = "same"
  <2>1. wire.msg.ins = "C4" /\ wire.msg.of = KeyMaster
    BY <1>2, <1>6, SentParts
  <2> QED
    BY <1>1, <1>2, <1>3, <1>6, <2>1 DEF Acts
<1>7. CASE call.op = "diff"
  <2>1. wire.msg.ins = "C4" /\ wire.msg.of = call.of
    BY <1>7, SentParts
  <2>2. Dec(session.keys, CmdIv(session), wire.msg.body) = <<XorKeys(call.new, call.old), call.new>>
    BY <1>1, <1>7, SentParts DEF Dec, Enc, CmdIv
  <2>3. XorKeys(XorKeys(call.new, call.old), card.keys[call.of]) = call.new
    BY <1>2, <1>7, XorTwice
  <2> QED
    BY <1>1, <1>2, <1>3, <1>7, <2>1, <2>2, <2>3 DEF Acts
<1> QED
  BY <1>2, <1>4, <1>5, <1>6, <1>7

\* A command that fits acts, as asked.
LEMMA ActsAsAsked ==
  ASSUME SessionInv, Running, Acts(wire.msg, session, card)
  PROVE  /\ Promise!Works(card, Exchange) /\ Dispatch(wire.msg).did = TRUE
         /\ Dispatch(wire.msg).card = Promise!After(card, Exchange)
         /\ Dispatch(wire.msg).session =
              IF call.at = "same" THEN [NoSession EXCEPT !.pending = session.pending] ELSE Stepped(session)
         /\ Dispatch(wire.msg).answer =
              IF call.at = "same" THEN Answer("ok", NoText, NoMac)
              ELSE Answered(IF call.op = "read" THEN Enc(session.keys, RespIv(Stepped(session)), <<card.data>>) ELSE NoText)
<1>1. /\ session.keys = ntag.keys /\ session.no = ntag.no /\ CmdIv(session) = CmdIv(ntag)
      /\ card.keys[ntag.no] = ntag.keys[1] /\ ntag.no \in Numbers
      /\ Exchange.no = ntag.no /\ Exchange.key = ntag.keys[1] /\ Exchange.op = call.op /\ Exchange.of = call.of
      /\ Exchange.old = call.old /\ Exchange.new = call.new
  BY RunningLinked, RunningActs
<1>2. Exchange.no \in DOMAIN card.keys /\ card.keys[Exchange.no] = Exchange.key
  BY <1>1 DEF SessionInv, CardOK
<1>3. MacRight(wire.msg)
  BY DEF Acts, MacRight
<1>4. CASE call.op = "read"
  <2>1. wire.msg.ins = "AD" /\ session.no \in {KeyRead, KeyWrite} /\ call.at # "same"
    BY <1>4, SentParts DEF Acts
  <2>2. Dispatch(wire.msg) = OnRead(wire.msg)
    BY <2>1 DEF Dispatch
  <2>3. Promise!Works(card, Exchange) /\ Promise!After(card, Exchange) = card
    BY <1>1, <1>2, <1>4, <2>1 DEF Promise!Works, Promise!After
  <2> QED
    BY <1>3, <1>4, <2>1, <2>2, <2>3 DEF OnRead, Outcome
<1>5. CASE call.op = "write"
  <2>1. wire.msg.ins = "8D" /\ session.no = KeyWrite /\ call.at # "same"
    BY <1>5, SentParts DEF Acts
  <2>2. Dispatch(wire.msg) = OnWrite(wire.msg)
    BY <2>1 DEF Dispatch
  <2>3. Plain(wire.msg)[1] = call.new
    BY <1>1, <1>5, SentParts DEF Plain, Dec, Enc
  <2>4. Promise!Works(card, Exchange) /\ Promise!After(card, Exchange) = [card EXCEPT !.data = call.new]
    BY <1>1, <1>2, <1>5, <2>1 DEF Promise!Works, Promise!After
  <2> QED
    BY <1>3, <1>5, <2>1, <2>2, <2>3, <2>4 DEF OnWrite, Outcome
<1>6. CASE call.op = "same"
  <2>1. wire.msg.ins = "C4" /\ session.no = KeyMaster /\ call.at = "same" /\ wire.msg.of = call.of /\ call.of = KeyMaster
    BY <1>1, <1>6, SentParts DEF Acts
  <2>2. Dispatch(wire.msg) = OnChangeKey(wire.msg)
    BY <2>1 DEF Dispatch
  <2>3. Plain(wire.msg)[1] = call.new
    BY <1>1, <1>6, SentParts DEF Plain, Dec, Enc
  <2>4. Promise!Works(card, Exchange) /\ Promise!After(card, Exchange) = [card EXCEPT !.keys[KeyMaster] = call.new]
    BY <1>1, <1>2, <1>6, <2>1 DEF Promise!Works, Promise!After
  <2> QED
    BY <1>3, <1>6, <2>1, <2>2, <2>3, <2>4 DEF OnChangeKey, Outcome
<1>7. CASE call.op = "diff"
  <2>1. wire.msg.ins = "C4" /\ session.no = KeyMaster /\ call.at # "same" /\ wire.msg.of = call.of /\ call.of # KeyMaster
    BY <1>1, <1>7, SentParts DEF Acts
  <2>2. Dispatch(wire.msg) = OnChangeKey(wire.msg)
    BY <2>1 DEF Dispatch
  <2>3. Plain(wire.msg) = <<XorKeys(call.new, call.old), call.new>>
    BY <1>1, <1>7, SentParts DEF Plain, Dec, Enc
  <2>4. XorKeys(XorKeys(call.new, call.old), card.keys[call.of]) = call.new
    BY <2>1, <2>3 DEF Acts, Plain
  <2>5. card.keys[call.of] = call.old
    BY <2>4, XorTwice
  <2>6. Promise!Works(card, Exchange) /\ Promise!After(card, Exchange) = [card EXCEPT !.keys[call.of] = call.new]
    BY <1>1, <1>2, <1>7, <2>1, <2>5 DEF Promise!Works, Promise!After
  <2> QED
    BY <1>3, <1>7, <2>1, <2>2, <2>3, <2>4, <2>6 DEF OnChangeKey, Outcome
<1> QED
  BY <1>4, <1>5, <1>6, <1>7, SentParts
-----------------------------------------------------------------------------
(* An answer goes back. *)

\* What the card's answers have in common.
Passed ==
  /\ wire.at = "card" /\ wire' = [at |-> "reader", msg |-> wire'.msg]
  /\ handled' \subseteq Commands /\ heard' \subseteq heard \cup {wire'.msg}
  /\ UNCHANGED <<ntag, call, told, honest, trouble>>
  /\ fresh' \in Nat \ {0} /\ fresh <= fresh' /\ did' \in BOOLEAN

LEMMA TransmitPasses ==
  ASSUME SessionInv, Transmit
  PROVE  /\ Passed /\ wire'.msg = Dispatch(wire.msg).answer /\ card' = Dispatch(wire.msg).card
         /\ session' = Dispatch(wire.msg).session /\ (Dispatch(wire.msg).did \in BOOLEAN => did' = Dispatch(wire.msg).did)
         /\ ~did
         /\ fresh' = IF wire.msg.ins \in {"71", "AF"} THEN fresh + 1 ELSE fresh
<1> DEFINE o == Dispatch(wire.msg)
<1>1. /\ wire.at = "card" /\ wire' = [at |-> "reader", msg |-> o.answer] /\ card' = o.card /\ session' = o.session
      /\ did' = (did \/ o.did) /\ heard' = Remembered(heard, o.answer) /\ handled' = Remembered(handled, wire.msg)
      /\ fresh' = (IF wire.msg.ins \in {"71", "AF"} THEN fresh + 1 ELSE fresh)
      /\ UNCHANGED <<ntag, call, told, honest, trouble>>
  BY DEF Transmit, faultVars
<1> HIDE DEF o
<1>2. ~did
  BY <1>1 DEF SessionInv, TurnOK
<1>3. did' \in BOOLEAN /\ (o.did \in BOOLEAN => did' = o.did)
  BY <1>1, <1>2
<1>4. handled' \subseteq Commands /\ heard' \subseteq heard \cup {wire'.msg}
  BY <1>1 DEF Remembered, Commands
<1>5. fresh' \in Nat \ {0} /\ fresh <= fresh'
  BY <1>1, ObjectIsOK
<1> QED
  BY <1>1, <1>2, <1>3, <1>4, <1>5 DEF Passed, o

LEMMA PassedParts ==
  ASSUME SessionInv, Passed
  PROVE  /\ Here' /\ Resp' = wire'.msg /\ wire'.at = "reader" /\ Commands' \subseteq Commands
         /\ Answers' \subseteq Answers \cup {wire'.msg} /\ call.at # "refused" /\ call.at # "idle"
<1>1. wire.at = "card" /\ wire'.at = "reader" /\ handled' \subseteq Commands /\ heard' \subseteq heard \cup {wire'.msg}
  BY DEF Passed
<1>2. call.at # "refused" /\ call.at # "idle"
  BY <1>1 DEF SessionInv, TurnOK
<1> QED
  BY <1>1, <1>2 DEF Commands, Answers, Here, Resp

LEMMA PassedKeeps ==
  ASSUME SessionInv, Passed, CardOK(card)', SimOK(session, fresh)', AnswerOK(wire'.msg, fresh'),
         call.at = "part1" => ~did', call.at = "part2" => wire'.msg.mac.under = NoKeys,
         Linked', Harmless', PendingKnown', ProofTold', MacTold', HonestTold', Quiet'
  PROVE  SessionInv'
<1>1. /\ Here' /\ Resp' = wire'.msg /\ wire'.at = "reader" /\ Commands' \subseteq Commands
      /\ Answers' \subseteq Answers \cup {wire'.msg} /\ call.at # "refused" /\ call.at # "idle"
  BY PassedParts
<1>2. /\ wire.at = "card" /\ wire' = [at |-> "reader", msg |-> wire'.msg]
      /\ UNCHANGED <<ntag, call, told, honest, trouble>>
      /\ fresh \in Nat /\ fresh' \in Nat \ {0} /\ fresh <= fresh' /\ did' \in BOOLEAN
  BY ObjectIsOK DEF Passed
<1>3. ObjectOK(ntag, fresh)'
  BY <1>2, OKsGrow DEF SessionInv
<1>4. CallOK'
  BY <1>1, <1>2 DEF SessionInv, CallOK
<1>5. TurnOK'
  <2>1. told = Waiting /\ honest \in BOOLEAN /\ trouble \in BOOLEAN /\ (~honest => trouble)
    BY <1>1 DEF SessionInv, TurnOK
  <2>2. told' = Waiting /\ honest' \in BOOLEAN /\ trouble' \in BOOLEAN /\ (~honest' => trouble')
    BY <1>2, <2>1
  <2>3. call'.at # "idle" /\ call'.at # "refused" /\ (call'.at = "part1" => ~did')
    BY <1>1, <1>2
  <2> QED
    BY <1>1, <1>2, <2>2, <2>3 DEF TurnOK
<1>6. SentOK'
  BY <1>1 DEF SentOK
<1>7. CommandsOK'
  BY <1>1, <1>2, OKsGrow DEF SessionInv, CommandsOK
<1>8. Past'
  BY <1>1, <1>2 DEF SessionInv, Past, Working
<1>9. AnswersOK'
  BY <1>1, <1>2, OKsGrow DEF SessionInv, AnswersOK
<1>10. NumbersNew'
  BY <1>1, <1>2, DrawnGrows DEF SessionInv, NumbersNew
<1> QED
  BY <1>3, <1>4, <1>5, <1>6, <1>7, <1>8, <1>9, <1>10 DEF SessionInv

\* An answer of an authentication: there is no session yet.
LEMMA AuthPassedKeeps ==
  ASSUME SessionInv, Passed, call.op = "auth", CardOK(card)', SimOK(session, fresh)', AnswerOK(wire'.msg, fresh'),
         call.at = "part1" => ~did', call.at = "part2" => wire'.msg.mac.under = NoKeys,
         Harmless', PendingKnown', ProofTold', Quiet'
  PROVE  SessionInv'
<1>1. ntag.keys = NoKeys /\ call.at \in {"part1", "part2"}
  BY PassedParts DEF SessionInv, CallOK
<1>2. ntag'.keys = NoKeys /\ call'.at \in {"part1", "part2"}
  BY <1>1 DEF Passed
<1>3. Linked' /\ MacTold' /\ HonestTold'
  BY <1>2 DEF Linked, MacTold, HonestTold, Working
<1> QED
  BY <1>3, PassedKeeps

LEMMA RunningPassedKeeps ==
  ASSUME SessionInv, Passed, Running, CardOK(card)', SimOK(session, fresh)', AnswerOK(wire'.msg, fresh'),
         Linked', Harmless', MacTold', HonestTold', Quiet'
  PROVE  SessionInv'
<1>1. call.at # "part1" /\ call.at # "part2" /\ call' = call
  BY DEF Running, Passed
<1>2. PendingKnown' /\ ProofTold'
  BY <1>1 DEF PendingKnown, ProofTold
<1> QED
  BY <1>1, <1>2, PassedKeeps

\* A refused command of a session.
LEMMA RefusedKeeps ==
  ASSUME SessionInv, Transmit, Running, ~Acts(wire.msg, session, card)
  PROVE  SessionInv' /\ card' = card /\ did' = did
<1>1. Passed /\ ~did
  BY TransmitPasses
<1>2. Dispatch(wire.msg) = Refusal(session)
  BY SentParts, Ignored
<1>3. wire'.msg = Refused /\ card' = card /\ session' = session /\ ~did' /\ did' = did
  <2>1. /\ Dispatch(wire.msg).did = FALSE /\ Dispatch(wire.msg).answer = Refused
        /\ Dispatch(wire.msg).card = card /\ Dispatch(wire.msg).session = session
    BY <1>2 DEF Refusal, Outcome
  <2>2. did' = FALSE
    BY <2>1, TransmitPasses
  <2>3. did = FALSE
    BY <1>1 DEF SessionInv, TurnOK
  <2> QED
    BY <2>1, <2>2, <2>3, TransmitPasses
<1>4. /\ UNCHANGED <<ntag, call, told, honest, trouble>> /\ handled' \subseteq Commands /\ wire.at = "card"
      /\ fresh' \in Nat /\ fresh <= fresh'
  BY <1>1 DEF Passed
<1>5. CardOK(card)' /\ SimOK(session, fresh)'
  BY <1>3, <1>4, ObjectIsOK, OKsGrow DEF SessionInv
<1>6. Refused.st = "error" /\ Refused.body.text = <<>> /\ Refused.mac.under = NoKeys /\ Len(<<>>) = 0
  BY DEF Refused, Answer, NoText, NoMac, Enc, NoKeys
<1>7. AnswerOK(wire'.msg, fresh')
  BY <1>3, <1>6 DEF AnswerOK
<1>8. Linked'
  BY <1>1, <1>3, <1>4 DEF SessionInv, Linked, Working, Acted
<1>9. Harmless'
  BY <1>3, <1>4, SentParts DEF SessionInv, Harmless, Commands, InSession
<1>10. MacTold'
  <2>1. ASSUME NEW a \in Answers, a.mac.under = ntag.keys PROVE a.mac.over[2] <= ntag.ctr
    BY <2>1, SentParts DEF SessionInv, MacTold
  <2> QED
    BY <1>1, <1>3, <1>4, <1>6, <2>1, PassedParts, SentParts DEF MacTold
<1>11. HonestTold'
  BY <1>1, <1>3, <1>6, PassedParts DEF HonestTold
<1>12. Quiet'
  <2>1. ~trouble => ~Promise!Works(card, Exchange)
    BY WorksActs, RunningLinked
  <2>2. Exchange' = Exchange
    BY <1>4 DEF Exchange
  <2>3. call'.at \in {"full", "same", "diff"} /\ Here' /\ Resp'.st = "error" /\ ~did' /\ trouble' = trouble /\ card' = card
    BY <1>1, <1>3, <1>4, <1>6, PassedParts DEF Running
  <2> QED
    BY <2>1, <2>2, <2>3 DEF Quiet
<1> QED
  BY <1>1, <1>3, <1>5, <1>7, <1>8, <1>9, <1>10, <1>11, <1>12, RunningPassedKeeps

\* A command of a session that acts.
LEMMA ActedSession ==
  ASSUME SessionInv, Transmit, Running, Acts(wire.msg, session, card)
  PROVE  /\ session.ctr = ntag.ctr /\ did' = TRUE /\ Passed
         /\ call.at = "same" => session'.keys = NoKeys
         /\ call.at # "same" => /\ session'.keys = ntag.keys /\ session'.ti = ntag.ti /\ session'.no = ntag.no
                                /\ session'.ctr = ntag.ctr + 1
         /\ session'.pending = session.pending /\ SimOK(session, fresh)'
<1>1. /\ session' = IF call.at = "same" THEN [NoSession EXCEPT !.pending = session.pending] ELSE Stepped(session)
      /\ did' = TRUE /\ Passed
  BY ActsAsAsked, TransmitPasses
<1>2. /\ session.keys = ntag.keys /\ session.ti = ntag.ti /\ session.no = ntag.no /\ session.ctr = ntag.ctr
  BY RunningLinked, RunningActs
<1>3. /\ session = [keys |-> session.keys, ti |-> session.ti, ctr |-> session.ctr, no |-> session.no,
                    pending |-> session.pending]
      /\ session.pending = [no |-> session.pending.no, rnd |-> session.pending.rnd] /\ session.ctr \in Nat
      /\ session.pending.no # -1 => session.pending.no \in Numbers /\ DrawnBy(session.pending.rnd, fresh)
  BY DEF SessionInv, SimOK
<1>4. session.pending.no # -1 => DrawnBy(session.pending.rnd, fresh')
  BY <1>1, <1>3, ObjectIsOK, DrawnGrows DEF Passed
<1>5. CASE call.at = "same"
  <2>1. session' = [keys |-> NoKeys, ti |-> {}, ctr |-> 0, no |-> -1, pending |-> session.pending]
    BY <1>1, <1>5 DEF NoSession
  <2> QED
    <3>1. session'.ctr = 0 /\ session'.keys = NoKeys /\ session'.pending = session.pending
          /\ session' = [keys |-> session'.keys, ti |-> session'.ti, ctr |-> session'.ctr, no |-> session'.no,
                         pending |-> session'.pending]
      BY <2>1
    <3>2. SimOK(session, fresh)'
      BY <1>3, <1>4, <3>1 DEF SimOK
    <3> QED
      BY <1>1, <1>2, <1>5, <3>1, <3>2
<1>6. CASE call.at # "same"
  <2>1. session' = [keys |-> session.keys, ti |-> session.ti, ctr |-> session.ctr + 1, no |-> session.no,
                    pending |-> session.pending]
    BY <1>1, <1>3, <1>6 DEF Stepped
  <2> QED
    BY <1>1, <1>2, <1>3, <1>4, <1>6, <2>1 DEF SimOK
<1> QED
  BY <1>5, <1>6

LEMMA ActedCard ==
  ASSUME SessionInv, Transmit, Running, Acts(wire.msg, session, card)
  PROVE  /\ card' = Promise!After(card, Exchange) /\ CardOK(card)'
         /\ call.at # "same" => card'.keys[ntag.no] = ntag.keys[1]
         /\ call.op = "read" => card' = card
<1>1. card' = Promise!After(card, Exchange)
  BY ActsAsAsked, TransmitPasses
<1>2. /\ Exchange.op = call.op /\ Exchange.of = call.of /\ Exchange.new = call.new
      /\ card.keys[ntag.no] = ntag.keys[1] /\ ntag.no \in Numbers
  BY RunningLinked
<1>3. CardOK(card)
  BY DEF SessionInv
<1>4. CASE call.op = "read"
  BY <1>1, <1>2, <1>3, <1>4 DEF Promise!After
<1>5. CASE call.op = "write"
  <2>1. card' = [card EXCEPT !.data = call.new]
    BY <1>1, <1>2, <1>5 DEF Promise!After
  <2>2. card' = [keys |-> card.keys, data |-> call.new]
    BY <1>3, <2>1 DEF CardOK
  <2>3. card'.keys = card.keys /\ card' = [keys |-> card'.keys, data |-> card'.data]
    BY <2>2
  <2>4. CardOK(card)'
    BY <1>3, <2>3 DEF CardOK
  <2> QED
    BY <1>1, <1>2, <1>5, <2>3, <2>4
<1>6. CASE call.op \in {"same", "diff"}
  <2>1. card' = [card EXCEPT !.keys[call.of] = call.new]
    BY <1>1, <1>2, <1>6 DEF Promise!After
  <2>2. card'.keys = [card.keys EXCEPT ![call.of] = call.new] /\ card' = [keys |-> card'.keys, data |-> card'.data]
    BY <1>3, <2>1 DEF CardOK
  <2>3. card'.keys = [n \in Numbers |-> card'.keys[n]]
    BY <1>3, <2>2 DEF CardOK
  <2>4. call.op = "diff" => call.of # ntag.no
    BY SentParts
  <2>5. call.op = "diff" => card'.keys[ntag.no] = card.keys[ntag.no]
    BY <1>2, <1>3, <2>2, <2>4 DEF CardOK
  <2>6. call.at # "same" => call.op # "same"
    BY SentParts
  <2> QED
    BY <1>1, <1>2, <1>6, <2>2, <2>3, <2>5, <2>6, SentParts DEF CardOK
<1> QED
  BY <1>4, <1>5, <1>6, SentParts

LEMMA ActedAnswer ==
  ASSUME SessionInv, Transmit, Running, Acts(wire.msg, session, card)
  PROVE  /\ AnswerOK(wire'.msg, fresh') /\ wire'.msg.st = "ok"
         /\ call.at = "same" => wire'.msg.mac.under = NoKeys
         /\ call.at # "same" => /\ wire'.msg.mac = RespMac(CountedUp(ntag), wire'.msg.body)
                                /\ wire'.msg.mac.under = ntag.keys /\ wire'.msg.mac.over[2] = ntag.ctr + 1
                                /\ wire'.msg.body =
                                     IF call.op = "read" THEN Enc(ntag.keys, RespIv(CountedUp(ntag)), <<card.data>>) ELSE NoText
<1> DEFINE body == IF call.op = "read" THEN Enc(session.keys, RespIv(Stepped(session)), <<card.data>>) ELSE NoText
<1>1. wire'.msg = IF call.at = "same" THEN Answer("ok", NoText, NoMac) ELSE Answered(body)
  BY ActsAsAsked, TransmitPasses
<1>2. /\ session.keys = ntag.keys /\ session.ti = ntag.ti /\ session.ctr = ntag.ctr
      /\ ntag.keys # NoKeys /\ (call.at = "same" => call.op # "read")
  BY RunningLinked, RunningActs, SentParts
<1>3. /\ Stepped(session).keys = ntag.keys /\ Stepped(session).ti = ntag.ti /\ Stepped(session).ctr = ntag.ctr + 1
      /\ CountedUp(ntag).keys = ntag.keys /\ CountedUp(ntag).ti = ntag.ti /\ CountedUp(ntag).ctr = ntag.ctr + 1
      /\ ntag.ctr \in Nat /\ DrawnBy(ntag.keys[2], fresh)
  BY <1>2, ObjectIsOK DEF Stepped, CountedUp, SessionInv, SimOK, ObjectOK
<1>4. DrawnBy(ntag.keys[2], fresh')
  BY <1>3, TransmitPasses, ObjectIsOK, DrawnGrows DEF Passed
<1>5. body = IF call.op = "read" THEN Enc(ntag.keys, RespIv(CountedUp(ntag)), <<card.data>>) ELSE NoText
  BY <1>2, <1>3 DEF RespIv
<1>6. RespMac(Stepped(session), body) = RespMac(CountedUp(ntag), body)
  BY <1>3 DEF RespMac
<1>7. Len(body.text) # 2
  <2>1. body.text = <<card.data>> \/ body.text = <<>>
    BY DEF Enc, NoText
  <2>2. Len(<<card.data>>) = 1 /\ Len(<<>>) = 0
    OBVIOUS
  <2> HIDE DEF body
  <2> QED
    BY <2>1, <2>2
<1> HIDE DEF body
<1>8. CASE call.at = "same"
  <2>1. wire'.msg.st = "ok" /\ wire'.msg.body = NoText /\ wire'.msg.mac = NoMac
    BY <1>1, <1>8 DEF Answer
  <2>2. Len(NoText.text) # 2 /\ NoMac.under = NoKeys
    BY DEF NoText, NoMac, Enc, NoKeys
  <2> QED
    BY <1>8, <2>1, <2>2 DEF AnswerOK
<1>9. CASE call.at # "same"
  <2>1. wire'.msg.st = "ok" /\ wire'.msg.body = body /\ wire'.msg.mac = RespMac(CountedUp(ntag), body)
    BY <1>1, <1>6, <1>9 DEF Answered, Answer
  <2>2. wire'.msg.mac.under = ntag.keys /\ wire'.msg.mac.over[2] = ntag.ctr + 1
    BY <1>3, <2>1 DEF RespMac
  <2>3. ntag.ctr + 1 \in Nat
    BY <1>3
  <2>4. AnswerOK(wire'.msg, fresh')
    BY <1>4, <1>7, <2>1, <2>2, <2>3 DEF AnswerOK
  <2> QED
    BY <1>5, <1>9, <2>1, <2>2, <2>4
<1> QED
  BY <1>8, <1>9

LEMMA ActedKeeps ==
  ASSUME SessionInv, Transmit, Running, Acts(wire.msg, session, card)
  PROVE  SessionInv'
<1>1. Passed /\ did' = TRUE
  BY ActedSession
<1>2. /\ UNCHANGED <<ntag, call, told, honest, trouble>> /\ handled' \subseteq Commands /\ wire.at = "card"
  BY <1>1 DEF Passed
<1>3. Working /\ ~did /\ ~Acted /\ ntag.keys # NoKeys /\ call.op \in {"read", "write", "same", "diff"}
  BY SentParts
<1>4. Acted' <=> call.at # "same"
  BY <1>1, <1>2 DEF Acted, Running
<1>5. ntag.ctr \in Nat
  BY ObjectIsOK DEF ObjectOK
<1>6. Linked'
  BY <1>1, <1>2, <1>4, ActedSession, ActedCard DEF Linked
<1>7. Harmless'
  <2>1. ASSUME NEW m \in Commands, m.ins \in InSession PROVE ~Acts(m, session', card')
    <3>1. CASE call.at = "same"
      BY <3>1, ActedSession DEF Acts
    <3>2. CASE call.at # "same"
      <4>1. session'.keys = ntag.keys /\ session'.ctr = ntag.ctr + 1
        BY <3>2, ActedSession
      <4>2. m.mac.under = ntag.keys => m.mac.over[2] <= ntag.ctr
        BY <1>3, <2>1 DEF SessionInv, Past
      <4>3. m.mac = CmdMac(session', m.ins, m.of, m.body) => m.mac.under = ntag.keys /\ m.mac.over[2] = ntag.ctr + 1
        BY <4>1 DEF CmdMac
      <4>4. ~(ntag.ctr + 1 <= ntag.ctr)
        BY <1>5
      <4> QED
        BY <4>2, <4>3, <4>4 DEF Acts
    <3> QED
      BY <3>1, <3>2
  <2>2. ASSUME NEW m \in Commands, m.ins = "AF" PROVE m \in handled
    BY <2>2, SentParts DEF Commands, InSession
  <2>3. session'.pending = session.pending
    BY ActedSession
  <2> QED
    BY <1>2, <2>1, <2>2, <2>3 DEF SessionInv, Harmless
<1>8. MacTold'
  <2>1. ASSUME NEW a \in Answers, a.mac.under = ntag.keys PROVE a.mac.over[2] <= ntag.ctr
    BY <1>3, <2>1 DEF SessionInv, MacTold
  <2>2. ASSUME wire'.msg.mac.under = ntag.keys
        PROVE  /\ Acted' /\ wire'.msg.mac.over[2] = ntag.ctr + 1
               /\ wire'.msg.body =
                    IF call.op = "read" THEN Enc(ntag.keys, RespIv(CountedUp(ntag)), <<card'.data>>) ELSE NoText
    <3>1. call.at # "same"
      BY <1>3, <2>2, ActedAnswer
    <3> QED
      BY <1>4, <3>1, ActedAnswer, ActedCard
  <2>3. Answers' \subseteq Answers \cup {wire'.msg}
    BY <1>1, PassedParts
  <2> QED
    BY <1>2, <2>1, <2>2, <2>3 DEF MacTold
<1>9. Here' /\ Resp' = wire'.msg
  BY <1>1, PassedParts
<1>10. HonestTold'
  <2>1. call.at = "diff" => wire'.msg.mac # NoMac
    BY <1>3, ActedAnswer DEF NoMac, NoKeys
  <2> QED
    BY <1>1, <1>2, <1>9, <2>1 DEF HonestTold
<1>11. Quiet'
  <2>1. call.at # "same" => MacFits'
    BY <1>2, <1>9, ActedAnswer DEF MacFits, RespMac, CountedUp
  <2>2. wire'.msg.st = "ok" /\ call.at \notin {"part1", "part2"}
    BY ActedAnswer DEF Running
  <2> QED
    BY <1>1, <1>2, <1>9, <2>1, <2>2 DEF Quiet
<1> QED
  BY <1>1, <1>6, <1>7, <1>8, <1>10, <1>11, ActedSession, ActedCard, ActedAnswer, RunningPassedKeeps
-----------------------------------------------------------------------------
(* The card gets the first half of an authentication, ... *)
LEMMA Auth1Keeps ==
  ASSUME SessionInv, Transmit, call.at = "part1"
  PROVE  SessionInv' /\ card' = card /\ did' = did
<1>1. Passed /\ ~did /\ did = FALSE
  BY TransmitPasses DEF SessionInv, TurnOK
<1>2. wire.msg = Command("71", call.of, NoText, NoMac)
  BY <1>1 DEF SessionInv, SentOK, Passed
<1>3. call.of \in Numbers /\ call.op = "auth"
  BY DEF SessionInv, CallOK
<1>4. wire.msg.ins = "71" /\ wire.msg.of = call.of
  BY <1>2 DEF Command
<1>5. Dispatch(wire.msg) = OnAuth1(wire.msg)
  BY <1>4 DEF Dispatch
<1>6. /\ Dispatch(wire.msg).answer = Answer("more", Enc(LongTerm(card.keys[call.of]), ZeroIv, <<Random(fresh)>>), NoMac)
      /\ Dispatch(wire.msg).card = card /\ Dispatch(wire.msg).did = FALSE
      /\ Dispatch(wire.msg).session = [session EXCEPT !.pending = [no |-> call.of, rnd |-> Random(fresh)]]
  BY <1>4, <1>5 DEF OnAuth1, Outcome
<1>7. /\ wire'.msg = Answer("more", Enc(LongTerm(card.keys[call.of]), ZeroIv, <<Random(fresh)>>), NoMac)
      /\ card' = card /\ did' = FALSE /\ fresh' = fresh + 1
      /\ session' = [session EXCEPT !.pending = [no |-> call.of, rnd |-> Random(fresh)]]
  BY <1>4, <1>6, TransmitPasses
<1>8. /\ session' = [keys |-> session.keys, ti |-> session.ti, ctr |-> session.ctr, no |-> session.no,
                     pending |-> [no |-> call.of, rnd |-> Random(fresh)]]
      /\ session.ctr \in Nat
  BY <1>7 DEF SessionInv, SimOK
<1>9. /\ session'.keys = session.keys /\ session'.ti = session.ti /\ session'.ctr = session.ctr /\ session'.no = session.no
      /\ session'.pending = [no |-> call.of, rnd |-> Random(fresh)]
      /\ session'.pending.no = call.of /\ session'.pending.rnd = Random(fresh)
  BY <1>8
<1>10. /\ fresh \in Nat \ {0} /\ DrawnBy(Random(fresh), fresh')
  BY <1>7, ObjectIsOK, FreshIsDrawn
<1>11. SimOK(session, fresh)' /\ CardOK(card)'
  BY <1>3, <1>7, <1>8, <1>9, <1>10 DEF SimOK, SessionInv
<1>12. /\ wire'.msg.st = "more" /\ wire'.msg.body.text = <<Random(fresh)>> /\ wire'.msg.mac.under = NoKeys
  BY <1>7 DEF Answer, Enc, NoMac, NoKeys
<1>13. AnswerOK(wire'.msg, fresh')
  BY <1>10, <1>12 DEF AnswerOK
<1>14. handled' \subseteq Commands /\ call' = call /\ wire.at = "card" /\ trouble' = trouble
  BY <1>1 DEF Passed
<1>15. Here' /\ Resp' = wire'.msg
  BY <1>1, PassedParts
<1>16. Harmless'
  <2>1. ASSUME NEW m \in Commands, m.ins \in InSession \cup {"AF"} PROVE m \in handled
    BY <1>4, <2>1 DEF Commands, InSession
  <2>2. ASSUME NEW m \in handled PROVE Acts(m, session', card') <=> Acts(m, session, card)
    BY <1>7, <1>9 DEF Acts, CmdMac, CmdIv
  <2>3. ASSUME NEW m \in handled, m.ins = "AF" PROVE m.body.text[2] # Rotated(Random(fresh))
    <3>1. m.body.text[2] = {} \/ TurnedBy(m.body.text[2], fresh)
      BY <2>3 DEF SessionInv, CommandsOK, Commands, CommandOK
    <3> QED
      BY <1>10, <3>1, FreshIsNew
  <2> QED
    BY <1>9, <1>14, <2>1, <2>2, <2>3 DEF SessionInv, Harmless
<1>17. PendingKnown' /\ ProofTold'
  BY <1>9, <1>14 DEF PendingKnown, ProofTold
<1>18. Quiet'
  BY <1>7, <1>9, <1>14, <1>15 DEF Quiet
<1> QED
  BY <1>1, <1>3, <1>7, <1>11, <1>12, <1>13, <1>16, <1>17, <1>18, AuthPassedKeeps

\* ... and the second.
LEMMA SentAuth ==
  ASSUME SessionInv, wire.at = "card", call.at = "part2"
  PROVE  /\ wire.msg.ins = "AF" /\ wire.msg.body = Enc(LongTerm(call.key), ZeroIv, <<call.rnd[1], Rotated(call.rnd[2])>>)
         /\ call.rnd = <<call.rnd[1], call.rnd[2]>> /\ DrawnBy(call.rnd[1], fresh)
         /\ call.rnd[2] = {} \/ DrawnBy(call.rnd[2], fresh)
         /\ call.op = "auth" /\ call.of \in Numbers /\ ~did /\ Dispatch(wire.msg) = OnAuth2(wire.msg)
<1>1. wire.msg = Command("AF", -1, Enc(LongTerm(call.key), ZeroIv, <<call.rnd[1], Rotated(call.rnd[2])>>), NoMac)
  BY DEF SessionInv, SentOK
<1>2. wire.msg.ins = "AF" /\ wire.msg.body = Enc(LongTerm(call.key), ZeroIv, <<call.rnd[1], Rotated(call.rnd[2])>>)
  BY <1>1 DEF Command
<1>3. Dispatch(wire.msg) = OnAuth2(wire.msg)
  BY <1>2 DEF Dispatch
<1>4. call.op = "auth" /\ call.of \in Numbers /\ ~did
  BY DEF SessionInv, CallOK, TurnOK
<1> QED
  BY <1>2, <1>3, <1>4 DEF SessionInv, NumbersNew

\* The card believes the reader.
Believed ==
  /\ session.pending.no # -1 /\ call.rnd[2] = session.pending.rnd
  /\ card.keys[session.pending.no] = call.key

LEMMA Auth2Believed ==
  ASSUME SessionInv, wire.at = "card", call.at = "part2", Believed
  PROVE  /\ Dispatch(wire.msg).card = card /\ Dispatch(wire.msg).did = TRUE
         /\ Dispatch(wire.msg).answer = Answer("ok", Enc(LongTerm(call.key), ZeroIv, <<Random(fresh), Rotated(call.rnd[1])>>), NoMac)
         /\ Dispatch(wire.msg).session = [NoSession EXCEPT !.keys = <<call.key, call.rnd[1], call.rnd[2]>>,
                                                           !.ti = Random(fresh), !.no = session.pending.no]
<1> DEFINE text == <<call.rnd[1], Rotated(call.rnd[2])>>
<1>1. Dec(LongTerm(call.key), ZeroIv, wire.msg.body) = text
  BY SentAuth DEF Dec, Enc
<1>2. Len(text) = 2 /\ text[1] = call.rnd[1] /\ text[2] = Rotated(call.rnd[2])
  OBVIOUS
<1>3. /\ session.pending.no # -1 /\ call.rnd[2] = session.pending.rnd /\ card.keys[session.pending.no] = call.key
  BY DEF Believed
<1> HIDE DEF text
<1>4. Dispatch(wire.msg) =
        Outcome(Answer("ok", Enc(LongTerm(call.key), ZeroIv, <<Random(fresh), Rotated(text[1])>>), NoMac), card,
                [NoSession EXCEPT !.keys = <<call.key, text[1], session.pending.rnd>>, !.ti = Random(fresh),
                                  !.no = session.pending.no], TRUE)
  BY <1>1, <1>2, <1>3, SentAuth DEF OnAuth2
<1> QED
  BY <1>2, <1>3, <1>4 DEF Outcome

LEMMA Auth2Refused ==
  ASSUME SessionInv, wire.at = "card", call.at = "part2", ~Believed
  PROVE  \/ session.pending.no = -1 /\ Dispatch(wire.msg) = Refusal(session)
         \/ Dispatch(wire.msg) = Refusal(NotPending(session))
<1> DEFINE plain == Dec(LongTerm(card.keys[session.pending.no]), ZeroIv, wire.msg.body)
<1>1. CASE session.pending.no = -1
  BY <1>1, SentAuth DEF OnAuth2
<1>2. CASE session.pending.no # -1
  <2>1. Len(plain) # 2 \/ plain[2] # Rotated(session.pending.rnd)
    <3>1. CASE card.keys[session.pending.no] # call.key
      <4>1. plain = <<>>
        BY <3>1, SentAuth DEF Dec, Enc, LongTerm, Garbage
      <4>2. Len(<<>>) = 0
        OBVIOUS
      <4> QED
        BY <4>1, <4>2
    <3>2. CASE card.keys[session.pending.no] = call.key
      <4>1. plain = <<call.rnd[1], Rotated(call.rnd[2])>>
        BY <3>2, SentAuth DEF Dec, Enc
      <4>2. call.rnd[2] # session.pending.rnd
        BY <1>2, <3>2 DEF Believed
      <4>3. DrawnBy(session.pending.rnd, fresh)
        BY <1>2 DEF SessionInv, SimOK
      <4>4. Rotated(call.rnd[2]) # Rotated(session.pending.rnd)
        BY <4>2, <4>3, SentAuth, ObjectIsOK, RotatedApart
      <4> QED
        BY <4>1, <4>4
    <3> QED
      BY <3>1, <3>2
  <2> HIDE DEF plain
  <2> QED
    BY <1>2, <2>1, SentAuth DEF OnAuth2, plain
<1> QED
  BY <1>1, <1>2

LEMMA Auth2RefusedKeeps ==
  ASSUME SessionInv, Transmit, call.at = "part2", ~Believed
  PROVE  SessionInv' /\ card' = card /\ did' = did
<1>1. Passed /\ ~did /\ did = FALSE
  BY TransmitPasses DEF SessionInv, TurnOK
<1>2. /\ wire.at = "card" /\ handled' \subseteq Commands /\ UNCHANGED <<ntag, call, told, honest, trouble>>
      /\ fresh' \in Nat /\ fresh <= fresh'
  BY <1>1 DEF Passed
<1>3. \/ session.pending.no = -1 /\ Dispatch(wire.msg) = Refusal(session)
      \/ Dispatch(wire.msg) = Refusal(NotPending(session))
  BY <1>2, Auth2Refused
<1>4. /\ Dispatch(wire.msg).card = card /\ Dispatch(wire.msg).did = FALSE /\ Dispatch(wire.msg).answer = Refused
      /\ \/ session.pending.no = -1 /\ Dispatch(wire.msg).session = session
         \/ Dispatch(wire.msg).session = NotPending(session)
  BY <1>3 DEF Refusal, Outcome
<1>5. did' = FALSE /\ card' = card /\ wire'.msg = Refused
  BY <1>4, TransmitPasses
<1>6. (session.pending.no = -1 /\ session' = session) \/ session' = NotPending(session)
  BY <1>4, TransmitPasses
<1>7. /\ session = [keys |-> session.keys, ti |-> session.ti, ctr |-> session.ctr, no |-> session.no,
                    pending |-> session.pending]
      /\ session.ctr \in Nat
  BY DEF SessionInv, SimOK
<1>8. /\ session'.keys = session.keys /\ session'.ti = session.ti /\ session'.ctr = session.ctr /\ session'.no = session.no
      /\ session'.pending.no = -1 /\ session'.pending = [no |-> session'.pending.no, rnd |-> session'.pending.rnd]
      /\ session' = [keys |-> session'.keys, ti |-> session'.ti, ctr |-> session'.ctr, no |-> session'.no,
                     pending |-> session'.pending]
  <2>1. CASE session' = session /\ session.pending.no = -1
    BY <1>7, <2>1 DEF SessionInv, SimOK
  <2>2. CASE session' = NotPending(session)
    BY <1>7, <2>2 DEF NotPending, NoSession
  <2> QED
    BY <1>6, <2>1, <2>2
<1>9. SimOK(session, fresh)' /\ CardOK(card)'
  BY <1>5, <1>7, <1>8 DEF SimOK, SessionInv
<1>10. Refused.st = "error" /\ Refused.body.text = <<>> /\ Refused.mac.under = NoKeys /\ Len(<<>>) = 0
  BY DEF Refused, Answer, NoText, NoMac, Enc, NoKeys
<1>11. AnswerOK(wire'.msg, fresh')
  BY <1>5, <1>10 DEF AnswerOK
<1>12. Harmless'
  <2>1. ASSUME NEW m \in Commands, m.ins \in InSession PROVE m \in handled
    BY <1>2, <2>1, SentAuth DEF Commands, InSession
  <2>2. ASSUME NEW m \in handled PROVE Acts(m, session', card') <=> Acts(m, session, card)
    BY <1>5, <1>8 DEF Acts, CmdMac, CmdIv
  <2> QED
    BY <1>2, <1>8, <2>1, <2>2 DEF SessionInv, Harmless
<1>13. PendingKnown'
  BY <1>8 DEF PendingKnown
<1>14. Answers' \subseteq Answers \cup {Refused} /\ Here' /\ Resp' = Refused /\ wire'.at = "reader"
  BY <1>1, <1>5, PassedParts
<1>15. ProofTold'
  <2>1. ASSUME NEW a \in Answers PROVE ~(a.st = "ok" /\ Len(a.body.text) = 2 /\ a.body.text[2] = Rotated(call.rnd[1]))
    BY <1>1, <2>1 DEF SessionInv, ProofTold, Opened
  <2> QED
    BY <1>2, <1>10, <1>14, <2>1 DEF ProofTold
<1>16. Quiet'
  <2>1. ~trouble => session.pending.no = call.of /\ (card.keys[call.of] = call.key => call.rnd[2] = session.pending.rnd)
    BY <1>2 DEF SessionInv, Quiet
  <2>2. ~trouble => card.keys[call.of] # call.key
    BY <1>2, <2>1, SentAuth, KeyNumbers DEF Believed
  <2> QED
    BY <1>2, <1>5, <1>14, <2>2 DEF Quiet
<1> QED
  BY <1>1, <1>2, <1>5, <1>9, <1>10, <1>11, <1>12, <1>13, <1>15, <1>16, SentAuth, AuthPassedKeeps

\* The card is with the reader: a session of its own keys, so that nothing of the past fits.
LEMMA Auth2BelievedKeeps ==
  ASSUME SessionInv, Transmit, call.at = "part2", Believed
  PROVE  /\ SessionInv' /\ card' = card /\ did' = TRUE /\ Promise!Works(card, Exchange)
         /\ Promise!After(card, Exchange) = card
<1>1. Passed /\ ~did
  BY TransmitPasses
<1>2. /\ wire.at = "card" /\ handled' \subseteq Commands /\ UNCHANGED <<ntag, call, told, honest, trouble>>
      /\ fresh' \in Nat /\ fresh <= fresh'
  BY <1>1 DEF Passed
<1>3. /\ session.pending.no # -1 /\ call.rnd[2] = session.pending.rnd /\ card.keys[session.pending.no] = call.key
  BY DEF Believed
<1>4. session.pending.no = call.of
  BY <1>3 DEF SessionInv, PendingKnown
<1>5. /\ card' = card /\ did' = TRUE
      /\ wire'.msg = Answer("ok", Enc(LongTerm(call.key), ZeroIv, <<Random(fresh), Rotated(call.rnd[1])>>), NoMac)
      /\ session' = [NoSession EXCEPT !.keys = <<call.key, call.rnd[1], call.rnd[2]>>,
                                      !.ti = Random(fresh), !.no = session.pending.no]
  BY <1>2, Auth2Believed, TransmitPasses
<1>6. session' = [keys |-> <<call.key, call.rnd[1], call.rnd[2]>>, ti |-> Random(fresh), ctr |-> 0, no |-> call.of,
                  pending |-> [no |-> -1, rnd |-> {}]]
  BY <1>4, <1>5 DEF NoSession
<1>7. /\ session'.keys = <<call.key, call.rnd[1], call.rnd[2]>> /\ session'.ti = Random(fresh) /\ session'.ctr = 0
      /\ session'.no = call.of /\ session'.pending = [no |-> -1, rnd |-> {}] /\ session'.pending.no = -1
  BY <1>6
<1>8. SimOK(session, fresh)' /\ CardOK(card)'
  <2>1. session'.pending = [no |-> session'.pending.no, rnd |-> session'.pending.rnd] /\ session'.ctr \in Nat
        /\ session' = [keys |-> session'.keys, ti |-> session'.ti, ctr |-> session'.ctr, no |-> session'.no,
                       pending |-> session'.pending]
    BY <1>6, <1>7
  <2>2. SimOK(session, fresh)'
    BY <1>7, <2>1 DEF SimOK
  <2>3. CardOK(card)'
    BY <1>5 DEF SessionInv
  <2> QED
    BY <2>2, <2>3
<1>9. /\ wire'.msg.st = "ok" /\ wire'.msg.body = Enc(LongTerm(call.key), ZeroIv, <<Random(fresh), Rotated(call.rnd[1])>>)
      /\ wire'.msg.body.text = <<Random(fresh), Rotated(call.rnd[1])>> /\ wire'.msg.mac.under = NoKeys
  BY <1>5 DEF Answer, Enc, NoMac, NoKeys
<1>10. AnswerOK(wire'.msg, fresh')
  <2>1. TurnedBy(Rotated(call.rnd[1]), fresh)
    <3>1. call.rnd[1] # {}
      BY <1>2, SentAuth, ObjectIsOK, FreshIsNew
    <3> QED
      BY <1>2, <3>1, SentAuth, ObjectIsOK, RotatedApart
  <2>2. TurnedBy(Rotated(call.rnd[1]), fresh')
    BY <1>2, <2>1, ObjectIsOK, DrawnGrows
  <2> QED
    BY <1>9, <2>2 DEF AnswerOK
<1>11. Harmless'
  <2>1. ASSUME NEW m \in Commands, m.ins \in InSession PROVE ~Acts(m, session', card')
    <3>1. m.mac.under[2] # call.rnd[1]
      BY <2>1 DEF SessionInv, NumbersNew
    <3>2. m.mac.under # session'.keys
      BY <1>7, <3>1
    <3> QED
      BY <3>2 DEF Acts, CmdMac
  <2> QED
    BY <1>2, <1>7, <2>1 DEF Harmless
<1>12. PendingKnown'
  BY <1>7 DEF PendingKnown
<1>13. Answers' \subseteq Answers \cup {wire'.msg} /\ Here' /\ Resp' = wire'.msg /\ wire'.at = "reader"
  BY <1>1, PassedParts
<1>14. ProofTold'
  <2>1. ASSUME NEW a \in Answers PROVE ~(a.st = "ok" /\ Len(a.body.text) = 2 /\ a.body.text[2] = Rotated(call.rnd[1]))
    BY <1>1, <2>1 DEF SessionInv, ProofTold, Opened
  <2>2. ASSUME NEW ti, ti = Random(fresh) PROVE Opened(ti)'
    BY <1>2, <1>3, <1>4, <1>5, <1>7, <2>2 DEF Opened
  <2>3. wire'.msg.body.text[1] = Random(fresh)
    BY <1>9
  <2> QED
    BY <1>2, <1>13, <2>1, <2>2, <2>3 DEF ProofTold
<1>15. Quiet'
  <2>1. Proof' = <<Random(fresh), Rotated(call.rnd[1])>>
    BY <1>2, <1>9, <1>13 DEF Proof, Dec, Enc
  <2>2. ProofHolds'
    BY <1>2, <2>1 DEF ProofHolds
  <2> QED
    BY <1>2, <1>5, <1>9, <1>13, <2>2 DEF Quiet
<1>16. Promise!Works(card, Exchange) /\ Promise!After(card, Exchange) = card
  <2>1. /\ Exchange.op = "auth" /\ Exchange.no = call.of /\ Exchange.key = call.key
    BY SentAuth, <1>2 DEF Exchange, SessionInv, CallOK
  <2>2. call.of \in DOMAIN card.keys
    BY <1>2, SentAuth DEF SessionInv, CardOK
  <2> QED
    BY <1>3, <1>4, <2>1, <2>2 DEF Promise!Works, Promise!After
<1> QED
  BY <1>1, <1>2, <1>5, <1>8, <1>9, <1>10, <1>11, <1>12, <1>14, <1>15, <1>16, SentAuth, AuthPassedKeeps

\* What a command does to the card: what the running call asked, once, or nothing.
LEMMA TransmitKeeps ==
  ASSUME SessionInv, Transmit
  PROVE  /\ SessionInv'
         /\ \/ card' = card /\ did' = did
            \/ ~did /\ did' = TRUE /\ Promise!Works(card, Exchange) /\ card' = Promise!After(card, Exchange)
<1>1. Passed /\ ~did
  BY TransmitPasses
<1>2. call.at \in {"part1", "part2", "full", "same", "diff"} /\ wire.at = "card"
  BY <1>1 DEF Passed, SessionInv, TurnOK, CallOK
<1>3. CASE call.at = "part1"
  BY <1>3, Auth1Keeps
<1>4. CASE call.at = "part2" /\ Believed
  BY <1>1, <1>4, Auth2BelievedKeeps
<1>5. CASE call.at = "part2" /\ ~Believed
  BY <1>5, Auth2RefusedKeeps
<1>6. CASE Running /\ Acts(wire.msg, session, card)
  BY <1>1, <1>6, ActedKeeps, ActedSession, ActedCard, ActsAsAsked
<1>7. CASE Running /\ ~Acts(wire.msg, session, card)
  BY <1>7, RefusedKeeps
<1> QED
  BY <1>2, <1>3, <1>4, <1>5, <1>6, <1>7 DEF Running
-----------------------------------------------------------------------------
(* Every step. *)
LEMMA StutterKeeps == ASSUME SessionInv, UNCHANGED sessionVars PROVE SessionInv'
<1>1. UNCHANGED <<ntag, call, wire, card, session, fresh, handled, heard, did, told, honest, trouble>>
  BY DEF sessionVars
<1>2. CardOK(card)' /\ ObjectOK(ntag, fresh)' /\ SimOK(session, fresh)'
  BY <1>1 DEF SessionInv
<1>3. CallOK' /\ TurnOK'
  BY <1>1 DEF SessionInv, CallOK, TurnOK, Exchange
<1>4. SentOK' /\ Linked'
  BY <1>1 DEF SessionInv, SentOK, SentFull, SentChange, Linked, Working, Acted
<1>5. Here' = Here /\ Resp' = Resp /\ Commands' = Commands /\ Answers' = Answers
  BY <1>1 DEF Here, Resp, Commands, Answers
<1>6. CommandsOK' /\ Past' /\ Harmless' /\ AnswersOK'
  BY <1>1, <1>5 DEF SessionInv, CommandsOK, Past, Working, Harmless, AnswersOK
<1>7. PendingKnown' /\ NumbersNew' /\ ProofTold'
  BY <1>1, <1>5 DEF SessionInv, PendingKnown, NumbersNew, ProofTold, Opened
<1>8. MacTold' /\ HonestTold'
  BY <1>1, <1>5 DEF SessionInv, MacTold, HonestTold, Working, Acted
<1>9. Quiet'
  BY <1>1, <1>5 DEF SessionInv, Quiet, ProofHolds, Proof, MacFits, Exchange
<1> QED
  BY <1>2, <1>3, <1>4, <1>6, <1>7, <1>8, <1>9 DEF SessionInv

\* The refinement: what each step is to the promise, and that the invariant stays.
Begin     == \E c \in Calls : AuthEv2(c) \/ Full(c) \/ ChangeKeySame(c) \/ ChangeKeyDiff(c) \/ RefusesCall(c)
Believes  == AuthDone \/ FullDone \/ SameDone \/ DiffDone
GivesUp   == AuthFails \/ CommandFails \/ Refuses \/ Lose
Disturbs  == Repeat \/ Replace

LEMMA SessionSteps ==
  ASSUME SessionInv, [SessionNext]_sessionVars
  PROVE  \/ Begin \/ Believes \/ GivesUp \/ Disturbs \/ AuthPart2 \/ Reconnect \/ Transmit \/ UNCHANGED sessionVars
BY DEF SessionNext, Begin, Believes, GivesUp, Disturbs

LEMMA SessionInvKept == SessionInv /\ [SessionNext]_sessionVars => SessionInv'
<1> SUFFICES ASSUME SessionInv, [SessionNext]_sessionVars PROVE SessionInv'
  OBVIOUS
<1>1. CASE Begin
  BY <1>1, AuthBegins, FullBegins, SameBegins, DiffBegins, RefusalBegins DEF Begin
<1>2. CASE Believes
  BY <1>2, AuthDoneKeeps, FullDoneKeeps, SameDoneKeeps, DiffDoneKeeps DEF Believes
<1>3. CASE GivesUp
  BY <1>3, AuthFailsKeeps, CommandFailsKeeps, LoseKeeps DEF GivesUp
<1>4. CASE Disturbs
  BY <1>4, RepeatKeeps, ReplaceKeeps DEF Disturbs
<1> QED
  BY <1>1, <1>2, <1>3, <1>4, AuthPart2Keeps, ReconnectKeeps, TransmitKeeps, StutterKeeps, SessionSteps

LEMMA PromiseStarts == SessionInit => Promise!Init
BY DEF SessionInit, Promise!Init, Exchange, Idle, Told, Promise!Told

\* A call that runs, as the promise sees it.
LEMMA CallsWait == ASSUME SessionInv, call.at # "idle" PROVE told = Waiting /\ told = Promise!Waiting /\ Exchange.op = call.op
<1>1. told = Waiting /\ call.op # "none"
  BY DEF SessionInv, TurnOK, CallOK
<1> QED
  BY <1>1 DEF Waiting, Told, Promise!Waiting, Exchange

LEMMA BeginIsCall == ASSUME Begin PROVE Promise!Call
<1>1. PICK c \in Calls : \E at : Begins(c, at)
  BY DEF Begin, AuthEv2, Full, ChangeKeySame, ChangeKeyDiff, RefusesCall
<1>2. /\ told.how # "waiting" /\ told' = Waiting /\ did' = FALSE /\ honest' = TRUE
      /\ UNCHANGED <<card, trouble>> /\ call'.op = c.op
  BY <1>1 DEF Begins
<1>3. c.op # "none"
  BY CallsAreKnown
<1> QED
  BY <1>2, <1>3 DEF Promise!Call, Exchange, Waiting, Told, Promise!Waiting

\* Returning, as the promise sees it.
LEMMA ReturnIsTold ==
  ASSUME NEW how, NEW data, Return(how, data), did' = did, card' = card, honest' = honest
  PROVE  Exchange' = [op |-> "none"] /\ told' = Promise!Told(how, data)
BY DEF Return, Exchange, Idle, Told, Promise!Told

LEMMA RaiseIsRaise ==
  ASSUME SessionInv, Raise, call.at # "idle", UNCHANGED <<card, did, honest>>, trouble' \in {trouble, TRUE},
         trouble' \/ (~did /\ ~Promise!Works(card, Exchange))
  PROVE  Promise!Raise
<1>1. Exchange' = [op |-> "none"] /\ told' = Promise!Told("raised", {})
  BY DEF Raise, Return, Exchange, Idle, Told, Promise!Told
<1> QED
  BY <1>1, CallsWait DEF Promise!Raise

\* A method raises because something went wrong, or because the card would not have done it.
LEMMA GivesUpIsRaise == ASSUME SessionInv, GivesUp PROVE Promise!Raise
<1>1. CASE AuthFails
  <2>1. /\ Here /\ Raise /\ UNCHANGED <<card, did, honest, trouble>> /\ call.at \in {"part1", "part2"}
        /\ call.at = "part1" => Resp.st # "more"
        /\ call.at = "part2" => ~(Resp.st = "ok" /\ ProofHolds)
    BY <1>1 DEF AuthFails, cardVars, faultVars
  <2>2. trouble \in BOOLEAN
    BY TroubleIsBool
  <2>3. ASSUME ~trouble PROVE ~did /\ card.keys[call.of] # call.key /\ call.at = "part2"
    <3>1. call.at # "part1"
      <4>1. call.at = "part1" => Resp.st = "more"
        BY <2>1, <2>3 DEF SessionInv, Quiet, Answer
      <4> QED
        BY <2>1, <4>1
    <3>2. call.at = "part2"
      BY <2>1, <3>1
    <3> QED
      BY <2>1, <2>3, <3>2 DEF SessionInv, Quiet
  <2>4. ASSUME ~trouble PROVE ~did /\ ~Promise!Works(card, Exchange)
    <3>1. Exchange.no = call.of /\ Exchange.key = call.key
      BY <2>1 DEF SessionInv, CallOK, Exchange
    <3> QED
      BY <2>3, <2>4, <3>1 DEF Promise!Works
  <2> QED
    BY <2>1, <2>2, <2>4, RaiseIsRaise
<1>2. CASE CommandFails
  <2>1. Here /\ Raise /\ UNCHANGED <<card, did, honest, trouble>> /\ call.at \in {"full", "same", "diff"} /\ Resp.st # "ok"
    BY <1>2 DEF CommandFails, cardVars, faultVars
  <2>2. ASSUME ~trouble PROVE ~did /\ ~Promise!Works(card, Exchange)
    BY <2>1, <2>2 DEF SessionInv, Quiet
  <2> QED
    BY <2>1, <2>2, TroubleIsBool, RaiseIsRaise
<1>3. CASE Refuses
  <2>1. Raise /\ UNCHANGED <<card, did, honest, trouble>> /\ call.at = "refused"
    BY <1>3 DEF Refuses, cardVars, faultVars
  <2>2. ~did /\ ~Promise!Works(card, Exchange)
    BY <2>1 DEF SessionInv, TurnOK, CallOK
  <2> QED
    BY <2>1, <2>2, TroubleIsBool, RaiseIsRaise
<1>4. CASE Lose
  <2>1. Raise /\ UNCHANGED <<card, did, honest>> /\ trouble' = TRUE /\ wire.at \in {"card", "reader"}
    BY <1>4 DEF Lose, Fault
  <2>2. call.at # "idle"
    BY <2>1 DEF SessionInv, TurnOK
  <2> QED
    BY <2>1, <2>2, RaiseIsRaise
<1> QED
  BY <1>1, <1>2, <1>3, <1>4 DEF GivesUp

LEMMA DoneIsDone ==
  ASSUME SessionInv, call.at # "idle", NEW data, Return("done", data), UNCHANGED <<card, did, honest>>,
         did \/ (~honest /\ call.op \in {"diff", "same"}),
         data = IF call.op = "read" THEN card.data ELSE {},
         trouble' = (trouble /\ call.op # "auth")
  PROVE  Promise!Done
<1>1. Exchange' = [op |-> "none"] /\ told' = Promise!Told("done", data)
  BY DEF Return, Exchange, Idle, Told, Promise!Told
<1> QED
  BY <1>1, CallsWait DEF Promise!Done

LEMMA AuthIsDone == ASSUME SessionInv, AuthDone PROVE Promise!Done
<1>1. /\ Here /\ call.at = "part2" /\ Resp.st = "ok" /\ Len(Proof) = 2 /\ Proof[2] = Rotated(call.rnd[1])
      /\ Return("done", {}) /\ UNCHANGED <<card, did, honest>> /\ trouble' = FALSE
  BY DEF AuthDone, ProofHolds, cardVars
<1>2. Proof = Resp.body.text
  <2>1. Proof = Resp.body.text \/ Proof = <<>>
    BY DEF Proof, Dec, Garbage
  <2>2. Len(<<>>) = 0
    OBVIOUS
  <2>3. Len(Proof) = 2
    BY <1>1
  <2>4. Proof # <<>>
    BY <2>2, <2>3
  <2> QED
    BY <2>1, <2>4
<1>3. did
  BY <1>1, <1>2 DEF SessionInv, ProofTold, Answers, Opened
<1>4. call.op = "auth"
  BY <1>1 DEF SessionInv, CallOK
<1> QED
  BY <1>1, <1>3, <1>4, TroubleIsBool, DoneIsDone

\* An answer that does not fit raises, and something went wrong.
LEMMA UnfitIsTrouble ==
  ASSUME SessionInv, Here, call.at \in {"full", "diff"}, Resp.st = "ok", ~MacFits
  PROVE  trouble = TRUE
BY DEF SessionInv, Quiet, TurnOK

LEMMA FullIsDone == ASSUME SessionInv, FullDone PROVE Promise!Done \/ Promise!Raise
<1>1. /\ Here /\ call.at = "full" /\ Resp.st = "ok" /\ UNCHANGED <<card, did, honest, trouble>>
  BY DEF FullDone, cardVars, faultVars
<1>2. call.op \in {"read", "write"} /\ trouble \in BOOLEAN
  BY <1>1 DEF SessionInv, CallOK, TurnOK
<1>3. CASE MacFits
  <2> DEFINE data == IF Resp.body = NoText THEN {} ELSE Dec(ntag.keys, RespIv(CountedUp(ntag)), Resp.body)[1]
  <2>1. Return("done", data)
    BY <1>3 DEF FullDone
  <2>2. did /\ Resp.body = IF call.op = "read" THEN Enc(ntag.keys, RespIv(CountedUp(ntag)), <<card.data>>) ELSE NoText
    BY <1>1, <1>3, FitMeansDone
  <2>3. ntag.keys # NoKeys
    BY <1>1, SessionRuns
  <2>4. data = IF call.op = "read" THEN card.data ELSE {}
    <3>1. Enc(ntag.keys, RespIv(CountedUp(ntag)), <<card.data>>) # NoText
      BY <2>3 DEF Enc, NoText, NoKeys
    <3>2. call.op = "read" => Dec(ntag.keys, RespIv(CountedUp(ntag)), Resp.body) = <<card.data>>
      BY <2>2 DEF Dec, Enc
    <3> QED
      BY <1>2, <2>2, <3>1, <3>2
  <2> HIDE DEF data
  <2> QED
    BY <1>1, <1>2, <2>1, <2>2, <2>4, DoneIsDone
<1>4. CASE ~MacFits
  <2>1. Raise /\ trouble = TRUE
    BY <1>1, <1>4, UnfitIsTrouble DEF FullDone
  <2> QED
    BY <1>1, <2>1, RaiseIsRaise
<1> QED
  BY <1>3, <1>4

LEMMA SameIsDone == ASSUME SessionInv, SameDone PROVE Promise!Done
<1>1. /\ Here /\ call.at = "same" /\ Resp.st = "ok" /\ UNCHANGED <<card, did, honest, trouble>> /\ Return("done", {})
  BY DEF SameDone, cardVars, faultVars
<1>2. call.op = "same" /\ trouble \in BOOLEAN
  BY <1>1 DEF SessionInv, CallOK, TurnOK
<1>3. did \/ ~honest
  BY <1>1 DEF SessionInv, HonestTold
<1> QED
  BY <1>1, <1>2, <1>3, DoneIsDone

LEMMA DiffIsDone == ASSUME SessionInv, DiffDone PROVE Promise!Done \/ Promise!Raise
<1>1. /\ Here /\ call.at = "diff" /\ Resp.st = "ok" /\ UNCHANGED <<card, did, honest, trouble>>
      /\ Return("done", {}) \/ Raise
      /\ Return("done", {}) => Resp.mac = NoMac \/ MacFits
      /\ ~MacFits \/ Return("done", {})
  BY DEF DiffDone, cardVars, faultVars, Raise, Return, Told
<1>2. call.op = "diff" /\ trouble \in BOOLEAN
  BY <1>1 DEF SessionInv, CallOK, TurnOK
<1>3. CASE Return("done", {})
  <2>1. did \/ ~honest
    BY <1>1, <1>3, DiffBelieved
  <2> QED
    BY <1>1, <1>2, <1>3, <2>1, DoneIsDone
<1>4. CASE Raise /\ ~MacFits
  <2>1. trouble = TRUE
    BY <1>1, <1>4, UnfitIsTrouble
  <2> QED
    BY <1>1, <1>4, <2>1, RaiseIsRaise
<1> QED
  BY <1>1, <1>3, <1>4

LEMMA DisturbsIsDisturb == ASSUME SessionInv, Disturbs PROVE Promise!Disturb
<1>1. CASE Repeat
  <2>1. UNCHANGED <<call, did, told, honest>> /\ trouble' = TRUE
    BY <1>1 DEF Repeat, Fault
  <2>2. card' = card
    BY <1>1, AgainIsHarmless DEF Repeat
  <2> QED
    BY <2>1, <2>2 DEF Promise!Disturb, Exchange
<1>2. CASE Replace
  <2>1. UNCHANGED <<call, card, did, told>> /\ trouble' = TRUE /\ honest' = FALSE
    BY <1>2 DEF Replace, Fault
  <2> QED
    BY <2>1 DEF Promise!Disturb, Exchange
<1> QED
  BY <1>1, <1>2 DEF Disturbs

LEMMA TransmitIsAct == ASSUME SessionInv, Transmit PROVE Promise!Act \/ UNCHANGED Promise!promiseVars
<1>1. Passed
  BY TransmitPasses
<1>2. call.at # "idle"
  BY <1>1, PassedParts
<1>3. UNCHANGED <<call, told, honest, trouble>>
  BY <1>1 DEF Passed
<1>4. told = Promise!Waiting
  BY <1>2, CallsWait
<1>5. CASE card' = card /\ did' = did
  BY <1>3, <1>5 DEF Promise!promiseVars, Exchange
<1>6. CASE ~did /\ did' = TRUE /\ Promise!Works(card, Exchange) /\ card' = Promise!After(card, Exchange)
  BY <1>3, <1>4, <1>6 DEF Promise!Act, Exchange
<1> QED
  BY <1>5, <1>6, TransmitKeeps

LEMMA OthersAreQuiet ==
  ASSUME SessionInv, AuthPart2 \/ Reconnect \/ UNCHANGED sessionVars
  PROVE  UNCHANGED Promise!promiseVars
<1>1. CASE AuthPart2
  <2>1. PICK rndB :
          call' = [op |-> call.op, of |-> call.of, key |-> call.key, old |-> call.old, new |-> call.new,
                   rnd |-> <<Random(fresh), rndB>>, at |-> "part2", by |-> call.by, byKey |-> call.byKey]
    BY <1>1, AuthPart2Sends
  <2>2. UNCHANGED <<card, did, told, honest, trouble>>
    BY <1>1 DEF AuthPart2, cardVars, faultVars
  <2> QED
    BY <2>1, <2>2 DEF Promise!promiseVars, Exchange
<1>2. CASE Reconnect
  BY <1>2 DEF Reconnect, faultVars, Promise!promiseVars, Exchange
<1>3. CASE UNCHANGED sessionVars
  BY <1>3 DEF sessionVars, Promise!promiseVars, Exchange
<1> QED
  BY <1>1, <1>2, <1>3

LEMMA SessionRefines == SessionInv /\ [SessionNext]_sessionVars => [Promise!Next]_Promise!promiseVars
<1> SUFFICES ASSUME SessionInv, [SessionNext]_sessionVars PROVE Promise!Next \/ UNCHANGED Promise!promiseVars
  OBVIOUS
<1>1. CASE Begin
  BY <1>1, BeginIsCall DEF Promise!Next
<1>2. CASE Believes
  BY <1>2, AuthIsDone, FullIsDone, SameIsDone, DiffIsDone DEF Believes, Promise!Next
<1>3. CASE GivesUp
  BY <1>3, GivesUpIsRaise DEF Promise!Next
<1>4. CASE Disturbs
  BY <1>4, DisturbsIsDisturb DEF Promise!Next
<1>5. CASE Transmit
  BY <1>5, TransmitIsAct DEF Promise!Next
<1> QED
  BY <1>1, <1>2, <1>3, <1>4, <1>5, OthersAreQuiet, SessionSteps

\* Every exchange acts once, as asked, or not at all; "done" is true (ExchangesAreWhole).
THEOREM ExchangesStayWhole == SessionSpec => ExchangesAreWhole
<1>1. SessionInit => SessionInv /\ Promise!Init
  BY Starts, PromiseStarts
<1>2. SessionInv /\ [SessionNext]_sessionVars => SessionInv'
  BY SessionInvKept
<1>3. SessionInv /\ [SessionNext]_sessionVars => [Promise!Next]_Promise!promiseVars
  BY SessionRefines
<1> QED
  BY <1>1, <1>2, <1>3, PTL DEF SessionSpec, ExchangesAreWhole, Promise!Spec
=============================================================================

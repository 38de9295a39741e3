-------------------------------- MODULE Session --------------------------------
(***************************************************************************)
(* NTAG424 of card_seed.py: a session with a card, its counter, and the    *)
(* exchanges under it: read and write the factor, change a key.  The       *)
(* card's side is the repository's own model of it, SimNTAG424.            *)
(*                                                                         *)
(* Cipher texts and MACs are terms that say what they were made of.  A key *)
(* is a set of bits, the factory's the empty one, so that the XOR in a     *)
(* ChangeKey is what it is in the code.  Between reader and card a command *)
(* or an answer may be lost, an earlier command may come again, and an     *)
(* earlier answer may come in place of the one that was given.             *)
(***************************************************************************)
EXTENDS Integers, Sequences

CONSTANTS
  KeyMaster, KeyRead, KeyWrite,   \* KEY_APP_MASTER, KEY_READ, KEY_WRITE: 0, 2, 3
  CardKeys,              \* keys, as sets of bits
  CardsAtStart,          \* bound: cards met, [keys, data]
  Calls,                 \* bound: calls of NTAG424's methods, [op, of, key, old, new]
  MaxCalls, MaxFaults    \* bounds

Numbers    == {KeyMaster, KeyRead, KeyWrite}
FactoryKey == {}

ASSUME SessionAssumption ==
  /\ KeyMaster # KeyRead /\ KeyMaster # KeyWrite /\ KeyRead # KeyWrite /\ FactoryKey \in CardKeys
  /\ Numbers \subseteq Nat
  /\ \A c \in CardsAtStart : c = [keys |-> c.keys, data |-> c.data] /\ c.keys \in [Numbers -> CardKeys]
  /\ \A c \in Calls : c.op \in {"auth", "read", "write", "same", "diff"}
  /\ \A c \in Calls : c.op \in {"auth", "same", "diff"} => c.of \in Numbers
  /\ MaxCalls \in Nat /\ MaxFaults \in Nat

XorKeys(a, b) == (a \ b) \cup (b \ a)
-----------------------------------------------------------------------------
\* Encryption under a key: a card key [key], or those of a session [key, rndA, rndB].
LongTerm(key)      == <<key>>
Enc(k, iv, text)   == [under |-> k, iv |-> iv, text |-> text]
NoText             == Enc(<<>>, <<>>, <<>>)
Garbage            == <<>>
Dec(k, iv, cipher) == IF cipher.under = k /\ cipher.iv = iv THEN cipher.text ELSE Garbage
ZeroIv == <<>>
NoMac  == [under |-> <<>>, over |-> <<>>]

\* Random bytes, and the same rotated by one.
Random(n)    == {n}
Rotated(rnd) == {-n : n \in rnd}

\* Session vectors and MACs are made of the same parts on both sides: keys, counter and
\* transaction identifier.
CmdIv(s)            == <<"cmd", s.ti, s.ctr>>
RespIv(s)           == <<"resp", s.ti, s.ctr>>
CmdMac(s, ins, of, body) == [under |-> s.keys, over |-> <<ins, s.ctr, s.ti, of, body>>]
RespMac(s, body)         == [under |-> s.keys, over |-> <<"ok", s.ctr, s.ti, 0, body>>]

Command(ins, of, body, mac) == [ins |-> ins, of |-> of, body |-> body, mac |-> mac]
Answer(st, body, mac)       == [st |-> st, body |-> body, mac |-> mac]
Refused == Answer("error", NoText, NoMac)
-----------------------------------------------------------------------------
VARIABLES
  ntag,     \* the NTAG424 object: session keys (<<>>: None), ti, ctr, authenticated, auth_key_no
  call,     \* the method running, how far it is, and the random number of an authentication
  wire,     \* the APDU on its way to the card, or the answer on its way back
  card,     \* keys and factor
  session,  \* SimNTAG424._session and _pending
  fresh,    \* random numbers drawn
  count,    \* calls made
  handled,  \* commands the card got (history)
  heard,    \* answers it gave (history)
  did,      \* it did what the running call asked (history)
  told,     \* what the last call returned or raised
  honest, trouble, faults   \* history of the faults

sessionVars == <<ntag, call, wire, card, session, fresh, count, handled, heard, did, told, honest, trouble, faults>>

NoKeys    == <<>>
NewObject == [keys |-> NoKeys, ti |-> {}, ctr |-> 0, authenticated |-> FALSE, no |-> -1]
NoSession == [keys |-> NoKeys, ti |-> {}, ctr |-> 0, no |-> -1, pending |-> [no |-> -1, rnd |-> {}]]
Idle      == [op |-> "none", of |-> -1, key |-> {}, old |-> {}, new |-> {}, rnd |-> <<>>, at |-> "idle",
              by |-> -1, byKey |-> {}]
Nowhere   == [at |-> "nowhere"]
Told(how, data) == [how |-> how, data |-> data]
Waiting   == Told("waiting", {})

SessionInit ==
  /\ card \in CardsAtStart
  /\ ntag = NewObject /\ session = NoSession /\ call = Idle /\ wire = Nowhere /\ fresh = 1 /\ count = 0
  /\ handled = {} /\ heard = {} /\ did = FALSE /\ told = Told("raised", {})
  /\ honest = TRUE /\ trouble = FALSE /\ faults = 0

\* _reset; auth_key_no stays.
Reset(object) == [NewObject EXCEPT !.no = object.no]

Send(command) == wire' = [at |-> "card", msg |-> command]
Here          == wire.at = "reader"
Resp          == wire.msg

Return(how, data) ==
  /\ told' = Told(how, data) /\ wire' = Nowhere /\ call' = Idle
Raise == Return("raised", {})

faultVars == <<honest, trouble, faults>>
cardVars  == <<card, session, handled, heard, did>>

\* Nobody goes on with an object whose method raised: provision_card, read_factor and
\* factory_reset_card give up, and _connect makes another.
GaveUp == told.how = "raised" => ntag = NewObject

\* A method is called.  The history notes which key it is called under.
Begins(c, at) ==
  /\ told.how # "waiting" /\ GaveUp /\ count < MaxCalls
  /\ count' = (IF at = "refused" THEN count ELSE count + 1) /\ told' = Waiting /\ did' = FALSE /\ honest' = TRUE
  /\ call' = [op |-> c.op, of |-> c.of, key |-> c.key, old |-> c.old, new |-> c.new, rnd |-> <<>>, at |-> at,
              by |-> IF c.op = "auth" THEN c.of ELSE IF ntag.keys = NoKeys THEN -1 ELSE ntag.no,
              byKey |-> IF c.op = "auth" THEN c.key ELSE IF ntag.keys = NoKeys THEN {} ELSE ntag.keys[1]]
  /\ UNCHANGED <<card, session, fresh, handled, heard, trouble, faults>>

\* auth_ev2, part 1, ...
AuthEv2(c) ==
  /\ c.op = "auth" /\ Begins(c, "part1")
  /\ ntag' = Reset(ntag)
  /\ Send(Command("71", c.of, NoText, NoMac))

AuthPart2 ==
  /\ Here /\ call.at = "part1" /\ Resp.st = "more"
  /\ LET plain == Dec(LongTerm(call.key), ZeroIv, Resp.body)
         rndB  == IF plain = Garbage THEN {} ELSE plain[1]
         rndA  == Random(fresh)
     IN  /\ Send(Command("AF", -1, Enc(LongTerm(call.key), ZeroIv, <<rndA, Rotated(rndB)>>), NoMac))
         /\ call' = [call EXCEPT !.at = "part2", !.rnd = <<rndA, rndB>>]
  /\ fresh' = fresh + 1
  /\ UNCHANGED <<ntag, count, told, cardVars, faultVars>>

\* ... the card's proof, and the session keys.
Proof == Dec(LongTerm(call.key), ZeroIv, Resp.body)
ProofHolds == Len(Proof) = 2 /\ Proof[2] = Rotated(call.rnd[1])

AuthDone ==
  /\ Here /\ call.at = "part2" /\ Resp.st = "ok" /\ ProofHolds
  /\ ntag' = [keys |-> <<call.key, call.rnd[1], call.rnd[2]>>, ti |-> Proof[1], ctr |-> 0,
              authenticated |-> TRUE, no |-> call.of]
  /\ Return("done", {})
  /\ trouble' = FALSE
  /\ UNCHANGED <<fresh, count, cardVars, honest, faults>>

AuthFails ==
  /\ Here
  /\ \/ call.at = "part1" /\ Resp.st # "more"
     \/ call.at = "part2" /\ ~(Resp.st = "ok" /\ ProofHolds)
  \* The identifier is taken before the proof is looked at.
  /\ ntag' = IF call.at = "part2" /\ Resp.st = "ok" /\ Len(Proof) = 2
               THEN [ntag EXCEPT !.ti = Proof[1]] ELSE ntag
  /\ Raise
  /\ UNCHANGED <<fresh, count, cardVars, faultVars>>

\* _full, under read_full and write_full.
Full(c) ==
  /\ c.op \in {"read", "write"} /\ ntag.authenticated /\ Begins(c, "full")
  /\ LET ins  == IF c.op = "read" THEN "AD" ELSE "8D"
         body == IF c.op = "read" THEN NoText ELSE Enc(ntag.keys, CmdIv(ntag), <<c.new>>)
     IN  Send(Command(ins, 3, body, CmdMac(ntag, ins, 3, body)))
  /\ UNCHANGED ntag

CountedUp(object) == [object EXCEPT !.ctr = @ + 1]

\* The counter goes up with the card's "ok", before the answer's MAC is looked at.
\* Mutant: the counter is not part of what is compared.
MacFitsAnyTime == Resp.mac.under = ntag.keys
MacFits == Resp.mac = RespMac(CountedUp(ntag), Resp.body)

FullDone ==
  /\ Here /\ call.at = "full" /\ Resp.st = "ok"
  /\ ntag' = CountedUp(ntag)
  /\ IF MacFits
       THEN Return("done", IF Resp.body = NoText THEN {} ELSE Dec(ntag.keys, RespIv(CountedUp(ntag)), Resp.body)[1])
       ELSE Raise
  /\ UNCHANGED <<fresh, count, cardVars, faultVars>>

\* change_key_same, of the key the session was opened with, ends the session; its answer
\* carries no MAC.
ChangeKeySame(c) ==
  /\ c.op = "same" /\ c.of = ntag.no /\ ntag.keys # NoKeys /\ Begins(c, "same")
  /\ LET body == Enc(ntag.keys, CmdIv(ntag), <<c.new>>)
     IN  Send(Command("C4", c.of, body, CmdMac(ntag, "C4", c.of, body)))
  /\ UNCHANGED ntag

SameDone ==
  /\ Here /\ call.at = "same" /\ Resp.st = "ok"
  /\ ntag' = Reset(ntag) /\ Return("done", {})
  /\ UNCHANGED <<fresh, count, cardVars, faultVars>>

\* change_key_diff, of another key: XOR of old and new, and a checksum of the new.
ChangeKeyDiff(c) ==
  /\ c.op = "diff" /\ c.of # ntag.no /\ ntag.keys # NoKeys /\ Begins(c, "diff")
  /\ LET body == Enc(ntag.keys, CmdIv(ntag), <<XorKeys(c.new, c.old), c.new>>)
     IN  Send(Command("C4", c.of, body, CmdMac(ntag, "C4", c.of, body)))
  /\ UNCHANGED ntag

\* "if resp": an answer of no bytes is not looked at.
DiffDone ==
  /\ Here /\ call.at = "diff" /\ Resp.st = "ok"
  /\ ntag' = CountedUp(ntag)
  /\ IF (Resp.body = NoText /\ Resp.mac = NoMac) \/ MacFits THEN Return("done", {}) ELSE Raise
  /\ UNCHANGED <<fresh, count, cardVars, faultVars>>

\* The card refuses.
CommandFails ==
  /\ Here /\ call.at \in {"full", "same", "diff"} /\ Resp.st # "ok"
  /\ Raise
  /\ UNCHANGED <<ntag, fresh, count, cardVars, faultVars>>

\* Without a session, or of the wrong key, a method raises before it sends anything.
RefusesCall(c) ==
  /\ \/ c.op \in {"read", "write"} /\ ~ntag.authenticated
     \/ c.op = "same" /\ (c.of # ntag.no \/ ntag.keys = NoKeys)
     \/ c.op = "diff" /\ (c.of = ntag.no \/ ntag.keys = NoKeys)
  /\ Begins(c, "refused") /\ wire' = Nowhere
  /\ UNCHANGED ntag

Refuses ==
  /\ call.at = "refused" /\ Raise
  /\ UNCHANGED <<ntag, fresh, count, cardVars, faultVars>>

\* _connect: a new object for the next command; the card may have lost its power meanwhile.
Reconnect ==
  /\ told.how # "waiting" /\ ntag # NewObject
  /\ ntag' = NewObject /\ session' \in {session, NoSession}
  /\ UNCHANGED <<call, wire, card, fresh, count, handled, heard, did, told, faultVars>>
-----------------------------------------------------------------------------
\* SimNTAG424: what the card answers, and what it makes of its keys, factor and session.
Outcome(answer, c, s, done) == [answer |-> answer, card |-> c, session |-> s, did |-> done]
Refusal(s) == Outcome(Refused, card, s, FALSE)

NotPending(s) == [s EXCEPT !.pending = NoSession.pending]

\* 0x71 and 0xAF.
OnAuth1(m) ==
  Outcome(Answer("more", Enc(LongTerm(card.keys[m.of]), ZeroIv, <<Random(fresh)>>), NoMac), card,
          [session EXCEPT !.pending = [no |-> m.of, rnd |-> Random(fresh)]], FALSE)
OnAuth2(m) ==
  LET p     == session.pending
      key   == card.keys[p.no]
      plain == Dec(LongTerm(key), ZeroIv, m.body)
      ti    == Random(fresh)
  IN  IF p.no = -1 THEN Refusal(session)
      ELSE IF Len(plain) # 2 \/ plain[2] # Rotated(p.rnd) THEN Refusal(NotPending(session))
      ELSE Outcome(Answer("ok", Enc(LongTerm(key), ZeroIv, <<ti, Rotated(plain[1])>>), NoMac), card,
                   [NoSession EXCEPT !.keys = <<key, plain[1], p.rnd>>, !.ti = ti, !.no = p.no], TRUE)

\* _full_cmd: every command of a session first shows its MAC.
MacRight(m)   == session.keys # NoKeys /\ m.mac = CmdMac(session, m.ins, m.of, m.body)
Plain(m)      == Dec(session.keys, CmdIv(session), m.body)
Stepped(s)      == [s EXCEPT !.ctr = @ + 1]
Answered(body)  == Answer("ok", body, RespMac(Stepped(session), body))

OnRead(m) ==
  IF ~MacRight(m) \/ session.no \notin {KeyRead, KeyWrite} THEN Refusal(session)
  ELSE Outcome(Answered(Enc(session.keys, RespIv(Stepped(session)), <<card.data>>)), card, Stepped(session), TRUE)
OnWrite(m) ==
  IF ~MacRight(m) \/ session.no # KeyWrite THEN Refusal(session)
  ELSE Outcome(Answered(NoText), [card EXCEPT !.data = Plain(m)[1]], Stepped(session), TRUE)
OnChangeKey(m) ==
  IF ~MacRight(m) \/ session.no # KeyMaster THEN Refusal(session)
  ELSE IF m.of = KeyMaster
  THEN Outcome(Answer("ok", NoText, NoMac), [card EXCEPT !.keys[KeyMaster] = Plain(m)[1]], [NoSession EXCEPT !.pending = session.pending], TRUE)
  ELSE LET new == XorKeys(Plain(m)[1], card.keys[m.of])
       IN  IF new # Plain(m)[2] THEN Refusal(session)
           ELSE Outcome(Answered(NoText), [card EXCEPT !.keys[m.of] = new], Stepped(session), TRUE)

Dispatch(m) ==
  CASE m.ins = "71" -> OnAuth1(m)
    [] m.ins = "AF" -> OnAuth2(m)
    [] m.ins = "AD" -> OnRead(m)
    [] m.ins = "8D" -> OnWrite(m)
    [] m.ins = "C4" -> OnChangeKey(m)

\* Bound: the past is remembered as long as a fault may bring it back.
Remembered(past, m) == IF faults < MaxFaults THEN past \cup {m} ELSE {}

Transmit ==
  /\ wire.at = "card"
  /\ LET o == Dispatch(wire.msg)
     IN  /\ wire' = [at |-> "reader", msg |-> o.answer]
         /\ card' = o.card /\ session' = o.session
         /\ did' = (did \/ o.did)
         /\ heard' = Remembered(heard, o.answer)
  /\ handled' = Remembered(handled, wire.msg)
  /\ fresh' = IF wire.msg.ins \in {"71", "AF"} THEN fresh + 1 ELSE fresh
  /\ UNCHANGED <<ntag, call, count, told, faultVars>>
-----------------------------------------------------------------------------
Fault ==
  /\ faults < MaxFaults /\ faults' = faults + 1 /\ trouble' = TRUE
  /\ IF faults' < MaxFaults THEN UNCHANGED <<handled, heard>> ELSE handled' = {} /\ heard' = {}

\* The reader reports an error: the command, or its answer, was lost.
Lose ==
  /\ Fault /\ wire.at \in {"card", "reader"}
  /\ Raise
  /\ UNCHANGED <<ntag, fresh, count, card, session, did, honest>>

\* The card gets an earlier command once more, and nobody its answer.
Repeat ==
  /\ Fault
  /\ \E m \in handled :
       /\ card' = Dispatch(m).card /\ session' = Dispatch(m).session
  /\ fresh' = fresh + 1
  /\ UNCHANGED <<ntag, call, wire, count, did, told, honest>>

\* Another answer comes in place of the card's.
Replace ==
  /\ Fault /\ Here
  /\ \E a \in heard \ {Resp} : wire' = [wire EXCEPT !.msg = a]
  /\ honest' = FALSE
  /\ UNCHANGED <<ntag, call, fresh, count, card, session, did, told>>

SessionNext ==
  \/ \E c \in Calls : AuthEv2(c) \/ Full(c) \/ ChangeKeySame(c) \/ ChangeKeyDiff(c) \/ RefusesCall(c)
  \/ AuthPart2 \/ AuthDone \/ AuthFails \/ FullDone \/ SameDone \/ DiffDone \/ CommandFails \/ Refuses
  \/ Reconnect \/ Transmit \/ Lose \/ Repeat \/ Replace

SessionSpec == SessionInit /\ [][SessionNext]_sessionVars
-----------------------------------------------------------------------------
\* What is asked for while a method runs.
Exchange ==
  IF call.op = "none" THEN [op |-> "none"]
  ELSE [op |-> call.op, no |-> call.by, key |-> call.byKey, of |-> call.of, old |-> call.old, new |-> call.new]
Promise == INSTANCE ExchangePromise WITH store <- card, ask <- Exchange

\* Every exchange acts once, as asked, or not at all, whatever is lost, repeated or replaced;
\* "done" is true, what is read is what the card holds, and nothing that the card would do is
\* refused but for a fault (module ExchangePromise).  CardLifecycle is built from such exchanges.
ExchangesAreWhole == Promise!Spec
=============================================================================

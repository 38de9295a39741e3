---------------------------- MODULE ExchangePromise ----------------------------
(***************************************************************************)
(* What an exchange with a card promises its caller, with nothing said of  *)
(* how: the card acts once and as it was asked, or not at all; a caller    *)
(* who is told "done" is told the truth, and gets the bytes the card holds *)
(* now; and what the card would do is refused only where an answer or a    *)
(* command got lost on the way.  The card's provisioning                   *)
(* (CardLifecycle) is built from such exchanges.                           *)
(***************************************************************************)
CONSTANTS KeyMaster, KeyRead, KeyWrite   \* key numbers: KEY_APP_MASTER, KEY_READ, KEY_WRITE

VARIABLES
  store,    \* the card's keys and factor
  ask,      \* the exchange asked for, and the key it is asked with
  did,      \* the card has done it
  told,     \* the caller's answer
  honest,   \* the answers to this exchange came as the card gave them
  trouble   \* something got lost or altered since the session was opened

promiseVars == <<store, ask, did, told, honest, trouble>>

Waiting == [how |-> "waiting", data |-> {}]
Told(how, data) == [how |-> how, data |-> data]

Init ==
  /\ ask = [op |-> "none"] /\ did = FALSE /\ told = Told("raised", {})
  /\ honest = TRUE /\ trouble = FALSE

\* Opening a session needs its key; the factor is read with either key of the file and
\* written with one; keys are changed by the master, another's with the old one given.
Works(s, a) ==
  /\ a.op # "none" /\ a.no \in DOMAIN s.keys /\ s.keys[a.no] = a.key
  /\ \/ a.op = "auth"
     \/ a.op = "read" /\ a.no \in {KeyRead, KeyWrite}
     \/ a.op = "write" /\ a.no = KeyWrite
     \/ a.op = "diff" /\ a.no = KeyMaster /\ a.of # KeyMaster /\ s.keys[a.of] = a.old
     \/ a.op = "same" /\ a.no = KeyMaster /\ a.of = KeyMaster

After(s, a) ==
  CASE a.op = "write" -> [s EXCEPT !.data = a.new]
    [] a.op \in {"diff", "same"} -> [s EXCEPT !.keys[a.of] = a.new]
    [] OTHER -> s

Call ==
  /\ told.how # "waiting"
  /\ ask'.op # "none"
  /\ told' = Waiting /\ did' = FALSE /\ honest' = TRUE
  /\ UNCHANGED <<store, trouble>>

Act ==
  /\ told = Waiting /\ ~did /\ Works(store, ask)
  /\ store' = After(store, ask) /\ did' = TRUE
  /\ UNCHANGED <<ask, told, honest, trouble>>

\* A command or an answer is lost, repeated, or another answer comes in its place.
Disturb ==
  /\ trouble' = TRUE /\ honest' \in {honest, FALSE}
  /\ UNCHANGED <<store, ask, did, told>>

\* The answer to a key change need not be signed, so an altered one may be believed.
Done ==
  /\ told = Waiting
  /\ did \/ (~honest /\ ask.op \in {"diff", "same"})
  /\ told' = Told("done", IF ask.op = "read" THEN store.data ELSE {})
  /\ trouble' = (trouble /\ ask.op # "auth")
  /\ ask' = [op |-> "none"] /\ UNCHANGED <<store, did, honest>>

Raise ==
  /\ told = Waiting
  /\ trouble' \in {trouble, TRUE}
  /\ trouble' \/ (~did /\ ~Works(store, ask))
  /\ told' = Told("raised", {}) /\ ask' = [op |-> "none"]
  /\ UNCHANGED <<store, did, honest>>

Next == Call \/ Act \/ Disturb \/ Done \/ Raise

Spec == Init /\ [][Next]_promiseVars
=============================================================================

----------------------------- MODULE ReaderWait -----------------------------
(***************************************************************************)
(* The waits at the card reader (PCSCTransport of card_seed.py) and the    *)
(* two conversations built from them: an unlock, whose read is tried again *)
(* when the reader resets the card (read_card), and the swap of            *)
(* card-backup --auto-swap, which must see the wallet card leave before it *)
(* takes the next card for the blank one.                                  *)
(*                                                                         *)
(* The user places, shifts and takes cards, and plugs readers, between any *)
(* two steps of the program; a status call reports what it finds when it   *)
(* returns, so what happened between two calls is not seen.                *)
(***************************************************************************)
EXTENDS Naturals, FiniteSets

CONSTANTS
  Readers,      \* the PICC interfaces
  MaxArrivals,  \* bound: cards put on one reader
  Slices,       \* the wait's budget, in status calls that time out
  Retries       \* CARD_READ_RETRIES

ASSUME ReaderAssumption ==
  /\ Readers # {} /\ MaxArrivals \in Nat \ {0} /\ Slices \in Nat \ {0} /\ Retries \in Nat

VARIABLES
  on, mute,  \* readers with a card, readers whose card does not answer
  arrival,   \* the number of cards each reader has seen come
  plugged,   \* readers plugged in
  cmd, pc,   \* "unlock" or "swap", and its step
  cand,      \* the readers this wait watches
  tried,     \* readers this wait has connected to since it last saw them empty
  todo,      \* readers the last status call reported, still to be connected to
  budget, attempt,
  open,      \* connections held: reader and arrival
  first,     \* the card that was read
  touched    \* history: connects of this wait to each arrival

vars == <<on, mute, arrival, plugged, cmd, pc, cand, tried, todo, budget, attempt, open, first, touched>>
world == <<on, mute, arrival, plugged>>

Waits    == {"tap", "removal", "swap"}
Stopped  == {"provision", "unlocked", "failed"}
Arrivals == Readers \X (0..MaxArrivals)   \* 0: a connect to a reader that never had a card
On(n)    == <<n, arrival[n]>>

Init ==
  /\ on \in SUBSET Readers /\ mute = {}
  /\ arrival = [n \in Readers |-> IF n \in on THEN 1 ELSE 0]
  /\ plugged = Readers
  /\ cmd \in {"unlock", "swap"} /\ pc = "tap" /\ cand = Readers
  /\ tried = {} /\ todo = {} /\ budget = Slices /\ attempt = 0
  /\ open = {} /\ first = {} /\ touched = [a \in Arrivals |-> 0]
-----------------------------------------------------------------------------
(* The user.                                                                *)

Place(n) ==
  /\ n \in plugged \ on /\ arrival[n] < MaxArrivals
  /\ on' = on \cup {n} /\ arrival' = [arrival EXCEPT ![n] = @ + 1]
  /\ \E m \in {{}, {n}} : mute' = mute \cup m
  /\ UNCHANGED <<plugged, cmd, pc, cand, tried, todo, budget, attempt, open, first, touched>>

\* A card laid down badly begins to answer.
Shift(n) ==
  /\ n \in mute /\ mute' = mute \ {n}
  /\ UNCHANGED <<on, arrival, plugged, cmd, pc, cand, tried, todo, budget, attempt, open, first, touched>>

Take(n) ==
  /\ n \in on /\ on' = on \ {n} /\ mute' = mute \ {n}
  /\ UNCHANGED <<arrival, plugged, cmd, pc, cand, tried, todo, budget, attempt, open, first, touched>>

Unplug(n) ==
  /\ n \in plugged /\ plugged' = plugged \ {n} /\ on' = on \ {n} /\ mute' = mute \ {n}
  /\ UNCHANGED <<arrival, cmd, pc, cand, tried, todo, budget, attempt, open, first, touched>>

Plug(n) ==
  /\ n \notin plugged /\ plugged' = plugged \cup {n}
  /\ UNCHANGED <<on, mute, arrival, cmd, pc, cand, tried, todo, budget, attempt, open, first, touched>>

User == \E n \in Readers : Place(n) \/ Shift(n) \/ Take(n) \/ Unplug(n) \/ Plug(n)
-----------------------------------------------------------------------------
(* _watch                                                                   *)

\* A wait begins; _interfaces finds a reader or raises.
Wait(step) ==
  /\ pc' = (IF plugged = {} THEN "failed" ELSE step)
  /\ cand' = plugged /\ tried' = {} /\ todo' = {} /\ budget' = Slices
  /\ touched' = [a \in Arrivals |-> 0]

End(how) ==
  /\ pc' = how /\ open' = {}
  /\ UNCHANGED <<cand, tried, todo, budget, touched>>

\* Mutant: the first empty reader ends the wait for removal.
OneIsEmpty == cand \ on # {}
AllEmpty   == cand \cap on = {}

\* Mutant: every report is an arrival.
Forgets(seen) == {}
\* arrived: an empty reader may be tried again when it next has a card.
StillTried(seen) == tried \cap seen

\* SCardGetStatusChange returns the states of all watched readers.
Report ==
  /\ pc \in Waits /\ todo = {} /\ budget > 0
  /\ UNCHANGED <<world, cmd, attempt, first>>
  /\ \/ /\ cand \cap plugged = {}   \* "the card reader went away"
        /\ End("failed")
     \/ /\ cand \cap plugged # {} /\ pc = "removal"
        /\ IF AllEmpty THEN Wait("swap")
                       ELSE UNCHANGED <<pc, cand, tried, todo, budget, touched>>
        /\ UNCHANGED open
     \/ /\ cand \cap plugged # {} /\ pc # "removal"
        /\ tried' = StillTried(on)
        /\ todo' = ((cand \cap on) \ mute) \ tried'
        /\ UNCHANGED <<pc, cand, budget, open, touched>>

\* Time passes; a connect takes time too.
Tick ==
  /\ pc \in Waits /\ budget > 0 /\ budget' = budget - 1
  /\ UNCHANGED <<world, cmd, pc, cand, tried, todo, attempt, open, first, touched>>

TimeIsUp ==
  /\ pc \in Waits /\ todo = {} /\ budget = 0
  /\ End("failed")
  /\ UNCHANGED <<world, cmd, attempt, first>>

Connect(n) ==
  /\ n \in todo /\ tried' = tried \cup {n}
  /\ touched' = IF n \in on THEN [touched EXCEPT ![On(n)] = @ + 1] ELSE touched
  /\ \/ /\ todo' = todo \ {n} /\ UNCHANGED <<pc, open>>   \* it raises: the card left, or does not answer
     \/ /\ n \in on \ mute
        /\ todo' = {} /\ open' = open \cup {On(n)}
        /\ pc' = IF pc = "tap" THEN "read" ELSE "provision"
  /\ UNCHANGED <<world, cmd, cand, budget, attempt, first>>
-----------------------------------------------------------------------------
(* read_card and cmd_card_backup                                            *)

ReadCard ==
  /\ pc = "read" /\ open \subseteq {On(n) : n \in on}
  /\ first' = open /\ open' = {}   \* card_reader closes its transport
  /\ UNCHANGED <<world, cmd, attempt>>
  /\ IF cmd = "unlock" THEN pc' = "unlocked" /\ UNCHANGED <<cand, tried, todo, budget, touched>>
                       ELSE Wait("removal")

MayRetry == attempt < Retries
\* Mutant: the count stands still.
SameAttempt == attempt
NextAttempt == attempt + 1

\* The reader reset the card or lost it: the next read connects afresh.
RetryRead ==
  /\ pc = "read" /\ MayRetry /\ attempt' = NextAttempt
  /\ open' = {} /\ Wait("tap")
  /\ UNCHANGED <<world, cmd, first>>

\* Lost once too often, or another fault.
ReadFails ==
  /\ pc = "read" /\ End("failed")
  /\ UNCHANGED <<world, cmd, attempt, first>>

Program == Report \/ TimeIsUp \/ ReadCard \/ RetryRead \/ ReadFails \/ \E n \in Readers : Connect(n)

\* The command is over (provisioning is the next component's).
Over == pc \in Stopped /\ UNCHANGED vars

Next == User \/ Tick \/ Program \/ Over

\* Time passes, and calls return.
Spec == Init /\ [][Next]_vars /\ WF_vars(Tick) /\ WF_vars(Program)
-----------------------------------------------------------------------------
TypeOK ==
  /\ on \subseteq plugged /\ mute \subseteq on /\ plugged \subseteq Readers
  /\ arrival \in [Readers -> 0..MaxArrivals]
  /\ cmd \in {"unlock", "swap"} /\ pc \in Waits \cup Stopped \cup {"read"}
  /\ cand \subseteq Readers /\ tried \subseteq cand /\ todo \subseteq cand \ tried
  /\ budget \in 0..Slices /\ attempt \in 0..Retries
  /\ open \subseteq Arrivals /\ first \subseteq Arrivals
  /\ touched \in [Arrivals -> Nat]

\* "SCardConnect once per arrival": a wait never connects twice to a card that stays
\* (arrived, tried), for a connect that hangs wedges the reader.
NoSecondConnect == \A a \in Arrivals : touched[a] <= 1

\* The card to be provisioned is on a reader the wallet card has left: whoever is next on
\* the reader, the card that was read went away in between (wait_for_removal, --auto-swap).
Left(a) == a[2] < arrival[a[1]] \/ a[1] \notin on
SwapIsSeen == pc = "provision" => \A a \in first : Left(a)

\* Retries and waits are bounded: every command ends, whatever the reader does.
AlwaysEnds == <>(pc \in Stopped)
=============================================================================

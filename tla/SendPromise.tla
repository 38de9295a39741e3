----------------------------- MODULE SendPromise -----------------------------
(***************************************************************************)
(* What `send' promises its user about every transaction of a payment,     *)
(* with nothing said of how: a transaction told "out" is on the network; a *)
(* transaction told "unsent" was not put there by this run and never will  *)
(* be; at most one is left in doubt, for the user to look up.  Between     *)
(* being offered and being told, transactions travel, land and get lost as *)
(* the network likes.                                                      *)
(***************************************************************************)
CONSTANT Txs

VARIABLES
  net,      \* transactions the network has
  mine,     \* those it has from this run
  flying,   \* requests of this run still travelling
  told      \* what the user was told of each: open, out, unsent, doubt

vars == <<net, mine, flying, told>>
Open == [t \in Txs |-> "open"]

Init == net = {} /\ mine = {} /\ flying = {} /\ told = Open

Offer(t) ==
  /\ told = Open
  /\ flying' = flying \cup {t}
  /\ UNCHANGED <<net, mine, told>>

\* The network takes a travelling request, refuses it, or it is lost.
Arrive(t) ==
  /\ t \in flying /\ flying' = flying \ {t}
  /\ \/ net' = net \cup {t} /\ mine' = mine \cup {t}
     \/ UNCHANGED <<net, mine>>
  /\ UNCHANGED told

\* A request of an earlier run of the same send lands late.
ArriveLate(t) ==
  /\ net' = net \cup {t}
  /\ UNCHANGED <<mine, flying, told>>

Honest(report) ==
  /\ \A t \in Txs : report[t] = "out" => t \in net
  /\ \A t \in Txs : report[t] = "unsent" => t \notin mine \cup flying
  /\ \A t, u \in Txs : report[t] = "doubt" /\ report[u] = "doubt" => t = u

Tell ==
  /\ told = Open
  /\ told' \in [Txs -> {"out", "unsent", "doubt"}]
  /\ Honest(told')
  /\ UNCHANGED <<net, mine, flying>>

\* The user runs the same send again: a new run has told nothing and sent nothing.
Again ==
  /\ told' = Open /\ mine' = {} /\ flying' = {}
  /\ UNCHANGED net

Next == Tell \/ Again \/ \E t \in Txs : Offer(t) \/ Arrive(t) \/ ArriveLate(t)

Spec == Init /\ [][Next]_vars
=============================================================================

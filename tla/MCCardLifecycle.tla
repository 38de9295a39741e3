-------------------------- MODULE MCCardLifecycle --------------------------
(***************************************************************************)
(* Small instance of CardLifecycle: two cards, each blank, blank with a    *)
(* factor someone left, or with a foreign key, all or only some; three     *)
(* secrets make a wallet, its backup and one more try.                     *)
(***************************************************************************)
EXTENDS CardLifecycle, TLC

CONSTANTS c1, c2

MCCards == {c1, c2}
MCStarts == { [master |-> 0, read |-> 0, write |-> 0, factor |-> 0],
              [master |-> 0, read |-> Foreign, write |-> 0, factor |-> Foreign] }
Swaps == Permutations(MCCards)
=============================================================================

--------------------------- MODULE CardLifecycle ---------------------------
(***************************************************************************)
(* The life of NTAG 424 cards and of the files that hold their keys:       *)
(* `new --card', `card-backup' and `card-reset' (provision_card,           *)
(* make_permanent, factory_reset_card in card_seed.py; cmd_new_card,       *)
(* cmd_new_card_one_file, cmd_card_backup, cmd_card_reset and              *)
(* provisioning_begin/_end in wallet_cli.py), one command at a time.       *)
(*                                                                         *)
(* Every card exchange may fail before or after the card acted; the disk   *)
(* may refuse a write; the user may press Ctrl-C (an exception like the    *)
(* others); the parent program may cancel with SIGTERM or die; the process *)
(* may be killed and the power may fail at any step.                       *)
(*                                                                         *)
(* Keys and factors are numbers: 0 is the factory key and the empty file,  *)
(* a run that makes a card draws a fresh number for its keys (and, if it   *)
(* makes a wallet, for its factor); Foreign is a key of someone else's.    *)
(***************************************************************************)
EXTENDS Naturals, FiniteSets

CONSTANTS
  Cards,
  Starts,      \* the cards a user may come with
  MaxSecrets   \* bound: fresh secrets drawn

Secrets == 1..MaxSecrets
Foreign == MaxSecrets + 1
Keys    == 0..Foreign
Card    == [master : Keys, read : Keys, write : Keys, factor : Keys]
Blank(x) == x.master = 0 /\ x.read = 0 /\ x.write = 0

ASSUME CardAssumption ==
  /\ MaxSecrets \in Nat \ {0} /\ 0 \notin Cards
  /\ Starts \subseteq {x \in Card : {x.master, x.read, x.write, x.factor} \subseteq {0, Foreign}}

\* A card's key record: none, torn (a file that cannot be read), or the keys drawn
\* for it; sealing drops its master and write keys.
None == [kind |-> "none"]
Torn == [kind |-> "torn"]
Record == [kind : {"keys"}, gen : Secrets, family : Secrets, provisioned : BOOLEAN, sealed : BOOLEAN]

VARIABLES
  oneFile,    \* the records live inside the .mmm file, not in card-<uid>.auth files
  card,       \* what each card holds
  rec,        \* the key record of each card
  wallet,     \* the .mmm file: 0 none, Foreign unreadable, or the factor that opens it
  unsynced,   \* files the system has not yet written to the disk: cards' records, 0 for the wallet
  lost,       \* those a power failure took
  drawn,      \* secrets drawn so far
  cmd, opt,   \* the command running (or last run), and its options
  pc, hand,   \* its next step, and the card on the reader
  fam, gen,   \* the factor and the card keys it holds in memory
  touched,    \* it has written to a card
  shielded,   \* it ignores SIGTERM
  outcome,    \* running, or how it ended
  parent, begin, cancel,  \* the parent program, the card-provisioning line, a SIGTERM on its way
  resetting   \* cards a reset has begun on

files   == <<rec, wallet, unsynced, lost>>
memory  == <<cmd, opt, hand, fam, gen>>
signals == <<parent, begin, cancel>>
vars    == <<oneFile, card, files, drawn, memory, pc, touched, shielded, outcome, signals, resetting>>

Init ==
  /\ oneFile \in BOOLEAN
  /\ card \in [Cards -> Starts]
  /\ rec = [c \in Cards |-> None] /\ wallet = 0 /\ unsynced = {} /\ lost = {} /\ drawn = 0
  /\ cmd = "none" /\ opt = [auto |-> FALSE, resettable |-> FALSE, events |-> FALSE]
  /\ pc = "idle" /\ hand \in Cards /\ fam = 0 /\ gen = 0
  /\ touched = FALSE /\ shielded = FALSE /\ outcome = "ok"
  /\ parent = "gone" /\ begin = "unwritten" /\ cancel = "none" /\ resetting = {}

Running  == outcome = "running"
At(step) == Running /\ pc = step
End(how) == outcome' = how /\ shielded' = FALSE   \* provisioning_end

\* card-provisioning is announced by `new' and by card-backup --auto-swap.
Announces == cmd = "new" \/ opt.auto
\* say: a line to a parent that is gone raises, until COMMITTED drops it.
WriteRaises == opt.events /\ parent = "gone" /\ begin = "unwritten"

Exists(c) == rec[c] # None
Holds(c)  == rec[c].kind = "keys"
Reads(c)  == Holds(c) /\ card[c].read = rec[c].gen
-----------------------------------------------------------------------------
(* A command starts, and ends early.                                        *)

Start(what, o, first) ==
  /\ ~Running
  /\ cmd' = what /\ opt' = o /\ pc' = first
  /\ touched' = FALSE /\ shielded' = FALSE /\ outcome' = "running"
  /\ parent' = IF o.events THEN "alive" ELSE "gone"
  /\ begin' = "unwritten" /\ cancel' = "none"
  /\ UNCHANGED <<oneFile, card, files, hand, resetting>>

Options == [auto : BOOLEAN, resettable : BOOLEAN, events : BOOLEAN]

\* cmd_new refuses an existing file.  The factor, and the keys, are drawn now.
StartNew ==
  /\ wallet = 0 /\ drawn < MaxSecrets
  /\ drawn' = drawn + 1 /\ fam' = drawn + 1 /\ gen' = drawn + 1
  /\ \E o \in Options : ~o.auto /\ Start("new", o, IF oneFile THEN "file" ELSE "tap")

\* cmd_card_backup needs a readable card wallet.
StartBackup ==
  /\ wallet \in Secrets /\ drawn < MaxSecrets
  /\ drawn' = drawn + 1 /\ gen' = drawn + 1
  /\ \E o \in Options : Start("backup", o, "read")
  /\ UNCHANGED fam

StartReset ==
  /\ \E o \in Options : ~o.auto /\ ~o.resettable /\ Start("reset", o, "find")
  /\ UNCHANGED <<drawn, fam, gen>>

\* cmd_new_card_one_file: "nothing was written to a card: no half wallet left".
UnlinksFile == cmd = "new" /\ oneFile /\ pc \in {"tap", "begin", "pause", "write", "verify"}

\* A step that ends the command half way: the file it was writing is missing,
\* unreadable or whole (the one-file store and the sealing replace a file at once).
LeavesHalf(cleanedUp) ==
  /\ wallet' \in CASE pc \in {"file", "wallet"} -> {0, Foreign, fam}
                   [] cleanedUp               -> {0}
                   [] OTHER                   -> {wallet}
  /\ rec' \in IF pc = "save" /\ ~oneFile THEN {rec, [rec EXCEPT ![hand] = Torn]}
              ELSE {IF cleanedUp THEN [c \in Cards |-> None] ELSE rec}   \* records inside the file go with it
  /\ UNCHANGED <<oneFile, unsynced, lost, drawn, memory, pc>>

\* A fault, a refusal, a full disk, Ctrl-C: the exception handlers run.
Fail ==
  /\ Running
  /\ End("failed") /\ LeavesHalf(UnlinksFile)
  /\ UNCHANGED <<card, signals, touched, resetting>>

\* No handler runs.
Die(how) ==
  /\ Running
  /\ End(how) /\ LeavesHalf(FALSE)
  /\ UNCHANGED <<card, touched, resetting>>

Crash == Die("crashed") /\ UNCHANGED signals

\* Power fails: files not yet on the disk may come back unreadable.
PowerCut ==
  /\ \E L \in SUBSET unsynced :
       /\ L # {}
       /\ rec' = [c \in Cards |-> IF c \in L THEN Torn ELSE rec[c]]
       /\ wallet' = IF 0 \in L THEN Foreign ELSE wallet
       /\ lost' = lost \cup L
  /\ unsynced' = {}
  /\ outcome' = (IF Running THEN "crashed" ELSE outcome) /\ shielded' = FALSE
  /\ UNCHANGED <<oneFile, card, drawn, memory, pc, touched, signals, resetting>>

FlushDisk ==
  /\ unsynced # {} /\ unsynced' = {}
  /\ UNCHANGED <<oneFile, card, rec, wallet, lost, drawn, memory, pc, touched, shielded, outcome, signals, resetting>>
-----------------------------------------------------------------------------
(* Up to the first write: cmd_new_card_one_file's file, the card read for   *)
(* its factor, the checks of provision_card, provisioning_begin.            *)

CreateFile ==
  /\ At("file")
  /\ wallet' = fam /\ pc' = "tap"
  /\ UNCHANGED <<oneFile, card, rec, unsynced, lost, drawn, memory, touched, shielded, outcome, signals, resetting>>

\* read_card: a card whose record is here, whose read key fits and which holds
\* this wallet's factor.
ReadCard(c) ==
  /\ At("read") /\ ~WriteRaises
  /\ Reads(c) /\ card[c].factor = wallet
  /\ fam' = wallet /\ hand' = c /\ pc' = "tap"
  /\ UNCHANGED <<oneFile, card, files, drawn, cmd, opt, gen, touched, shielded, outcome, signals, resetting>>

\* Mutant: the master key alone is tried.
MasterOnly(c) == card[c].master = 0
\* require_blank: all three keys are the factory's.
RequireBlank(c) == Blank(card[c])

Excluded == IF cmd = "backup" /\ opt.auto THEN {hand} ELSE {}

\* provision_card, to its commit point.  (Any other card ends in Fail.)
Tap(c) ==
  /\ At("tap") /\ ~WriteRaises
  /\ c \notin Excluded /\ ~Exists(c) /\ RequireBlank(c)
  /\ hand' = c /\ pc' = IF Announces THEN "begin" ELSE "write"
  /\ UNCHANGED <<oneFile, card, files, drawn, cmd, opt, fam, gen, touched, shielded, outcome, signals, resetting>>

ProvisioningBegin ==
  /\ At("begin") /\ ~WriteRaises
  /\ IF opt.events THEN pc' = "pause" /\ begin' = "written" /\ UNCHANGED shielded
                   ELSE pc' = "write" /\ shielded' = TRUE /\ UNCHANGED begin
  /\ UNCHANGED <<oneFile, card, files, drawn, memory, touched, outcome, parent, cancel, resetting>>

\* Mutant: no pause.
NoGrace == TRUE
\* BROADCAST_GRACE, taken to be long enough as in Send.
GraceOver == cancel # "early" /\ (begin = "read" \/ parent = "gone")

SetsAside == TRUE

PauseOver ==
  /\ At("pause") /\ GraceOver
  /\ pc' = "write" /\ shielded' = SetsAside
  /\ UNCHANGED <<oneFile, card, files, drawn, memory, touched, outcome, signals, resetting>>
-----------------------------------------------------------------------------
(* The write.  A card exchange is refused, works, or works and its answer   *)
(* is lost; a refused one is a Fail.                                        *)

\* Mutants: the keys are saved when all are rotated; the read key stays factory.
SavesLast == [write |-> "verify", verify |-> "rotate_read", rotate_read |-> "rotate_write",
              rotate_write |-> "rotate_master", rotate_master |-> "save", save |-> "check", check |-> "update"]
KeepsFactoryRead == [write |-> "verify", verify |-> "save", save |-> "rotate_write",
                     rotate_write |-> "rotate_master", rotate_master |-> "update"]
ProvisionOrder == [write |-> "verify", verify |-> "save", save |-> "rotate_read", rotate_read |-> "rotate_write",
                   rotate_write |-> "rotate_master", rotate_master |-> "check", check |-> "update"]

Exchange(works, result, next) ==
  /\ works
  /\ card' = [card EXCEPT ![hand] = result]
  /\ \/ pc' = next /\ UNCHANGED <<oneFile, files, drawn, memory, shielded, outcome>>
     \/ End("failed") /\ LeavesHalf(UnlinksFile)
  /\ UNCHANGED signals

Provision(step, works, result) ==
  /\ At(step) /\ cmd # "reset"
  /\ Exchange(works, result, ProvisionOrder[step])
  /\ touched' = TRUE
  /\ UNCHANGED resetting

\* What the card on the reader holds.
held == card[hand]

WriteFactor  == Provision("write", held.write = 0, [held EXCEPT !.factor = fam])
VerifyFactor == Provision("verify", held.read = 0 /\ held.factor = fam, held)
RotateRead   == Provision("rotate_read", held.master = 0 /\ held.read = 0, [held EXCEPT !.read = gen])
RotateWrite  == Provision("rotate_write", held.master = 0 /\ held.write = 0, [held EXCEPT !.write = gen])
RotateMaster == Provision("rotate_master", held.master = 0, [held EXCEPT !.master = gen])
CheckUnlock  == Provision("check", held.read = gen /\ held.factor = fam, held)

\* A record file: fsynced inside the .mmm file, left to the system otherwise.
Store(r, next) ==
  /\ rec' = [rec EXCEPT ![hand] = r]
  /\ unsynced' = IF oneFile THEN unsynced ELSE unsynced \cup {hand}
  /\ pc' = next
  /\ UNCHANGED <<oneFile, card, wallet, lost, drawn, memory, touched, signals, resetting>>

NewRecord == [kind |-> "keys", gen |-> gen, family |-> fam, provisioned |-> FALSE, sealed |-> FALSE]

SaveKeys ==
  /\ At("save")
  /\ Store(NewRecord, ProvisionOrder["save"])
  /\ UNCHANGED <<shielded, outcome>>

UpdateRecord ==
  /\ At("update")
  /\ Store([rec[hand] EXCEPT !.provisioned = TRUE], IF cmd = "new" /\ ~oneFile THEN "wallet" ELSE "seal")
  /\ UNCHANGED <<shielded, outcome>>

\* cmd_new_card writes the .mmm file only now, and does not fsync it.
WriteWallet ==
  /\ At("wallet")
  /\ wallet' = fam /\ unsynced' = unsynced \cup {0} /\ pc' = "seal"
  /\ UNCHANGED <<oneFile, card, rec, lost, drawn, memory, touched, shielded, outcome, signals, resetting>>

\* make_permanent, unless --resettable; the command is done.
Seal ==
  /\ At("seal") /\ ~opt.resettable
  /\ Store([rec[hand] EXCEPT !.sealed = TRUE], "done")
  /\ End("ok")

LeaveResettable ==
  /\ At("seal") /\ opt.resettable
  /\ pc' = "done" /\ End("ok")
  /\ UNCHANGED <<oneFile, card, files, drawn, memory, touched, signals, resetting>>
-----------------------------------------------------------------------------
(* card-reset.                                                              *)

\* A sealed card's record no longer has the keys a reset needs.
Resettable(r) == r.kind = "keys" /\ ~r.sealed

\* load_auth reads card-<uid>.auth: a one-file wallet's cards have none.
FindCard(c) ==
  /\ At("find") /\ ~WriteRaises
  /\ ~oneFile /\ Resettable(rec[c])
  /\ hand' = c /\ pc' = "wipe"
  /\ UNCHANGED <<oneFile, card, files, drawn, cmd, opt, fam, gen, touched, shielded, outcome, signals, resetting>>

\* Mutant: the record goes before the master key is back.
RetiresEarly == [wipe |-> "reset_read", reset_read |-> "reset_write", reset_write |-> "retire"]
ResetOrder   == [wipe |-> "reset_read", reset_read |-> "reset_write", reset_write |-> "reset_master",
                 reset_master |-> "retire"]

Reset(step, works, result) ==
  /\ At(step)
  /\ Exchange(works, result, ResetOrder[step])
  /\ touched' = TRUE
  /\ resetting' = resetting \cup {hand}

WipeFactor  == Reset("wipe", held.write = rec[hand].gen, [held EXCEPT !.factor = 0])
ResetRead   == Reset("reset_read", held.master = rec[hand].gen /\ held.read = rec[hand].gen, [held EXCEPT !.read = 0])
ResetWrite  == Reset("reset_write", held.master = rec[hand].gen /\ held.write = rec[hand].gen, [held EXCEPT !.write = 0])
ResetMaster == Reset("reset_master", held.master = rec[hand].gen, [held EXCEPT !.master = 0])

\* The card-ok line, then the key file is moved away.
Retire ==
  /\ At("retire") /\ ~WriteRaises
  /\ rec' = [rec EXCEPT ![hand] = None] /\ unsynced' = unsynced \ {hand}
  /\ resetting' = resetting \ {hand}
  /\ pc' = "done" /\ End("ok")
  /\ UNCHANGED <<oneFile, card, wallet, lost, drawn, memory, touched, signals>>
-----------------------------------------------------------------------------
(* The parent program.                                                      *)

ParentReads ==
  /\ parent = "alive" /\ begin = "written" /\ begin' = "read"
  /\ UNCHANGED <<oneFile, card, files, drawn, memory, pc, touched, shielded, outcome, parent, cancel, resetting>>

ParentCancels ==
  /\ Running /\ parent = "alive" /\ cancel = "none"
  /\ cancel' = IF begin = "read" THEN "late" ELSE "early"
  /\ UNCHANGED <<oneFile, card, files, drawn, memory, pc, touched, shielded, outcome, parent, begin, resetting>>

ParentDies ==
  /\ Running /\ parent = "alive" /\ parent' = "gone"
  /\ UNCHANGED <<oneFile, card, files, drawn, memory, pc, touched, shielded, outcome, begin, cancel, resetting>>

\* SIGTERM stops the run, or is ignored during the write.
CancelLands ==
  /\ cancel # "none" /\ cancel' = "none" /\ UNCHANGED <<parent, begin>>
  /\ \/ ~shielded /\ Die("killed")
     \/ Running /\ shielded
        /\ UNCHANGED <<oneFile, card, files, drawn, memory, pc, touched, shielded, outcome, resetting>>

Checks == StartNew \/ StartBackup \/ StartReset \/ CreateFile \/ ProvisioningBegin \/ PauseOver
            \/ \E c \in Cards : ReadCard(c) \/ Tap(c) \/ FindCard(c)
Making == WriteFactor \/ VerifyFactor \/ SaveKeys \/ RotateRead \/ RotateWrite \/ RotateMaster
            \/ CheckUnlock \/ UpdateRecord \/ WriteWallet \/ Seal \/ LeaveResettable
Wiping == WipeFactor \/ ResetRead \/ ResetWrite \/ ResetMaster \/ Retire
Faults == Fail \/ Crash \/ PowerCut \/ FlushDisk
Parent == ParentReads \/ ParentCancels \/ ParentDies \/ CancelLands

Next == Checks \/ Making \/ Wiping \/ Faults \/ Parent

Spec == Init /\ [][Next]_vars
-----------------------------------------------------------------------------
Steps == {"idle", "file", "read", "tap", "begin", "pause", "write", "verify", "save", "rotate_read",
          "rotate_write", "rotate_master", "check", "update", "wallet", "seal", "find", "wipe",
          "reset_read", "reset_write", "reset_master", "retire", "done"}

DataOK ==
  /\ card \in [Cards -> Card] /\ rec \in [Cards -> Record \cup {None, Torn}]
  /\ wallet \in Keys /\ unsynced \subseteq Cards \cup {0} /\ lost \subseteq Cards \cup {0} /\ drawn \in 0..MaxSecrets
  /\ cmd \in {"none", "new", "backup", "reset"} /\ pc \in Steps
  /\ hand \in Cards /\ fam \in 0..MaxSecrets /\ gen \in 0..MaxSecrets
  /\ outcome \in {"ok", "running", "failed", "killed", "crashed"}
  /\ parent \in {"alive", "gone"} /\ begin \in {"unwritten", "written", "read"}
  /\ cancel \in {"none", "early", "late"} /\ resetting \subseteq Cards

FlagsOK == oneFile \in BOOLEAN /\ opt \in Options /\ touched \in BOOLEAN /\ shielded \in BOOLEAN

TypeOK == DataOK /\ FlagsOK

\* A card that unlocks the wallet: its record is here, its read key fits and it
\* holds the wallet's factor.
Unlocks(c) == wallet \in Secrets /\ Reads(c) /\ card[c].factor = wallet
\* Mutant: half-made records count.
CountsHalfMade(c) == Holds(c) /\ rec[c].family = wallet
\* family_cards.
Counted(c) == Holds(c) /\ rec[c].family = wallet /\ rec[c].provisioned
Sealed(c)  == Holds(c) /\ rec[c].sealed
OffFactory(c) == \E s \in Secrets : s \in {card[c].master, card[c].read, card[c].write}

\* "The keys on disk, never a bricked card": whatever fails, and when, every key
\* this Mac put on a card is in that card's readable record, unless the power
\* took the file.  (A sealed record keeps the read key only, by design.)
KeysNeverLost == \A c \in Cards : OffFactory(c) =>
  \/ c \in lost
  \/ Holds(c) /\ {card[c].master, card[c].read, card[c].write} \subseteq {0, rec[c].gen}

\* The master and write keys are given up only for a card that unlocks a wallet
\* that is on the disk: sealing is the last step, after the card and the file.
SealedForAWallet == \A c \in Cards :
  Sealed(c) => 0 \in lost \/ (Unlocks(c) /\ rec[c].gen = card[c].master /\ rec[c].gen = card[c].write)

\* Making a card never spoils another: a card with a foreign key is never changed,
\* and a card that unlocks the wallet goes on doing so, unless it is reset or the
\* power takes a file.  A sealed card unlocks for good.
OtherCardsSurvive == [][\A c \in Cards :
  /\ Foreign \in {card[c].master, card[c].read, card[c].write} => card'[c] = card[c]
  /\ Unlocks(c) /\ (cmd # "reset" \/ Sealed(c)) /\ lost' = lost => Unlocks(c)']_vars

\* card-status counts no half-made card: a counted card unlocks, unless a reset of
\* it began.
CountedCardsUnlock == \A c \in Cards : Counted(c) => Unlocks(c) \/ c \in resetting \/ lost # {}

\* A finished command did all it says: the new card unlocks the wallet, counts, and
\* is sealed unless --resettable; the reset card is blank and its record gone.
DoneIsDone == pc = "done" /\ outcome = "ok" /\ lost = {} =>
  IF cmd = "reset" THEN Blank(held) /\ held.factor = 0 /\ ~Exists(hand)
                   ELSE Unlocks(hand) /\ Counted(hand) /\ (Sealed(hand) <=> ~opt.resettable)

\* SIGTERM never leaves a card half written by `new' or card-backup --auto-swap.
NoHalfCardOnCancel == outcome = "killed" /\ Announces => ~touched

\* Nothing is written to a card that nobody heard of, and a cancel sent before the
\* parent read card-provisioning finds the card untouched.
HeardBeforeWrite ==
  touched /\ Announces /\ cmd # "reset" /\ opt.events =>
    begin # "unwritten" /\ (Running => cancel # "early")

\* The event, the pause and the signal set aside make one commit point: before it a cancel
\* finds the card untouched, behind it no cancel ends the write, and nobody was left unaware.
CommitIsClean == NoHalfCardOnCancel /\ HeardBeforeWrite
-----------------------------------------------------------------------------
(* What the documents say and the code does not do.                         *)

\* cmd_new_card_one_file: "no half wallet left" where nothing was written to a card.
CancelledLeavesNoHalfWallet ==
  outcome = "killed" /\ cmd = "new" /\ oneFile /\ ~touched => wallet # fam
=============================================================================

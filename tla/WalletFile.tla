----------------------------- MODULE WalletFile -----------------------------
(***************************************************************************)
(* The wallet file and the commands that create, re-key, copy and retire   *)
(* it, run by several processes at once: new and restore (write_seed),     *)
(* encrypt, backup and reset of wallet_cli.py, and new and restore of the  *)
(* keytool, which writes a plain wallet.seed of its own.                   *)
(*                                                                         *)
(* A step is one system call that others can see.  A process may fail or   *)
(* be killed at every step, the power may fail, the file system may lack   *)
(* hard links and the backup may be on another disk.  Names of temporary   *)
(* files are random, so only the file they become is modelled.             *)
(***************************************************************************)
EXTENDS Naturals, FiniteSets

CONSTANTS
  Procs,
  MaxSeeds   \* bound: seeds drawn or typed in

ASSUME FileAssumption == MaxSeeds \in Nat \ {0}

Seeds == 1..MaxSeeds
Names == {"mmm", "seed"}   \* wallet.mmm and the legacy wallet.seed

Wallet(n) == <<n, "wallet">>
Rekey(n)  == <<n, "rekey-tmp">>
Moved(n)  == <<n, "plaintext-backup">>
Backup    == <<"backup", "wallet">>   \* the destination of backup and reset
Paths     == (Names \X {"wallet", "rekey-tmp", "plaintext-backup"}) \cup {Backup}

None       == [kind |-> "none"]
Cut(by)    == [kind |-> "cut", by |-> by]   \* a write that did not finish
Whole      == [kind : {"mmm", "plain"}, seed : Seeds]
Content    == Whole \cup {None} \cup {Cut(by) : by \in {"write_seed", "keytool", "copy"}}

Commands == {"create", "encrypt", "backup", "reset", "keytool"}

VARIABLES
  fs,        \* the content of each file
  hardLinks, \* the wallet's file system has hard links
  sameDisk,  \* the backup is on the wallet's file system
  unsynced,  \* the backup is not yet on its disk
  drawn,     \* seeds drawn so far
  told,      \* seeds a finished command told its user of
  run,       \* each process: command, step, wallet name, seed in memory, file it writes
  mixed,     \* commands ran at once, and not only new and restore
  cut        \* a power failure took the backup

vars == <<fs, hardLinks, sameDisk, unsynced, drawn, told, run, mixed, cut>>

Idle == [cmd |-> "create", at |-> "idle", name |-> "mmm", seed |-> 1, dest |-> Wallet("mmm")]

\* A Mac may hold a plain wallet.seed of an earlier version.
Init ==
  /\ \E x \in {None, [kind |-> "plain", seed |-> 1]} :
       /\ fs = [q \in Paths |-> IF q = Wallet("seed") THEN x ELSE None]
       /\ told = (IF x = None THEN {} ELSE {1})
  /\ drawn = Cardinality(told)
  /\ hardLinks \in BOOLEAN /\ sameDisk \in BOOLEAN
  /\ unsynced = FALSE /\ mixed = FALSE /\ cut = FALSE
  /\ run = [p \in Procs |-> Idle]

Free(p)     == run[p].at \in {"idle", "done"}
At(p, step) == run[p].at = step
Source(p)   == Wallet(run[p].name)
Go(p, step) == run' = [run EXCEPT ![p].at = step]
\* It ends; what it held in memory is gone.
End(p, how) == run' = [run EXCEPT ![p] = [Idle EXCEPT !.at = how]]
Put(q, x)   == fs' = [fs EXCEPT ![q] = x]

\* rename(2): it replaces the file it finds.
Rename(from, to) == fs' = [fs EXCEPT ![to] = fs[from], ![from] = None]
-----------------------------------------------------------------------------
(* A command starts.                                                        *)

Start(p, c, n, step, s, dest) ==
  /\ Free(p)
  /\ run' = [run EXCEPT ![p] = [cmd |-> c, at |-> step, name |-> n, seed |-> s, dest |-> dest]]
  /\ mixed' = (mixed \/ \E q \in Procs \ {p} : ~Free(q) /\ (c # "create" \/ run[q].cmd # "create"))
  /\ UNCHANGED <<fs, hardLinks, sameDisk, unsynced, told, cut>>

\* cmd_new, cmd_restore: p.exists(), then the seed is drawn or typed.
Create(p, n) ==
  /\ fs[Wallet(n)] = None /\ drawn < MaxSeeds
  /\ drawn' = drawn + 1
  /\ Start(p, "create", n, "publish", drawn + 1, Wallet(n))

\* The keytool's check: no line can be read from the file.
LooksEmpty(x) == x.kind \in {"none", "cut"}

Keytool(p) ==
  /\ LooksEmpty(fs[Wallet("seed")]) /\ drawn < MaxSeeds
  /\ drawn' = drawn + 1
  /\ Start(p, "keytool", "seed", "truncate", drawn + 1, Wallet("seed"))

\* read_seed: encrypt, backup and reset begin with a wallet they can open.
Open(p, c, n) ==
  /\ fs[Wallet(n)] \in Whole
  /\ Start(p, c, n, IF c = "encrypt" THEN "sniff" ELSE "look", fs[Wallet(n)].seed, Backup)
  /\ UNCHANGED drawn

\* Mutant: no temporary file.
Always       == TRUE
\* put(p): without hard links write_seed writes the wallet where it will stay.
InPlace      == ~hardLinks

\* The program fails, and put() takes the file back; or it is killed.
HalfWritten(p) ==
  CASE At(p, "publish") /\ InPlace /\ fs[run[p].dest] = None -> {None, Cut("write_seed")}
    [] At(p, "truncate") -> {fs[run[p].dest], Cut("keytool")}
    [] At(p, "copy") /\ fs[Source(p)] # None -> {fs[run[p].dest], Cut("copy")}
    [] OTHER -> {fs[run[p].dest]}

Stop(p) ==
  /\ ~Free(p)
  /\ \E x \in HalfWritten(p) : Put(run[p].dest, x)
  /\ End(p, "idle")
  /\ UNCHANGED <<hardLinks, sameDisk, unsynced, drawn, told, mixed, cut>>
-----------------------------------------------------------------------------
(* The steps.                                                               *)

\* with_suffix: a plain wallet.seed becomes wallet.mmm.
Target(n)   == Wallet("mmm")

\* cmd_encrypt reads the file again to see its format.
Sniff(p) ==
  /\ At(p, "sniff") /\ fs[Source(p)] # None
  /\ run' = [run EXCEPT ![p].at = "look",
                        ![p].dest = IF fs[Source(p)].kind = "mmm" THEN Rekey(run[p].name) ELSE Target(run[p].name)]
  /\ UNCHANGED <<fs, hardLinks, sameDisk, unsynced, drawn, told, mixed, cut>>

\* dst.exists(), tmp.exists(), target.exists().
NextStep(p) == CASE run[p].cmd = "encrypt" -> "publish"
                 [] run[p].cmd = "reset" /\ sameDisk -> "move"
                 [] OTHER -> "copy"
Look(p) ==
  /\ At(p, "look") /\ fs[run[p].dest] = None
  /\ Go(p, NextStep(p))
  /\ UNCHANGED <<fs, hardLinks, sameDisk, unsynced, drawn, told, mixed, cut>>

\* Mutant: os.replace publishes the file.
Replaces(q) == TRUE
\* link(2), or O_CREAT with O_EXCL: neither replaces a file.
Publishes(q) == fs[q] = None

AfterPublish(p) == IF run[p].dest = Rekey(run[p].name) THEN "replace" ELSE "retire"

Publish(p) ==
  /\ At(p, "publish") /\ Publishes(run[p].dest)
  /\ Put(run[p].dest, [kind |-> "mmm", seed |-> run[p].seed])
  /\ told' = IF run[p].cmd = "create" THEN told \cup {run[p].seed} ELSE told
  /\ IF run[p].cmd = "create" THEN End(p, "done") ELSE Go(p, AfterPublish(p))
  /\ UNCHANGED <<hardLinks, sameDisk, unsynced, drawn, mixed, cut>>

\* write_seed_file of the keytool: O_TRUNC.
Truncate(p) ==
  /\ At(p, "truncate")
  /\ Put(run[p].dest, [kind |-> "plain", seed |-> run[p].seed])
  /\ told' = told \cup {run[p].seed}
  /\ End(p, "done")
  /\ UNCHANGED <<hardLinks, sameDisk, unsynced, drawn, mixed, cut>>

Replace(p) ==
  /\ At(p, "replace") /\ fs[run[p].dest] # None
  /\ Rename(run[p].dest, Source(p))
  /\ End(p, "done")
  /\ UNCHANGED <<hardLinks, sameDisk, unsynced, drawn, told, mixed, cut>>

\* moved.exists() and the rename: one step, for two encrypts cannot both have
\* published wallet.mmm.
Retire(p) ==
  /\ At(p, "retire") /\ fs[Source(p)] # None /\ fs[Moved(run[p].name)] = None
  /\ Rename(Source(p), Moved(run[p].name))
  /\ End(p, "done")
  /\ UNCHANGED <<hardLinks, sameDisk, unsynced, drawn, told, mixed, cut>>

\* Mutant: a short read ends the copy.
CopiesLittle(p) == Cut("copy")
Copied(p)       == fs[Source(p)]

\* shutil.copy2, which does not sync; across disks it is also shutil.move's first half.
Copy(p) ==
  /\ At(p, "copy") /\ fs[Source(p)] # None
  /\ Put(Backup, Copied(p)) /\ unsynced' = TRUE
  /\ IF run[p].cmd = "reset" THEN Go(p, "unlink") ELSE End(p, "done")
  /\ UNCHANGED <<hardLinks, sameDisk, drawn, told, mixed, cut>>

Unlink(p) ==
  /\ At(p, "unlink") /\ fs[Source(p)] # None
  /\ Put(Source(p), None)
  /\ End(p, "done")
  /\ UNCHANGED <<hardLinks, sameDisk, unsynced, drawn, told, mixed, cut>>

Move(p) ==
  /\ At(p, "move") /\ fs[Source(p)] # None
  /\ Rename(Source(p), Backup)
  /\ End(p, "done")
  /\ UNCHANGED <<hardLinks, sameDisk, unsynced, drawn, told, mixed, cut>>

\* The power fails: every process stops, and a backup not yet synced may be cut.
PowerCut ==
  /\ unsynced /\ unsynced' = FALSE /\ cut' = TRUE
  /\ Put(Backup, Cut("copy"))
  /\ run' = [p \in Procs |-> Idle]
  /\ UNCHANGED <<hardLinks, sameDisk, drawn, told, mixed>>

FlushDisk ==
  /\ unsynced /\ unsynced' = FALSE
  /\ UNCHANGED <<fs, hardLinks, sameDisk, drawn, told, run, mixed, cut>>

Starts(p) == Keytool(p) \/ \E n \in Names : Create(p, n) \/ \E c \in {"encrypt", "backup", "reset"} : Open(p, c, n)
Works(p)  == Sniff(p) \/ Look(p) \/ Publish(p) \/ Truncate(p) \/ Replace(p) \/ Retire(p)
               \/ Copy(p) \/ Unlink(p) \/ Move(p)

Next == PowerCut \/ FlushDisk \/ \E p \in Procs : Starts(p) \/ Works(p) \/ Stop(p)

Spec == Init /\ [][Next]_vars
-----------------------------------------------------------------------------
Stages == {"idle", "sniff", "look", "publish", "truncate", "replace", "retire", "copy", "unlink", "move", "done"}
Process == [cmd : Commands, name : Names, seed : Seeds, dest : Paths, at : Stages]

DataOK ==
  /\ fs \in [Paths -> Content] /\ run \in [Procs -> Process]
  /\ drawn \in 0..MaxSeeds /\ told \subseteq Seeds

FlagsOK ==
  /\ hardLinks \in BOOLEAN /\ sameDisk \in BOOLEAN /\ unsynced \in BOOLEAN
  /\ mixed \in BOOLEAN /\ cut \in BOOLEAN

TypeOK == DataOK /\ FlagsOK

Opens(x, s) == x \in Whole /\ x.seed = s
\* In a file the user would not delete: a stale .rekey-tmp is in the way of encrypt.
Kept(s) == \E q \in Paths \ {Rekey(n) : n \in Names} : Opens(fs[q], s)

\* A seed the user was told of stays in a file, whatever stops when, as long as only
\* new and restore run at once (and the power spares the copy a reset made).
SeedsKept == ~mixed /\ ~cut => \A s \in told : Kept(s)

\* write_seed's wallet "appears complete or not at all", where hard links exist.
WholeOrAbsent == hardLinks => \A q \in Paths : fs[q] # Cut("write_seed")

\* A command that ends well left the seed it opened, or drew, where it says.
Ends(p) == ~Free(p) /\ run'[p].at = "done"
DoneIsDone == [][~mixed => \A p \in Procs : Ends(p) =>
  CASE run[p].cmd \in {"create", "keytool"} -> Opens(fs'[Source(p)], run[p].seed)
    [] run[p].cmd = "encrypt" -> \E n \in Names : fs'[Wallet(n)] = [kind |-> "mmm", seed |-> run[p].seed]
    [] run[p].cmd = "backup"  -> Opens(fs'[Backup], run[p].seed) /\ Opens(fs'[Source(p)], run[p].seed)
    [] run[p].cmd = "reset"   -> Opens(fs'[Backup], run[p].seed) /\ fs'[Source(p)] = None]_vars
-----------------------------------------------------------------------------
(* What the documents say and the code does not do.                         *)

Steps(p) == ~Free(p) /\ run[p] # run'[p]
Spares   == \A s \in told : Kept(s) => Kept(s)'

\* "NEVER silently overwrite an existing wallet" (keytool).
KeytoolNeverOverwrites == [][\A p \in Procs : run[p].cmd = "keytool" /\ Steps(p) => Spares]_vars
=============================================================================

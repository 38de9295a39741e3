-------------------------- MODULE WalletFileProofs --------------------------
(***************************************************************************)
(* Proofs about the wallet file, for any number of processes and seeds: no *)
(* seed a user was told of is lost, and commands do what they say.         *)
(***************************************************************************)
EXTENDS WalletFile, FiniteSetTheorems, TLAPS

\* Which command is at which step, and the file it is about to write.
Shape == \A p \in Procs :
  /\ At(p, "sniff") => run[p].cmd = "encrypt"
  /\ At(p, "look") => run[p].cmd \in {"encrypt", "backup", "reset"}
  /\ At(p, "publish") => run[p].cmd \in {"create", "encrypt"}
  /\ At(p, "truncate") => run[p].cmd = "keytool"
  /\ At(p, "replace") => run[p].cmd = "encrypt" /\ run[p].dest = Rekey(run[p].name)
  /\ At(p, "retire") => run[p].cmd = "encrypt" /\ run[p].dest = Wallet("mmm")
  /\ At(p, "copy") => run[p].cmd \in {"backup", "reset"}
  /\ At(p, "move") \/ At(p, "unlink") => run[p].cmd = "reset"
  /\ ~Free(p) /\ run[p].cmd \in {"create", "keytool"} => run[p].dest = Source(p)
  /\ ~Free(p) /\ run[p].cmd = "keytool" => run[p].name = "seed"
  /\ ~Free(p) /\ run[p].cmd \in {"backup", "reset"} => run[p].dest = Backup
  /\ run[p].cmd = "encrypt" /\ (At(p, "look") \/ At(p, "publish")) =>
       run[p].dest \in {Rekey(run[p].name), Wallet("mmm")}

\* As long as commands did not mix, only new and restore share the files.
Alone == ~mixed => \A p, q \in Procs :
  ~Free(p) /\ ~Free(q) /\ run[p].cmd # "create" => p = q

\* ... so what a command saw of a file is still true at its later steps.
SeesTruth(p) ==
  /\ ~Free(p) /\ run[p].cmd \in {"encrypt", "backup", "reset"} => Opens(fs[Source(p)], run[p].seed)
  /\ At(p, "publish") /\ run[p].cmd = "encrypt" => fs[run[p].dest] = None
  /\ At(p, "copy") \/ At(p, "move") => fs[Backup] = None
  /\ At(p, "replace") \/ At(p, "retire") => fs[run[p].dest] = [kind |-> "mmm", seed |-> run[p].seed]
  /\ At(p, "retire") => Source(p) # Wallet("mmm")
  /\ At(p, "unlink") => Opens(fs[Backup], run[p].seed)
  /\ At(p, "truncate") => fs[run[p].dest] \notin Whole
StillTrue == ~mixed => \A p \in Procs : SeesTruth(p)

IInv == TypeOK /\ Shape /\ Alone /\ StillTrue /\ SeedsKept /\ WholeOrAbsent

LEMMA PathsDiffer ==
  /\ Wallet("mmm") # Wallet("seed")
  /\ \A n \in Names : /\ Backup \notin {Wallet(n), Rekey(n), Moved(n)}
                      /\ \A k \in Names : Wallet(n) \notin {Rekey(k), Moved(k)} /\ Rekey(n) # Moved(k)
  /\ \A n \in Names : {Wallet(n), Rekey(n), Moved(n)} \subseteq Paths
  /\ Backup \in Paths
BY DEF Names, Wallet, Rekey, Moved, Backup, Paths

LEMMA Contents ==
  /\ None \in Content \ Whole
  /\ \A by \in {"write_seed", "keytool", "copy"} : Cut(by) \in Content \ Whole
  /\ \A s \in Seeds : /\ [kind |-> "mmm", seed |-> s] \in Whole /\ [kind |-> "plain", seed |-> s] \in Whole
  /\ Whole \subseteq Content
  /\ \A by \in {"keytool", "copy"} : Cut(by) # Cut("write_seed")
  /\ None # Cut("write_seed")
  /\ \A x : LooksEmpty(x) => x \notin Whole
BY DEF None, Cut, Content, Whole, LooksEmpty

\* A process writes down what it does next.
LEMMA RunIsProcess ==
  ASSUME DataOK, NEW p \in Procs, NEW at \in Stages, NEW dest \in Paths
  PROVE  /\ [run EXCEPT ![p].at = at] \in [Procs -> Process]
         /\ [run EXCEPT ![p].at = at, ![p].dest = dest] \in [Procs -> Process]
         /\ \A c \in Commands, n \in Names, s \in Seeds :
              [run EXCEPT ![p] = [cmd |-> c, at |-> at, name |-> n, seed |-> s, dest |-> dest]] \in [Procs -> Process]
BY DEF DataOK, Process

LEMMA ProcessGoesOn ==
  ASSUME DataOK, NEW p \in Procs, NEW r \in Process
  PROVE  [run EXCEPT ![p] = r] \in [Procs -> Process]
<1>1. run \in [Procs -> Process]
  BY DEF DataOK
<1> HIDE DEF Process
<1> QED
  BY <1>1

LEMMA IdleIsProcess == \A how \in Stages : [Idle EXCEPT !.at = how] \in Process /\ Idle \in Process
BY FileAssumption, PathsDiffer DEF Idle, Process, Commands, Names, Seeds, Stages

LEMMA FlagsStep == IInv /\ [Next]_vars => FlagsOK'
<1> SUFFICES ASSUME IInv, [Next]_vars PROVE FlagsOK'
  OBVIOUS
<1> USE DEF IInv, TypeOK, FlagsOK, Free, At, Go, End, Put, Rename, Source
<1>1. CASE PowerCut
  BY <1>1, Zenon DEF PowerCut
<1>2. CASE FlushDisk
  BY <1>2, Zenon DEF FlushDisk
<1>3. ASSUME NEW p \in Procs, Keytool(p) PROVE FlagsOK'
  BY <1>3, Zenon DEF Keytool, Start
<1>4. ASSUME NEW p \in Procs, NEW n \in Names, Create(p, n) PROVE FlagsOK'
  BY <1>4, Zenon DEF Create, Start
<1>5. ASSUME NEW p \in Procs, NEW n \in Names, NEW c \in {"encrypt", "backup", "reset"}, Open(p, c, n) PROVE FlagsOK'
  BY <1>5, Zenon DEF Open, Start
<1>6. ASSUME NEW p \in Procs, Sniff(p) PROVE FlagsOK'
  BY <1>6, Zenon DEF Sniff, Target
<1>7. ASSUME NEW p \in Procs, Look(p) PROVE FlagsOK'
  BY <1>7, Zenon DEF Look, NextStep
<1>8. ASSUME NEW p \in Procs, Publish(p) PROVE FlagsOK'
  BY <1>8, Zenon DEF Publish, Publishes, AfterPublish
<1>9. ASSUME NEW p \in Procs, Truncate(p) PROVE FlagsOK'
  BY <1>9, Zenon DEF Truncate
<1>10. ASSUME NEW p \in Procs, Replace(p) PROVE FlagsOK'
  BY <1>10, Zenon DEF Replace
<1>11. ASSUME NEW p \in Procs, Retire(p) PROVE FlagsOK'
  BY <1>11, Zenon DEF Retire
<1>12. ASSUME NEW p \in Procs, Copy(p) PROVE FlagsOK'
  BY <1>12, Zenon DEF Copy, Copied
<1>13. ASSUME NEW p \in Procs, Unlink(p) PROVE FlagsOK'
  BY <1>13, Zenon DEF Unlink
<1>14. ASSUME NEW p \in Procs, Move(p) PROVE FlagsOK'
  BY <1>14, Zenon DEF Move
<1>15. ASSUME NEW p \in Procs, Stop(p) PROVE FlagsOK'
  BY <1>15, Zenon DEF Stop, HalfWritten, InPlace
<1>16. CASE UNCHANGED vars
  BY <1>16, Zenon DEF vars
<1> QED
  BY <1>1, <1>2, <1>3, <1>4, <1>5, <1>6, <1>7, <1>8, <1>9, <1>10, <1>11, <1>12,
     <1>13, <1>14, <1>15, <1>16
     DEF Next, Starts, Works

LEMMA DataStep == IInv /\ [Next]_vars => DataOK'
<1> SUFFICES ASSUME IInv, [Next]_vars PROVE DataOK'
  OBVIOUS
<1> USE FileAssumption, PathsDiffer, Contents DEF IInv, TypeOK, DataOK, Shape, Seeds, Commands, Names, Idle, Process, Stages, Free, At, Go, End, Put, Rename, Source
<1>1. CASE PowerCut
  BY <1>1 DEF PowerCut
<1>2. CASE FlushDisk
  BY <1>2 DEF FlushDisk
<1>3. ASSUME NEW p \in Procs, Keytool(p) PROVE DataOK'
  BY <1>3 DEF Keytool, Start
<1>4. ASSUME NEW p \in Procs, NEW n \in Names, Create(p, n) PROVE DataOK'
  BY <1>4 DEF Create, Start
<1>5. ASSUME NEW p \in Procs, NEW n \in Names, NEW c \in {"encrypt", "backup", "reset"}, Open(p, c, n) PROVE DataOK'
  <2>1. fs[Wallet(n)].seed \in Seeds
    BY <1>5 DEF Open, Whole
  <2>2. run' \in [Procs -> Process]
    <3> DEFINE r == [cmd |-> c, at |-> IF c = "encrypt" THEN "sniff" ELSE "look", name |-> n,
                     seed |-> fs[Wallet(n)].seed, dest |-> Backup]
    <3>1. r \in Process
      BY <2>1
    <3>2. run' = [run EXCEPT ![p] = r]
      BY <1>5 DEF Open, Start
    <3> HIDE DEF Process, r
    <3> QED
      BY <3>1, <3>2, ProcessGoesOn
  <2> QED
    BY <1>5, <2>2 DEF Open, Start
<1>6. ASSUME NEW p \in Procs, Sniff(p) PROVE DataOK'
  <2>1. Rekey(run[p].name) \in Paths /\ Wallet("mmm") \in Paths
    OBVIOUS
  <2>2. run' \in [Procs -> Process]
    <3> DEFINE d == IF fs[Source(p)].kind = "mmm" THEN Rekey(run[p].name) ELSE Wallet("mmm")
    <3>1. d \in Paths /\ "look" \in Stages
      BY <2>1
    <3>2. run' = [run EXCEPT ![p].at = "look", ![p].dest = d]
      BY <1>6 DEF Sniff, Target
    <3> HIDE DEF Process, Stages, d
    <3> QED
      BY <3>1, <3>2, RunIsProcess
  <2> QED
    BY <1>6, <2>2 DEF Sniff
<1>7. ASSUME NEW p \in Procs, Look(p) PROVE DataOK'
  BY <1>7 DEF Look, NextStep
<1>8. ASSUME NEW p \in Procs, Publish(p) PROVE DataOK'
  <2>1. run[p].seed \in Seeds /\ run[p].dest \in Paths
    OBVIOUS
  <2>2. AfterPublish(p) \in Stages
    BY DEF AfterPublish
  <2>3. fs' \in [Paths -> Content] /\ told' \subseteq Seeds
    BY <1>8, <2>1 DEF Publish
  <2>4. run' \in [Procs -> Process]
    <3>1. [Idle EXCEPT !.at = "done"] \in Process
      BY IdleIsProcess
    <3>2. run' = [run EXCEPT ![p] = [Idle EXCEPT !.at = "done"]] \/ run' = [run EXCEPT ![p].at = AfterPublish(p)]
      BY <1>8 DEF Publish
    <3>3. [run EXCEPT ![p] = [Idle EXCEPT !.at = "done"]] \in [Procs -> Process]
      <4> HIDE DEF Process, Idle, DataOK
      <4> QED
        BY <3>1, ProcessGoesOn DEF DataOK
    <3>4. [run EXCEPT ![p].at = AfterPublish(p)] \in [Procs -> Process]
      <4> HIDE DEF Process, Stages
      <4> QED
        BY <2>1, <2>2, RunIsProcess
    <3> HIDE DEF Process, Idle, Stages
    <3> QED
      BY <3>2, <3>3, <3>4
  <2> QED
    BY <1>8, <2>3, <2>4 DEF Publish
<1>9. ASSUME NEW p \in Procs, Truncate(p) PROVE DataOK'
  <2>1. run[p].seed \in Seeds /\ run[p].dest \in Paths
    OBVIOUS
  <2>2. "done" \in Stages
    BY DEF AfterPublish
  <2>3. fs' \in [Paths -> Content] /\ told' \subseteq Seeds
    BY <1>9, <2>1 DEF Truncate
  <2>4. run' \in [Procs -> Process]
    <3>1. \A r \in Process : [run EXCEPT ![p] = r] \in [Procs -> Process]
      OBVIOUS
    <3> HIDE DEF Process
    <3> QED
      BY <1>9, <2>2, <3>1, RunIsProcess, IdleIsProcess DEF Truncate
  <2> QED
    BY <1>9, <2>3, <2>4 DEF Truncate
<1>10. ASSUME NEW p \in Procs, Replace(p) PROVE DataOK'
  BY <1>10 DEF Replace
<1>11. ASSUME NEW p \in Procs, Retire(p) PROVE DataOK'
  BY <1>11 DEF Retire
<1>12. ASSUME NEW p \in Procs, Copy(p) PROVE DataOK'
  BY <1>12 DEF Copy, Copied
<1>13. ASSUME NEW p \in Procs, Unlink(p) PROVE DataOK'
  BY <1>13 DEF Unlink
<1>14. ASSUME NEW p \in Procs, Move(p) PROVE DataOK'
  BY <1>14 DEF Move
<1>15. ASSUME NEW p \in Procs, Stop(p) PROVE DataOK'
  BY <1>15 DEF Stop, HalfWritten, InPlace
<1>16. CASE UNCHANGED vars
  BY <1>16 DEF vars
<1> QED
  BY <1>1, <1>2, <1>3, <1>4, <1>5, <1>6, <1>7, <1>8, <1>9, <1>10, <1>11, <1>12,
     <1>13, <1>14, <1>15, <1>16
     DEF Next, Starts, Works

LEMMA ShapeStep == IInv /\ [Next]_vars => Shape'
<1> SUFFICES ASSUME IInv, [Next]_vars PROVE Shape'
  OBVIOUS
<1> USE FileAssumption, PathsDiffer, Contents DEF IInv, TypeOK, DataOK, Process, Shape, Names, Idle, Free, At, Go, End, Put, Rename, Source
<1>1. CASE PowerCut
  BY <1>1 DEF PowerCut
<1>2. CASE FlushDisk
  BY <1>2 DEF FlushDisk
<1>3. ASSUME NEW p \in Procs, Keytool(p) PROVE Shape'
  BY <1>3 DEF Keytool, Start
<1>4. ASSUME NEW p \in Procs, NEW n \in Names, Create(p, n) PROVE Shape'
  BY <1>4 DEF Create, Start
<1>5. ASSUME NEW p \in Procs, NEW n \in Names, NEW c \in {"encrypt", "backup", "reset"}, Open(p, c, n) PROVE Shape'
  BY <1>5 DEF Open, Start
<1>6. ASSUME NEW p \in Procs, Sniff(p) PROVE Shape'
  BY <1>6 DEF Sniff, Target
<1>7. ASSUME NEW p \in Procs, Look(p) PROVE Shape'
  BY <1>7 DEF Look, NextStep
<1>8. ASSUME NEW p \in Procs, Publish(p) PROVE Shape'
  BY <1>8 DEF Publish, Publishes, AfterPublish
<1>9. ASSUME NEW p \in Procs, Truncate(p) PROVE Shape'
  BY <1>9 DEF Truncate
<1>10. ASSUME NEW p \in Procs, Replace(p) PROVE Shape'
  BY <1>10 DEF Replace
<1>11. ASSUME NEW p \in Procs, Retire(p) PROVE Shape'
  BY <1>11 DEF Retire
<1>12. ASSUME NEW p \in Procs, Copy(p) PROVE Shape'
  BY <1>12 DEF Copy, Copied
<1>13. ASSUME NEW p \in Procs, Unlink(p) PROVE Shape'
  BY <1>13 DEF Unlink
<1>14. ASSUME NEW p \in Procs, Move(p) PROVE Shape'
  BY <1>14 DEF Move
<1>15. ASSUME NEW p \in Procs, Stop(p) PROVE Shape'
  BY <1>15 DEF Stop, HalfWritten, InPlace
<1>16. CASE UNCHANGED vars
  BY <1>16 DEF vars
<1> HIDE DEF IInv, TypeOK, DataOK, Process, Shape, Names, Idle, Free, At, Go, End, Put, Rename, Source
<1> QED
  BY <1>1, <1>2, <1>3, <1>4, <1>5, <1>6, <1>7, <1>8, <1>9, <1>10, <1>11, <1>12,
     <1>13, <1>14, <1>15, <1>16
     DEF Next, Starts, Works

LEMMA AloneStep == IInv /\ [Next]_vars => Alone'
<1> SUFFICES ASSUME IInv, [Next]_vars PROVE Alone'
  OBVIOUS
<1> USE FileAssumption, PathsDiffer, Contents DEF IInv, TypeOK, DataOK, Process, Shape, Alone, Idle, Free, At, Go, End, Put, Rename, Source
<1>1. CASE PowerCut
  BY <1>1 DEF PowerCut
<1>2. CASE FlushDisk
  BY <1>2 DEF FlushDisk
<1>3. ASSUME NEW p \in Procs, Keytool(p) PROVE Alone'
  BY ZenonT(40), <1>3 DEF Keytool, Start
<1>4. ASSUME NEW p \in Procs, NEW n \in Names, Create(p, n) PROVE Alone'
  BY ZenonT(40), <1>4 DEF Create, Start
<1>5. ASSUME NEW p \in Procs, NEW n \in Names, NEW c \in {"encrypt", "backup", "reset"}, Open(p, c, n) PROVE Alone'
  BY ZenonT(40), <1>5 DEF Open, Start
<1>6. ASSUME NEW p \in Procs, Sniff(p) PROVE Alone'
  BY <1>6 DEF Sniff, Target
<1>7. ASSUME NEW p \in Procs, Look(p) PROVE Alone'
  BY <1>7 DEF Look, NextStep
<1>8. ASSUME NEW p \in Procs, Publish(p) PROVE Alone'
  BY <1>8 DEF Publish, Publishes, AfterPublish
<1>9. ASSUME NEW p \in Procs, Truncate(p) PROVE Alone'
  BY <1>9 DEF Truncate
<1>10. ASSUME NEW p \in Procs, Replace(p) PROVE Alone'
  BY <1>10 DEF Replace
<1>11. ASSUME NEW p \in Procs, Retire(p) PROVE Alone'
  BY <1>11 DEF Retire
<1>12. ASSUME NEW p \in Procs, Copy(p) PROVE Alone'
  BY <1>12 DEF Copy, Copied
<1>13. ASSUME NEW p \in Procs, Unlink(p) PROVE Alone'
  BY <1>13 DEF Unlink
<1>14. ASSUME NEW p \in Procs, Move(p) PROVE Alone'
  BY <1>14 DEF Move
<1>15. ASSUME NEW p \in Procs, Stop(p) PROVE Alone'
  BY <1>15 DEF Stop, HalfWritten, InPlace
<1>16. CASE UNCHANGED vars
  BY <1>16 DEF vars
<1> QED
  BY <1>1, <1>2, <1>3, <1>4, <1>5, <1>6, <1>7, <1>8, <1>9, <1>10, <1>11, <1>12,
     <1>13, <1>14, <1>15, <1>16
     DEF Next, Starts, Works

LEMMA TrueStep == IInv /\ [Next]_vars => StillTrue'
<1> SUFFICES ASSUME IInv, [Next]_vars PROVE StillTrue'
  OBVIOUS
<1> USE FileAssumption, PathsDiffer, Contents DEF IInv, TypeOK, DataOK, Process, Shape, Alone, StillTrue, SeesTruth, Opens, Names, Idle, Free, At, Go, End, Put, Rename, Source
<1>1. CASE PowerCut
  BY <1>1 DEF PowerCut
<1>2. CASE FlushDisk
  BY <1>2 DEF FlushDisk
<1>3. ASSUME NEW p \in Procs, Keytool(p) PROVE StillTrue'
  <2>1. ~mixed' => ~mixed /\ fs' = fs
    BY <1>3 DEF Keytool, Start
  <2>2. ASSUME ~mixed', NEW q \in Procs, q # p PROVE SeesTruth(q)'
    BY <1>3, <2>1, <2>2 DEF Keytool, Start
  <2>3. ~mixed' => SeesTruth(p)'
    BY <1>3 DEF Keytool, Start
  <2> QED
    BY <2>2, <2>3
<1>4. ASSUME NEW p \in Procs, NEW n \in Names, Create(p, n) PROVE StillTrue'
  <2>1. ~mixed' => ~mixed /\ fs' = fs
    BY <1>4 DEF Create, Start
  <2>2. ASSUME ~mixed', NEW q \in Procs, q # p PROVE SeesTruth(q)'
    BY <1>4, <2>1, <2>2 DEF Create, Start
  <2>3. ~mixed' => SeesTruth(p)'
    BY <1>4 DEF Create, Start
  <2> QED
    BY <2>2, <2>3
<1>5. ASSUME NEW p \in Procs, NEW n \in Names, NEW c \in {"encrypt", "backup", "reset"}, Open(p, c, n) PROVE StillTrue'
  <2>1. ~mixed' => ~mixed /\ fs' = fs
    BY <1>5 DEF Open, Start
  <2>2. ASSUME ~mixed', NEW q \in Procs, q # p PROVE SeesTruth(q)'
    BY <1>5, <2>1, <2>2 DEF Open, Start
  <2>3. ~mixed' => SeesTruth(p)'
    BY <1>5 DEF Open, Start
  <2> QED
    BY <2>2, <2>3
<1>6. ASSUME NEW p \in Procs, Sniff(p) PROVE StillTrue'
  BY <1>6 DEF Sniff, Target
<1>7. ASSUME NEW p \in Procs, Look(p) PROVE StillTrue'
  BY <1>7 DEF Look, NextStep
<1>8. ASSUME NEW p \in Procs, Publish(p) PROVE StillTrue'
  BY <1>8 DEF Publish, Publishes, AfterPublish
<1>9. ASSUME NEW p \in Procs, Truncate(p) PROVE StillTrue'
  BY <1>9 DEF Truncate
<1>10. ASSUME NEW p \in Procs, Replace(p) PROVE StillTrue'
  BY <1>10 DEF Replace
<1>11. ASSUME NEW p \in Procs, Retire(p) PROVE StillTrue'
  BY <1>11 DEF Retire
<1>12. ASSUME NEW p \in Procs, Copy(p) PROVE StillTrue'
  <2> SUFFICES ASSUME ~mixed, NEW q \in Procs PROVE SeesTruth(q)'
    BY <1>12 DEF Copy
  <2>1. fs[Backup] = None /\ fs[Source(p)] \in Whole /\ fs[Source(p)].seed = run[p].seed /\ Source(p) # Backup
    BY <1>12 DEF Copy
  <2>2. fs' = [fs EXCEPT ![Backup] = fs[Source(p)]]
    BY <1>12 DEF Copy, Copied
  <2>3. CASE q # p
    <3>1. Free(q)
      BY <1>12, <2>3 DEF Copy
    <3>2. run'[q] = run[q]
      BY <1>12, <2>3 DEF Copy
    <3> QED
      BY <3>1, <3>2
  <2>4. CASE q = p /\ run[p].cmd = "reset"
    BY <1>12, <2>1, <2>2, <2>4 DEF Copy
  <2>5. CASE q = p /\ run[p].cmd # "reset"
    BY <1>12, <2>5 DEF Copy
  <2> QED
    BY <2>3, <2>4, <2>5
<1>13. ASSUME NEW p \in Procs, Unlink(p) PROVE StillTrue'
  BY SMTT(20), <1>13 DEF Unlink
<1>14. ASSUME NEW p \in Procs, Move(p) PROVE StillTrue'
  BY <1>14 DEF Move
<1>15. ASSUME NEW p \in Procs, Stop(p) PROVE StillTrue'
  BY <1>15 DEF Stop, HalfWritten, InPlace
<1>16. CASE UNCHANGED vars
  BY <1>16 DEF vars
<1> HIDE DEF IInv, TypeOK, DataOK, Process, Shape, Alone, StillTrue, SeesTruth, Opens, Names, Idle, Free, At, Go, End, Put, Rename, Source
<1> QED
  BY <1>1, <1>2, <1>3, <1>4, <1>5, <1>6, <1>7, <1>8, <1>9, <1>10, <1>11, <1>12,
     <1>13, <1>14, <1>15, <1>16
     DEF Next, Starts, Works

LEMMA WholeStep == IInv /\ [Next]_vars => WholeOrAbsent'
<1> SUFFICES ASSUME IInv, [Next]_vars PROVE WholeOrAbsent'
  OBVIOUS
<1> USE FileAssumption, PathsDiffer, Contents DEF IInv, TypeOK, DataOK, Process, Shape, WholeOrAbsent, Names, Idle, Free, At, Go, End, Put, Rename, Source
<1>1. CASE PowerCut
  BY <1>1 DEF PowerCut
<1>2. CASE FlushDisk
  BY <1>2 DEF FlushDisk
<1>3. ASSUME NEW p \in Procs, Keytool(p) PROVE WholeOrAbsent'
  BY <1>3 DEF Keytool, Start
<1>4. ASSUME NEW p \in Procs, NEW n \in Names, Create(p, n) PROVE WholeOrAbsent'
  BY <1>4 DEF Create, Start
<1>5. ASSUME NEW p \in Procs, NEW n \in Names, NEW c \in {"encrypt", "backup", "reset"}, Open(p, c, n) PROVE WholeOrAbsent'
  BY <1>5 DEF Open, Start
<1>6. ASSUME NEW p \in Procs, Sniff(p) PROVE WholeOrAbsent'
  BY <1>6 DEF Sniff, Target
<1>7. ASSUME NEW p \in Procs, Look(p) PROVE WholeOrAbsent'
  BY <1>7 DEF Look, NextStep
<1>8. ASSUME NEW p \in Procs, Publish(p) PROVE WholeOrAbsent'
  <2>1. fs' = [fs EXCEPT ![run[p].dest] = [kind |-> "mmm", seed |-> run[p].seed]]
    BY <1>8 DEF Publish
  <2>2. run[p].seed \in Seeds /\ run[p].dest \in Paths
    OBVIOUS
  <2>3. [kind |-> "mmm", seed |-> run[p].seed] # Cut("write_seed")
    BY <2>2
  <2> QED
    BY <1>8, <2>1, <2>2, <2>3 DEF Publish
<1>9. ASSUME NEW p \in Procs, Truncate(p) PROVE WholeOrAbsent'
  <2>1. fs' = [fs EXCEPT ![run[p].dest] = [kind |-> "plain", seed |-> run[p].seed]]
    BY <1>9 DEF Truncate
  <2>2. run[p].seed \in Seeds /\ run[p].dest \in Paths
    OBVIOUS
  <2>3. [kind |-> "plain", seed |-> run[p].seed] # Cut("write_seed")
    BY <2>2
  <2> QED
    BY <1>9, <2>1, <2>2, <2>3 DEF Truncate
<1>10. ASSUME NEW p \in Procs, Replace(p) PROVE WholeOrAbsent'
  BY <1>10 DEF Replace
<1>11. ASSUME NEW p \in Procs, Retire(p) PROVE WholeOrAbsent'
  BY <1>11 DEF Retire
<1>12. ASSUME NEW p \in Procs, Copy(p) PROVE WholeOrAbsent'
  BY <1>12 DEF Copy, Copied
<1>13. ASSUME NEW p \in Procs, Unlink(p) PROVE WholeOrAbsent'
  BY <1>13 DEF Unlink
<1>14. ASSUME NEW p \in Procs, Move(p) PROVE WholeOrAbsent'
  BY <1>14 DEF Move
<1>15. ASSUME NEW p \in Procs, Stop(p) PROVE WholeOrAbsent'
  BY <1>15 DEF Stop, HalfWritten, InPlace
<1>16. CASE UNCHANGED vars
  BY <1>16 DEF vars
<1> QED
  BY <1>1, <1>2, <1>3, <1>4, <1>5, <1>6, <1>7, <1>8, <1>9, <1>10, <1>11, <1>12,
     <1>13, <1>14, <1>15, <1>16
     DEF Next, Starts, Works

\* Writing where no wallet is loses none; renaming carries it along.
LEMMA PutKeeps ==
  ASSUME DataOK, NEW q \in Paths, NEW x, fs' = [fs EXCEPT ![q] = x], fs[q] \notin Whole,
         NEW s, Kept(s)
  PROVE  Kept(s)'
BY DEF DataOK, Kept, Opens

LEMMA RenameKeeps ==
  ASSUME DataOK, NEW from \in Paths, NEW to \in Paths \ {Rekey(n) : n \in Names}, Rename(from, to),
         from # to, fs[from] \in Whole,
         fs[to] \in Whole => fs[to].seed = fs[from].seed,
         NEW s, Kept(s)
  PROVE  Kept(s)'
<1>1. PICK q \in Paths \ {Rekey(n) : n \in Names} : Opens(fs[q], s)
  BY DEF Kept
<1>2. fs'[to] = fs[from] /\ \A k \in Paths \ {from, to} : fs'[k] = fs[k]
  BY DEF DataOK, Rename
<1>3. CASE q \in {from, to}
  BY <1>1, <1>2, <1>3 DEF Kept, Opens
<1>4. CASE q \notin {from, to}
  BY <1>1, <1>2, <1>4 DEF Kept
<1> QED
  BY <1>3, <1>4

LEMMA SeedsStep == IInv /\ [Next]_vars => SeedsKept'
<1> SUFFICES ASSUME IInv, [Next]_vars, ~mixed', ~cut', NEW s \in told' PROVE Kept(s)'
  BY DEF SeedsKept
<1> USE PathsDiffer, Contents DEF IInv, TypeOK
<1>0. ~mixed /\ ~cut
  BY ZenonT(40) DEF Next, Starts, Works, PowerCut, FlushDisk, Keytool, Create, Open, Start, Sniff, Look, Publish,
     Truncate, Replace, Retire, Copy, Unlink, Move, Stop, FlagsOK, vars
<1>0a. \A k \in told : Kept(k)
  BY <1>0 DEF SeedsKept
<1>0b. \A p \in Procs : SeesTruth(p)
  BY <1>0 DEF StillTrue
<1>0c. \A p \in Procs : run[p] \in Process /\ run[p].name \in Names /\ run[p].seed \in Seeds /\ run[p].dest \in Paths /\ Source(p) \in Paths
  BY DEF DataOK, Process, Source
<1>0d. \A n \in Names : Wallet(n) \in Paths \ {Rekey(k) : k \in Names} /\ Moved(n) \in Paths \ {Rekey(k) : k \in Names}
  BY DEF Names
<1>0e. Backup \in Paths \ {Rekey(k) : k \in Names}
  OBVIOUS
<1>1. CASE PowerCut
  BY <1>1 DEF PowerCut
<1>2. CASE told' = told /\ fs' = fs
  BY <1>0a, <1>2 DEF Kept
<1>3. ASSUME NEW p \in Procs, Publish(p) PROVE Kept(s)'
  <2>1. fs' = [fs EXCEPT ![run[p].dest] = [kind |-> "mmm", seed |-> run[p].seed]] /\ fs[run[p].dest] \notin Whole
    BY <1>3 DEF Publish, Publishes, Put
  <2>2. CASE s \in told
    BY <1>0a, <1>0c, <2>1, <2>2, PutKeeps
  <2>3. CASE s \notin told
    <3>1. run[p].cmd = "create" /\ s = run[p].seed
      BY <1>3, <2>3 DEF Publish
    <3>2. run[p].dest = Wallet(run[p].name)
      BY <1>3, <3>1 DEF Publish, Shape, Free, At, Source
    <3>3. Opens(fs'[Wallet(run[p].name)], s)
      BY <1>0c, <2>1, <3>1, <3>2 DEF Opens, DataOK
    <3> QED
      BY <1>0c, <1>0d, <3>3 DEF Kept
  <2> QED
    BY <2>2, <2>3
<1>4. ASSUME NEW p \in Procs, Truncate(p) PROVE Kept(s)'
  <2>1. fs' = [fs EXCEPT ![run[p].dest] = [kind |-> "plain", seed |-> run[p].seed]] /\ fs[run[p].dest] \notin Whole
    BY <1>0b, <1>4 DEF Truncate, Put, SeesTruth
  <2>2. CASE s \in told
    BY <1>0a, <1>0c, <2>1, <2>2, PutKeeps
  <2>3. CASE s \notin told
    <3>1. s = run[p].seed
      BY <1>4, <2>3 DEF Truncate
    <3>2. run[p].dest = Wallet(run[p].name)
      BY <1>4 DEF Truncate, Shape, Free, At, Source
    <3>3. Opens(fs'[Wallet(run[p].name)], s)
      BY <1>0c, <2>1, <3>1, <3>2 DEF Opens, DataOK
    <3> QED
      BY <1>0c, <1>0d, <3>3 DEF Kept
  <2> QED
    BY <2>2, <2>3
<1>5. ASSUME NEW p \in Procs, Replace(p) PROVE Kept(s)'
  <2>1. run[p].dest = Rekey(run[p].name) /\ Opens(fs[Source(p)], run[p].seed)
        /\ fs[run[p].dest] = [kind |-> "mmm", seed |-> run[p].seed]
    BY <1>0b, <1>5 DEF Replace, Shape, SeesTruth, At, Free
  <2>2. fs[run[p].dest] \in Whole /\ fs[run[p].dest].seed = fs[Source(p)].seed
    <3>1. [kind |-> "mmm", seed |-> run[p].seed] \in Whole
      BY <1>0c
    <3>2. fs[run[p].dest].seed = run[p].seed /\ fs[Source(p)].seed = run[p].seed
      BY <2>1 DEF Opens
    <3> QED
      BY <2>1, <3>1, <3>2
  <2>3. run[p].dest # Source(p) /\ Source(p) \in Paths \ {Rekey(k) : k \in Names}
    BY <1>0c, <1>0d, <2>1 DEF Source
  <2>4. Rename(run[p].dest, Source(p)) /\ Kept(s)
    BY <1>0a, <1>5 DEF Replace
  <2> QED
    BY <1>0c, <2>2, <2>3, <2>4, RenameKeeps
<1>6. ASSUME NEW p \in Procs, Retire(p) PROVE Kept(s)'
  <2>1. fs[Source(p)] \in Whole /\ fs[Moved(run[p].name)] \notin Whole
    BY <1>0b, <1>6 DEF Retire, Shape, SeesTruth, At, Free, Opens
  <2>2. Moved(run[p].name) # Source(p) /\ Moved(run[p].name) \in Paths \ {Rekey(k) : k \in Names}
    BY <1>0c, <1>0d DEF Source
  <2>3. Rename(Source(p), Moved(run[p].name)) /\ Kept(s)
    BY <1>0a, <1>6 DEF Retire
  <2> QED
    BY <1>0c, <2>1, <2>2, <2>3, RenameKeeps
<1>7. ASSUME NEW p \in Procs, Copy(p) PROVE Kept(s)'
  <2>1. fs' = [fs EXCEPT ![Backup] = Copied(p)] /\ fs[Backup] \notin Whole /\ s \in told
    BY <1>0b, <1>7 DEF Copy, Put, SeesTruth
  <2> QED
    BY <1>0a, <1>0e, <2>1, PutKeeps
<1>8. ASSUME NEW p \in Procs, Unlink(p) PROVE Kept(s)'
  <2>1. Opens(fs[Source(p)], run[p].seed) /\ Opens(fs[Backup], run[p].seed)
    BY <1>0b, <1>8 DEF Unlink, Shape, SeesTruth, At, Free
  <2>2. fs' = [fs EXCEPT ![Source(p)] = None] /\ Source(p) # Backup /\ s \in told
    BY <1>0c, <1>8 DEF Unlink, Put, Source
  <2>3. PICK q \in Paths \ {Rekey(n) : n \in Names} : Opens(fs[q], s)
    BY <1>0a, <2>2 DEF Kept
  <2>4. CASE q = Source(p)
    BY <1>0e, <2>1, <2>2, <2>3, <2>4 DEF Kept, Opens, DataOK
  <2>5. CASE q # Source(p)
    BY <2>2, <2>3, <2>5 DEF Kept, DataOK
  <2> QED
    BY <2>4, <2>5
<1>9. ASSUME NEW p \in Procs, Move(p) PROVE Kept(s)'
  <2>1. fs[Source(p)] \in Whole /\ fs[Backup] \notin Whole
    BY <1>0b, <1>9 DEF Move, Shape, SeesTruth, At, Free, Opens
  <2>2. Source(p) # Backup
    BY <1>0c DEF Source
  <2>3. Rename(Source(p), Backup) /\ Kept(s)
    BY <1>0a, <1>9 DEF Move
  <2> QED
    BY <1>0c, <1>0e, <2>1, <2>2, <2>3, RenameKeeps
<1>10. ASSUME NEW p \in Procs, Stop(p) PROVE Kept(s)'
  <2>1. PICK x \in HalfWritten(p) : fs' = [fs EXCEPT ![run[p].dest] = x]
    BY <1>10 DEF Stop, Put
  <2>2. s \in told
    BY <1>10 DEF Stop
  <2>3. x = fs[run[p].dest] \/ fs[run[p].dest] \notin Whole
    <3>1. CASE At(p, "publish")
      <4>1. x = fs[run[p].dest] \/ fs[run[p].dest] = None
        BY <2>1, <3>1 DEF HalfWritten, At
      <4> QED
        BY <4>1
    <3>2. CASE At(p, "truncate")
      BY <1>0b, <3>2 DEF SeesTruth
    <3>3. CASE At(p, "copy")
      <4>1. fs[Backup] \notin Whole
        BY <1>0b, <3>3 DEF SeesTruth
      <4>2. run[p].dest = Backup
        BY <3>3 DEF Shape, At, Free
      <4> QED
        BY <4>1, <4>2
    <3>4. CASE ~At(p, "publish") /\ ~At(p, "truncate") /\ ~At(p, "copy")
      BY <2>1, <3>4 DEF HalfWritten
    <3> QED
      BY <3>1, <3>2, <3>3, <3>4
  <2>4. CASE x = fs[run[p].dest]
    <3>1. fs' = fs
      BY <1>0c, <2>1, <2>4 DEF DataOK
    <3> QED
      BY <1>0a, <2>2, <3>1 DEF Kept
  <2> QED
    BY <1>0a, <1>0c, <2>1, <2>2, <2>3, <2>4, PutKeeps
<1>11. CASE FlushDisk \/ UNCHANGED vars
  BY <1>2, <1>11 DEF FlushDisk, vars
<1>12. ASSUME NEW p \in Procs, Starts(p) \/ Sniff(p) \/ Look(p) PROVE Kept(s)'
  BY <1>2, <1>12 DEF Starts, Keytool, Create, Open, Start, Sniff, Look
<1> QED
  BY <1>1, <1>3, <1>4, <1>5, <1>6, <1>7, <1>8, <1>9, <1>10, <1>11, <1>12 DEF Next, Works

LEMMA Initially == Init => IInv
<1> SUFFICES ASSUME Init PROVE IInv
  OBVIOUS
<1> USE FileAssumption, PathsDiffer, Contents DEF Init
<1>1. PICK x \in {None, [kind |-> "plain", seed |-> 1]} :
        /\ fs = [q \in Paths |-> IF q = Wallet("seed") THEN x ELSE None]
        /\ told = (IF x = None THEN {} ELSE {1})
  OBVIOUS
<1>2. x \in Content /\ x # Cut("write_seed") /\ (x # None => Opens(x, 1))
  <2>1. CASE x = None
    BY <2>1
  <2>2. CASE x = [kind |-> "plain", seed |-> 1]
    <3>1. 1 \in Seeds
      BY DEF Seeds
    <3>2. x \in Whole /\ x.seed = 1
      BY <2>2, <3>1
    <3>3. x # Cut("write_seed")
      BY <3>2
    <3> QED
      BY <3>2, <3>3 DEF Opens
  <2> QED
    BY <1>1, <2>1, <2>2
<1>3. drawn \in 0..MaxSeeds /\ told \subseteq Seeds
  <2>1. Cardinality(told) \in {0, 1}
    BY <1>1, FS_EmptySet, FS_Singleton
  <2> QED
    BY <1>1, <2>1 DEF Seeds
<1>4. run \in [Procs -> Process] /\ \A p \in Procs : run[p] = Idle /\ Free(p)
  <2>1. Idle \in Process /\ Idle.at = "idle"
    BY DEF Idle, Process, Commands, Names, Seeds, Stages
  <2> HIDE DEF Process
  <2> QED
    BY <2>1 DEF Free
<1>5. TypeOK
  <2>1. DataOK
    BY <1>1, <1>2, <1>3, <1>4 DEF DataOK
  <2>2. FlagsOK
    BY Zenon DEF FlagsOK
  <2> QED
    BY <2>1, <2>2 DEF TypeOK
<1>6. Shape /\ Alone /\ StillTrue
  BY <1>4 DEF Shape, Alone, StillTrue, SeesTruth, Free, At, Idle
<1>7. SeedsKept
  <2> SUFFICES ASSUME NEW s \in told PROVE Kept(s)
    BY DEF SeedsKept
  <2>1. s = 1 /\ x # None
    BY <1>1
  <2>2. Wallet("seed") \in Paths \ {Rekey(n) : n \in Names}
    BY DEF Names
  <2> QED
    BY <1>1, <1>2, <2>1, <2>2 DEF Kept
<1>8. WholeOrAbsent
  BY <1>1, <1>2 DEF WholeOrAbsent
<1> QED
  BY <1>5, <1>6, <1>7, <1>8 DEF IInv

LEMMA Inductive == IInv /\ [Next]_vars => IInv'
BY FlagsStep, DataStep, ShapeStep, AloneStep, TrueStep, SeedsStep, WholeStep DEF IInv, TypeOK

LEMMA AlwaysIInv == Spec => []IInv
<1>1. Init => IInv
  BY Initially
<1>2. IInv /\ [Next]_vars => IInv'
  BY Inductive
<1> QED
  BY <1>1, <1>2, PTL DEF Spec

\* The types of the state variables, TypeOK, hold in every state (xcoin-wallet.cpp
\* and wallet_cli.py, the commands that write the wallet file).
THEOREM TypeCorrect == Spec => []TypeOK
<1>1. IInv => TypeOK
  BY DEF IInv
<1> QED
  BY <1>1, AlwaysIInv, PTL

\* Whatever stops when, a seed the user was told of stays in some file, as long as
\* only new and restore run at once and the power spares a fresh copy
\* (write_seed's link, encrypt's re-key, backup and reset).
THEOREM SeedsStay == Spec => []SeedsKept
<1>1. IInv => SeedsKept
  BY DEF IInv
<1> QED
  BY <1>1, AlwaysIInv, PTL

\* With hard links, a wallet that write_seed publishes is complete or absent.
THEOREM AppearsWhole == Spec => []WholeOrAbsent
<1>1. IInv => WholeOrAbsent
  BY DEF IInv
<1> QED
  BY <1>1, AlwaysIInv, PTL

\* A command that ends well left the seed where it says: new, restore and the
\* keytool in the wallet, encrypt in a wallet under a passphrase, backup in both
\* files, reset in the backup alone.
THEOREM CommandsDoTheirWork == Spec => DoneIsDone
<1>1. IInv /\ [Next]_vars /\ ~mixed => \A p \in Procs : Ends(p) =>
        CASE run[p].cmd \in {"create", "keytool"} -> Opens(fs'[Source(p)], run[p].seed)
          [] run[p].cmd = "encrypt" -> \E n \in Names : fs'[Wallet(n)] = [kind |-> "mmm", seed |-> run[p].seed]
          [] run[p].cmd = "backup"  -> Opens(fs'[Backup], run[p].seed) /\ Opens(fs'[Source(p)], run[p].seed)
          [] run[p].cmd = "reset"   -> Opens(fs'[Backup], run[p].seed) /\ fs'[Source(p)] = None
  <2> SUFFICES ASSUME IInv, [Next]_vars, ~mixed, NEW p \in Procs, Ends(p)
               PROVE  /\ run[p].cmd \in {"create", "keytool"} => Opens(fs'[Source(p)], run[p].seed)
                      /\ run[p].cmd = "encrypt" => \E n \in Names : fs'[Wallet(n)] = [kind |-> "mmm", seed |-> run[p].seed]
                      /\ run[p].cmd = "backup" => Opens(fs'[Backup], run[p].seed) /\ Opens(fs'[Source(p)], run[p].seed)
                      /\ run[p].cmd = "reset" => Opens(fs'[Backup], run[p].seed) /\ fs'[Source(p)] = None
                      /\ run[p].cmd \in Commands
    BY DEF Commands
  <2> USE PathsDiffer, Contents DEF IInv, TypeOK
  <2>1. run \in [Procs -> Process] /\ run[p].cmd \in Commands /\ run[p].name \in Names /\ run[p].seed \in Seeds
        /\ run[p].dest \in Paths
    BY DEF DataOK, Process
  <2>2. SeesTruth(p) /\ fs \in [Paths -> Content]
    BY DEF StillTrue, DataOK
  <2>3. \E q \in Procs : Publish(q) \/ Truncate(q) \/ Replace(q) \/ Retire(q) \/ Copy(q) \/ Unlink(q) \/ Move(q)
    <3>1. ASSUME NEW q \in Procs, Starts(q) PROVE FALSE
      BY <2>1, <3>1 DEF Starts, Keytool, Create, Open, Start, Ends, Free
    <3>2. ASSUME NEW q \in Procs, Sniff(q) \/ Look(q) PROVE FALSE
      <4>1. NextStep(q) # "done"
        BY DEF NextStep
      <4>2. run'[p].at # "done" \/ run'[p] = run[p]
        BY <2>1, <3>2, <4>1 DEF Sniff, Look, Go, Process
      <4> QED
        BY <4>2 DEF Ends, Free
    <3>3. ASSUME NEW q \in Procs, Stop(q) PROVE FALSE
      BY <2>1, <3>3 DEF Stop, End, Idle, Ends, Free
    <3>4. CASE PowerCut
      BY <3>4 DEF PowerCut, Idle, Ends
    <3>5. CASE FlushDisk \/ UNCHANGED vars
      BY <3>5 DEF FlushDisk, vars, Ends, Free
    <3> QED
      BY <3>1, <3>2, <3>3, <3>4, <3>5 DEF Next, Works
  <2>4. \A q \in Procs : Publish(q) \/ Truncate(q) \/ Replace(q) \/ Retire(q) \/ Copy(q) \/ Unlink(q) \/ Move(q) => q = p
    BY <2>1 DEF Publish, Truncate, Replace, Retire, Copy, Unlink, Move, Go, End, Ends, Free
  <2>5. CASE Publish(p)
    <3>1. run[p].cmd = "create"
      <4>1. AfterPublish(p) # "done"
        BY DEF AfterPublish
      <4> QED
        BY <2>1, <2>5, <4>1 DEF Publish, Go, Ends, Process
    <3>1a. run[p].dest = Wallet(run[p].name)
      BY <2>5, <3>1 DEF Publish, Shape, At, Free, Source
    <3>2. fs'[Wallet(run[p].name)] = [kind |-> "mmm", seed |-> run[p].seed]
      BY <2>1, <2>2, <2>5, <3>1a DEF Publish, Put
    <3>3. [kind |-> "mmm", seed |-> run[p].seed] \in Whole
      BY <2>1
    <3>4. Opens(fs'[Source(p)], run[p].seed)
      BY <3>2, <3>3 DEF Opens, Source
    <3> QED
      BY <2>1, <3>1, <3>4
  <2>6. CASE Truncate(p)
    <3>1. run[p].cmd = "keytool" /\ run[p].dest = Wallet(run[p].name)
      BY <2>6 DEF Truncate, Shape, At, Free, Source
    <3>2. fs'[Wallet(run[p].name)] = [kind |-> "plain", seed |-> run[p].seed]
      BY <2>1, <2>2, <2>6, <3>1 DEF Truncate, Put
    <3>3. [kind |-> "plain", seed |-> run[p].seed] \in Whole
      BY <2>1
    <3>4. Opens(fs'[Source(p)], run[p].seed)
      BY <3>2, <3>3 DEF Opens, Source
    <3> QED
      BY <2>1, <3>1, <3>4
  <2>7. CASE Replace(p)
    <3>1. run[p].cmd = "encrypt" /\ fs[run[p].dest] = [kind |-> "mmm", seed |-> run[p].seed]
          /\ run[p].dest = Rekey(run[p].name)
      BY <2>2, <2>7 DEF Replace, Shape, At, SeesTruth
    <3>2. fs'[Wallet(run[p].name)] = [kind |-> "mmm", seed |-> run[p].seed]
      BY <2>1, <2>2, <2>7, <3>1 DEF Replace, Rename, Source
    <3> QED
      BY <2>1, <3>1, <3>2
  <2>8. CASE Retire(p)
    <3>1. run[p].cmd = "encrypt" /\ fs[Wallet("mmm")] = [kind |-> "mmm", seed |-> run[p].seed]
          /\ Source(p) # Wallet("mmm")
      BY <2>2, <2>8 DEF Retire, Shape, At, SeesTruth
    <3>2. "mmm" \in Names /\ Moved(run[p].name) # Wallet("mmm")
      BY <2>1 DEF Names
    <3>3. fs'[Wallet("mmm")] = [kind |-> "mmm", seed |-> run[p].seed]
      BY <2>1, <2>2, <2>8, <3>1, <3>2 DEF Retire, Rename
    <3> QED
      BY <2>1, <3>1, <3>2, <3>3
  <2>9. CASE Copy(p)
    <3>1. run[p].cmd = "backup"
      <4>1. run[p].cmd # "reset"
        BY <2>1, <2>9 DEF Copy, Go, Ends, Process
      <4> QED
        BY <2>9, <4>1 DEF Copy, Shape, At
    <3>2. Opens(fs[Source(p)], run[p].seed) /\ Source(p) # Backup /\ fs' = [fs EXCEPT ![Backup] = fs[Source(p)]]
      BY <2>1, <2>2, <2>9, <3>1 DEF Copy, Copied, Put, At, Free, SeesTruth, Source
    <3>3. fs'[Backup] = fs[Source(p)] /\ fs'[Source(p)] = fs[Source(p)]
      BY <2>1, <2>2, <3>2 DEF Source
    <3> QED
      BY <3>1, <3>2, <3>3 DEF Commands
  <2>10. CASE Unlink(p)
    <3>1. run[p].cmd = "reset" /\ Opens(fs[Backup], run[p].seed) /\ Source(p) # Backup
      BY <2>1, <2>2, <2>10 DEF Unlink, Shape, At, SeesTruth, Source
    <3>2. fs'[Backup] = fs[Backup] /\ fs'[Source(p)] = None
      BY <2>1, <2>2, <2>10, <3>1 DEF Unlink, Put, Source
    <3> QED
      BY <3>1, <3>2 DEF Commands, Opens
  <2>11. CASE Move(p)
    <3>1. run[p].cmd = "reset" /\ Opens(fs[Source(p)], run[p].seed) /\ Source(p) # Backup
      BY <2>1, <2>2, <2>11 DEF Move, Shape, At, Free, SeesTruth, Source
    <3>2. fs'[Backup] = fs[Source(p)] /\ fs'[Source(p)] = None
      BY <2>1, <2>2, <2>11, <3>1 DEF Move, Rename, Source
    <3> QED
      BY <3>1, <3>2 DEF Commands, Opens
  <2> QED
    BY <2>3, <2>4, <2>5, <2>6, <2>7, <2>8, <2>9, <2>10, <2>11
<1> QED
  BY <1>1, AlwaysIInv, PTL DEF Spec, DoneIsDone

=============================================================================

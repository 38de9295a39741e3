------------------------ MODULE CardLifecycleProofs ------------------------
(***************************************************************************)
(* Proofs about the life of cards, for any number of cards and secrets:    *)
(* every safety invariant and action property the runs check.              *)
(***************************************************************************)
EXTENDS CardLifecycle, TLAPS

BeforeSave == {"write", "verify", "save"}
ReadDone   == {"rotate_write", "rotate_master", "check", "update", "wallet", "seal"}
Rotating   == {"rotate_read"} \cup ReadDone
Resetting  == {"wipe", "reset_read", "reset_write", "reset_master", "retire"}

\* The one-file store is always on the disk, without the file there is no record,
\* and no card of it is ever reset.
OneFileStore == oneFile =>
  /\ unsynced = {} /\ lost = {} /\ resetting = {}
  /\ wallet = 0 => \A c \in Cards : rec[c] = None

\* Which command is at which step, and what it holds in memory.
CommandState == Running =>
  /\ pc \notin {"idle", "done"}
  /\ pc \in {"file", "read", "tap", "begin", "pause"} \cup BeforeSave \cup Rotating => cmd \in {"new", "backup"}
  /\ pc \in {"file", "wallet"} => cmd = "new"
  /\ pc = "file" => oneFile
  /\ pc = "wallet" => ~oneFile
  /\ pc = "read" => cmd = "backup"
  /\ pc \in {"find"} \cup Resetting => cmd = "reset"
  /\ pc \in Resetting => ~oneFile
  /\ cmd \in {"new", "backup"} => gen \in Secrets
  /\ cmd = "new" => fam \in Secrets
  /\ cmd = "new" /\ oneFile => wallet = (IF pc = "file" THEN 0 ELSE fam)
  /\ cmd = "new" /\ ~oneFile => wallet = (IF pc = "seal" THEN fam ELSE 0)
  /\ cmd = "new" /\ oneFile /\ pc \in {"file", "tap", "begin", "pause"} \cup BeforeSave =>
       \A c \in Cards : rec[c] = None
  /\ cmd = "backup" => wallet \in Secrets /\ (pc # "read" => fam = wallet)

\* How far the card on the reader is: blank and without a record before its keys
\* are saved, covered by the saved record while they are rotated one by one, and
\* rolled back key by key by a reset.
HandState == Running =>
  /\ pc \in {"begin", "pause"} \cup BeforeSave => Blank(card[hand]) /\ rec[hand] = None
  /\ pc \in {"save"} \cup Rotating => card[hand].factor = fam
  /\ pc \in Rotating =>
       /\ Holds(hand) /\ rec[hand].gen = gen /\ rec[hand].family = fam /\ ~rec[hand].sealed
       /\ hand \notin resetting
       /\ pc \in {"wallet", "seal"} => rec[hand].provisioned
       /\ card[hand].read = (IF pc \in ReadDone THEN gen ELSE 0)
       /\ card[hand].write = (IF pc \in ReadDone \ {"rotate_write"} THEN gen ELSE 0)
       /\ card[hand].master = (IF pc \in ReadDone \ {"rotate_write", "rotate_master"} THEN gen ELSE 0)
  /\ pc \in Resetting => Holds(hand) /\ ~rec[hand].sealed
  /\ pc \in Resetting \ {"wipe"} => card[hand].factor = 0
  /\ pc \in Resetting \ {"wipe", "reset_read"} => card[hand].read = 0
  /\ pc \in {"reset_master", "retire"} => card[hand].write = 0
  /\ pc = "retire" => card[hand].master = 0

\* What a record says of its card, between commands too: a finished card answers
\* to it, a sealed one in all three keys and for a wallet that was written, and a
\* file the power took stays unreadable.
RecordsTrue ==
  /\ \A c \in Cards :
       /\ c \in lost => rec[c] = Torn /\ c \notin unsynced
       /\ c \in resetting => rec[c] # None
       /\ Holds(c) /\ rec[c].provisioned =>
            c \in resetting \/ (card[c].read = rec[c].gen /\ card[c].factor = rec[c].family)
       /\ Sealed(c) =>
            /\ rec[c].provisioned /\ c \notin resetting
            /\ card[c].master = rec[c].gen /\ card[c].write = rec[c].gen
            /\ wallet = rec[c].family \/ 0 \in lost
  /\ 0 \in lost => wallet = Foreign /\ 0 \notin unsynced

IInv == TypeOK /\ OneFileStore /\ CommandState /\ HandState /\ RecordsTrue /\ KeysNeverLost /\ DoneIsDone

\* The commit point: before it nothing is touched, behind it the run is shielded
\* and its parent has read the line or is gone, so no early cancel is on its way.
Shielding ==
  /\ cmd = "reset" => ~opt.auto
  /\ ~opt.events => parent = "gone" /\ cancel = "none"
  /\ Running /\ pc = "pause" => opt.events /\ begin # "unwritten"
  /\ Running /\ pc \in {"file", "read", "tap", "begin", "pause"} => ~touched
  /\ Running /\ Announces /\ pc \in BeforeSave \cup Rotating =>
       /\ shielded /\ cancel # "early"
       /\ opt.events => begin = "read" \/ (begin = "written" /\ parent = "gone")
  /\ touched /\ Announces /\ opt.events => begin # "unwritten"
  /\ outcome = "killed" /\ Announces => ~touched

\* OtherCardsSurvive, of one card.
Survives(c) ==
  /\ Foreign \in {card[c].master, card[c].read, card[c].write} => card'[c] = card[c]
  /\ Unlocks(c) /\ (cmd # "reset" \/ Sealed(c)) /\ lost' = lost => Unlocks(c)'

LEMMA NewRecordOK == ASSUME gen \in Secrets, fam \in Secrets PROVE NewRecord \in Record
BY DEF NewRecord, Record

LEMMA FinishedRecordOK ==
  ASSUME NEW r \in Record
  PROVE  /\ [r EXCEPT !.provisioned = TRUE] \in Record
         /\ [r EXCEPT !.sealed = TRUE] \in Record
BY DEF Record

LEMMA FlagsStep == IInv /\ [Next]_vars => FlagsOK'
<1> SUFFICES ASSUME IInv, [Next]_vars PROVE FlagsOK'
  OBVIOUS
<1> USE DEF IInv, TypeOK, FlagsOK, At, End, Running, files, memory, signals
<1>1. CASE StartNew
  BY <1>1, Zenon DEF StartNew, Start
<1>2. CASE StartBackup
  BY <1>2, Zenon DEF StartBackup, Start
<1>3. CASE StartReset
  BY <1>3, Zenon DEF StartReset, Start
<1>4. CASE CreateFile
  BY <1>4, Zenon DEF CreateFile
<1>5. CASE ProvisioningBegin
  BY <1>5, Zenon DEF ProvisioningBegin
<1>6. CASE PauseOver
  BY <1>6, Zenon DEF PauseOver, SetsAside, GraceOver
<1>7. ASSUME NEW c \in Cards, ReadCard(c) PROVE FlagsOK'
  BY <1>7, Zenon DEF ReadCard, Reads
<1>8. ASSUME NEW c \in Cards, Tap(c) PROVE FlagsOK'
  BY <1>8, Zenon DEF Tap, RequireBlank, Exists
<1>9. ASSUME NEW c \in Cards, FindCard(c) PROVE FlagsOK'
  BY <1>9, Zenon DEF FindCard, Resettable
<1>10. CASE WriteFactor
  BY <1>10, Zenon DEF WriteFactor, Provision, ProvisionOrder, Exchange, LeavesHalf, UnlinksFile, held
<1>11. CASE VerifyFactor
  BY <1>11, Zenon DEF VerifyFactor, Provision, ProvisionOrder, Exchange, LeavesHalf, UnlinksFile, held
<1>12. CASE SaveKeys
  BY <1>12, Zenon DEF SaveKeys, Store, NewRecord, ProvisionOrder
<1>13. CASE RotateRead
  BY <1>13, Zenon DEF RotateRead, Provision, ProvisionOrder, Exchange, LeavesHalf, UnlinksFile, held
<1>14. CASE RotateWrite
  BY <1>14, Zenon DEF RotateWrite, Provision, ProvisionOrder, Exchange, LeavesHalf, UnlinksFile, held
<1>15. CASE RotateMaster
  BY <1>15, Zenon DEF RotateMaster, Provision, ProvisionOrder, Exchange, LeavesHalf, UnlinksFile, held
<1>16. CASE CheckUnlock
  BY <1>16, Zenon DEF CheckUnlock, Provision, ProvisionOrder, Exchange, LeavesHalf, UnlinksFile, held
<1>17. CASE UpdateRecord
  BY <1>17, Zenon DEF UpdateRecord, Store
<1>18. CASE WriteWallet
  BY <1>18, Zenon DEF WriteWallet
<1>19. CASE Seal
  BY <1>19, Zenon DEF Seal, Store
<1>20. CASE LeaveResettable
  BY <1>20, Zenon DEF LeaveResettable
<1>21. CASE WipeFactor
  BY <1>21, Zenon DEF WipeFactor, Reset, ResetOrder, Exchange, LeavesHalf, UnlinksFile, held
<1>22. CASE ResetRead
  BY <1>22, Zenon DEF ResetRead, Reset, ResetOrder, Exchange, LeavesHalf, UnlinksFile, held
<1>23. CASE ResetWrite
  BY <1>23, Zenon DEF ResetWrite, Reset, ResetOrder, Exchange, LeavesHalf, UnlinksFile, held
<1>24. CASE ResetMaster
  BY <1>24, Zenon DEF ResetMaster, Reset, ResetOrder, Exchange, LeavesHalf, UnlinksFile, held
<1>25. CASE Retire
  BY <1>25, Zenon DEF Retire
<1>26. CASE Fail
  BY <1>26, Zenon DEF Fail, LeavesHalf, UnlinksFile
<1>27. CASE Crash
  BY <1>27, Zenon DEF Crash, Die, LeavesHalf
<1>28. CASE PowerCut
  BY <1>28, Zenon DEF PowerCut
<1>29. CASE FlushDisk
  BY <1>29, Zenon DEF FlushDisk
<1>30. CASE ParentReads
  BY <1>30, Zenon DEF ParentReads
<1>31. CASE ParentCancels
  BY <1>31, Zenon DEF ParentCancels
<1>32. CASE ParentDies
  BY <1>32, Zenon DEF ParentDies
<1>33. CASE CancelLands
  BY <1>33, Zenon DEF CancelLands, Die, LeavesHalf
<1>34. CASE UNCHANGED vars
  BY <1>34, Zenon DEF vars
<1> QED
  BY <1>1, <1>2, <1>3, <1>4, <1>5, <1>6, <1>7, <1>8, <1>9, <1>10, <1>11, <1>12,
     <1>13, <1>14, <1>15, <1>16, <1>17, <1>18, <1>19, <1>20, <1>21, <1>22, <1>23, <1>24,
     <1>25, <1>26, <1>27, <1>28, <1>29, <1>30, <1>31, <1>32, <1>33, <1>34
     DEF Next, Checks, Making, Wiping, Faults, Parent

LEMMA DataStep == IInv /\ [Next]_vars => DataOK'
<1> SUFFICES ASSUME IInv, [Next]_vars PROVE DataOK'
  OBVIOUS
<1> USE CardAssumption
  DEF IInv, TypeOK, DataOK, Steps, CommandState, BeforeSave, ReadDone, Rotating, Resetting, Card, Secrets, Keys, Foreign,
      At, End, Running, files, memory, signals
<1>1. CASE StartNew
  BY <1>1 DEF StartNew, Start
<1>2. CASE StartBackup
  BY <1>2 DEF StartBackup, Start
<1>3. CASE StartReset
  BY <1>3 DEF StartReset, Start
<1>4. CASE CreateFile
  BY <1>4 DEF CreateFile
<1>5. CASE ProvisioningBegin
  BY <1>5 DEF ProvisioningBegin
<1>6. CASE PauseOver
  BY <1>6 DEF PauseOver, SetsAside, GraceOver
<1>7. ASSUME NEW c \in Cards, ReadCard(c) PROVE DataOK'
  BY <1>7 DEF ReadCard, Reads
<1>8. ASSUME NEW c \in Cards, Tap(c) PROVE DataOK'
  BY <1>8 DEF Tap, RequireBlank, Exists
<1>9. ASSUME NEW c \in Cards, FindCard(c) PROVE DataOK'
  BY <1>9 DEF FindCard, Resettable
<1>10. CASE WriteFactor
  BY <1>10 DEF WriteFactor, Provision, ProvisionOrder, Exchange, LeavesHalf, UnlinksFile, held
<1>11. CASE VerifyFactor
  BY <1>11 DEF VerifyFactor, Provision, ProvisionOrder, Exchange, LeavesHalf, UnlinksFile, held
<1>12. CASE SaveKeys
  <2>1. gen \in Secrets /\ fam \in Secrets
    BY <1>12 DEF SaveKeys
  <2>2. NewRecord \in Record
    BY <2>1, NewRecordOK
  <2> QED
    BY <1>12, <2>2 DEF SaveKeys, Store, ProvisionOrder
<1>13. CASE RotateRead
  BY <1>13 DEF RotateRead, Provision, ProvisionOrder, Exchange, LeavesHalf, UnlinksFile, held
<1>14. CASE RotateWrite
  BY <1>14 DEF RotateWrite, Provision, ProvisionOrder, Exchange, LeavesHalf, UnlinksFile, held
<1>15. CASE RotateMaster
  BY <1>15 DEF RotateMaster, Provision, ProvisionOrder, Exchange, LeavesHalf, UnlinksFile, held
<1>16. CASE CheckUnlock
  BY <1>16 DEF CheckUnlock, Provision, ProvisionOrder, Exchange, LeavesHalf, UnlinksFile, held
<1>17. CASE UpdateRecord
  <2>1. rec[hand] \in Record
    BY <1>17 DEF UpdateRecord, HandState, Holds, None, Torn
  <2>2. [rec[hand] EXCEPT !.provisioned = TRUE] \in Record
    BY <2>1, FinishedRecordOK
  <2> QED
    BY <1>17, <2>2 DEF UpdateRecord, Store
<1>18. CASE WriteWallet
  BY <1>18 DEF WriteWallet
<1>19. CASE Seal
  <2>1. rec[hand] \in Record
    BY <1>19 DEF Seal, HandState, Holds, None, Torn
  <2>2. [rec[hand] EXCEPT !.sealed = TRUE] \in Record
    BY <2>1, FinishedRecordOK
  <2> QED
    BY <1>19, <2>2 DEF Seal, Store
<1>20. CASE LeaveResettable
  BY <1>20 DEF LeaveResettable
<1>21. CASE WipeFactor
  BY <1>21 DEF WipeFactor, Reset, ResetOrder, Exchange, LeavesHalf, UnlinksFile, held
<1>22. CASE ResetRead
  BY <1>22 DEF ResetRead, Reset, ResetOrder, Exchange, LeavesHalf, UnlinksFile, held
<1>23. CASE ResetWrite
  BY <1>23 DEF ResetWrite, Reset, ResetOrder, Exchange, LeavesHalf, UnlinksFile, held
<1>24. CASE ResetMaster
  BY <1>24 DEF ResetMaster, Reset, ResetOrder, Exchange, LeavesHalf, UnlinksFile, held
<1>25. CASE Retire
  BY <1>25 DEF Retire
<1>26. CASE Fail
  BY <1>26 DEF Fail, LeavesHalf, UnlinksFile
<1>27. CASE Crash
  BY <1>27 DEF Crash, Die, LeavesHalf
<1>28. CASE PowerCut
  BY <1>28 DEF PowerCut
<1>29. CASE FlushDisk
  BY <1>29 DEF FlushDisk
<1>30. CASE ParentReads
  BY <1>30 DEF ParentReads
<1>31. CASE ParentCancels
  BY <1>31 DEF ParentCancels
<1>32. CASE ParentDies
  BY <1>32 DEF ParentDies
<1>33. CASE CancelLands
  BY <1>33 DEF CancelLands, Die, LeavesHalf
<1>34. CASE UNCHANGED vars
  BY <1>34 DEF vars
<1> QED
  BY <1>1, <1>2, <1>3, <1>4, <1>5, <1>6, <1>7, <1>8, <1>9, <1>10, <1>11, <1>12,
     <1>13, <1>14, <1>15, <1>16, <1>17, <1>18, <1>19, <1>20, <1>21, <1>22, <1>23, <1>24,
     <1>25, <1>26, <1>27, <1>28, <1>29, <1>30, <1>31, <1>32, <1>33, <1>34
     DEF Next, Checks, Making, Wiping, Faults, Parent

LEMMA CommandStep == IInv /\ [Next]_vars => (OneFileStore /\ CommandState)'
<1> SUFFICES ASSUME IInv, [Next]_vars PROVE (OneFileStore /\ CommandState)'
  OBVIOUS
<1> USE CardAssumption
  DEF IInv, TypeOK, DataOK, OneFileStore, CommandState, HandState, Holds, BeforeSave, ReadDone, Rotating, Resetting,
      Blank, Record, None, Torn, Card, Secrets, Keys, Foreign, At, End, Running, files, memory, signals
<1>1. CASE StartNew
  BY <1>1 DEF StartNew, Start
<1>2. CASE StartBackup
  BY <1>2 DEF StartBackup, Start
<1>3. CASE StartReset
  BY <1>3 DEF StartReset, Start
<1>4. CASE CreateFile
  BY <1>4 DEF CreateFile
<1>5. CASE ProvisioningBegin
  BY <1>5 DEF ProvisioningBegin
<1>6. CASE PauseOver
  BY <1>6 DEF PauseOver, SetsAside, GraceOver
<1>7. ASSUME NEW c \in Cards, ReadCard(c) PROVE (OneFileStore /\ CommandState)'
  BY <1>7 DEF ReadCard, Reads
<1>8. ASSUME NEW c \in Cards, Tap(c) PROVE (OneFileStore /\ CommandState)'
  BY <1>8 DEF Tap, RequireBlank, Exists
<1>9. ASSUME NEW c \in Cards, FindCard(c) PROVE (OneFileStore /\ CommandState)'
  BY <1>9 DEF FindCard, Resettable
<1>10. CASE WriteFactor
  BY <1>10 DEF WriteFactor, Provision, ProvisionOrder, Exchange, LeavesHalf, UnlinksFile, held
<1>11. CASE VerifyFactor
  BY <1>11 DEF VerifyFactor, Provision, ProvisionOrder, Exchange, LeavesHalf, UnlinksFile, held
<1>12. CASE SaveKeys
  BY <1>12 DEF SaveKeys, Store, NewRecord, ProvisionOrder
<1>13. CASE RotateRead
  BY <1>13 DEF RotateRead, Provision, ProvisionOrder, Exchange, LeavesHalf, UnlinksFile, held
<1>14. CASE RotateWrite
  BY <1>14 DEF RotateWrite, Provision, ProvisionOrder, Exchange, LeavesHalf, UnlinksFile, held
<1>15. CASE RotateMaster
  BY <1>15 DEF RotateMaster, Provision, ProvisionOrder, Exchange, LeavesHalf, UnlinksFile, held
<1>16. CASE CheckUnlock
  BY <1>16 DEF CheckUnlock, Provision, ProvisionOrder, Exchange, LeavesHalf, UnlinksFile, held
<1>17. CASE UpdateRecord
  BY <1>17 DEF UpdateRecord, Store
<1>18. CASE WriteWallet
  BY <1>18 DEF WriteWallet
<1>19. CASE Seal
  BY <1>19 DEF Seal, Store
<1>20. CASE LeaveResettable
  BY <1>20 DEF LeaveResettable
<1>21. CASE WipeFactor
  BY <1>21 DEF WipeFactor, Reset, ResetOrder, Exchange, LeavesHalf, UnlinksFile, held
<1>22. CASE ResetRead
  BY <1>22 DEF ResetRead, Reset, ResetOrder, Exchange, LeavesHalf, UnlinksFile, held
<1>23. CASE ResetWrite
  BY <1>23 DEF ResetWrite, Reset, ResetOrder, Exchange, LeavesHalf, UnlinksFile, held
<1>24. CASE ResetMaster
  BY <1>24 DEF ResetMaster, Reset, ResetOrder, Exchange, LeavesHalf, UnlinksFile, held
<1>25. CASE Retire
  BY <1>25 DEF Retire
<1>26. CASE Fail
  BY <1>26 DEF Fail, LeavesHalf, UnlinksFile
<1>27. CASE Crash
  BY <1>27 DEF Crash, Die, LeavesHalf
<1>28. CASE PowerCut
  BY <1>28 DEF PowerCut
<1>29. CASE FlushDisk
  BY <1>29 DEF FlushDisk
<1>30. CASE ParentReads
  BY <1>30 DEF ParentReads
<1>31. CASE ParentCancels
  BY <1>31 DEF ParentCancels
<1>32. CASE ParentDies
  BY <1>32 DEF ParentDies
<1>33. CASE CancelLands
  BY <1>33 DEF CancelLands, Die, LeavesHalf
<1>34. CASE UNCHANGED vars
  BY <1>34 DEF vars
<1> QED
  BY <1>1, <1>2, <1>3, <1>4, <1>5, <1>6, <1>7, <1>8, <1>9, <1>10, <1>11, <1>12,
     <1>13, <1>14, <1>15, <1>16, <1>17, <1>18, <1>19, <1>20, <1>21, <1>22, <1>23, <1>24,
     <1>25, <1>26, <1>27, <1>28, <1>29, <1>30, <1>31, <1>32, <1>33, <1>34
     DEF Next, Checks, Making, Wiping, Faults, Parent

LEMMA HandStep == IInv /\ [Next]_vars => HandState'
<1> SUFFICES ASSUME IInv, [Next]_vars PROVE HandState'
  OBVIOUS
<1> USE CardAssumption
  DEF IInv, TypeOK, DataOK, OneFileStore, CommandState, HandState, RecordsTrue, BeforeSave, ReadDone, Rotating, Resetting,
      Holds, Blank, Record, None, Torn, Card, Secrets, Keys, Foreign, At, End, Running, files, memory, signals
<1>1. CASE StartNew
  BY <1>1 DEF StartNew, Start
<1>2. CASE StartBackup
  BY <1>2 DEF StartBackup, Start
<1>3. CASE StartReset
  BY <1>3 DEF StartReset, Start
<1>4. CASE CreateFile
  BY <1>4 DEF CreateFile
<1>5. CASE ProvisioningBegin
  BY <1>5 DEF ProvisioningBegin
<1>6. CASE PauseOver
  BY <1>6 DEF PauseOver, SetsAside, GraceOver
<1>7. ASSUME NEW c \in Cards, ReadCard(c) PROVE HandState'
  BY <1>7 DEF ReadCard, Reads
<1>8. ASSUME NEW c \in Cards, Tap(c) PROVE HandState'
  BY <1>8 DEF Tap, RequireBlank, Exists
<1>9. ASSUME NEW c \in Cards, FindCard(c) PROVE HandState'
  BY <1>9 DEF FindCard, Resettable
<1>10. CASE WriteFactor
  BY <1>10 DEF WriteFactor, Provision, ProvisionOrder, Exchange, LeavesHalf, UnlinksFile, held
<1>11. CASE VerifyFactor
  BY <1>11 DEF VerifyFactor, Provision, ProvisionOrder, Exchange, LeavesHalf, UnlinksFile, held
<1>12. CASE SaveKeys
  BY <1>12 DEF SaveKeys, Store, NewRecord, ProvisionOrder
<1>13. CASE RotateRead
  BY <1>13 DEF RotateRead, Provision, ProvisionOrder, Exchange, LeavesHalf, UnlinksFile, held
<1>14. CASE RotateWrite
  BY <1>14 DEF RotateWrite, Provision, ProvisionOrder, Exchange, LeavesHalf, UnlinksFile, held
<1>15. CASE RotateMaster
  BY <1>15 DEF RotateMaster, Provision, ProvisionOrder, Exchange, LeavesHalf, UnlinksFile, held
<1>16. CASE CheckUnlock
  BY <1>16 DEF CheckUnlock, Provision, ProvisionOrder, Exchange, LeavesHalf, UnlinksFile, held
<1>17. CASE UpdateRecord
  BY <1>17 DEF UpdateRecord, Store
<1>18. CASE WriteWallet
  BY <1>18 DEF WriteWallet
<1>19. CASE Seal
  BY <1>19 DEF Seal, Store
<1>20. CASE LeaveResettable
  BY <1>20 DEF LeaveResettable
<1>21. CASE WipeFactor
  BY <1>21 DEF WipeFactor, Reset, ResetOrder, Exchange, LeavesHalf, UnlinksFile, held
<1>22. CASE ResetRead
  BY <1>22 DEF ResetRead, Reset, ResetOrder, Exchange, LeavesHalf, UnlinksFile, held
<1>23. CASE ResetWrite
  BY <1>23 DEF ResetWrite, Reset, ResetOrder, Exchange, LeavesHalf, UnlinksFile, held
<1>24. CASE ResetMaster
  BY <1>24 DEF ResetMaster, Reset, ResetOrder, Exchange, LeavesHalf, UnlinksFile, held
<1>25. CASE Retire
  BY <1>25 DEF Retire
<1>26. CASE Fail
  BY <1>26 DEF Fail, LeavesHalf, UnlinksFile
<1>27. CASE Crash
  BY <1>27 DEF Crash, Die, LeavesHalf
<1>28. CASE PowerCut
  BY <1>28 DEF PowerCut
<1>29. CASE FlushDisk
  BY <1>29 DEF FlushDisk
<1>30. CASE ParentReads
  BY <1>30 DEF ParentReads
<1>31. CASE ParentCancels
  BY <1>31 DEF ParentCancels
<1>32. CASE ParentDies
  BY <1>32 DEF ParentDies
<1>33. CASE CancelLands
  BY <1>33 DEF CancelLands, Die, LeavesHalf
<1>34. CASE UNCHANGED vars
  BY <1>34 DEF vars
<1> QED
  BY <1>1, <1>2, <1>3, <1>4, <1>5, <1>6, <1>7, <1>8, <1>9, <1>10, <1>11, <1>12,
     <1>13, <1>14, <1>15, <1>16, <1>17, <1>18, <1>19, <1>20, <1>21, <1>22, <1>23, <1>24,
     <1>25, <1>26, <1>27, <1>28, <1>29, <1>30, <1>31, <1>32, <1>33, <1>34
     DEF Next, Checks, Making, Wiping, Faults, Parent

LEMMA RecordsStep == IInv /\ [Next]_vars => RecordsTrue'
<1> SUFFICES ASSUME IInv, [Next]_vars PROVE RecordsTrue'
  OBVIOUS
<1> USE CardAssumption
  DEF IInv, TypeOK, DataOK, OneFileStore, CommandState, HandState, RecordsTrue, BeforeSave, ReadDone, Rotating, Resetting,
      Holds, Sealed, Blank, Record, None, Torn, Card, Secrets, Keys, Foreign, At, End, Running, files, memory, signals
<1>1. CASE StartNew
  BY <1>1 DEF StartNew, Start
<1>2. CASE StartBackup
  BY <1>2 DEF StartBackup, Start
<1>3. CASE StartReset
  BY <1>3 DEF StartReset, Start
<1>4. CASE CreateFile
  BY <1>4 DEF CreateFile
<1>5. CASE ProvisioningBegin
  BY <1>5 DEF ProvisioningBegin
<1>6. CASE PauseOver
  BY <1>6 DEF PauseOver, SetsAside, GraceOver
<1>7. ASSUME NEW c \in Cards, ReadCard(c) PROVE RecordsTrue'
  BY <1>7 DEF ReadCard, Reads
<1>8. ASSUME NEW c \in Cards, Tap(c) PROVE RecordsTrue'
  BY <1>8 DEF Tap, RequireBlank, Exists
<1>9. ASSUME NEW c \in Cards, FindCard(c) PROVE RecordsTrue'
  BY <1>9 DEF FindCard, Resettable
<1>10. CASE WriteFactor
  BY <1>10 DEF WriteFactor, Provision, ProvisionOrder, Exchange, LeavesHalf, UnlinksFile, held
<1>11. CASE VerifyFactor
  BY <1>11 DEF VerifyFactor, Provision, ProvisionOrder, Exchange, LeavesHalf, UnlinksFile, held
<1>12. CASE SaveKeys
  BY <1>12 DEF SaveKeys, Store, NewRecord, ProvisionOrder
<1>13. CASE RotateRead
  BY <1>13 DEF RotateRead, Provision, ProvisionOrder, Exchange, LeavesHalf, UnlinksFile, held
<1>14. CASE RotateWrite
  BY <1>14 DEF RotateWrite, Provision, ProvisionOrder, Exchange, LeavesHalf, UnlinksFile, held
<1>15. CASE RotateMaster
  BY <1>15 DEF RotateMaster, Provision, ProvisionOrder, Exchange, LeavesHalf, UnlinksFile, held
<1>16. CASE CheckUnlock
  BY <1>16 DEF CheckUnlock, Provision, ProvisionOrder, Exchange, LeavesHalf, UnlinksFile, held
<1>17. CASE UpdateRecord
  BY <1>17 DEF UpdateRecord, Store
<1>18. CASE WriteWallet
  BY <1>18 DEF WriteWallet
<1>19. CASE Seal
  BY <1>19 DEF Seal, Store
<1>20. CASE LeaveResettable
  BY <1>20 DEF LeaveResettable
<1>21. CASE WipeFactor
  BY <1>21 DEF WipeFactor, Reset, ResetOrder, Exchange, LeavesHalf, UnlinksFile, held
<1>22. CASE ResetRead
  BY <1>22 DEF ResetRead, Reset, ResetOrder, Exchange, LeavesHalf, UnlinksFile, held
<1>23. CASE ResetWrite
  BY <1>23 DEF ResetWrite, Reset, ResetOrder, Exchange, LeavesHalf, UnlinksFile, held
<1>24. CASE ResetMaster
  BY <1>24 DEF ResetMaster, Reset, ResetOrder, Exchange, LeavesHalf, UnlinksFile, held
<1>25. CASE Retire
  BY <1>25 DEF Retire
<1>26. CASE Fail
  BY <1>26 DEF Fail, LeavesHalf, UnlinksFile
<1>27. CASE Crash
  BY <1>27 DEF Crash, Die, LeavesHalf
<1>28. CASE PowerCut
  BY <1>28 DEF PowerCut
<1>29. CASE FlushDisk
  BY <1>29 DEF FlushDisk
<1>30. CASE ParentReads
  BY <1>30 DEF ParentReads
<1>31. CASE ParentCancels
  BY <1>31 DEF ParentCancels
<1>32. CASE ParentDies
  BY <1>32 DEF ParentDies
<1>33. CASE CancelLands
  BY <1>33 DEF CancelLands, Die, LeavesHalf
<1>34. CASE UNCHANGED vars
  BY <1>34 DEF vars
<1> QED
  BY <1>1, <1>2, <1>3, <1>4, <1>5, <1>6, <1>7, <1>8, <1>9, <1>10, <1>11, <1>12,
     <1>13, <1>14, <1>15, <1>16, <1>17, <1>18, <1>19, <1>20, <1>21, <1>22, <1>23, <1>24,
     <1>25, <1>26, <1>27, <1>28, <1>29, <1>30, <1>31, <1>32, <1>33, <1>34
     DEF Next, Checks, Making, Wiping, Faults, Parent

LEMMA KeysStep == IInv /\ [Next]_vars => KeysNeverLost'
<1> SUFFICES ASSUME IInv, [Next]_vars PROVE KeysNeverLost'
  OBVIOUS
<1> USE CardAssumption
  DEF IInv, TypeOK, DataOK, OneFileStore, CommandState, HandState, KeysNeverLost, OffFactory, BeforeSave, ReadDone, Rotating, Resetting,
      Holds, Blank, Record, None, Torn, Card, Secrets, Keys, Foreign, At, End, Running, files, memory, signals
<1>1. CASE StartNew
  BY <1>1 DEF StartNew, Start
<1>2. CASE StartBackup
  BY <1>2 DEF StartBackup, Start
<1>3. CASE StartReset
  BY <1>3 DEF StartReset, Start
<1>4. CASE CreateFile
  BY <1>4 DEF CreateFile
<1>5. CASE ProvisioningBegin
  BY <1>5 DEF ProvisioningBegin
<1>6. CASE PauseOver
  BY <1>6 DEF PauseOver, SetsAside, GraceOver
<1>7. ASSUME NEW c \in Cards, ReadCard(c) PROVE KeysNeverLost'
  BY <1>7 DEF ReadCard, Reads
<1>8. ASSUME NEW c \in Cards, Tap(c) PROVE KeysNeverLost'
  BY <1>8 DEF Tap, RequireBlank, Exists
<1>9. ASSUME NEW c \in Cards, FindCard(c) PROVE KeysNeverLost'
  BY <1>9 DEF FindCard, Resettable
<1>10. CASE WriteFactor
  BY <1>10 DEF WriteFactor, Provision, ProvisionOrder, Exchange, LeavesHalf, UnlinksFile, held
<1>11. CASE VerifyFactor
  BY <1>11 DEF VerifyFactor, Provision, ProvisionOrder, Exchange, LeavesHalf, UnlinksFile, held
<1>12. CASE SaveKeys
  BY <1>12 DEF SaveKeys, Store, NewRecord, ProvisionOrder
<1>13. CASE RotateRead
  BY <1>13 DEF RotateRead, Provision, ProvisionOrder, Exchange, LeavesHalf, UnlinksFile, held
<1>14. CASE RotateWrite
  BY <1>14 DEF RotateWrite, Provision, ProvisionOrder, Exchange, LeavesHalf, UnlinksFile, held
<1>15. CASE RotateMaster
  BY <1>15 DEF RotateMaster, Provision, ProvisionOrder, Exchange, LeavesHalf, UnlinksFile, held
<1>16. CASE CheckUnlock
  BY <1>16 DEF CheckUnlock, Provision, ProvisionOrder, Exchange, LeavesHalf, UnlinksFile, held
<1>17. CASE UpdateRecord
  BY <1>17 DEF UpdateRecord, Store
<1>18. CASE WriteWallet
  BY <1>18 DEF WriteWallet
<1>19. CASE Seal
  BY <1>19 DEF Seal, Store
<1>20. CASE LeaveResettable
  BY <1>20 DEF LeaveResettable
<1>21. CASE WipeFactor
  BY <1>21 DEF WipeFactor, Reset, ResetOrder, Exchange, LeavesHalf, UnlinksFile, held
<1>22. CASE ResetRead
  BY <1>22 DEF ResetRead, Reset, ResetOrder, Exchange, LeavesHalf, UnlinksFile, held
<1>23. CASE ResetWrite
  BY <1>23 DEF ResetWrite, Reset, ResetOrder, Exchange, LeavesHalf, UnlinksFile, held
<1>24. CASE ResetMaster
  BY <1>24 DEF ResetMaster, Reset, ResetOrder, Exchange, LeavesHalf, UnlinksFile, held
<1>25. CASE Retire
  BY <1>25 DEF Retire
<1>26. CASE Fail
  BY <1>26 DEF Fail, LeavesHalf, UnlinksFile
<1>27. CASE Crash
  BY <1>27 DEF Crash, Die, LeavesHalf
<1>28. CASE PowerCut
  BY <1>28 DEF PowerCut
<1>29. CASE FlushDisk
  BY <1>29 DEF FlushDisk
<1>30. CASE ParentReads
  BY <1>30 DEF ParentReads
<1>31. CASE ParentCancels
  BY <1>31 DEF ParentCancels
<1>32. CASE ParentDies
  BY <1>32 DEF ParentDies
<1>33. CASE CancelLands
  BY <1>33 DEF CancelLands, Die, LeavesHalf
<1>34. CASE UNCHANGED vars
  BY <1>34 DEF vars
<1> QED
  BY <1>1, <1>2, <1>3, <1>4, <1>5, <1>6, <1>7, <1>8, <1>9, <1>10, <1>11, <1>12,
     <1>13, <1>14, <1>15, <1>16, <1>17, <1>18, <1>19, <1>20, <1>21, <1>22, <1>23, <1>24,
     <1>25, <1>26, <1>27, <1>28, <1>29, <1>30, <1>31, <1>32, <1>33, <1>34
     DEF Next, Checks, Making, Wiping, Faults, Parent

LEMMA DoneStep == IInv /\ [Next]_vars => DoneIsDone'
<1> SUFFICES ASSUME IInv, [Next]_vars PROVE DoneIsDone'
  OBVIOUS
<1> USE CardAssumption
  DEF IInv, TypeOK, DataOK, OneFileStore, CommandState, HandState, DoneIsDone, BeforeSave, ReadDone, Rotating, Resetting, Unlocks, Counted, Exists,
      Sealed, Reads, held, Holds, Blank, Record, None, Torn, Card, Secrets, Keys, Foreign, At, End, Running, files, memory, signals
<1>1. CASE StartNew
  BY <1>1 DEF StartNew, Start
<1>2. CASE StartBackup
  BY <1>2 DEF StartBackup, Start
<1>3. CASE StartReset
  BY <1>3 DEF StartReset, Start
<1>4. CASE CreateFile
  BY <1>4 DEF CreateFile
<1>5. CASE ProvisioningBegin
  BY <1>5 DEF ProvisioningBegin
<1>6. CASE PauseOver
  BY <1>6 DEF PauseOver, SetsAside, GraceOver
<1>7. ASSUME NEW c \in Cards, ReadCard(c) PROVE DoneIsDone'
  BY <1>7 DEF ReadCard, Reads
<1>8. ASSUME NEW c \in Cards, Tap(c) PROVE DoneIsDone'
  BY <1>8 DEF Tap, RequireBlank, Exists
<1>9. ASSUME NEW c \in Cards, FindCard(c) PROVE DoneIsDone'
  BY <1>9 DEF FindCard, Resettable
<1>10. CASE WriteFactor
  BY <1>10 DEF WriteFactor, Provision, ProvisionOrder, Exchange, LeavesHalf, UnlinksFile, held
<1>11. CASE VerifyFactor
  BY <1>11 DEF VerifyFactor, Provision, ProvisionOrder, Exchange, LeavesHalf, UnlinksFile, held
<1>12. CASE SaveKeys
  BY <1>12 DEF SaveKeys, Store, NewRecord, ProvisionOrder
<1>13. CASE RotateRead
  BY <1>13 DEF RotateRead, Provision, ProvisionOrder, Exchange, LeavesHalf, UnlinksFile, held
<1>14. CASE RotateWrite
  BY <1>14 DEF RotateWrite, Provision, ProvisionOrder, Exchange, LeavesHalf, UnlinksFile, held
<1>15. CASE RotateMaster
  BY <1>15 DEF RotateMaster, Provision, ProvisionOrder, Exchange, LeavesHalf, UnlinksFile, held
<1>16. CASE CheckUnlock
  BY <1>16 DEF CheckUnlock, Provision, ProvisionOrder, Exchange, LeavesHalf, UnlinksFile, held
<1>17. CASE UpdateRecord
  BY <1>17 DEF UpdateRecord, Store
<1>18. CASE WriteWallet
  BY <1>18 DEF WriteWallet
<1>19. CASE Seal
  BY <1>19 DEF Seal, Store
<1>20. CASE LeaveResettable
  BY <1>20 DEF LeaveResettable
<1>21. CASE WipeFactor
  BY <1>21 DEF WipeFactor, Reset, ResetOrder, Exchange, LeavesHalf, UnlinksFile, held
<1>22. CASE ResetRead
  BY <1>22 DEF ResetRead, Reset, ResetOrder, Exchange, LeavesHalf, UnlinksFile, held
<1>23. CASE ResetWrite
  BY <1>23 DEF ResetWrite, Reset, ResetOrder, Exchange, LeavesHalf, UnlinksFile, held
<1>24. CASE ResetMaster
  BY <1>24 DEF ResetMaster, Reset, ResetOrder, Exchange, LeavesHalf, UnlinksFile, held
<1>25. CASE Retire
  BY <1>25 DEF Retire
<1>26. CASE Fail
  BY <1>26 DEF Fail, LeavesHalf, UnlinksFile
<1>27. CASE Crash
  BY <1>27 DEF Crash, Die, LeavesHalf
<1>28. CASE PowerCut
  BY <1>28 DEF PowerCut
<1>29. CASE FlushDisk
  BY <1>29 DEF FlushDisk
<1>30. CASE ParentReads
  BY <1>30 DEF ParentReads
<1>31. CASE ParentCancels
  BY <1>31 DEF ParentCancels
<1>32. CASE ParentDies
  BY <1>32 DEF ParentDies
<1>33. CASE CancelLands
  BY <1>33 DEF CancelLands, Die, LeavesHalf
<1>34. CASE UNCHANGED vars
  BY <1>34 DEF vars
<1> QED
  BY <1>1, <1>2, <1>3, <1>4, <1>5, <1>6, <1>7, <1>8, <1>9, <1>10, <1>11, <1>12,
     <1>13, <1>14, <1>15, <1>16, <1>17, <1>18, <1>19, <1>20, <1>21, <1>22, <1>23, <1>24,
     <1>25, <1>26, <1>27, <1>28, <1>29, <1>30, <1>31, <1>32, <1>33, <1>34
     DEF Next, Checks, Making, Wiping, Faults, Parent

LEMMA ShieldStep == (IInv /\ Shielding) /\ [Next]_vars => Shielding'
<1> SUFFICES ASSUME (IInv /\ Shielding), [Next]_vars PROVE Shielding'
  OBVIOUS
<1> USE DEF IInv, TypeOK, DataOK, FlagsOK, Options, CommandState, Shielding, Announces, WriteRaises,
  BeforeSave, ReadDone, Rotating, Resetting, At, End, Running, files, memory, signals
<1>1. CASE StartNew
  BY <1>1 DEF StartNew, Start
<1>2. CASE StartBackup
  BY <1>2 DEF StartBackup, Start
<1>3. CASE StartReset
  BY <1>3 DEF StartReset, Start
<1>4. CASE CreateFile
  BY <1>4 DEF CreateFile
<1>5. CASE ProvisioningBegin
  <2>1. CASE opt.events
    BY <1>5, <2>1 DEF ProvisioningBegin
  <2>2. CASE ~opt.events
    BY <1>5, <2>2 DEF ProvisioningBegin
  <2> QED
    BY <2>1, <2>2
<1>6. CASE PauseOver
  <2>1. pc' = "write" /\ shielded' /\ cancel' # "early" /\ UNCHANGED <<cmd, opt, touched, outcome, signals>>
    BY <1>6 DEF PauseOver, SetsAside, GraceOver
  <2> QED
    BY <1>6, <2>1 DEF PauseOver, GraceOver
<1>7. ASSUME NEW c \in Cards, ReadCard(c) PROVE Shielding'
  BY <1>7 DEF ReadCard, Reads
<1>8. ASSUME NEW c \in Cards, Tap(c) PROVE Shielding'
  BY <1>8 DEF Tap, RequireBlank, Exists
<1>9. ASSUME NEW c \in Cards, FindCard(c) PROVE Shielding'
  BY <1>9 DEF FindCard, Resettable
<1>10. CASE WriteFactor
  BY <1>10 DEF WriteFactor, Provision, ProvisionOrder, Exchange, LeavesHalf, UnlinksFile, held
<1>11. CASE VerifyFactor
  BY <1>11 DEF VerifyFactor, Provision, ProvisionOrder, Exchange, LeavesHalf, UnlinksFile, held
<1>12. CASE SaveKeys
  BY <1>12 DEF SaveKeys, Store, NewRecord, ProvisionOrder
<1>13. CASE RotateRead
  BY <1>13 DEF RotateRead, Provision, ProvisionOrder, Exchange, LeavesHalf, UnlinksFile, held
<1>14. CASE RotateWrite
  BY <1>14 DEF RotateWrite, Provision, ProvisionOrder, Exchange, LeavesHalf, UnlinksFile, held
<1>15. CASE RotateMaster
  BY <1>15 DEF RotateMaster, Provision, ProvisionOrder, Exchange, LeavesHalf, UnlinksFile, held
<1>16. CASE CheckUnlock
  BY <1>16 DEF CheckUnlock, Provision, ProvisionOrder, Exchange, LeavesHalf, UnlinksFile, held
<1>17. CASE UpdateRecord
  BY <1>17 DEF UpdateRecord, Store
<1>18. CASE WriteWallet
  BY <1>18 DEF WriteWallet
<1>19. CASE Seal
  BY <1>19 DEF Seal, Store
<1>20. CASE LeaveResettable
  BY <1>20 DEF LeaveResettable
<1>21. CASE WipeFactor
  BY <1>21 DEF WipeFactor, Reset, ResetOrder, Exchange, LeavesHalf, UnlinksFile, held
<1>22. CASE ResetRead
  BY <1>22 DEF ResetRead, Reset, ResetOrder, Exchange, LeavesHalf, UnlinksFile, held
<1>23. CASE ResetWrite
  BY <1>23 DEF ResetWrite, Reset, ResetOrder, Exchange, LeavesHalf, UnlinksFile, held
<1>24. CASE ResetMaster
  BY <1>24 DEF ResetMaster, Reset, ResetOrder, Exchange, LeavesHalf, UnlinksFile, held
<1>25. CASE Retire
  BY <1>25 DEF Retire
<1>26. CASE Fail
  BY <1>26 DEF Fail, LeavesHalf, UnlinksFile
<1>27. CASE Crash
  BY <1>27 DEF Crash, Die, LeavesHalf
<1>28. CASE PowerCut
  BY <1>28 DEF PowerCut
<1>29. CASE FlushDisk
  BY <1>29 DEF FlushDisk
<1>30. CASE ParentReads
  BY <1>30 DEF ParentReads
<1>31. CASE ParentCancels
  BY <1>31 DEF ParentCancels
<1>32. CASE ParentDies
  BY <1>32 DEF ParentDies
<1>33. CASE CancelLands
  <2>1. CASE ~shielded /\ Die("killed")
    <3>1. Running /\ outcome' = "killed" /\ cancel' = "none" /\ UNCHANGED <<cmd, opt, touched, begin, parent>>
      BY <1>33, <2>1 DEF CancelLands, Die, LeavesHalf
    <3>2. Announces => ~touched
      <4>1. CASE cmd = "reset"
        BY <4>1 DEF Announces
      <4>2. CASE pc \in {"file", "read", "tap", "begin", "pause"}
        BY <3>1, <4>2
      <4>3. CASE pc \in BeforeSave \cup Rotating
        BY <2>1, <3>1, <4>3
      <4> QED
        BY <3>1, <4>1, <4>2, <4>3 DEF Steps
    <3> QED
      BY <3>1, <3>2
  <2>2. CASE ~(~shielded /\ Die("killed"))
    BY <1>33, <2>2 DEF CancelLands
  <2> QED
    BY <2>1, <2>2
<1>34. CASE UNCHANGED vars
  BY <1>34 DEF vars
<1> QED
  BY <1>1, <1>2, <1>3, <1>4, <1>5, <1>6, <1>7, <1>8, <1>9, <1>10, <1>11, <1>12,
     <1>13, <1>14, <1>15, <1>16, <1>17, <1>18, <1>19, <1>20, <1>21, <1>22, <1>23, <1>24,
     <1>25, <1>26, <1>27, <1>28, <1>29, <1>30, <1>31, <1>32, <1>33, <1>34
     DEF Next, Checks, Making, Wiping, Faults, Parent

LEMMA SurviveStep == IInv /\ [Next]_vars => (\A d \in Cards : Survives(d))
<1> SUFFICES ASSUME IInv, [Next]_vars PROVE (\A d \in Cards : Survives(d))
  OBVIOUS
<1> USE CardAssumption
  DEF IInv, TypeOK, DataOK, OneFileStore, CommandState, HandState, RecordsTrue, KeysNeverLost, OffFactory,
      Survives, Unlocks, Reads, Sealed, BeforeSave, ReadDone, Rotating, Resetting, Holds, Blank, Record, None, Torn, Card, Secrets, Keys, Foreign, At, End, Running, files, memory, signals
<1>1. CASE StartNew
  BY <1>1 DEF StartNew, Start
<1>2. CASE StartBackup
  BY <1>2 DEF StartBackup, Start
<1>3. CASE StartReset
  BY <1>3 DEF StartReset, Start
<1>4. CASE CreateFile
  BY <1>4 DEF CreateFile
<1>5. CASE ProvisioningBegin
  BY <1>5 DEF ProvisioningBegin
<1>6. CASE PauseOver
  BY <1>6 DEF PauseOver, SetsAside, GraceOver
<1>7. ASSUME NEW c \in Cards, ReadCard(c) PROVE (\A d \in Cards : Survives(d))
  BY <1>7 DEF ReadCard, Reads
<1>8. ASSUME NEW c \in Cards, Tap(c) PROVE (\A d \in Cards : Survives(d))
  BY <1>8 DEF Tap, RequireBlank, Exists
<1>9. ASSUME NEW c \in Cards, FindCard(c) PROVE (\A d \in Cards : Survives(d))
  BY <1>9 DEF FindCard, Resettable
<1>10. CASE WriteFactor
  BY <1>10 DEF WriteFactor, Provision, ProvisionOrder, Exchange, LeavesHalf, UnlinksFile, held
<1>11. CASE VerifyFactor
  BY <1>11 DEF VerifyFactor, Provision, ProvisionOrder, Exchange, LeavesHalf, UnlinksFile, held
<1>12. CASE SaveKeys
  BY <1>12 DEF SaveKeys, Store, NewRecord, ProvisionOrder
<1>13. CASE RotateRead
  BY <1>13 DEF RotateRead, Provision, ProvisionOrder, Exchange, LeavesHalf, UnlinksFile, held
<1>14. CASE RotateWrite
  BY <1>14 DEF RotateWrite, Provision, ProvisionOrder, Exchange, LeavesHalf, UnlinksFile, held
<1>15. CASE RotateMaster
  BY <1>15 DEF RotateMaster, Provision, ProvisionOrder, Exchange, LeavesHalf, UnlinksFile, held
<1>16. CASE CheckUnlock
  BY <1>16 DEF CheckUnlock, Provision, ProvisionOrder, Exchange, LeavesHalf, UnlinksFile, held
<1>17. CASE UpdateRecord
  BY <1>17 DEF UpdateRecord, Store
<1>18. CASE WriteWallet
  BY <1>18 DEF WriteWallet
<1>19. CASE Seal
  BY <1>19 DEF Seal, Store
<1>20. CASE LeaveResettable
  BY <1>20 DEF LeaveResettable
<1>21. CASE WipeFactor
  BY <1>21 DEF WipeFactor, Reset, ResetOrder, Exchange, LeavesHalf, UnlinksFile, held
<1>22. CASE ResetRead
  BY <1>22 DEF ResetRead, Reset, ResetOrder, Exchange, LeavesHalf, UnlinksFile, held
<1>23. CASE ResetWrite
  BY <1>23 DEF ResetWrite, Reset, ResetOrder, Exchange, LeavesHalf, UnlinksFile, held
<1>24. CASE ResetMaster
  BY <1>24 DEF ResetMaster, Reset, ResetOrder, Exchange, LeavesHalf, UnlinksFile, held
<1>25. CASE Retire
  BY <1>25 DEF Retire
<1>26. CASE Fail
  BY SMTT(20), <1>26 DEF Fail, LeavesHalf, UnlinksFile
<1>27. CASE Crash
  BY <1>27 DEF Crash, Die, LeavesHalf
<1>28. CASE PowerCut
  BY <1>28 DEF PowerCut
<1>29. CASE FlushDisk
  BY <1>29 DEF FlushDisk
<1>30. CASE ParentReads
  BY <1>30 DEF ParentReads
<1>31. CASE ParentCancels
  BY <1>31 DEF ParentCancels
<1>32. CASE ParentDies
  BY <1>32 DEF ParentDies
<1>33. CASE CancelLands
  BY SMTT(20), <1>33 DEF CancelLands, Die, LeavesHalf
<1>34. CASE UNCHANGED vars
  BY <1>34 DEF vars
<1> QED
  BY <1>1, <1>2, <1>3, <1>4, <1>5, <1>6, <1>7, <1>8, <1>9, <1>10, <1>11, <1>12,
     <1>13, <1>14, <1>15, <1>16, <1>17, <1>18, <1>19, <1>20, <1>21, <1>22, <1>23, <1>24,
     <1>25, <1>26, <1>27, <1>28, <1>29, <1>30, <1>31, <1>32, <1>33, <1>34
     DEF Next, Checks, Making, Wiping, Faults, Parent

LEMMA Initially == Init => IInv /\ Shielding
<1> SUFFICES ASSUME Init PROVE IInv /\ Shielding
  OBVIOUS
<1> USE CardAssumption DEF Init
<1>1. FlagsOK /\ Shielding
  BY Zenon DEF FlagsOK, Options, Shielding, Running
<1>2. DataOK
  BY DEF DataOK, Steps, Card, Keys, Secrets, Foreign
<1>3. OneFileStore /\ CommandState /\ HandState /\ DoneIsDone
  BY DEF OneFileStore, CommandState, HandState, DoneIsDone, Running
<1>4. RecordsTrue
  BY DEF RecordsTrue, Holds, Sealed, None
<1>5. KeysNeverLost
  <2> SUFFICES ASSUME NEW c \in Cards PROVE ~OffFactory(c)
    BY DEF KeysNeverLost
  <2>1. card[c] \in Starts
    OBVIOUS
  <2>2. {card[c].master, card[c].read, card[c].write} \subseteq {0, Foreign}
    BY <2>1
  <2> QED
    BY <2>2 DEF OffFactory, Foreign, Secrets
<1> QED
  BY <1>1, <1>2, <1>3, <1>4, <1>5 DEF IInv, TypeOK

LEMMA Inductive == Spec => [](IInv /\ Shielding)
<1>1. IInv /\ Shielding /\ [Next]_vars => (IInv /\ Shielding)'
  BY FlagsStep, DataStep, CommandStep, HandStep, RecordsStep, KeysStep, DoneStep, ShieldStep
     DEF IInv, TypeOK
<1> QED
  BY Initially, <1>1, PTL DEF Spec

\* Every variable keeps its type in every reachable state.
THEOREM TypeCorrect == Spec => []TypeOK
<1>1. IInv => TypeOK
  BY DEF IInv
<1> QED
  BY Inductive, <1>1, PTL

\* Whatever fails between two exchanges of provision_card or factory_reset_card, the
\* keys this Mac put on a card are in that card's record.
THEOREM NoKeyIsLost == Spec => []KeysNeverLost
<1>1. IInv => KeysNeverLost
  BY DEF IInv
<1> QED
  BY Inductive, <1>1, PTL

\* make_permanent drops keys only for a card that unlocks a wallet on the disk.
THEOREM SealingIsSafe == Spec => []SealedForAWallet
<1>1. IInv => SealedForAWallet
  BY DEF IInv, TypeOK, DataOK, RecordsTrue, SealedForAWallet, Sealed, Unlocks, Reads, Holds, Record, None, Torn
<1> QED
  BY Inductive, <1>1, PTL

\* A card that family_cards counts unlocks the wallet, a reset or a power failure apart.
THEOREM CountsAreTrue == Spec => []CountedCardsUnlock
<1>1. IInv => CountedCardsUnlock
  BY DEF IInv, TypeOK, DataOK, RecordsTrue, CountedCardsUnlock, Counted, Unlocks, Reads, Holds, Record, None, Torn
<1> QED
  BY Inductive, <1>1, PTL

\* A command that ends well has done all it says.
THEOREM DoneMeansDone == Spec => []DoneIsDone
<1>1. IInv => DoneIsDone
  BY DEF IInv
<1> QED
  BY Inductive, <1>1, PTL

\* SIGTERM finds every announced run untouched, or is ignored.
THEOREM CancelIsClean == Spec => []NoHalfCardOnCancel
<1>1. Shielding => NoHalfCardOnCancel
  BY DEF Shielding, NoHalfCardOnCancel
<1> QED
  BY Inductive, <1>1, PTL

\* No card is written before card-provisioning is written and the cancels sent
\* before it was read have landed.
THEOREM WriteIsHeard == Spec => []HeardBeforeWrite
<1>1. IInv /\ Shielding => HeardBeforeWrite
  <2> SUFFICES ASSUME IInv, Shielding, touched, Announces, cmd # "reset", opt.events
               PROVE  begin # "unwritten" /\ (Running => cancel # "early")
    BY DEF HeardBeforeWrite
  <2>1. Running => pc \in BeforeSave \cup Rotating
    BY DEF IInv, TypeOK, DataOK, Steps, CommandState, Shielding, BeforeSave, Rotating, ReadDone, Resetting
  <2> QED
    BY <2>1 DEF Shielding
<1> QED
  BY Inductive, <1>1, PTL

\* No step changes a card with a key of somebody else's, and none but a reset, or the
\* power, takes a card that unlocks the wallet away.
THEOREM CardsSurvive == Spec => OtherCardsSurvive
<1>1. IInv /\ [Next]_vars => [\A c \in Cards : Survives(c)]_vars
  BY SurviveStep
<1>2. [\A c \in Cards : Survives(c)]_vars =>
        [\A c \in Cards :
           /\ Foreign \in {card[c].master, card[c].read, card[c].write} => card'[c] = card[c]
           /\ Unlocks(c) /\ (cmd # "reset" \/ Sealed(c)) /\ lost' = lost => Unlocks(c)']_vars
  BY DEF Survives
<1> QED
  BY Inductive, <1>1, <1>2, PTL DEF Spec, OtherCardsSurvive


\* provisioning_begin is a commit point for every card, key store and order of signals.
THEOREM CommitsAreClean == Spec => []CommitIsClean
BY CancelIsClean, WriteIsHeard, PTL DEF CommitIsClean
=============================================================================

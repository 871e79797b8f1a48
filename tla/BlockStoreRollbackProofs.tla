----------------------- MODULE BlockStoreRollbackProofs ------------------------
(***************************************************************************)
(* What the block store keeps when the offline commands, which shorten it, *)
(* run as well, for any number of them and of crashes in between.          *)
(***************************************************************************)
EXTENDS BlockStoreProofs, BlockStoreRollback

\* ... and of the offline commands: a rollback acknowledges nothing behind its target, deletes what
\* the index says of later blocks, and then blockfilesInfo, before it touches a file; a reset
\* deletes the whole index first.  Before either touches a file, it has recorded a height no less
\* than the store's.
RollbackInv ==
  /\ target \in Nat /\ preResetHeight \in Nat
  /\ phase \in {"rollbackIndex", "rollbackFiles"} => Len(acked) <= target + 1 /\ target < Len(Stored(files))
  /\ phase = "rollbackFiles" => db = dbSynced /\ db.info = <<>> /\ db.savePoint <= target
  /\ phase \in {"resetHeight", "resetFiles"} =>
       Len(acked) <= 1 /\ db = dbSynced /\ db.info = <<>> /\ db.savePoint = -1
  /\ phase = "resetFiles" => files # <<>> /\ files[1].blocks # <<>>
  /\ phase \in {"rollbackIndex", "rollbackFiles", "resetFiles"} => preResetHeight >= Len(Stored(files))

-----------------------------------------------------------------------------
(* The steps of rollback and reset *)

\* The inductive invariant of the store and the commands.
RInv == IInv /\ RollbackInv

\* The store is closed while a command runs.
Commands == {"rollbackIndex", "rollbackFiles", "rollbackFailed", "resetHeight", "resetFiles", "resetFailed"}

\* Nothing is claimed of the manager then.
LEMMA Quiet ==
  ASSUME phase' \in Commands \union {"closed"}
  PROVE  OpeningInv' /\ ServingInv' /\ AddInv' /\ OpenSucceeds'
BY Zenon DEF Commands, OpeningInv, ServingInv, AddInv, OpenSucceeds, Serving, Unwritten, Written, Retrying

\* The height that is recorded is no less than that of the store.
LEMMA HeightIs ==
  ASSUME Induction, IInv
  PROVE  /\ Height \in Nat /\ Len(Stored(files)) <= Height
         /\ constructBlockfilesInfo.lastPersistedBlock \in Nat
         /\ files # <<>> /\ constructBlockfilesInfo.lastPersistedBlock > 0
              => Len(Stored(files)) = constructBlockfilesInfo.lastPersistedBlock + 1
<1> DEFINE T == Stored(files)
           n == Len(files)
<1>1. PICK i : i = constructBlockfilesInfo OBVIOUS
<1>2. files \in Files /\ n \in Nat /\ Len(T) \in Nat BY Facts, Zenon
<1>3. Covers(files, i, Len(T)) BY <1>1, ConstructIs, Zenon DEF IInv
<1>4. i \in InfoSet /\ Len(T) = IF i.noBlockFiles THEN 0 ELSE i.lastPersistedBlock + 1 BY <1>2, <1>3, CoversIs, Zenon
<1>5. i.lastPersistedBlock \in Nat /\ i.noBlockFiles \in BOOLEAN BY <1>4, Zenon DEF InfoSet
<1>6. ASSUME files # <<>>, i.noBlockFiles PROVE i.lastPersistedBlock = 0
  <2> DEFINE s == files[n].blocks
             scanned == IF s = <<>> /\ n > 1 THEN files[n - 1].blocks ELSE s
             last == IF scanned = <<>> THEN 0 ELSE scanned[Len(scanned)].number
  <2>1. n # 0 BY <1>2, <1>6, FileIs, EmptySeq, Zenon DEF Files
  <2>2. i = Info(n - 1, Bytes(s), n = 1 /\ s = <<>>, last) BY <1>1, <2>1, Zenon DEF constructBlockfilesInfo
  <2> HIDE DEF last, s, n
  <2>3. i.noBlockFiles = (n = 1 /\ s = <<>>) /\ i.lastPersistedBlock = last BY <2>2, Zenon DEF Info
  <2>4. n = 1 /\ s = <<>> BY <1>6, <2>3, Zenon
  <2>5. last = 0 BY <2>4 DEF last
  <2> QED BY <2>3, <2>5, Zenon
<1>7. Height = i.lastPersistedBlock + 1 BY <1>1, Zenon DEF Height
<1> HIDE DEF T
<1>8. Height \in Nat /\ Len(T) <= Height BY <1>4, <1>5, <1>7
<1>9. ASSUME files # <<>>, i.lastPersistedBlock > 0 PROVE Len(T) = i.lastPersistedBlock + 1
  BY <1>4, <1>5, <1>6, <1>9
<1> QED BY <1>1, <1>5, <1>8, <1>9, Zenon DEF T

\* recordHeightIfGreaterThanPreviousRecording records at least the height of the store.
LEMMA RecordIs ==
  ASSUME Induction, RInv, RecordHeight
  PROVE  preResetHeight' \in Nat /\ preResetHeight' >= Len(Stored(files)) /\ ~(preResetHeight' < preResetHeight)
<1> DEFINE a == Len(Stored(files))
           h == Height
<1>1. h \in Nat /\ a <= h /\ a \in Nat /\ preResetHeight \in Nat BY HeightIs, Facts, Zenon DEF RInv, RollbackInv
<1>2. preResetHeight' = IF h > preResetHeight THEN h ELSE preResetHeight BY Zenon DEF RecordHeight
<1> HIDE DEF a, h
<1>3. preResetHeight' \in Nat /\ preResetHeight' >= a /\ ~(preResetHeight' < preResetHeight) BY <1>1, <1>2
<1> QED BY <1>3, Zenon DEF a

\* A command starts, and all its steps but those on the files.
LEMMA CommandSteps ==
  ASSUME Induction
  PROVE  /\ RInv
         /\ \/ \E t \in Nat : StartRollback(t)
            \/ RollbackIndex \/ DeleteInfo \/ RollbackSearchFails
            \/ StartReset \/ ResetHeight \/ CommandReturns \/ ClearPreResetHeight
         => RInv' /\ LogStep
\* A step that only changes the phase to such a one.
<1>SameStep.
  ASSUME IInv, files' = files, db' = db, dbSynced' = dbSynced, mgr' = mgr, acked' = acked,
         phase' \in Commands \union {"closed"}
  PROVE  IInv' /\ LogStep
  <2> USE <1>SameStep
  <2>1. MgrInv' BY Zenon DEF IInv, MgrInv
  <2> QED BY <2>1, Quiet, FilesSame, DbSame, Facts DEF IInv
\* A command takes acknowledgements back.
<1>UnackIs.
  ASSUME IInv, NEW t \in Nat, files' = files,
         acked' = IF t + 1 < Len(acked) THEN SubSeq(acked, 1, t + 1) ELSE acked
  PROVE  FilesInv' /\ AckedInv' /\ LogStep /\ Len(acked') <= t + 1
  <2> USE <1>UnackIs
  <2> DEFINE T == Stored(files)
  <2>1. acked \in Seq(Block) /\ Len(acked) \in Nat /\ Len(acked) <= Len(T) /\ Len(T) \in Nat BY Facts, Zenon
  <2>2. FilesInv' BY Zenon DEF IInv, FilesInv
  <2>3. CASE t + 1 < Len(acked)
    <3>1. t + 1 \in 0 .. Len(acked) BY <2>1, <2>3
    <3>2. acked' = SubSeq(acked, 1, t + 1) BY <2>3, Zenon
    <3>3. acked' \in Seq(Block) /\ Len(acked') = t + 1 /\ \A k \in 1 .. t + 1 : acked'[k] = acked[k]
      BY <2>1, <3>1, <3>2, SeqIs
    <3>4. DOMAIN acked' = 1 .. t + 1 /\ Len(acked') \in 0 .. Len(acked) /\ Len(acked') <= Len(T)
      BY <2>1, <3>1, <3>3, SeqIs
    <3>5. ASSUME NEW k \in DOMAIN acked' PROVE acked'[k] = T[k]
      <4>1. k \in 1 .. t + 1 /\ k \in DOMAIN acked BY <2>1, <2>3, <3>4, SeqIs
      <4> QED BY <3>3, <4>1, Zenon DEF IInv, AckedInv
    <3>6. AckedInv' BY <3>3, <3>4, <3>5, Zenon DEF AckedInv
    <3>7. LogStep BY <3>4, Zenon DEF LogStep
    <3>8. Len(acked') <= t + 1 BY <3>3
    <3> QED BY <2>2, <3>6, <3>7, <3>8
  <2>4. CASE ~(t + 1 < Len(acked))
    <3>1. acked' = acked BY <2>4, Zenon
    <3>2. Len(acked) <= t + 1 BY <2>1, <2>4
    <3> QED BY <3>1, <3>2, FilesSame, Zenon
  <2> QED BY <2>3, <2>4, Zenon
\* The rollback starts: acknowledgements behind the target are taken back.
<1>StartRollbackStep. ASSUME RInv, NEW t \in Nat, StartRollback(t) PROVE RInv' /\ LogStep
  <2> USE <1>StartRollbackStep
  <2>1. /\ files # <<>> /\ constructBlockfilesInfo.lastPersistedBlock > t /\ target' = t /\ RecordHeight
        /\ acked' = (IF t + 1 < Len(acked) THEN SubSeq(acked, 1, t + 1) ELSE acked)
        /\ phase' = "rollbackIndex" /\ files' = files /\ db' = db /\ dbSynced' = dbSynced /\ mgr' = mgr
    BY Zenon DEF StartRollback
  <2>2. IInv BY Zenon DEF RInv
  <2>3. FilesInv' /\ AckedInv' /\ LogStep /\ Len(acked') <= t + 1 BY <2>1, <2>2, <1>UnackIs, Zenon
  <2>4. OpeningInv' /\ ServingInv' /\ AddInv' /\ OpenSucceeds' BY <2>1, Quiet, Zenon DEF Commands
  <2>5. DbInv' /\ MgrInv' BY <2>1, <2>2, DbSame, Zenon DEF IInv, MgrInv
  <2>6. t < Len(Stored(files))
    <3>1. PICK l : l = constructBlockfilesInfo.lastPersistedBlock OBVIOUS
    <3>2. l \in Nat /\ l > t BY <2>1, <2>2, <3>1, HeightIs
    <3>3. l > 0 BY <3>2
    <3>4. Len(Stored(files)) = l + 1 BY <2>1, <2>2, <3>1, <3>3, HeightIs
    <3> QED BY <3>2, <3>4
  <2>7. preResetHeight' \in Nat /\ preResetHeight' >= Len(Stored(files)) BY <2>1, RecordIs, Zenon
  <2>8. RollbackInv' BY <2>1, <2>3, <2>6, <2>7, Zenon DEF RollbackInv
  <2> QED BY <2>2, <2>3, <2>4, <2>5, <2>8, Facts DEF RInv, IInv
\* A batch of the index is deleted.
<1>RollbackIndexStep. ASSUME RInv, RollbackIndex PROVE RInv' /\ LogStep
  <2> USE <1>RollbackIndexStep
  <2> DEFINE sp == db.savePoint
             start == sp - BatchLimit + 1
             from == IF start > target THEN start ELSE target + 1
             x == db.index
             w == [n \in {k \in DOMAIN x : k < from} |-> x[n]]
             N == Len(Stored(files))
             v == db.info
             u == from - 1
  <2>1. /\ phase = "rollbackIndex" /\ phase' = phase /\ sp > target
        /\ db' = [db EXCEPT !.index = w, !.savePoint = u] /\ dbSynced' = db'
        /\ files' = files /\ mgr' = mgr /\ acked' = acked /\ target' = target /\ preResetHeight' = preResetHeight
    BY Zenon DEF RollbackIndex
  <2>2. IInv /\ target \in Nat BY Zenon DEF RInv, RollbackInv
  <2>3. files \in Files /\ N \in Nat /\ IsSound(files, db) BY <2>2, Facts, Zenon DEF IInv, DbInv
  <2>4. /\ db = [info |-> v, index |-> x, savePoint |-> sp] /\ sp \in -1 .. N - 1 /\ DOMAIN x = 0 .. sp
        /\ \A j \in 0 .. sp : IsPlace(files, x[j], j + 1)
    BY <2>3, Zenon DEF IsSound
  <2> HIDE DEF sp, x, N, v
  <2>5. from \in Nat /\ from <= sp BY <2>1, <2>2, <2>3, <2>4, RollbackAssumption
  <2> HIDE DEF from
  <2>6. DOMAIN w = 0 .. from - 1 /\ \A j \in 0 .. from - 1 : w[j] = x[j] /\ j \in 0 .. sp
    BY <2>3, <2>4, <2>5
  <2> HIDE DEF w
  <2>7. u \in -1 .. N - 1 /\ DOMAIN w = 0 .. u /\ \A j \in 0 .. u : IsPlace(files, w[j], j + 1)
    BY <2>3, <2>4, <2>5, <2>6
  <2> HIDE DEF u
  <2>8. db' = [info |-> v, index |-> w, savePoint |-> u] BY <2>1, <2>4, Zenon
  <2>9. db'.info = v /\ db'.index = w /\ db'.savePoint = u BY <2>8, Zenon
  <2>10. IsSound(files, db')
    <3>1. db.info = v BY Zenon DEF v
    <3>2. v # <<>> => /\ v = <<v[1]>> /\ \E k \in Nat : Covers(files, v[1], k)
                      /\ \A n \in DOMAIN files : files[n].torn => n <= v[1].latestFileNumber + 1
      BY <2>3, <3>1, Zenon DEF IsSound
    <3> QED BY <2>7, <2>8, <2>9, <3>2 DEF IsSound, N
  <2>11. DbInv' BY <2>1, <2>10, Zenon DEF DbInv
  <2>12. FilesInv' /\ AckedInv' /\ LogStep BY <2>1, <2>2, FilesSame, Zenon
  <2>13. OpeningInv' /\ ServingInv' /\ AddInv' /\ OpenSucceeds' BY <2>1, Quiet, Zenon DEF Commands
  <2>14. MgrInv' BY <2>1, <2>2, Zenon DEF IInv, MgrInv
  <2>15. RollbackInv' BY <2>1, Zenon DEF RInv, RollbackInv
  <2> QED BY <2>2, <2>11, <2>12, <2>13, <2>14, <2>15, Facts DEF RInv, IInv
\* blockfilesInfo is deleted.
<1>DeleteInfoStep. ASSUME RInv, DeleteInfo PROVE RInv' /\ LogStep
  <2> USE <1>DeleteInfoStep
  <2>1. /\ phase = "rollbackIndex" /\ db.savePoint <= target /\ phase' = "rollbackFiles"
        /\ db' = [db EXCEPT !.info = <<>>] /\ dbSynced' = db'
        /\ files' = files /\ mgr' = mgr /\ acked' = acked /\ target' = target /\ preResetHeight' = preResetHeight
    BY Zenon DEF DeleteInfo
  <2>2. IInv BY Zenon DEF RInv
  <2>3. IsSound(files, db) BY <2>2, Zenon DEF IInv, DbInv
  <2>4. IsSound(files, db') /\ db'.info = <<>> /\ db'.savePoint = db.savePoint
    <3> DEFINE x == db.index
               sp == db.savePoint
               v == db.info
    <3>1. db = [info |-> v, index |-> x, savePoint |-> sp] BY <2>3, Zenon DEF IsSound
    <3> HIDE DEF x, sp, v
    <3>2. db' = [info |-> <<>>, index |-> x, savePoint |-> sp] BY <2>1, <3>1, Zenon
    <3>3. db'.info = <<>> /\ db'.index = x /\ db'.savePoint = sp BY <3>2, Zenon
    <3> QED BY <2>3, <3>2, <3>3, Zenon DEF IsSound, x, sp
  <2>5. DbInv' BY <2>1, <2>4, Zenon DEF DbInv
  <2>6. FilesInv' /\ AckedInv' /\ LogStep BY <2>1, <2>2, FilesSame, Zenon
  <2>7. OpeningInv' /\ ServingInv' /\ AddInv' /\ OpenSucceeds' BY <2>1, Quiet, Zenon DEF Commands
  <2>8. MgrInv' BY <2>1, <2>2, Zenon DEF IInv, MgrInv
  <2>9. RollbackInv'
    <3>1. db'.savePoint <= target BY <2>1, <2>4, Zenon
    <3> QED BY <2>1, <2>4, <3>1, Zenon DEF RInv, RollbackInv
  <2> QED BY <2>2, <2>5, <2>6, <2>7, <2>8, <2>9, Facts DEF RInv, IInv
\* The reset starts: the index is dropped, and only the first block stays acknowledged.
<1>StartResetStep. ASSUME RInv, StartReset PROVE RInv' /\ LogStep
  <2> USE <1>StartResetStep
  <2>1. /\ target' = 0 /\ db' = [info |-> <<>>, index |-> <<>>, savePoint |-> -1] /\ dbSynced' = db'
        /\ acked' = (IF 0 + 1 < Len(acked) THEN SubSeq(acked, 1, 0 + 1) ELSE acked)
        /\ phase' = "resetHeight" /\ files' = files /\ mgr' = mgr /\ preResetHeight' = preResetHeight
    BY DEF StartReset
  <2>2. IInv /\ preResetHeight \in Nat /\ 0 \in Nat BY Zenon DEF RInv, RollbackInv
  <2>3. FilesInv' /\ AckedInv' /\ LogStep /\ Len(acked') <= 0 + 1 BY <2>1, <2>2, <1>UnackIs, Zenon
  <2>4. OpeningInv' /\ ServingInv' /\ AddInv' /\ OpenSucceeds' BY <2>1, Quiet, Zenon DEF Commands
  <2>5. MgrInv' BY <2>1, <2>2, Zenon DEF IInv, MgrInv
  <2>6. db'.info = <<>> /\ db'.savePoint = -1 /\ db'.index = <<>> BY <2>1, Zenon
  <2>7. IsSound(files, db')
    <3>1. -1 \in -1 .. Len(Stored(files)) - 1
      <4>1. Len(Stored(files)) \in Nat BY <2>2, Facts, Zenon
      <4> QED BY <4>1
    <3>2. DOMAIN db'.index = 0 .. -1 BY <2>6
    <3>3. \A j \in 0 .. -1 : FALSE OBVIOUS
    <3> QED BY <2>1, <2>6, <3>1, <3>2, <3>3 DEF IsSound
  <2>8. DbInv' BY <2>1, <2>7, Zenon DEF DbInv
  <2>9. RollbackInv' BY <2>1, <2>2, <2>3, <2>6 DEF RollbackInv
  <2> QED BY <2>2, <2>3, <2>4, <2>5, <2>8, <2>9, Facts DEF RInv, IInv
\* The reset records the height.
<1>ResetHeightStep. ASSUME RInv, ResetHeight PROVE RInv' /\ LogStep
  <2> USE <1>ResetHeightStep
  <2>1. /\ phase = "resetHeight" /\ RecordHeight
        /\ phase' = (IF files = <<>> THEN "closed" ELSE IF ~HasFirst(0) THEN "resetFailed" ELSE "resetFiles")
        /\ files' = files /\ db' = db /\ dbSynced' = dbSynced /\ mgr' = mgr /\ acked' = acked /\ target' = target
    BY Zenon DEF ResetHeight
  <2>2. phase' \in Commands \union {"closed"} BY <2>1, Zenon DEF Commands
  <2>3. IInv' /\ LogStep BY <2>1, <2>2, <1>SameStep, Zenon DEF RInv
  <2>4. preResetHeight' \in Nat /\ preResetHeight' >= Len(Stored(files)) BY <2>1, RecordIs, Zenon
  <2>5. phase' = "resetFiles" => files # <<>> /\ files[1].blocks # <<>> BY <2>1 DEF HasFirst
  <2>6. RollbackInv' BY <2>1, <2>4, <2>5, Zenon DEF RInv, RollbackInv
  <2> QED BY <2>3, <2>6, Zenon DEF RInv
\* A command that fails, or has returned, leaves the store as it is.
<1>SearchFailsStep. ASSUME RInv, RollbackSearchFails \/ CommandReturns PROVE RInv' /\ LogStep
  <2> USE <1>SearchFailsStep
  <2>1. /\ phase' \in {"rollbackFailed", "closed"}
        /\ files' = files /\ db' = db /\ dbSynced' = dbSynced /\ mgr' = mgr /\ acked' = acked
        /\ target' = target /\ preResetHeight' = preResetHeight
    BY Zenon DEF RollbackSearchFails, CommandReturns
  <2>2. phase' \in Commands \union {"closed"} BY <2>1, Zenon DEF Commands
  <2>3. IInv' /\ LogStep BY <2>1, <2>2, <1>SameStep DEF RInv
  <2>4. RollbackInv' BY <2>1, Zenon DEF RInv, RollbackInv
  <2> QED BY <2>3, <2>4, Zenon DEF RInv
\* The recorded height is cleared.
<1>ClearStep. ASSUME RInv, ClearPreResetHeight PROVE RInv' /\ LogStep
  <2> USE <1>ClearStep
  <2>1. /\ phase \in Serving /\ preResetHeight' = 0 /\ vars' = vars /\ target' = target
    BY Zenon DEF ClearPreResetHeight
  <2>2. phase' \notin Commands BY <2>1, Zenon DEF Serving, Commands, vars
  <2>3. RollbackInv' BY <2>1, <2>2, Zenon DEF RInv, RollbackInv, Commands
  <2>4. IInv' /\ LogStep BY <2>1, StutterStep, Zenon DEF RInv
  <2> QED BY <2>3, <2>4 DEF RInv
<1> QED BY <1>StartRollbackStep, <1>RollbackIndexStep, <1>DeleteInfoStep, <1>StartResetStep, <1>ResetHeightStep,
           <1>SearchFailsStep, <1>ClearStep

\* The binary search, as an equation.
SearchDomain(last) == {i \in (0 .. last) \X (0 .. last) : i[1] <= i[2]}
\* The file that a round of the search looks at ...
Middle(i) == i[1] + (i[2] - i[1]) \div 2 + 1
\* ... and what the round does with its first block.
Round(f, i, b) ==
  IF i[1] = i[2] THEN i[1]
  ELSE IF ~HasFirst(Middle(i)) THEN -1
  ELSE IF FirstNum(Middle(i)) = b THEN Middle(i)
  ELSE IF FirstNum(Middle(i)) > b THEN f[<<i[1], Middle(i) - 1>>]
  ELSE f[<<Middle(i), i[2]>>]

\* All blocks up to the target are in the files up to the one that is found.
LEMMA SearchIs ==
  ASSUME Induction, IInv, files # <<>>, NEW b \in Nat, b < Len(Stored(files)), binarySearchFileNumForBlock(b) # -1
  PROVE  /\ binarySearchFileNumForBlock(b) \in 0 .. Len(files) - 1
         /\ b < Before(files, binarySearchFileNumForBlock(b) + 2)
\* The first block of a file is numbered by the blocks before.
<1>FirstIs.
  ASSUME FilesInv, NEW n \in 0 .. Len(files) - 1, HasFirst(n)
  PROVE  FirstNum(n) = Before(files, n + 1) /\ Before(files, n + 2) > Before(files, n + 1)
  <2> USE <1>FirstIs
  <2> DEFINE m == n + 1
             s == files[m].blocks
  <2>1. files \in Files /\ Len(files) \in Nat BY FileIs, Zenon DEF FilesInv, Files
  <2>2. m \in 1 .. Len(files) /\ m \in 1 .. Len(files) + 1 /\ n + 2 = m + 1 BY <2>1
  <2>3. s \in Seq(Block) /\ s # <<>> /\ FirstNum(n) = s[1].number BY <2>1, <2>2, FileIs, Zenon DEF HasFirst, FirstNum
  <2>4. Before(files, m) \in Nat /\ Before(files, m + 1) = Before(files, m) + Len(s) BY <2>1, <2>2, BeforeStep, Zenon
  <2>5. Len(s) \in Nat /\ 1 \in 1 .. Len(s)
    <3> HIDE DEF s
    <3> QED BY <2>3
  <2>6. Before(files, m) + 1 \in 1 .. Len(Stored(files)) /\ Stored(files)[Before(files, m) + 1] = s[1]
    BY <2>1, <2>2, <2>5, StoredAt, Zenon
  <2>7. Before(files, m) + 1 \in DOMAIN Stored(files) BY <2>1, <2>6, BeforeStep, SeqIs, Zenon
  <2>8. s[1].number = (Before(files, m) + 1) - 1 BY <2>6, <2>7, Zenon DEF FilesInv
  <2> HIDE DEF m, s
  <2>9. s[1].number = Before(files, m) /\ Before(files, m + 1) > Before(files, m) BY <2>4, <2>5, <2>8
  <2> QED BY <2>2, <2>3, <2>9 DEF m
\* Both halves of an interval are smaller than it.
<1>MiddleIs.
  ASSUME NEW last \in Nat, NEW i \in SearchDomain(last), i[1] # i[2]
  PROVE  /\ Middle(i) \in 0 .. last /\ i[1] < Middle(i) /\ Middle(i) <= i[2]
         /\ <<i[1], Middle(i) - 1>> \in SearchDomain(last) /\ <<Middle(i), i[2]>> \in SearchDomain(last)
         /\ Middle(i) - 1 - i[1] < i[2] - i[1] /\ i[2] - Middle(i) < i[2] - i[1]
  <2> USE <1>MiddleIs
  <2>1. PICK a, c : a = i[1] /\ c = i[2] OBVIOUS
  <2>2. a \in Nat /\ c \in Nat /\ a < c /\ c <= last BY <2>1 DEF SearchDomain
  <2>3. PICK m : m = a + (c - a) \div 2 + 1 OBVIOUS
  <2>4. m \in Nat /\ a < m /\ m <= c BY <2>2, <2>3
  <2>5. Middle(i) = m BY <2>1, <2>3, Zenon DEF Middle
  <2>6. <<a, m - 1>> \in SearchDomain(last) /\ <<m, c>> \in SearchDomain(last) BY <2>2, <2>4 DEF SearchDomain
  <2>7. m \in 0 .. last /\ (m - 1) - a < c - a /\ c - m < c - a BY <2>2, <2>4
  <2> QED BY <2>1, <2>4, <2>5, <2>6, <2>7
\* So there is a function that satisfies the equation, by induction over the length of the interval.
<1>SearchExists.
  ASSUME NEW last \in Nat
  PROVE  \E f : f = [i \in SearchDomain(last) |-> Round(f, i, b)]
  <2> USE <1>SearchExists
  <2> DEFINE D(N) == {i \in SearchDomain(last) : i[2] - i[1] <= N}
             Def(f, N) == f = [i \in D(N) |-> Round(f, i, b)]
             S == {N \in Nat : \E f : Def(f, N)}
  <2>0. \A i \in SearchDomain(last) : i[1] \in 0 .. last /\ i[2] \in 0 .. last /\ i[1] <= i[2] /\ i[2] - i[1] \in 0 .. last
    <3> TAKE i \in SearchDomain(last)
    <3>1. PICK a, c : a = i[1] /\ c = i[2] OBVIOUS
    <3>2. a \in 0 .. last /\ c \in 0 .. last /\ a <= c BY <3>1, Zenon DEF SearchDomain
    <3>3. c - a \in 0 .. last BY <3>2
    <3> QED BY <3>1, <3>2, <3>3, Zenon
  <2>1. 0 \in S
    <3> DEFINE g == [i \in D(0) |-> i[1]]
    <3>1. ASSUME NEW i \in D(0) PROVE g[i] = Round(g, i, b)
      <4>1. i[1] = i[2] BY <2>0
      <4> QED BY <4>1, Zenon DEF Round
    <3>2. Def(g, 0) BY <3>1, Zenon
    <3>3. \E f : Def(f, 0)
      <4> HIDE DEF g, Def
      <4> QED BY <3>2, Zenon
    <3> QED BY <3>3, Zenon
  <2>2. ASSUME NEW N \in Nat, N \in S PROVE N + 1 \in S
    <3>1. PICK f : Def(f, N) BY <2>2, Zenon
    <3> DEFINE g == [i \in D(N + 1) |-> Round(f, i, b)]
    <3>2. ASSUME NEW j \in D(N) PROVE g[j] = f[j]
      <4>1. j \in D(N + 1) BY <2>0
      <4>2. f[j] = Round(f, j, b) BY <3>1, Zenon
      <4> QED BY <4>1, <4>2
    <3>3. ASSUME NEW i \in D(N + 1) PROVE Round(f, i, b) = Round(g, i, b)
      <4>1. CASE i[1] = i[2] BY <4>1, Zenon DEF Round
      <4>2. CASE i[1] # i[2]
        <5>1. PICK m : m = Middle(i) OBVIOUS
        <5>2. /\ m \in 0 .. last /\ i[1] \in 0 .. last /\ i[2] \in 0 .. last /\ i[2] - i[1] <= N + 1
              /\ <<i[1], m - 1>> \in SearchDomain(last) /\ <<m, i[2]>> \in SearchDomain(last)
              /\ m - 1 - i[1] < i[2] - i[1] /\ i[2] - m < i[2] - i[1]
          BY <2>0, <4>2, <5>1, <1>MiddleIs
        <5>3. m - 1 - i[1] <= N /\ i[2] - m <= N
          <6>1. PICK a, c : a = i[1] /\ c = i[2] OBVIOUS
          <6>2. m \in Nat /\ a \in Nat /\ c \in Nat /\ c - a <= N + 1 /\ m - 1 - a < c - a /\ c - m < c - a BY <5>2, <6>1
          <6>3. m - 1 - a <= N /\ c - m <= N BY <6>2
          <6> QED BY <6>1, <6>3, Zenon
        <5>4. <<i[1], m - 1>> \in D(N) /\ <<m, i[2]>> \in D(N) BY <5>2, <5>3
        <5>5. g[<<i[1], m - 1>>] = f[<<i[1], m - 1>>] /\ g[<<m, i[2]>>] = f[<<m, i[2]>>] BY <3>2, <5>4
        <5> HIDE DEF g
        <5> QED BY <5>1, <5>5 DEF Round
      <4> QED BY <4>1, <4>2
    <3>4. Def(g, N + 1)
      <4>1. \A i \in D(N + 1) : Round(f, i, b) = Round(g, i, b) BY <3>3, Zenon
      <4>2. g = [i \in D(N + 1) |-> Round(f, i, b)] OBVIOUS
      <4> HIDE DEF g, D
      <4> QED BY <4>1, <4>2, Zenon
    <3>5. \E h : Def(h, N + 1)
      <4> HIDE DEF g, Def
      <4> QED BY <3>4, Zenon
    <3>6. N + 1 \in Nat OBVIOUS
    <3> HIDE DEF Def
    <3> QED BY <3>5, <3>6
  <2>3. last \in S
    <3> HIDE DEF S
    <3> QED BY <2>1, <2>2 DEF Induction
  <2>4. PICK f : Def(f, last) BY <2>3, Zenon
  <2>5. D(last) = SearchDomain(last) BY <2>0
  <2>6. f = [i \in SearchDomain(last) |-> Round(f, i, b)] BY <2>4, <2>5
  <2> QED BY <2>6, Zenon
<1> DEFINE last == Len(files) - 1
           Def(f) == f = [i \in SearchDomain(last) |-> Round(f, i, b)]
           f == CHOOSE f : Def(f)
           Found(r, i) == r = -1 \/ (r \in i[1] .. i[2] /\ b < Before(files, r + 2))
           S == {N \in Nat : \A i \in SearchDomain(last) :
                               i[2] - i[1] <= N /\ b < Before(files, i[2] + 2) => Found(f[i], i)}
<1>1. files \in Files /\ Len(files) \in Nat /\ FilesInv /\ constructBlockfilesInfo.latestFileNumber + 1 = Len(files)
  BY Facts, ConstructIs, Zenon DEF IInv
<1>2. Len(files) # 0 BY <1>1, EmptySeq, Zenon DEF Files
<1>3. constructBlockfilesInfo \in InfoSet BY <1>1, ConstructIs, CoversIs, Zenon
<1>4. last \in Nat /\ constructBlockfilesInfo.latestFileNumber = last
  <2>1. constructBlockfilesInfo.latestFileNumber \in Nat BY <1>3, Zenon DEF InfoSet
  <2> QED BY <1>1, <1>2, <2>1
<1>5. binarySearchFileNumForBlock(b) = f[<<0, last>>]
  BY <1>4 DEF binarySearchFileNumForBlock, SearchDomain, Round, Middle
<1> HIDE DEF last
<1>6. Def(f)
  <2>1. \E h : Def(h) BY <1>4, <1>SearchExists, Zenon
  <2> HIDE DEF Def
  <2> QED BY <2>1, Zenon
<1> HIDE DEF f
<1>7. \A i \in SearchDomain(last) : f[i] = Round(f, i, b) BY <1>6, Zenon
<1>8. \A i \in SearchDomain(last) : i[1] \in 0 .. last /\ i[2] \in 0 .. last /\ i[1] <= i[2]
  <2> TAKE i \in SearchDomain(last)
  <2>1. PICK a, c : a = i[1] /\ c = i[2] OBVIOUS
  <2>2. a \in 0 .. last /\ c \in 0 .. last /\ a <= c BY <2>1, Zenon DEF SearchDomain
  <2> QED BY <2>1, <2>2, Zenon
<1>9. 0 \in S
  <2> SUFFICES ASSUME NEW i \in SearchDomain(last), i[2] - i[1] <= 0, b < Before(files, i[2] + 2) PROVE Found(f[i], i)
    OBVIOUS
  <2>1. i[1] = i[2] BY <1>4, <1>8
  <2>2. f[i] = i[2] BY <1>7, <2>1, Zenon DEF Round
  <2>3. i[2] \in i[1] .. i[2] BY <1>4, <1>8
  <2> QED BY <2>2, <2>3, Zenon
<1>10. ASSUME NEW N \in Nat, N \in S PROVE N + 1 \in S
  <2> SUFFICES ASSUME NEW i \in SearchDomain(last), i[2] - i[1] <= N + 1, b < Before(files, i[2] + 2) PROVE Found(f[i], i)
    OBVIOUS
  <2>1. CASE i[1] = i[2]
    <3>1. f[i] = i[2] BY <1>7, <2>1, Zenon DEF Round
    <3>2. i[2] \in i[1] .. i[2] BY <1>4, <1>8
    <3> QED BY <3>1, <3>2, Zenon
  <2>2. CASE i[1] # i[2]
    <3>1. PICK m, a, c : m = Middle(i) /\ a = i[1] /\ c = i[2] OBVIOUS
    <3>2. PICK p, q : p = <<a, m - 1>> /\ q = <<m, c>> OBVIOUS
    <3>3. /\ m \in 0 .. last /\ a \in 0 .. last /\ c \in 0 .. last /\ a < m /\ m <= c
          /\ p \in SearchDomain(last) /\ q \in SearchDomain(last)
          /\ m - 1 - a < c - a /\ c - m < c - a
      BY <1>4, <1>8, <2>2, <3>1, <3>2, <1>MiddleIs
    <3>4. /\ p[1] = a /\ p[2] = m - 1 /\ q[1] = m /\ q[2] = c BY <3>2, Zenon
    <3>5. p[2] - p[1] <= N /\ q[2] - q[1] <= N
      <4>1. c - a <= N + 1 BY <3>1, Zenon
      <4>2. (m - 1) - a <= N /\ c - m <= N BY <1>4, <3>3, <4>1
      <4> QED BY <3>4, <4>2, Zenon
    <3>6. f[i] = IF ~HasFirst(m) THEN -1 ELSE IF FirstNum(m) = b THEN m ELSE IF FirstNum(m) > b THEN f[p] ELSE f[q]
      BY <1>7, <2>2, <3>1, <3>2 DEF Round
    <3>7. HasFirst(m) => FirstNum(m) = Before(files, m + 1) /\ Before(files, m + 2) > Before(files, m + 1)
      BY <1>1, <3>3, <1>FirstIs DEF last
    <3>8. \A r : r \in a .. m - 1 \/ r \in m .. c => r \in a .. c BY <1>4, <3>3
    <3>9. CASE ~HasFirst(m) BY <3>6, <3>9, Zenon
    <3>10. CASE HasFirst(m) /\ FirstNum(m) = b
      <4>1. f[i] = m /\ m \in i[1] .. i[2] BY <1>4, <3>1, <3>3, <3>6, <3>10
      <4>2. b < Before(files, m + 2) BY <3>7, <3>10, Zenon
      <4> QED BY <4>1, <4>2, Zenon
    <3>11. CASE HasFirst(m) /\ FirstNum(m) # b /\ FirstNum(m) > b
      <4>1. f[i] = f[p] BY <3>6, <3>11, Zenon
      <4>2. (m - 1) + 2 = m + 1 BY <1>4, <3>3
      <4>3. b < Before(files, m + 1)
        <5>1. Before(files, m + 1) \in Nat
          <6>1. m + 1 \in 1 .. Len(files) + 1 BY <1>1, <3>3 DEF last
          <6> QED BY <1>1, <6>1, BeforeStep, Zenon
        <5> QED BY <3>7, <3>11, <5>1, Zenon
      <4>4. b < Before(files, p[2] + 2) BY <3>4, <4>2, <4>3, Zenon
      <4>5. Found(f[p], p) BY <1>10, <3>3, <3>5, <4>4
      <4> QED BY <3>1, <3>4, <3>8, <4>1, <4>5
    <3>12. CASE HasFirst(m) /\ FirstNum(m) # b /\ ~(FirstNum(m) > b)
      <4>1. f[i] = f[q] BY <3>6, <3>12, Zenon
      <4>2. Found(f[q], q) BY <1>10, <3>1, <3>3, <3>4, <3>5
      <4> QED BY <3>1, <3>4, <3>8, <4>1, <4>2
    <3> QED BY <3>9, <3>10, <3>11, <3>12
  <2> QED BY <2>1, <2>2, Zenon
<1>11. last \in S
  <2> HIDE DEF S
  <2> QED BY <1>4, <1>9, <1>10, Zenon DEF Induction
<1>12. PICK i : i = <<0, last>> OBVIOUS
<1>13. i \in SearchDomain(last) /\ i[1] = 0 /\ i[2] = last /\ last - 0 <= last BY <1>4, <1>12 DEF SearchDomain
<1>14. b < Before(files, last + 2)
  <2>1. last + 2 = Len(files) + 1 BY <1>1 DEF last
  <2> QED BY <1>1, <2>1, BeforeStep, Zenon
<1>15. Found(f[i], i) BY <1>11, <1>13, <1>14, Zenon
<1> QED BY <1>5, <1>12, <1>13, <1>15 DEF last

\* A step adds no block to the files.
Shrinks ==
  Len(Stored(files)) \in Nat /\ Len(Stored(files')) \in Nat /\ Len(Stored(files')) <= Len(Stored(files))

\* The steps on the files.
LEMMA FileSteps ==
  ASSUME Induction
  PROVE  RInv /\ (RemoveFile \/ TruncateToTarget \/ ResetRemoveFile \/ ResetTruncate) => RInv' /\ LogStep
\* What has been recorded is enough for a store that shrinks.
<1>StillRecorded. ASSUME Shrinks, preResetHeight \in Nat, preResetHeight >= Len(Stored(files))
                  PROVE  preResetHeight >= Len(Stored(files'))
  <2> DEFINE a == Len(Stored(files))
             z == Len(Stored(files'))
  <2>1. a \in Nat /\ z \in Nat /\ z <= a /\ preResetHeight >= a BY <1>StillRecorded, Zenon DEF Shrinks
  <2> HIDE DEF a, z
  <2>2. preResetHeight >= z BY <1>StillRecorded, <2>1
  <2> QED BY <2>2, Zenon DEF z
\* Removing the newest file.
<1>RemoveStep.
  ASSUME IInv, Len(files) > 1, files' = SubSeq(files, 1, Len(files) - 1), acked' = acked,
         Len(acked) <= Before(files, Len(files))
  PROVE  /\ FilesInv' /\ AckedInv' /\ LogStep /\ files' # <<>> /\ files'[1] = files[1]
         /\ Len(Stored(files')) = Before(files, Len(files)) /\ Shrinks
         /\ \A d : IsSound(files, d) /\ d.info = <<>> /\ d.savePoint < Before(files, Len(files)) => IsSound(files', d)
  <2> USE <1>RemoveStep
  <2> DEFINE T == Stored(files)
             n == Len(files) - 1
             z == Len(Stored(files'))
  <2>1. files \in Files /\ Len(files) \in Nat /\ DOMAIN files = 1 .. Len(files) /\ Len(T) \in Nat /\ T \in Seq(Block)
        /\ DOMAIN T = 1 .. Len(T) /\ Len(acked) \in Nat /\ DOMAIN acked = 1 .. Len(acked) /\ acked \in Seq(Block)
    BY Facts, Zenon
  <2>2. /\ files' \in Files /\ Len(files') = n /\ files' # <<>>
        /\ \A m \in 1 .. n : files'[m] = files[m]
        /\ Agree(files, files', n, Len(files[n].blocks))
        /\ z = Before(files, Len(files)) /\ z \in 0 .. Len(T) /\ Stored(files') = SubSeq(T, 1, z)
    BY <2>1, RemoveIs, Zenon
  <2>3. n \in 1 .. Len(files) /\ n + 1 = Len(files) /\ 1 \in 1 .. n BY <2>1
  <2>4. Before(files, n) + Len(files[n].blocks) = z BY <2>1, <2>2, <2>3, BeforeStep
  <2>5. \A loc, k : IsPlace(files, loc, k) /\ k <= z => IsPlace(files', loc, k) BY <2>1, <2>2, <2>4, AgreeStored
  <2> HIDE DEF n, T, z
  <2>6. z \in Nat /\ z <= Len(T) /\ Len(acked) <= z BY <2>1, <2>2
  <2>7. /\ Stored(files') \in Seq(Block) /\ DOMAIN Stored(files') = 1 .. z /\ \A k \in 1 .. z : Stored(files')[k] = T[k]
    <3>1. SubSeq(T, 1, z) \in Seq(Block) /\ \A k \in 1 .. z : SubSeq(T, 1, z)[k] = T[k] BY <2>1, <2>2, SeqIs, Zenon
    <3>2. Stored(files') \in Seq(Block) /\ \A k \in 1 .. z : Stored(files')[k] = T[k] BY <2>2, <3>1, Zenon
    <3> QED BY <3>2, SeqIs, Zenon DEF z
  <2>8. FilesInv'
    <3>1. ASSUME NEW m \in DOMAIN files', m < Len(files') PROVE files'[m].blocks # <<>>
      <4>1. m \in 1 .. n BY <2>2, FileIs, Zenon
      <4>2. m \in DOMAIN files /\ m < Len(files) BY <2>1, <2>3, <4>1
      <4> QED BY <2>2, <4>1, <4>2, Zenon DEF IInv, FilesInv
    <3>2. ASSUME NEW k \in DOMAIN Stored(files') PROVE Stored(files')[k].number = k - 1
      <4>1. k \in 1 .. z /\ k \in DOMAIN T BY <2>1, <2>6, <2>7
      <4> QED BY <2>7, <4>1, Zenon DEF IInv, FilesInv, T
    <3> QED BY <2>2, <3>1, <3>2, Zenon DEF FilesInv, Files
  <2>9. AckedInv'
    <3>1. ASSUME NEW k \in DOMAIN acked PROVE acked[k] = Stored(files')[k]
      <4>1. k \in 1 .. z BY <2>1, <2>6
      <4>2. acked[k] = T[k] BY Zenon DEF IInv, AckedInv, T
      <4> QED BY <2>7, <4>1, <4>2, Zenon
    <3> QED BY <2>1, <2>6, <3>1, Zenon DEF AckedInv, z
  <2>10. LogStep
    <3>1. z \in Len(acked) .. Len(T) BY <2>1, <2>6
    <3> QED BY <2>2, <3>1, Zenon DEF LogStep, T
  <2>11. ASSUME NEW d, IsSound(files, d), d.info = <<>>, d.savePoint < z PROVE IsSound(files', d)
    <3>1. d.savePoint \in Int BY <2>1, <2>11 DEF IsSound, T
    <3>2. d.savePoint <= Len(Stored(files')) - 1 /\ d.savePoint + 1 <= z BY <2>6, <2>11, <3>1 DEF z
    <3>3. \A loc, k : IsPlace(files, loc, k) /\ k <= d.savePoint + 1 => IsPlace(files', loc, k)
      <4> SUFFICES ASSUME NEW loc, NEW k, IsPlace(files, loc, k), k <= d.savePoint + 1 PROVE k <= z BY <2>5, Zenon
      <4>1. k \in Nat BY <2>1, PlaceIs
      <4> QED BY <2>6, <3>1, <3>2, <4>1
    <3> QED BY <2>1, <2>2, <2>11, <3>2, <3>3, SoundKept, Zenon
  <2>12. Shrinks BY <2>1, <2>6, Zenon DEF Shrinks, z, T
  <2> QED BY <2>2, <2>3, <2>8, <2>9, <2>10, <2>11, <2>12 DEF z
\* A file behind the target's is removed.
<1>RemoveFileStep. ASSUME RInv, RemoveFile PROVE RInv' /\ LogStep
  <2> USE <1>RemoveFileStep
  <2> DEFINE N == Len(files)
             r == binarySearchFileNumForBlock(target)
             z == Before(files, N)
  <2>1. /\ phase = "rollbackFiles" /\ phase' = phase /\ r >= 0 /\ N > r + 1
        /\ files' = SubSeq(files, 1, N - 1) /\ db' = db /\ dbSynced' = dbSynced /\ mgr' = mgr /\ acked' = acked
        /\ target' = target /\ preResetHeight' = preResetHeight
    BY Zenon DEF RemoveFile
  <2>2. /\ IInv /\ target \in Nat /\ Len(acked) <= target + 1 /\ target < Len(Stored(files))
        /\ db = dbSynced /\ db.info = <<>> /\ db.savePoint <= target
        /\ preResetHeight \in Nat /\ preResetHeight >= Len(Stored(files))
    BY <2>1, Zenon DEF RInv, RollbackInv
  <2>3. files \in Files /\ N \in Nat /\ Len(acked) \in Nat /\ IsSound(files, db) BY <2>2, Facts, Zenon DEF IInv, DbInv
  <2>4. files # <<>>
    <3>1. Stored(<<>>) = <<>>
      <4>1. <<>> \in Files /\ Len(<<>>) = 0 BY DEF Files
      <4>2. UpTo(<<>>)[0] = <<>> BY <4>1, UpToStep, Zenon
      <4> QED BY <4>1, <4>2, Zenon DEF Stored
    <3>2. files = <<>> => Len(Stored(files)) = 0 BY <3>1
    <3> QED BY <2>2, <3>2
  <2>5. r \in 0 .. N - 1 /\ target < Before(files, r + 2)
    <3>1. r # -1 BY <2>1
    <3> QED BY <2>2, <2>4, <3>1, SearchIs, Zenon
  <2> HIDE DEF r
  <2>6. r + 2 \in 1 .. N + 1 /\ N \in 1 .. N + 1 /\ r + 2 \in 1 .. N /\ N > 1 BY <2>1, <2>3, <2>5
  <2>7. target < z /\ z \in Nat
    <3>1. Before(files, r + 2) \in Nat /\ z \in Nat BY <2>3, <2>6, BeforeStep, Zenon
    <3>2. Before(files, r + 2) <= z
      <4>1. CASE r + 2 = N BY <3>1, <4>1
      <4>2. CASE r + 2 # N
        <5>1. r + 2 < N BY <2>3, <2>6, <4>2
        <5>2. Before(files, r + 2) + Len(files[r + 2].blocks) <= z BY <2>3, <2>6, <5>1, BeforeGrows, Zenon
        <5>3. Len(files[r + 2].blocks) \in Nat BY <2>3, <2>6, FileIs, Zenon
        <5> HIDE DEF z
        <5> QED BY <3>1, <5>2, <5>3
      <4> QED BY <4>1, <4>2, Zenon
    <3> HIDE DEF z
    <3> QED BY <2>2, <2>5, <3>1, <3>2
  <2>8. Len(acked) <= z
    <3> HIDE DEF z
    <3> QED BY <2>2, <2>3, <2>7
  <2>9. /\ FilesInv' /\ AckedInv' /\ LogStep /\ Len(Stored(files')) = z /\ Shrinks
        /\ \A d : IsSound(files, d) /\ d.info = <<>> /\ d.savePoint < z => IsSound(files', d)
    BY <2>1, <2>2, <2>6, <2>8, <1>RemoveStep, Zenon
  <2>10. db.savePoint < z
    <3>1. db.savePoint \in Int /\ Len(Stored(files)) \in Nat BY <2>2, <2>3, Facts DEF IsSound
    <3> HIDE DEF z
    <3> QED BY <2>2, <2>7, <3>1
  <2>11. DbInv' BY <2>1, <2>2, <2>3, <2>9, <2>10, Zenon DEF DbInv
  <2>12. OpeningInv' /\ ServingInv' /\ AddInv' /\ OpenSucceeds' BY <2>1, Quiet, Zenon DEF Commands
  <2>13. MgrInv' BY <2>1, <2>2, Zenon DEF IInv, MgrInv
  <2>14. RollbackInv'
    <3>1. target < Len(Stored(files')) BY <2>7, <2>9, Zenon
    <3>2. preResetHeight >= Len(Stored(files')) BY <2>2, <2>9, <1>StillRecorded, Zenon
    <3> QED BY <2>1, <2>2, <3>1, <3>2, Zenon DEF RollbackInv
  <2> QED BY <2>2, <2>9, <2>11, <2>12, <2>13, <2>14, Facts, Zenon DEF RInv, IInv
\* Cutting the only, or the last, file behind a block.
<1>CutLastStep.
  ASSUME RInv, files # <<>>, NEW k \in 1 .. Len(files[Len(files)].blocks),
         Cuts(files, files', Len(files), k), Len(acked) <= Before(files, Len(files)) + k,
         phase' = "closed", db' = db, dbSynced' = dbSynced, mgr' = mgr, acked' = acked,
         target' = target, preResetHeight' = preResetHeight,
         db = dbSynced, db.info = <<>>, db.savePoint < Before(files, Len(files)) + k
  PROVE  RInv' /\ LogStep
  <2> USE <1>CutLastStep
  <2> DEFINE n == Len(files)
             z == Before(files, n) + k
  <2>1. IInv /\ files \in Files /\ n \in Nat /\ IsSound(files, db) BY Facts, Zenon DEF RInv, IInv, DbInv
  <2>2. n \in 1 .. Len(files) /\ IsOpen(files, n)
    <3>1. n # 0 BY <2>1, EmptySeq, Zenon DEF Files
    <3> QED BY <2>1, <3>1 DEF IsOpen
  <2>3. k \in 0 .. Len(files[n].blocks) /\ (n < Len(files) => k # 0)
    <3>1. Len(files[n].blocks) \in Nat BY <2>1, <2>2, FileIs, Zenon
    <3> QED BY <3>1
  <2>4. /\ FilesInv' /\ AckedInv' /\ LogStep
        /\ \A d : /\ IsSound(files, d) /\ d.savePoint < z
                  /\ d.info # <<>> => /\ d.info[1].latestFileNumber + 1 = n
                                      /\ \E l \in 0 .. z : Covers(files, d.info[1], l)
                  => IsSound(files', d)
    BY <2>1, <2>2, <2>3, CutStep, Zenon
  <2>5. IsSound(files', db)
    <3> HIDE DEF z
    <3>1. db.savePoint < z BY Zenon DEF z
    <3> QED BY <2>1, <2>4, <3>1, Zenon
  <2>6. DbInv' BY <2>5, Zenon DEF DbInv
  <2>7. OpeningInv' /\ ServingInv' /\ AddInv' /\ OpenSucceeds' BY Quiet, Zenon
  <2>8. MgrInv' BY <2>1, Zenon DEF IInv, MgrInv
  <2>9. RollbackInv' BY Zenon DEF RInv, RollbackInv
  <2> QED BY <2>1, <2>4, <2>6, <2>7, <2>8, <2>9, Facts DEF RInv, IInv
\* The target's file is truncated behind the target.
<1>TruncateToTargetStep. ASSUME RInv, TruncateToTarget PROVE RInv' /\ LogStep
  <2> USE <1>TruncateToTargetStep
  <2> DEFINE n == Len(files)
             T == Stored(files)
             s == files[n].blocks
  <2>1. PICK r : r = binarySearchFileNumForBlock(target) OBVIOUS
  <2>2. /\ phase = "rollbackFiles" /\ phase' = "closed" /\ r >= 0 /\ n = r + 1
        /\ db' = db /\ dbSynced' = dbSynced /\ mgr' = mgr /\ acked' = acked
        /\ target' = target /\ preResetHeight' = preResetHeight
    BY <2>1, Zenon DEF TruncateToTarget
  <2>3. PICK k \in DOMAIN s : s[k].number = target /\ Cuts(files, files', n, k)
    BY <2>1, <2>2, Zenon DEF TruncateToTarget, Cuts
  <2>4. /\ IInv /\ target \in Nat /\ Len(acked) <= target + 1 /\ target < Len(T)
        /\ db = dbSynced /\ db.info = <<>> /\ db.savePoint <= target
    BY <2>2, Zenon DEF RInv, RollbackInv
  <2>5. files \in Files /\ n \in Nat /\ Len(acked) \in Nat /\ IsSound(files, db) /\ Len(T) \in Nat /\ DOMAIN T = 1 .. Len(T)
    BY <2>4, Facts, Zenon DEF IInv, DbInv
  <2>6. files # <<>> /\ n \in 1 .. n
    <3>1. n # 0
      <4>1. n = 0 => r = -1
        <5>1. CASE n = 0
          <6>1. files = <<>> BY <2>5, <5>1, EmptySeq DEF Files
          <6>2. Stored(<<>>) = <<>>
            <7>1. <<>> \in Files /\ Len(<<>>) = 0 BY DEF Files
            <7>2. UpTo(<<>>)[0] = <<>> BY <7>1, UpToStep, Zenon
            <7> QED BY <7>1, <7>2, Zenon DEF Stored
          <6>3. Len(T) = 0 BY <6>1, <6>2, Zenon
          <6> QED BY <2>4, <6>3
        <5> QED BY <5>1, Zenon
      <4> QED BY <2>2, <4>1
    <3> QED BY <2>5, <3>1
  <2>7. DOMAIN s = 1 .. Len(s) /\ Len(s) \in Nat BY <2>5, <2>6, FileIs, Zenon
  <2>8. k \in 1 .. Len(s) BY <2>7, Zenon
  <2>9. Before(files, n) + k \in 1 .. Len(T) /\ T[Before(files, n) + k] = s[k] BY <2>5, <2>6, <2>8, StoredAt
  <2>10. s[k].number = (Before(files, n) + k) - 1
    <3>1. Before(files, n) + k \in DOMAIN T BY <2>5, <2>9, Zenon
    <3> QED BY <2>4, <2>9, <3>1, Zenon DEF IInv, FilesInv
  <2>11. Before(files, n) \in Nat
    <3>1. n \in 1 .. Len(files) + 1 BY <2>5, <2>6
    <3> QED BY <2>5, <3>1, BeforeStep, Zenon
  <2>12. Before(files, n) + k = target + 1
    <3> DEFINE a == Before(files, n)
    <3>1. a \in Nat /\ k \in Nat /\ target = (a + k) - 1 BY <2>3, <2>7, <2>8, <2>10, <2>11
    <3> HIDE DEF a
    <3>2. a + k = target + 1 BY <2>4, <3>1
    <3> QED BY <3>2, Zenon DEF a
  <2>13. db.savePoint < Before(files, n) + k
    <3>1. db.savePoint \in Int BY <2>5 DEF IsSound
    <3> QED BY <2>4, <2>12, <3>1
  <2> QED BY <2>2, <2>3, <2>4, <2>6, <2>8, <2>12, <2>13, <1>CutLastStep
\* The reset removes the newest file.
<1>ResetRemoveFileStep. ASSUME RInv, ResetRemoveFile PROVE RInv' /\ LogStep
  <2> USE <1>ResetRemoveFileStep
  <2> DEFINE N == Len(files)
             z == Before(files, N)
  <2>1. /\ phase = "resetFiles" /\ phase' = phase /\ N > 1
        /\ files' = SubSeq(files, 1, N - 1) /\ db' = db /\ dbSynced' = dbSynced /\ mgr' = mgr /\ acked' = acked
        /\ target' = target /\ preResetHeight' = preResetHeight
    BY Zenon DEF ResetRemoveFile
  <2>2. /\ IInv /\ Len(acked) <= 1 /\ db = dbSynced /\ db.info = <<>> /\ db.savePoint = -1
        /\ files # <<>> /\ files[1].blocks # <<>>
        /\ preResetHeight \in Nat /\ preResetHeight >= Len(Stored(files))
    BY <2>1, Zenon DEF RInv, RollbackInv
  <2>3. files \in Files /\ N \in Nat /\ Len(acked) \in Nat /\ IsSound(files, db) BY <2>2, Facts, Zenon DEF IInv, DbInv
  <2>4. 1 \in 1 .. N /\ N \in 1 .. N + 1 BY <2>1, <2>3
  <2>5. z \in Nat /\ z >= 1
    <3>1. z \in Nat /\ Before(files, 1) = 0 BY <2>3, <2>4, BeforeStep, Zenon
    <3>2. Before(files, 1) + Len(files[1].blocks) <= z BY <2>1, <2>3, <2>4, BeforeGrows, Zenon
    <3>3. files[1].blocks \in Seq(Block) BY <2>3, <2>4, FileIs, Zenon
    <3>4. Len(files[1].blocks) \in Nat /\ Len(files[1].blocks) # 0 BY <2>2, <3>3, EmptySeq, Zenon
    <3> HIDE DEF z
    <3> QED BY <3>1, <3>2, <3>4
  <2>6. Len(acked) <= z /\ -1 < z
    <3> HIDE DEF z
    <3> QED BY <2>2, <2>3, <2>5
  <2>7. /\ FilesInv' /\ AckedInv' /\ LogStep /\ files' # <<>> /\ files'[1] = files[1] /\ Shrinks
        /\ \A d : IsSound(files, d) /\ d.info = <<>> /\ d.savePoint < z => IsSound(files', d)
    BY <2>1, <2>2, <2>6, <1>RemoveStep
  <2>8. DbInv' BY <2>1, <2>2, <2>3, <2>6, <2>7 DEF DbInv
  <2>9. OpeningInv' /\ ServingInv' /\ AddInv' /\ OpenSucceeds' BY <2>1, Quiet, Zenon DEF Commands
  <2>10. MgrInv' BY <2>1, <2>2, Zenon DEF IInv, MgrInv
  <2>11. RollbackInv'
    <3>1. preResetHeight >= Len(Stored(files')) BY <2>2, <2>7, <1>StillRecorded, Zenon
    <3> QED BY <2>1, <2>2, <2>7, <3>1, Zenon DEF RInv, RollbackInv
  <2> QED BY <2>2, <2>7, <2>8, <2>9, <2>10, <2>11, Facts DEF RInv, IInv
\* The reset truncates the first file behind block 0.
<1>ResetTruncateStep. ASSUME RInv, ResetTruncate PROVE RInv' /\ LogStep
  <2> USE <1>ResetTruncateStep
  <2> DEFINE s == files[1].blocks
  <2>1. /\ phase = "resetFiles" /\ phase' = "closed" /\ Len(files) = 1 /\ Cuts(files, files', Len(files), 1)
        /\ db' = db /\ dbSynced' = dbSynced /\ mgr' = mgr /\ acked' = acked
        /\ target' = target /\ preResetHeight' = preResetHeight
    BY Zenon DEF ResetTruncate, Cuts
  <2>2. /\ IInv /\ Len(acked) <= 1 /\ db = dbSynced /\ db.info = <<>> /\ db.savePoint = -1
        /\ files # <<>> /\ s # <<>>
    BY <2>1, Zenon DEF RInv, RollbackInv
  <2>3. files \in Files /\ Before(files, Len(files)) = 0 BY <2>1, <2>2, Facts, BeforeStep, Zenon
  <2>4. 1 \in 1 .. Len(s)
    <3>1. s \in Seq(Block) BY <2>1, <2>3, FileIs
    <3> HIDE DEF s
    <3> QED BY <2>2, <3>1
  <2>5. 1 \in 1 .. Len(files[Len(files)].blocks) BY <2>1, <2>4, Zenon
  <2>6. Len(acked) <= Before(files, Len(files)) + 1 /\ db.savePoint < Before(files, Len(files)) + 1
    BY <2>2, <2>3
  <2> HIDE DEF s
  <2> QED BY <2>1, <2>2, <2>5, <2>6, <1>CutLastStep
<1> QED BY <1>RemoveFileStep, <1>TruncateToTargetStep, <1>ResetRemoveFileStep, <1>ResetTruncateStep, Zenon

-----------------------------------------------------------------------------
(* All steps *)

\* Only the commands enter the phases of a command.
LEMMA NextPhase == ASSUME Next PROVE phase' \notin Commands
<1>1. CASE \E d \in Data : AddBlock(d) BY <1>1, Zenon DEF AddBlock, StartAdd, Commands
<1>2. CASE RetryBlock \/ CreateNextFile \/ SaveNextFile
  BY <1>2, Zenon DEF RetryBlock, StartAdd, CreateNextFile, SaveNextFile, Commands
<1>3. CASE AppendBytes \/ SyncBytes \/ SaveInfo BY <1>3, Zenon DEF AppendBytes, SyncBytes, SaveInfo, Commands
<1>4. CASE IndexBlock \/ Publish \/ FinishAdd BY <1>4, Zenon DEF IndexBlock, Publish, FinishAdd, Commands
<1>5. CASE FailAdd \/ CallerPanics \/ Crash BY <1>5, Zenon DEF FailAdd, CallerPanics, Crash, Commands
<1>6. CASE OpenInfo \/ OpenTruncate BY <1>6, Zenon DEF OpenInfo, OpenTruncate, Commands
<1>7. CASE SyncIndex BY <1>7, Zenon DEF SyncIndex, Commands
<1>8. CASE OpenBlockchainInfo BY <1>8, Zenon DEF OpenBlockchainInfo, Commands
<1> QED BY <1>1, <1>2, <1>3, <1>4, <1>5, <1>6, <1>7, <1>8 DEF Next, Open

\* A step of the store or of a command.
LEMMA RNextStep == ASSUME Induction, RInv, [RNext]_rvars PROVE RInv' /\ LogStep
<1>0. IInv BY Zenon DEF RInv
<1>1. CASE Next /\ UNCHANGED <<target, preResetHeight, commands>>
  <2>1. IInv' /\ LogStep BY <1>0, <1>1, NextStep, Zenon
  <2>2. phase' \notin Commands BY <1>1, NextPhase, Zenon
  <2>3. RollbackInv' BY <1>1, <2>2, Zenon DEF RInv, RollbackInv, Commands
  <2> QED BY <2>1, <2>3, Zenon DEF RInv
<1>2. CASE \E t \in 0 .. MaxHeight - 1 : StartRollback(t)
  <2>1. PICK t \in 0 .. MaxHeight - 1 : StartRollback(t) BY <1>2, Zenon
  <2>2. t \in Nat BY FilesAssumption
  <2> QED BY <2>1, <2>2, CommandSteps, Zenon
<1>3. CASE RollbackIndex \/ DeleteInfo \/ RollbackSearchFails BY <1>3, CommandSteps, Zenon
<1>4. CASE RemoveFile \/ TruncateToTarget BY <1>4, FileSteps, Zenon
<1>5. CASE StartReset \/ ResetHeight BY <1>5, CommandSteps, Zenon
<1>6. CASE ResetRemoveFile \/ ResetTruncate BY <1>6, FileSteps, Zenon
<1>8. CASE CommandReturns \/ ClearPreResetHeight BY <1>8, CommandSteps, Zenon
<1>7. CASE UNCHANGED rvars
  <2>1. UNCHANGED vars /\ target' = target /\ preResetHeight' = preResetHeight BY <1>7, Zenon DEF rvars
  <2>2. RollbackInv' BY <2>1, Zenon DEF RInv, RollbackInv, vars
  <2> QED BY <1>0, <2>1, <2>2, StutterStep, Zenon DEF RInv
<1> QED BY <1>1, <1>2, <1>3, <1>4, <1>5, <1>6, <1>7, <1>8 DEF RNext

--------------------------------------------------------------------------------
(* What the invariant says of the properties *)

\* The index is that of the blocks in the files, and what was acknowledged is among them.
LEMMA RetrievesIs == ASSUME Induction PROVE IInv => RetrievesWhatWasAdded
<1> SUFFICES ASSUME IInv, phase \in Serving, NEW k \in DOMAIN acked
             PROVE  FirstBlock + k - 1 \in DOMAIN db.index /\ BlockAt(db.index[FirstBlock + k - 1]) = <<acked[k]>>
  BY Zenon DEF RetrievesWhatWasAdded
<1>1. /\ files \in Files /\ Len(Stored(files)) \in Nat /\ Len(acked) \in Nat /\ k \in 1 .. Len(acked) /\ FirstBlock = 0
  BY Facts, Zenon
<1>2. IsSound(files, db) BY Zenon DEF IInv, DbInv
<1>3. /\ db.savePoint \in Int /\ DOMAIN db.index = 0 .. db.savePoint
      /\ \A j \in 0 .. db.savePoint : IsPlace(files, db.index[j], j + 1)
  BY <1>1, <1>2 DEF IsSound
<1>4. db.savePoint = Len(acked) \/ db.savePoint = Len(acked) - 1 BY Zenon DEF IInv, ServingInv
<1>5. k - 1 \in 0 .. db.savePoint /\ (k - 1) + 1 = k /\ FirstBlock + k - 1 = k - 1 BY <1>1, <1>3, <1>4
<1>6. IsPlace(files, db.index[k - 1], k) BY <1>3, <1>5, Zenon
<1>7. BlockAt(db.index[k - 1]) = <<Stored(files)[k]>> BY <1>1, <1>6, BlockAtIs, Zenon
<1>8. acked[k] = Stored(files)[k] BY Zenon DEF IInv, AckedInv
<1> QED BY <1>3, <1>5, <1>7, <1>8, Zenon

\* Between two calls everything ends at the same block.
LEMMA IdleIs == ASSUME Induction PROVE IInv => IdleIsInSync
<1> DEFINE T == Stored(files)
           last == files[mgr.info.latestFileNumber + 1]
           s == last.blocks
           a == Before(files, Latest)
           size == mgr.info.latestFileSize
<1> SUFFICES ASSUME IInv, phase = "idle"
             PROVE  /\ mgr.height = FirstBlock + Len(T) /\ size = FileSize(last)
                    /\ T # <<>> => mgr.info.lastPersistedBlock = mgr.height - 1 /\ mgr.hash = Hash(T[Len(T)])
  BY Zenon DEF IdleIsInSync
<1>1. /\ FirstBlock = 0 /\ T \in Seq(Block) /\ Len(T) \in Nat /\ DOMAIN acked = 1 .. Len(acked) /\ acked \in Seq(Block)
      /\ files \in Files
  BY Facts, Zenon
<1>2. phase \in Serving /\ phase # "bcInfo" BY Zenon DEF Serving
<1>3. /\ Len(T) = mgr.height /\ ~files[Latest].torn BY Zenon DEF IInv, AddInv, Unwritten
<1>4. /\ mgr.height = Len(acked) /\ Covers(files, mgr.info, mgr.height)
      /\ mgr.hash = (IF acked = <<>> THEN GenesisHash ELSE Hash(acked[Len(acked)]))
  BY <1>2, Zenon DEF IInv, ServingInv
<1>5. /\ s \in Seq(Block) /\ Len(s) \in Nat /\ a \in Nat /\ Len(T) = a + Len(s) /\ EndsAt(files, Latest, size, mgr.height)
      /\ last = files[Latest]
  BY <1>2, ServingIs, Zenon DEF Latest
<1>6. PICK j \in 0 .. Len(s) : mgr.height = a + j /\ size = Ends(s)[j] BY <1>5, Zenon DEF EndsAt
<1>7. size = FileSize(last)
  <2>1. ~last.torn BY <1>3, <1>5, Zenon
  <2>2. FileSize(last) = Bytes(s) + 0 BY <2>1, Zenon DEF FileSize
  <2>3. j = Len(s)
    <3>1. a + j = a + Len(s) BY <1>3, <1>5, <1>6, Zenon
    <3> HIDE DEF T, s, a
    <3> QED BY <1>5, <1>6, <3>1
  <2>4. size = Bytes(s) BY <1>6, <2>3, Zenon DEF Bytes
  <2>5. Ends(s)[Len(s)] \in Nat BY <1>5, EndsGrow
  <2> HIDE DEF last, s
  <2> QED BY <2>2, <2>4, <2>5 DEF Bytes
<1>8. ASSUME T # <<>> PROVE mgr.info.lastPersistedBlock = mgr.height - 1 /\ mgr.hash = Hash(T[Len(T)])
  <2>1. Len(T) # 0 /\ Len(T) > 0
    <3> HIDE DEF T
    <3> QED BY <1>1, <1>8
  <2>2. mgr.info.lastPersistedBlock = mgr.height - 1 BY <1>3, <1>4, <2>1, Zenon DEF Covers
  <2>3. acked # <<>> /\ Len(acked) \in DOMAIN acked BY <1>1, <1>3, <1>4, <2>1
  <2>4. acked[Len(acked)] = T[Len(acked)] BY <2>3, Zenon DEF IInv, AckedInv
  <2>5. mgr.hash = Hash(T[Len(T)]) BY <1>3, <1>4, <2>3, <2>4, Zenon
  <2> QED BY <2>2, <2>5, Zenon
<1>9. mgr.height = FirstBlock + Len(T) BY <1>1, <1>3
<1> QED BY <1>7, <1>8, <1>9, Zenon

\* What was acknowledged is in the files, before all else.
LEMMA KeptIs == ASSUME Induction, RInv PROVE KeepsUpToTarget
<1>1. IInv BY Zenon DEF RInv
<1>2. Len(Stored(files)) \in Nat /\ Len(acked) \in Nat /\ Len(acked) <= Len(Stored(files)) BY <1>1, Facts, Zenon
<1>3. Len(Stored(files)) >= Len(acked) BY <1>2, Zenon
<1> QED BY <1>1, <1>3, Zenon DEF IInv, FilesInv, AckedInv, KeepsUpToTarget

\* A step of a command that removes blocks finds their number recorded, and what is recorded is
\* lowered only when as many blocks are acknowledged.
Recorded ==
  /\ phase \in {"rollbackFiles", "resetFiles"} /\ Len(Stored(files')) < Len(Stored(files))
       => preResetHeight' >= Len(Stored(files))
  /\ preResetHeight' < preResetHeight => Len(acked) >= preResetHeight

\* StartRollback and ResetHeight record it, and the invariant keeps it until the store is cut.
LEMMA RecordedIs == ASSUME Induction PROVE RInv /\ [RNext]_rvars => [Recorded]_rvars
<1> SUFFICES ASSUME RInv, RNext PROVE Recorded OBVIOUS
<1>1. IInv /\ preResetHeight \in Nat /\ ~(preResetHeight < preResetHeight) BY DEF RInv, RollbackInv
<1>2. phase \in {"rollbackFiles", "resetFiles"} => preResetHeight >= Len(Stored(files))
  BY Zenon DEF RInv, RollbackInv
<1>3. ASSUME preResetHeight' = preResetHeight PROVE Recorded BY <1>1, <1>2, <1>3, Zenon DEF Recorded
<1>4. ASSUME RecordHeight, files' = files PROVE Recorded
  <2>1. ~(preResetHeight' < preResetHeight) /\ preResetHeight' >= Len(Stored(files)) BY <1>4, RecordIs, Zenon
  <2> QED BY <2>1, Zenon DEF Recorded
<1>5. CASE Next /\ UNCHANGED <<target, preResetHeight, commands>> BY <1>3, <1>5, Zenon
<1>6. CASE \E t \in 0 .. MaxHeight - 1 : StartRollback(t) BY <1>4, <1>6, Zenon DEF StartRollback
<1>7. CASE RollbackIndex \/ DeleteInfo \/ RollbackSearchFails \/ RemoveFile
  BY <1>3, <1>7, Zenon DEF RollbackIndex, DeleteInfo, RollbackSearchFails, RemoveFile
<1>8. CASE TruncateToTarget \/ StartReset \/ ResetRemoveFile \/ ResetTruncate \/ CommandReturns
  BY <1>3, <1>8, Zenon DEF TruncateToTarget, StartReset, ResetRemoveFile, ResetTruncate, CommandReturns
<1>9. CASE ResetHeight BY <1>4, <1>9, Zenon DEF ResetHeight
<1>10. CASE ClearPreResetHeight
  <2>1. phase \in Serving /\ mgr.height >= preResetHeight /\ files' = files
    BY <1>10, Zenon DEF ClearPreResetHeight, vars
  <2>2. Len(acked) >= preResetHeight BY <1>1, <2>1, ServingIs, Zenon
  <2>3. phase \notin {"rollbackFiles", "resetFiles"} BY <2>1, Zenon DEF Serving
  <2> QED BY <2>2, <2>3, Zenon DEF Recorded
<1> QED BY <1>5, <1>6, <1>7, <1>8, <1>9, <1>10 DEF RNext

\* A new store is an empty log.
LEMMA LogInit == ASSUME Induction, RInit PROVE Log!Init
<1>1. files = <<>> /\ acked = <<>> BY Zenon DEF RInit, Init
<1>2. <<>> \in Files /\ Len(<<>>) = 0 BY DEF Files
<1>3. UpTo(<<>>)[0] = <<>> BY <1>2, UpToStep, Zenon
<1> QED BY <1>1, <1>2, <1>3, Zenon DEF Stored, Log!Init

\* Each kind of step is one of the durable log.
LEMMA LogStepIs == LogStep => [Log!Next]_<<Stored(files), Len(acked)>>
<1> SUFFICES ASSUME LogStep PROVE [Log!Next]_<<Stored(files), Len(acked)>> OBVIOUS
<1> DEFINE T == Stored(files)
<1>1. CASE Stored(files') = T /\ acked' = acked BY <1>1, Zenon
<1>2. CASE \E b \in Block : Stored(files') = Append(T, b) /\ acked' = acked BY <1>2, Zenon DEF Log!Next, Log!Write
<1>3. CASE Stored(files') = T /\ Len(acked') = Len(T) BY <1>3, Zenon DEF Log!Next, Log!Acknowledge
<1>4. CASE \E n \in Len(acked) .. Len(T) : Stored(files') = SubSeq(T, 1, n) /\ acked' = acked
  BY <1>4, Zenon DEF Log!Next, Log!Discard
<1>5. CASE Stored(files') = T /\ Len(acked') \in 0 .. Len(acked) BY <1>5, Zenon DEF Log!Next, Log!Rollback
<1> QED BY <1>1, <1>2, <1>3, <1>4, <1>5 DEF LogStep

--------------------------------------------------------------------------------
(* The hypothesis of the lemmas, and the theorems *)

INSTANCE WellFoundedInduction

\* A non-empty set of natural numbers has a least element, which is 0 or a successor.
LEMMA InductionHolds == Induction
<1> SUFFICES ASSUME NEW S, 0 \in S, \A n \in Nat : n \in S => n + 1 \in S
             PROVE  Nat \subseteq S
  BY Zenon DEF Induction
<1> SUFFICES ASSUME Nat \ S # {} PROVE FALSE OBVIOUS
<1> DEFINE R == OpToRel(<, Nat)
           T == Nat \ S
<1>1. \A x, y \in Nat : <<x, y>> \in R <=> x < y BY Zenon DEF OpToRel
<1>2. IsWellFoundedOn(R, Nat) BY NatLessThanWellFounded, Zenon
<1>3. T \subseteq Nat /\ T # {} OBVIOUS
<1>4. \E x \in T : \A y \in T : ~(<<y, x>> \in R)
  <2> HIDE DEF R, T
  <2> QED BY <1>2, <1>3, WFMin, Zenon
<1>5. PICK x \in T : \A y \in T : ~(y < x) BY <1>1, <1>4, Zenon
<1>6. x \in Nat /\ x # 0 /\ x \notin S OBVIOUS
<1>7. x - 1 \in Nat /\ x - 1 < x /\ (x - 1) + 1 = x BY <1>6
<1>8. x - 1 \in S BY <1>5, <1>7
<1> QED BY <1>6, <1>7, <1>8

\* The invariant holds under the offline commands.
THEOREM RollbackInvariance == Scope /\ RSpec => []RInv
<1>1. Scope /\ RInit => RInv
  <2> SUFFICES ASSUME Scope, RInit PROVE RInv OBVIOUS
  <2>1. Init /\ target = 0 /\ preResetHeight = 0 BY Zenon DEF RInit
  <2>2. phase = "closed" BY <2>1, Zenon DEF Init
  <2> QED BY <2>1, <2>2, InitIs, InductionHolds DEF RInv, RollbackInv
<1>2. RInv /\ [RNext]_rvars => RInv' BY RNextStep, InductionHolds
<1> QED BY <1>1, <1>2, PTL DEF RSpec

\* newBlockfileMgr never fails on what crashes, failed writes and offline commands leave behind,
\* except on bytes of an incomplete block in a file that is not the newest.
THEOREM OpenedStore == Scope /\ RSpec => []OpenSucceeds
<1>1. RInv => OpenSucceeds BY DEF RInv, IInv
<1> QED BY <1>1, RollbackInvariance, PTL

\* retrieveBlockByNumber returns every acknowledged block as it was added, also after crashes,
\* failed writes, rollbacks and resets.
THEOREM RetrievedBlocks == Scope /\ RSpec => []RetrievesWhatWasAdded
<1>1. RInv => RetrievesWhatWasAdded BY RetrievesIs, InductionHolds DEF RInv
<1> QED BY <1>1, RollbackInvariance, PTL

\* Whenever the manager waits for a block, its files, index, blockfilesInfo, height and hash
\* all end at the last acknowledged block.
THEOREM IdleStore == Scope /\ RSpec => []IdleIsInSync
<1>1. RInv => IdleIsInSync BY IdleIs, InductionHolds, Zenon DEF RInv
<1> QED BY <1>1, RollbackInvariance, PTL

\* A rollback, at every one of its steps, keeps the blocks up to its target.
THEOREM KeptBlocks == Scope /\ RSpec => []KeepsUpToTarget
<1>1. RInv => KeepsUpToTarget BY KeptIs, InductionHolds, Zenon
<1> QED BY <1>1, RollbackInvariance, PTL

\* Rollback and reset have recorded the height of the store when they take a block away, and what
\* they recorded is forgotten only when the ledger is as high again.
THEOREM RecordedHeight == Scope /\ RSpec => HeightStaysRecorded
<1>1. RInv /\ [RNext]_rvars => [Recorded]_rvars BY RecordedIs, InductionHolds, Zenon
<1>2. Scope /\ RSpec => [][Recorded]_rvars BY <1>1, RollbackInvariance, PTL DEF RSpec
<1> QED BY <1>2, Zenon DEF HeightStaysRecorded, Recorded

\* The block store implements the durable log: what was acknowledged is lost only to a rollback.
THEOREM DurableStore == Scope /\ RSpec => IsDurableLog
<1>1. Scope /\ RInit => Log!Init BY LogInit, InductionHolds, Zenon
<1>2. RInv /\ [RNext]_rvars => [Log!Next]_<<Stored(files), Len(acked)>> BY RNextStep, LogStepIs, InductionHolds
<1> QED BY <1>1, <1>2, RollbackInvariance, PTL DEF RSpec, IsDurableLog, Log!Spec

\* newBlockfileMgr always opens a store that was never rolled back, wherever the process had died.
THEOREM OpeningStore == Scope /\ Spec => []NeverFails
<1>1. Scope /\ Init => SInv BY OpeningInit, InductionHolds, Zenon
<1>2. SInv /\ [Next]_vars => SInv' BY OpeningStep, InductionHolds, Zenon
<1>3. SInv => NeverFails BY Zenon DEF SInv
<1> QED BY <1>1, <1>2, <1>3, PTL DEF Spec
================================================================================

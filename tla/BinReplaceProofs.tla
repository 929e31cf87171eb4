-------------------------- MODULE BinReplaceProofs --------------------------
(* Theorems about BinReplace: for any processes, versions, names, budget of *)
(* faults and platform, when one process at a time replaces the program.    *)
EXTENDS BinReplace, TLAPS, FiniteSetTheorems, SequenceTheorems, WellFoundedInduction

USE BinAssumption

StageNames == {"new", "rollback"}
Homes      == {Exe} \cup {<<a>> : a \in OldNames}          \* where a program may be replaced
Progs      == Homes \cup {<<a, b>> : a, b \in OldNames}    \* all paths but the staging files

(* TypeOK without the number of backups. *)
TypeInv ==
  /\ os \in Platforms /\ fs \in [Paths -> File] /\ backups \in [Paths -> Seq(BackupFile)]
  /\ names \subseteq OldNames
  /\ alive \in [Procs -> BOOLEAN] /\ running \in [Procs -> Versions]
  /\ img \in [Procs -> Paths \cup {Gone}] /\ fd \in [Procs -> Paths \cup {Gone}]
  /\ name \in [Procs -> Paths]
  /\ pc \in [Procs -> Steps] /\ job \in [Procs -> Job]
  /\ out \in [Procs -> {"none", "ok", "failed", "lost", "nobackup"}]
  /\ left \in [Events -> Nat] /\ \A e \in Events : left[e] <= Budget[e]

(* One replacement at a time, by a process that runs. *)
BusyInv == \A p \in Procs : pc[p] # "idle" => alive[p] /\ \A q \in Procs \ {p} : pc[q] = "idle"

(* A process never takes a staging file for the program; on Windows the     *)
(* program keeps its name, and on Linux a process whose program still has   *)
(* it runs from there.  A running image on Windows is never lost.           *)
NameInv == \A p \in Procs :
  /\ name[p] \in Progs /\ img[p] \in Progs \cup {Gone}
  /\ img[p] # Gone => alive[p] /\ fs[img[p]].here
  /\ os = "windows" => name[p] = Exe /\ (alive[p] => img[p] # Gone)
  /\ os = "linux" /\ alive[p] /\ name[p] = Exe => img[p] = Exe

(* The program being replaced is the one os.Executable names, until it is   *)
(* moved away to a .old name; then its place is free.                       *)
JobInv == \A p \in Procs :
  /\ job[p].exe \in Homes /\ (os = "windows" => job[p].exe = Exe)
  /\ pc[p] \in {"backup", "create", "write", "sweep", "away"} => job[p].exe = name[p]
  /\ pc[p] \in {"away", "place", "recover", "dispose"} => \E n \in OldNames : job[p].old = Append(job[p].exe, n)
  /\ pc[p] \in {"place", "recover"} => ~ fs[job[p].exe].here

(* From the end of the copy until it is in place the staging file is there, *)
(* young enough to be left alone by a sweep, and what the job says; then    *)
(* the program is.                                                          *)
Holds(x, j) == fs[x].here /\ fs[x].fresh /\ fs[x].ver = j.ver
StageInv == \A p \in Procs :
  /\ fd[p] # Gone => pc[p] = "write"
  /\ pc[p] = "write" => fd[p] = Stage(p)
  /\ pc[p] \in {"write", "sweep", "away", "place", "recover"} => Holds(Stage(p), job[p])
  /\ pc[p] \in {"sweep", "away", "place", "recover"} => (fs[Stage(p)].whole <=> job[p].whole)
  /\ pc[p] = "dispose" => Holds(job[p].exe, job[p]) /\ (fs[job[p].exe].whole <=> job[p].whole)

(* Unless a backup was cut short, everything but staging files is whole. *)
WholeInv == Spent("cut") = 0 =>
  /\ \A x \in Progs : fs[x].here => fs[x].whole
  /\ \A e \in Paths : \A i \in DOMAIN backups[e] : backups[e][i].whole
  /\ \A p \in Procs : job[p].whole

(* The program is missing only between the two renames, with the old one at *)
(* hand; the second has failed when it is being put back.                   *)
PresentInv == Spent("crash") = 0 /\ Spent("fail") <= 1 =>
  \/ There(Exe)
  \/ \E p \in Procs : /\ pc[p] \in {"place", "recover"} /\ job[p].exe = Exe /\ There(job[p].old)
                      /\ pc[p] = "recover" => Spent("fail") = 1

(* On Linux the program or a whole staging file of it is there; on Windows  *)
(* some whole file.                                                         *)
CopyInv == Spent("cut") = 0 =>
  /\ os = "linux" => There(Exe) \/ \E s \in StageNames : There(<<s>>) /\ fs[<<s>>].whole
  /\ os = "windows" => \E x \in Paths : There(x) /\ fs[x].whole

BinInv == TypeInv /\ BusyInv /\ NameInv /\ JobInv /\ StageInv /\ WholeInv /\ PresentInv /\ CopyInv

-----------------------------------------------------------------------------
(* Paths *)

LEMMA AppendPair == ASSUME NEW a, NEW s PROVE Append(<<a>>, s) = <<a, s>>
<1> DEFINE S == {a, s}
           t == Append(<<a>>, s)
           u == <<a, s>>
<1>1. <<a>> \in Seq(S) /\ u \in Seq(S)  OBVIOUS
<1>2. Len(<<a>>) = 1 /\ Len(u) = 2 /\ u[1] = a /\ u[2] = s  OBVIOUS
<1>3. t \in Seq(S) /\ Len(t) = 2 /\ t[1] = a /\ t[2] = s  BY <1>1, <1>2
<1> HIDE DEF t, u, S
<1>4. \A i \in 1..Len(t) : i = 1 \/ i = 2  BY <1>3
<1>5. t = u  BY <1>1, <1>2, <1>3, <1>4, SeqEqual
<1> QED  BY <1>5 DEF t, u

LEMMA StagePaths ==
  ASSUME NEW e \in Homes, NEW s \in StageNames
  PROVE  Append(e, s) \in Paths /\ Append(e, s) \notin Progs
<1>1. s \notin OldNames /\ s \in Suffix  BY DEF StageNames, Suffix
<1>2. CASE e = Exe
  <2>1. Append(e, s) = <<s>>  BY <1>2 DEF Exe
  <2> QED  BY <1>1, <2>1 DEF Paths, Progs, Homes, Exe
<1>3. ASSUME NEW a \in OldNames, e = <<a>> PROVE Append(e, s) \in Paths /\ Append(e, s) \notin Progs
  <2>1. Append(e, s) = <<a, s>>  BY <1>3, AppendPair
  <2> QED  BY <1>1, <2>1 DEF Paths, Progs, Homes, Exe
<1> QED  BY <1>2, <1>3 DEF Homes

LEMMA OldPaths ==
  ASSUME NEW e \in Homes, NEW n \in OldNames
  PROVE  Append(e, n) \in Progs /\ Append(e, n) # e /\ Append(e, n) # Exe
<1>1. CASE e = Exe
  <2>1. Append(e, n) = <<n>>  BY <1>1 DEF Exe
  <2> QED  BY <1>1, <2>1 DEF Progs, Homes, Exe
<1>2. ASSUME NEW a \in OldNames, e = <<a>>
      PROVE  Append(e, n) \in Progs /\ Append(e, n) # e /\ Append(e, n) # Exe
  <2>1. Append(e, n) = <<a, n>>  BY <1>2, AppendPair
  <2> QED  BY <1>2, <2>1 DEF Progs, Homes, Exe
<1> QED  BY <1>1, <1>2 DEF Homes

LEMMA ProgPaths ==
  /\ Homes \subseteq Progs /\ Progs \subseteq Paths /\ Exe \in Homes
  /\ \A s \in StageNames : Append(Exe, s) = <<s>> /\ <<s>> \in Paths /\ <<s>> # Exe
<1>1. Homes \subseteq Progs /\ Exe \in Homes  BY DEF Progs, Homes
<1>2. Progs \subseteq Paths  BY DEF Progs, Homes, Paths, Suffix
<1>3. \A s \in StageNames : Append(Exe, s) = <<s>> /\ <<s>> \in Paths /\ <<s>> # Exe
  BY DEF StageNames, Paths, Suffix, Exe
<1> QED  BY <1>1, <1>2, <1>3

LEMMA GoneNoPath == Gone \notin Paths
  BY DEF Gone, Paths, Exe, Suffix

LEMMA ShortName == ASSUME NEW x \in Progs, Len(x) < 2 PROVE x \in Homes
<1>1. ASSUME NEW a \in OldNames, NEW b \in OldNames, x = <<a, b>> PROVE FALSE  BY <1>1
<1> QED  BY <1>1 DEF Progs

(* What may be swept is not the program, and is old. *)
LEMMA LeftoversAre ==
  ASSUME NEW e \in Homes, NEW g \in BOOLEAN
  PROVE  /\ Leftovers(e, g) \subseteq Paths /\ Exe \notin Leftovers(e, g)
         /\ \A x \in Leftovers(e, g) : ~ fs[x].fresh /\ ~ Locked(x)
         /\ ~ g => Leftovers(e, g) \subseteq Progs
<1>1. /\ Leftovers(e, g) \subseteq Paths
      /\ \A x \in Leftovers(e, g) : ~ fs[x].fresh /\ ~ Locked(x)
  BY DEF Leftovers
<1>2. \A s \in OldNames \cup StageNames : Append(e, s) # Exe
  <2>1. \A s \in OldNames : Append(e, s) # Exe  BY OldPaths
  <2>2. \A s \in StageNames : Append(e, s) \notin Progs  BY StagePaths
  <2>3. Exe \in Progs  BY ProgPaths
  <2> QED  BY <2>1, <2>2, <2>3
<1>3. Exe \notin Leftovers(e, g)  BY <1>2 DEF Leftovers, StageNames
<1>4. ~ g => Leftovers(e, g) \subseteq Progs  BY OldPaths DEF Leftovers
<1> QED  BY <1>1, <1>3, <1>4

-----------------------------------------------------------------------------
(* The budget, and the file operations *)

(* The budget only gets less: what has not happened by now had not before.  *)
LeftKeeps == left' \in [Events -> Nat] /\ \A k \in Events : left'[k] <= left[k]

LEMMA SpendDoes ==
  ASSUME TypeInv, NEW e \in Events, Spend(e)
  PROVE  LeftKeeps /\ left'[e] = left[e] - 1 /\ left[e] > 0 /\ \A k \in Events \ {e} : left'[k] = left[k]
  BY DEF TypeInv, Spend, LeftKeeps

LEMMA SameLeft == ASSUME TypeInv, UNCHANGED left PROVE LeftKeeps
  BY DEF TypeInv, LeftKeeps

LEMMA LeftDoes ==
  ASSUME TypeInv, LeftKeeps
  PROVE  /\ \A k \in Events : left'[k] <= Budget[k]
         /\ Spent("cut")' = 0 => Spent("cut") = 0
         /\ Spent("crash")' = 0 /\ Spent("fail")' <= 1 => Spent("crash") = 0 /\ Spent("fail") <= 1
<1>1. {"cut", "crash", "fail"} \subseteq Events  BY DEF Events
<1>2. \A k \in Events : left[k] \in Nat /\ left'[k] \in Nat /\ Budget[k] \in Nat
                        /\ left'[k] <= left[k] /\ left[k] <= Budget[k]
  BY DEF TypeInv, LeftKeeps
<1> QED  BY <1>1, <1>2 DEF Spent

LEMMA NoFileIs == NoFile \in File /\ NoFile.here = FALSE
  BY DEF NoFile, File

LEMMA RenameDoes ==
  ASSUME TypeInv, NEW a \in Paths, NEW b \in Paths, a # b, Rename(a, b)
  PROVE  /\ fs' \in [Paths -> File] /\ fs'[b] = fs[a] /\ ~ fs'[a].here
         /\ \A x \in Paths \ {a, b} : fs'[x] = fs[x]
         /\ img' \in [Procs -> Paths \cup {Gone}]
         /\ \A q \in Procs : img'[q] = IF img[q] = a THEN b ELSE IF img[q] = b THEN Gone ELSE img[q]
         /\ fd' \in [Procs -> Paths \cup {Gone}]
         /\ \A q \in Procs : fd'[q] = IF fd[q] = a THEN b ELSE IF fd[q] = b THEN Gone ELSE fd[q]
         /\ name' \in [Procs -> Paths]
         /\ \A q \in Procs : name'[q] = IF os = "linux" /\ alive[q] /\ img[q] = a THEN b ELSE name[q]
<1>1. /\ fs' \in [Paths -> File] /\ fs'[b] = fs[a] /\ ~ fs'[a].here
      /\ \A x \in Paths \ {a, b} : fs'[x] = fs[x]
  BY NoFileIs DEF Rename, TypeInv
<1>2. /\ img' \in [Procs -> Paths \cup {Gone}]
      /\ \A q \in Procs : img'[q] = IF img[q] = a THEN b ELSE IF img[q] = b THEN Gone ELSE img[q]
  BY DEF Rename, Follow, TypeInv
<1>3. /\ fd' \in [Procs -> Paths \cup {Gone}]
      /\ \A q \in Procs : fd'[q] = IF fd[q] = a THEN b ELSE IF fd[q] = b THEN Gone ELSE fd[q]
  BY DEF Rename, Follow, TypeInv
<1>4. /\ name' \in [Procs -> Paths]
      /\ \A q \in Procs : name'[q] = IF os = "linux" /\ alive[q] /\ img[q] = a THEN b ELSE name[q]
  BY DEF Rename, NameAfter, TypeInv
<1> QED  BY <1>1, <1>2, <1>3, <1>4

LEMMA UnlinkDoes ==
  ASSUME TypeInv, NEW X \in SUBSET Paths, Unlink(X)
  PROVE  /\ fs' \in [Paths -> File] /\ \A x \in Paths : IF x \in X THEN ~ fs'[x].here ELSE fs'[x] = fs[x]
         /\ img' \in [Procs -> Paths \cup {Gone}]
         /\ \A q \in Procs : img'[q] = IF img[q] \in X THEN Gone ELSE img[q]
         /\ fd' \in [Procs -> Paths \cup {Gone}]
         /\ \A q \in Procs : fd'[q] = IF fd[q] \in X THEN Gone ELSE fd[q]
  BY NoFileIs DEF Unlink, Lose, TypeInv

(* Only the process that is replacing the program has a file open. *)
LEMMA OnlyOne ==
  ASSUME BinInv, NEW p \in Procs, pc[p] # "idle"
  PROVE  /\ alive[p] /\ \A q \in Procs \ {p} : pc[q] = "idle" /\ fd[q] = Gone
         /\ job[p].exe \in Homes /\ job[p].exe \in Progs /\ job[p].exe \in Paths
         /\ Stage(p) \in Paths /\ Stage(p) \notin Progs
         /\ pc[p] # "write" => fd[p] = Gone
<1>1. alive[p] /\ \A q \in Procs \ {p} : pc[q] = "idle"  BY DEF BinInv, BusyInv
<1>2. \A q \in Procs : pc[q] # "write" => fd[q] = Gone  BY DEF BinInv, StageInv
<1>3. job[p].exe \in Homes /\ job[p].stage \in StageNames
  BY DEF BinInv, JobInv, TypeInv, Job, StageNames
<1>4. Stage(p) \in Paths /\ Stage(p) \notin Progs  BY <1>3, StagePaths DEF Stage
<1> QED  BY <1>1, <1>2, <1>3, <1>4, ProgPaths

(* The old file of a replacement that has chosen its name. *)
LEMMA OldIs ==
  ASSUME BinInv, NEW p \in Procs, pc[p] \in {"away", "place", "recover", "dispose"}
  PROVE  job[p].old \in Progs /\ job[p].old \in Paths /\ job[p].old # job[p].exe /\ job[p].old # Exe
<1>1. PICK n \in OldNames : job[p].old = Append(job[p].exe, n)  BY DEF BinInv, JobInv
<1> QED  BY <1>1, OldPaths, ProgPaths DEF BinInv, JobInv

-----------------------------------------------------------------------------
(* The invariant, action by action *)

LEMMA GotoDoes ==
  ASSUME TypeInv, NEW p \in Procs, NEW l \in Steps, Goto(p, l)
  PROVE  pc' \in [Procs -> Steps] /\ pc'[p] = l /\ \A q \in Procs \ {p} : pc'[q] = pc[q]
  BY DEF TypeInv, Goto

LEMMA BusyKept ==
  ASSUME BinInv, NEW p \in Procs, pc[p] # "idle", NEW l \in Steps, Goto(p, l), UNCHANGED alive
  PROVE  BusyInv'
  BY GotoDoes DEF BinInv, BusyInv

LEMMA EndDoes ==
  ASSUME TypeInv, NEW p \in Procs, NEW how \in {"none", "ok", "failed", "lost"}, End(p, how)
  PROVE  Goto(p, "idle") /\ out' \in [Procs -> {"none", "ok", "failed", "lost", "nobackup"}]
  BY DEF TypeInv, End

(* Nobody is busy when a replacement begins, and the program is there. *)
LEMMA NoneBusy == ASSUME BinInv, MaxBusy <= 1, Cardinality(Busy) < MaxBusy PROVE \A q \in Procs : pc[q] = "idle"
<1>1. IsFiniteSet(Busy)  BY FS_Subset DEF Busy
<1>2. Cardinality(Busy) \in Nat  BY <1>1, FS_CardinalityType
<1>3. Cardinality(Busy) = 0  BY <1>2
<1>4. Busy = {}  BY <1>1, <1>3, FS_EmptySet
<1> QED  BY <1>4 DEF Busy

LEMMA BeginKeeps ==
  ASSUME BinInv, MaxBusy <= 1, NEW p \in Procs, NEW l \in {"backup", "create"}, NEW j \in Job,
         j.exe = name[p], Spent("cut") = 0 => j.whole, Begin(p, l, j)
  PROVE  BinInv'
<1> USE DEF BinInv
<1>1. /\ alive[p] /\ pc[p] = "idle" /\ Goto(p, l) /\ job' = [job EXCEPT ![p] = j]
      /\ out' = [out EXCEPT ![p] = "none"] /\ Len(name[p]) < 2
      /\ UNCHANGED <<os, fs, backups, names, alive, img, name, running, fd>>
  BY DEF Begin, procVars
<1>2. \A q \in Procs : pc[q] = "idle"  BY NoneBusy DEF Begin
<1>3. LeftKeeps  BY SpendDoes DEF Begin, Events
<1>4. pc' \in [Procs -> Steps] /\ pc'[p] = l /\ \A q \in Procs \ {p} : pc'[q] = "idle"
  BY <1>1, <1>2, GotoDoes DEF Steps
<1>5. job' \in [Procs -> Job] /\ job'[p] = j /\ \A q \in Procs \ {p} : job'[q] = job[q]
  BY <1>1 DEF TypeInv
<1>6. TypeInv'  BY <1>1, <1>3, <1>4, <1>5, LeftDoes DEF TypeInv, LeftKeeps
<1>7. BusyInv'  BY <1>1, <1>4 DEF BusyInv
<1>8. NameInv'  BY <1>1 DEF NameInv
<1>9. JobInv'
  <2>1. name[p] \in Homes  BY <1>1, ShortName DEF NameInv
  <2> QED  BY <1>1, <1>4, <1>5, <2>1 DEF JobInv, NameInv
<1>10. StageInv'  BY <1>1, <1>2, <1>4 DEF StageInv
<1>11. WholeInv'  BY <1>1, <1>3, <1>5, LeftDoes DEF WholeInv
<1>12. PresentInv'  BY <1>1, <1>2, <1>3, LeftDoes DEF PresentInv, There
<1>13. CopyInv'  BY <1>1, <1>3, LeftDoes DEF CopyInv, There
<1> QED  BY <1>6, <1>7, <1>8, <1>9, <1>10, <1>11, <1>12, <1>13

LEMMA StartInstallKeeps ==
  ASSUME BinInv, MaxBusy <= 1, NEW p \in Procs, NEW v \in Versions, StartInstall(p, v) PROVE BinInv'
<1> DEFINE j == [exe |-> name[p], stage |-> "new", old |-> Gone, ver |-> v, whole |-> TRUE]
<1>1. j \in Job  BY DEF Job, BinInv, TypeInv
<1>2. Begin(p, "backup", j)  BY DEF StartInstall
<1>3. j.exe = name[p] /\ j.whole  OBVIOUS
<1> HIDE DEF j
<1> QED  BY <1>1, <1>2, <1>3, BeginKeeps

(* A list of backups has a first one that is asked for. *)
LEMMA Least == ASSUME NEW T \in SUBSET Nat, T # {} PROVE \E i \in T : \A j \in T : i <= j
<1>1. IsWellFoundedOn(OpToRel(<, Nat), Nat)  BY NatLessThanWellFounded
<1>2. PICK i \in T : \A j \in T : ~ (<<j, i>> \in OpToRel(<, Nat))  BY <1>1, WFMin
<1>3. \A j \in T : ~ (j < i)  BY <1>2 DEF OpToRel
<1> QED  BY <1>3

LEMMA TargetIs ==
  ASSUME BinInv, NEW p \in Procs, NEW l, Asked(p, l) # {}
  PROVE  Target(p, l) \in BackupFile /\ (Spent("cut") = 0 => Target(p, l).whole)
<1> DEFINE i == CHOOSE i \in Asked(p, l) : \A j \in Asked(p, l) : i <= j
<1>1. name[p] \in Paths /\ Listed(p) \in Seq(BackupFile)  BY DEF Listed, BinInv, TypeInv
<1>2. Asked(p, l) \in SUBSET Nat  BY <1>1 DEF Asked
<1>3. i \in Asked(p, l)  BY <1>2, Least
<1>4. i \in DOMAIN Listed(p) /\ Target(p, l) = Listed(p)[i]  BY <1>3 DEF Asked, Target
<1> HIDE DEF i
<1>5. Target(p, l) \in BackupFile  BY <1>1, <1>4
<1> QED  BY <1>1, <1>4, <1>5 DEF Listed, BinInv, WholeInv

LEMMA StartRollbackKeeps ==
  ASSUME BinInv, MaxBusy <= 1, NEW p \in Procs, NEW l, StartRollback(p, l) PROVE BinInv'
<1> DEFINE b == Target(p, l)
           j == [exe |-> name[p], stage |-> "rollback", old |-> Gone, ver |-> b.ver, whole |-> b.whole]
<1>1. b \in BackupFile /\ (Spent("cut") = 0 => b.whole)  BY TargetIs DEF StartRollback
<1>2. Begin(p, "create", j)  BY DEF StartRollback
<1> HIDE DEF b
<1>3. j \in Job /\ j.exe = name[p] /\ j.whole = b.whole  BY <1>1 DEF Job, BackupFile, BinInv, TypeInv
<1> HIDE DEF j
<1> QED  BY <1>1, <1>2, <1>3, BeginKeeps

(* A step that leaves everything but out and the budget alone. *)
LEMMA NoBackupKeeps == ASSUME BinInv, NEW p \in Procs, NEW l, NoBackup(p, l) PROVE BinInv'
<1> USE DEF BinInv
<1>1. UNCHANGED <<os, fs, backups, names, alive, img, name, running, fd, pc, job>>
  BY DEF NoBackup, procVars
<1>2. LeftKeeps /\ Spent("fail")' = Spent("fail")
  BY SpendDoes DEF NoBackup, Events, Spent
<1>3. TypeInv'  BY <1>1, <1>2, LeftDoes DEF TypeInv, LeftKeeps, NoBackup
<1>4. BusyInv' /\ NameInv' /\ JobInv'  BY <1>1 DEF BusyInv, NameInv, JobInv
<1>5. StageInv'  BY <1>1 DEF StageInv, Stage, Holds
<1>6. WholeInv'  BY <1>1, <1>2, LeftDoes DEF WholeInv
<1>7. PresentInv'  BY <1>1, <1>2, LeftDoes DEF PresentInv, There
<1>8. CopyInv'  BY <1>1, <1>2, LeftDoes DEF CopyInv, There
<1> QED  BY <1>3, <1>4, <1>5, <1>6, <1>7, <1>8

(* CleanupOldBackups keeps a first part of the list. *)
LEMMA CleanupIs ==
  ASSUME NEW S, NEW s \in Seq(S)
  PROVE  /\ Cleanup(s) \in Seq(S)
         /\ \A i \in DOMAIN Cleanup(s) : i \in DOMAIN s /\ Cleanup(s)[i] = s[i]
<1> DEFINE K == {i \in 1..Len(s) : FileNo(s, i) <= KeepCount}
           n == Cardinality(K)
<1>1. Len(s) \in Nat /\ IsFiniteSet(1..Len(s)) /\ Cardinality(1..Len(s)) = Len(s)
  <2>1. Len(s) \in Nat  OBVIOUS
  <2>2. \A m \in Nat : IsFiniteSet(1..m) /\ Cardinality(1..m) = IF 1 > m THEN 0 ELSE m - 1 + 1
    BY FS_Interval
  <2> QED  BY <2>1, <2>2
<1>2. K \subseteq 1..Len(s)  OBVIOUS
<1>3. n \in Nat /\ n <= Len(s)  BY <1>1, <1>2, FS_Subset, FS_CardinalityType
<1>4. Cleanup(s) = SubSeq(s, 1, n)  BY DEF Cleanup
<1> HIDE DEF n
<1>5. /\ SubSeq(s, 1, n) \in Seq(S) /\ Len(SubSeq(s, 1, n)) = n
      /\ \A i \in 1..n : SubSeq(s, 1, n)[i] = s[i]
  BY <1>1, <1>3
<1> QED  BY <1>1, <1>3, <1>4, <1>5

LEMMA AddedIs ==
  ASSUME NEW S, NEW s \in Seq(S), NEW b \in S
  PROVE  /\ <<b>> \o s \in Seq(S) /\ Len(<<b>> \o s) = Len(s) + 1 /\ (<<b>> \o s)[1] = b
         /\ \A i \in DOMAIN (<<b>> \o s) : (<<b>> \o s)[i] = b \/ \E k \in DOMAIN s : (<<b>> \o s)[i] = s[k]
<1>1. <<b>> \in Seq(S) /\ Len(<<b>>) = 1 /\ <<b>>[1] = b  OBVIOUS
<1>2. /\ <<b>> \o s \in Seq(S) /\ Len(<<b>> \o s) = 1 + Len(s)
      /\ \A i \in 1..(1 + Len(s)) : (<<b>> \o s)[i] = IF i <= 1 THEN <<b>>[i] ELSE s[i - 1]
  BY <1>1, ConcatProperties
<1> QED  BY <1>1, <1>2

(* The copy of a program that is whole is whole; the clean-up only removes. *)
LEMMA SaveBackupDoes ==
  ASSUME BinInv, NEW p \in Procs, NEW w \in BOOLEAN, There(name[p]), SaveBackup(p, w)
  PROVE  /\ backups' \in [Paths -> Seq(BackupFile)]
         /\ Spent("cut") = 0 /\ w => \A e \in Paths : \A i \in DOMAIN backups'[e] : backups'[e][i].whole
<1> DEFINE e == name[p]
           b == [label |-> IF w THEN running[p] ELSE Unknown, ver |-> fs[e].ver, whole |-> w /\ fs[e].whole]
           s == <<b>> \o backups[e]
           t == IF w THEN Cleanup(s) ELSE s
<1>1. e \in Paths /\ e \in Progs /\ fs[e] \in File /\ backups[e] \in Seq(BackupFile)
  BY DEF BinInv, TypeInv, NameInv
<1>2. backups' = [backups EXCEPT ![e] = t]  BY DEF SaveBackup
<1>3. b \in BackupFile  BY <1>1 DEF BackupFile, File, BinInv, TypeInv
<1>4. Spent("cut") = 0 /\ w => b.whole  BY <1>1 DEF BinInv, WholeInv, There
<1> HIDE DEF b
<1>5. /\ s \in Seq(BackupFile)
      /\ \A i \in DOMAIN s : s[i] = b \/ \E k \in DOMAIN backups[e] : s[i] = backups[e][k]
  BY <1>1, <1>3, AddedIs
<1> HIDE DEF s
<1>6. t \in Seq(BackupFile) /\ \A i \in DOMAIN t : \E k \in DOMAIN s : t[i] = s[k]  BY <1>5, CleanupIs
<1> HIDE DEF t
<1>7. Spent("cut") = 0 /\ w => \A i \in DOMAIN t : t[i].whole
  <2> SUFFICES ASSUME Spent("cut") = 0, w, NEW i \in DOMAIN t PROVE t[i].whole  OBVIOUS
  <2>1. PICK k \in DOMAIN s : t[i] = s[k]  BY <1>6
  <2>2. \A m \in DOMAIN backups[e] : backups[e][m].whole  BY <1>1 DEF BinInv, WholeInv
  <2> QED  BY <1>4, <1>5, <2>1, <2>2
<1>8. Spent("cut") = 0 => \A d \in Paths : \A i \in DOMAIN backups[d] : backups[d][i].whole
  BY DEF BinInv, WholeInv
<1> HIDE DEF e
<1> QED  BY <1>1, <1>2, <1>6, <1>7, <1>8 DEF BinInv, TypeInv

LEMMA BackupKeeps == ASSUME BinInv, NEW p \in Procs, Backup(p) PROVE BinInv'
<1> USE DEF BinInv
<1>1. /\ pc[p] = "backup" /\ Goto(p, "create") /\ job' = [job EXCEPT ![p].exe = name[p]]
      /\ UNCHANGED <<os, fs, names, alive, img, name, running, fd, out>>
  BY DEF Backup, procVars
<1>2. job' = job
  <2>1. job[p].exe = name[p] /\ job[p] \in Job  BY <1>1 DEF JobInv, TypeInv
  <2>2. [job[p] EXCEPT !.exe = name[p]] = job[p]  BY <2>1 DEF Job
  <2>3. job' = [job EXCEPT ![p] = [job[p] EXCEPT !.exe = name[p]]]  BY <1>1
  <2> QED  BY <2>2, <2>3 DEF TypeInv
<1>3. /\ pc' \in [Procs -> Steps] /\ pc'[p] = "create" /\ \A q \in Procs \ {p} : pc'[q] = pc[q]
      /\ \A q \in Procs \ {p} : pc[q] = "idle" /\ fd[q] = Gone
      /\ fd[p] = Gone
  BY <1>1, GotoDoes, OnlyOne DEF Steps
<1>4. /\ LeftKeeps /\ backups' \in [Paths -> Seq(BackupFile)] /\ Spent("fail")' = Spent("fail")
      /\ Spent("cut")' = 0 => \A e \in Paths : \A i \in DOMAIN backups'[e] : backups'[e][i].whole
  <2>1. CASE There(name[p]) /\ SaveBackup(p, TRUE) /\ UNCHANGED left
    BY <2>1, SaveBackupDoes, SameLeft DEF Spent
  <2>2. CASE There(name[p]) /\ Spend("cut") /\ SaveBackup(p, FALSE)
    <3>1. LeftKeeps /\ left'["cut"] = left["cut"] - 1 /\ left'["fail"] = left["fail"]
      BY <2>2, SpendDoes DEF Events
    <3>2. left["cut"] \in Nat /\ left["cut"] <= Budget["cut"] /\ Budget["cut"] \in Nat
      BY DEF TypeInv, Events
    <3>3. Spent("cut")' # 0  BY <3>1, <3>2 DEF Spent
    <3> QED  BY <2>2, <3>1, <3>3, SaveBackupDoes DEF Spent
  <2>3. CASE ~There(name[p]) /\ UNCHANGED <<backups, left>>
    BY <2>3, SameLeft DEF TypeInv, WholeInv, Spent
  <2> QED  BY <2>1, <2>2, <2>3 DEF Backup
<1>5. TypeInv'  BY <1>1, <1>2, <1>3, <1>4, LeftDoes DEF TypeInv, LeftKeeps
<1>6. BusyInv'  BY <1>1, BusyKept DEF Steps
<1>7. NameInv'  BY <1>1 DEF NameInv
<1>8. JobInv'  BY <1>1, <1>2, <1>3 DEF JobInv
<1>9. StageInv'  BY <1>1, <1>2, <1>3 DEF StageInv
<1>10. WholeInv'  BY <1>1, <1>2, <1>4, LeftDoes DEF WholeInv
<1>11. PresentInv'  BY <1>1, <1>2, <1>3, <1>4, LeftDoes DEF PresentInv, There
<1>12. CopyInv'  BY <1>1, <1>4, LeftDoes DEF CopyInv, There
<1> QED  BY <1>5, <1>6, <1>7, <1>8, <1>9, <1>10, <1>11, <1>12

(* A replacement ends and leaves every file where it is. *)
LEMMA EndKeeps ==
  ASSUME BinInv, NEW p \in Procs, pc[p] \notin {"idle", "write"}, NEW how \in {"ok", "failed", "lost"},
         End(p, how), UNCHANGED <<os, fs, backups, names, alive, img, name, running, job, fd>>,
         LeftKeeps, PresentInv'
  PROVE  BinInv'
<1> USE DEF BinInv
<1>1. /\ Goto(p, "idle") /\ out' \in [Procs -> {"none", "ok", "failed", "lost", "nobackup"}]
      /\ pc' \in [Procs -> Steps] /\ pc'[p] = "idle" /\ \A q \in Procs \ {p} : pc'[q] = pc[q]
  BY EndDoes, GotoDoes DEF Steps
<1>2. \A q \in Procs : fd[q] = Gone /\ (q # p => pc[q] = "idle")  BY OnlyOne
<1>3. TypeInv'  BY <1>1, LeftDoes DEF TypeInv, LeftKeeps
<1>4. BusyInv'  BY <1>1, BusyKept DEF Steps
<1>5. NameInv'  BY DEF NameInv
<1>6. JobInv'  BY <1>1, <1>2 DEF JobInv
<1>7. StageInv'  BY <1>1, <1>2 DEF StageInv
<1>8. WholeInv'  BY LeftDoes DEF WholeInv
<1>9. CopyInv'  BY LeftDoes DEF CopyInv, There
<1> QED  BY <1>3, <1>4, <1>5, <1>6, <1>7, <1>8, <1>9

(* While the new version is written there is another whole copy: the        *)
(* program on Linux, or a staging file of it that nobody is writing; the    *)
(* image of the process itself on Windows.                                  *)
LEMMA CopyKept ==
  ASSUME BinInv, NEW p \in Procs, pc[p] \in {"create", "write"}, LeftKeeps, UNCHANGED os,
         \A x \in Paths \ {Stage(p)} : fs'[x] = fs[x]
  PROVE  CopyInv'
<1> USE DEF BinInv
<1> SUFFICES ASSUME Spent("cut")' = 0
             PROVE  /\ os = "linux" => fs'[Exe].here \/ \E s \in StageNames : fs'[<<s>>].here /\ fs'[<<s>>].whole
                    /\ os = "windows" => \E x \in Paths : fs'[x].here /\ fs'[x].whole
  BY DEF CopyInv, There
<1>0. Spent("cut") = 0  BY LeftDoes
<1>1. /\ alive[p] /\ job[p].exe = name[p] /\ job[p].exe \in Homes
      /\ Stage(p) \in Paths /\ Stage(p) \notin Progs
  BY OnlyOne DEF JobInv
<1>2. \A x \in Progs : x \in Paths /\ fs'[x] = fs[x]  BY <1>1, ProgPaths
<1>3. ASSUME os = "linux"
      PROVE  fs'[Exe].here \/ \E s \in StageNames : fs'[<<s>>].here /\ fs'[<<s>>].whole
  <2>1. CASE job[p].exe = Exe
    <3>1. Exe \in Progs /\ Exe # Gone  BY ProgPaths, GoneNoPath
    <3>2. img[p] = Exe  BY <1>1, <1>3, <2>1 DEF NameInv
    <3>3. fs[Exe].here  BY <3>1, <3>2 DEF NameInv
    <3> QED  BY <1>2, <3>1, <3>3
  <2>2. CASE job[p].exe # Exe
    <3>1. PICK a \in OldNames : job[p].exe = <<a>>  BY <1>1, <2>2 DEF Homes
    <3>2. Stage(p) = <<a, job[p].stage>>  BY <3>1, AppendPair DEF Stage
    <3>3. \A s \in StageNames : <<s>> # Stage(p)  BY <3>2
    <3>4. There(Exe) \/ \E s \in StageNames : There(<<s>>) /\ fs[<<s>>].whole  BY <1>0, <1>3 DEF CopyInv
    <3> QED  BY <1>2, <3>3, <3>4, ProgPaths DEF There
  <2> QED  BY <2>1, <2>2
<1>4. ASSUME os = "windows" PROVE \E x \in Paths : fs'[x].here /\ fs'[x].whole
  <2>1. img[p] \in Progs /\ fs[img[p]].here  BY <1>1, <1>4 DEF NameInv
  <2>2. fs[img[p]].whole  BY <1>0, <2>1 DEF WholeInv
  <2> QED  BY <1>2, <2>1, <2>2
<1> QED  BY <1>3, <1>4

(* The staging file changes: nobody's program is touched. *)
LEMMA StageWritten ==
  ASSUME BinInv, NEW p \in Procs, pc[p] \in {"create", "write"}, LeftKeeps,
         fs' \in [Paths -> File], \A x \in Paths \ {Stage(p)} : fs'[x] = fs[x],
         UNCHANGED <<os, backups, names, alive, img, name, running, job>>,
         NEW l \in {"write", "sweep", "idle"}, Goto(p, l),
         fd' \in [Procs -> Paths \cup {Gone}], \A q \in Procs \ {p} : fd'[q] = Gone,
         l # "write" => fd'[p] = Gone,
         out' \in [Procs -> {"none", "ok", "failed", "lost", "nobackup"}],
         l = "write" => fd'[p] = Stage(p),
         l # "idle" => fs'[Stage(p)].here /\ fs'[Stage(p)].fresh /\ fs'[Stage(p)].ver = job[p].ver,
         l = "sweep" => (fs'[Stage(p)].whole <=> job[p].whole)
  PROVE  BinInv'
<1> USE DEF BinInv
<1>1. /\ pc' \in [Procs -> Steps] /\ pc'[p] = l /\ \A q \in Procs \ {p} : pc'[q] = "idle" /\ pc[q] = "idle"
      /\ Stage(p) \in Paths /\ Stage(p) \notin Progs /\ job[p].exe = name[p]
  BY GotoDoes, OnlyOne DEF Steps, JobInv
<1>2. \A x \in Progs : fs'[x] = fs[x]  BY <1>1, ProgPaths
<1>3. Stage(p)' = Stage(p)  BY DEF Stage
<1>4. TypeInv'  BY <1>1, LeftDoes DEF TypeInv, LeftKeeps
<1>5. BusyInv'  BY BusyKept DEF Steps
<1>6. NameInv'  BY <1>2 DEF NameInv
<1>7. JobInv'  BY <1>1 DEF JobInv
<1>8. StageInv'
  <2> SUFFICES ASSUME NEW q \in Procs
        PROVE  /\ fd'[q] # Gone => pc'[q] = "write"
               /\ pc'[q] = "write" => fd'[q] = Stage(q)'
               /\ pc'[q] \in {"write", "sweep", "away", "place", "recover"} => Holds(Stage(q), job[q])'
               /\ pc'[q] \in {"sweep", "away", "place", "recover"} => (fs'[Stage(q)'].whole <=> job'[q].whole)
               /\ pc'[q] # "dispose"
    BY DEF StageInv
  <2>1. CASE q = p  BY <1>1, <1>3, <2>1 DEF Holds
  <2>2. CASE q # p  BY <1>1, <2>2
  <2> QED  BY <2>1, <2>2
<1>9. WholeInv'  BY <1>2, LeftDoes DEF WholeInv
<1>10. PresentInv'
  <2> SUFFICES ASSUME Spent("crash")' = 0, Spent("fail")' <= 1 PROVE fs'[Exe].here
    BY DEF PresentInv, There
  <2>1. There(Exe)  BY <1>1, LeftDoes DEF PresentInv
  <2> QED  BY <1>2, <2>1, ProgPaths DEF There
<1>11. CopyInv'  BY CopyKept
<1> QED  BY <1>4, <1>5, <1>6, <1>7, <1>8, <1>9, <1>10, <1>11

LEMMA CreateKeeps == ASSUME BinInv, NEW p \in Procs, Create(p) PROVE BinInv'
<1> USE DEF BinInv
<1>0. pc[p] = "create" /\ UNCHANGED <<os, backups, names, alive, img, name, running, job>>
  BY DEF Create, procVars
<1>1. CASE Spend("fail") /\ End(p, "failed") /\ UNCHANGED <<fs, fd>>
  <2>1. LeftKeeps  BY <1>1, SpendDoes DEF Events
  <2>2. There(Exe) \/ ~ (Spent("crash")' = 0 /\ Spent("fail")' <= 1)
    BY <1>0, <2>1, LeftDoes, OnlyOne DEF PresentInv
  <2>3. PresentInv'  BY <1>1, <2>2 DEF PresentInv, There
  <2> QED  BY <1>0, <1>1, <2>1, <2>3, EndKeeps
<1>2. CASE /\ fs' = [fs EXCEPT ![Stage(p)] =
                       [ver |-> job[p].ver, whole |-> FALSE, fresh |-> TRUE, here |-> TRUE]]
           /\ fd' = [(IF Locked(Stage(p)) THEN fd ELSE Lose(fd, {Stage(p)})) EXCEPT ![p] = Stage(p)]
           /\ Goto(p, "write") /\ UNCHANGED <<out, left>>
  <2> DEFINE f == [ver |-> job[p].ver, whole |-> FALSE, fresh |-> TRUE, here |-> TRUE]
             g == IF Locked(Stage(p)) THEN fd ELSE Lose(fd, {Stage(p)})
  <2>1. Stage(p) \in Paths /\ \A q \in Procs : fd[q] = Gone  BY <1>0, OnlyOne
  <2>2. f \in File /\ f.here /\ f.fresh /\ f.ver = job[p].ver  BY DEF File, TypeInv, Job
  <2>3. fs' = [fs EXCEPT ![Stage(p)] = f]  BY <1>2
  <2> HIDE DEF f
  <2>4. /\ fs' \in [Paths -> File] /\ fs'[Stage(p)] = f /\ \A x \in Paths \ {Stage(p)} : fs'[x] = fs[x]
    BY <2>1, <2>2, <2>3 DEF TypeInv
  <2>5. g \in [Procs -> Paths \cup {Gone}] /\ \A q \in Procs : g[q] = Gone
    BY <2>1 DEF Lose, TypeInv
  <2>6. fd' = [g EXCEPT ![p] = Stage(p)]  BY <1>2
  <2> HIDE DEF g
  <2>7. /\ fd' \in [Procs -> Paths \cup {Gone}] /\ fd'[p] = Stage(p) /\ \A q \in Procs \ {p} : fd'[q] = Gone
    BY <2>1, <2>5, <2>6
  <2>8. LeftKeeps /\ out' \in [Procs -> {"none", "ok", "failed", "lost", "nobackup"}]
    BY <1>2, SameLeft DEF TypeInv
  <2> QED  BY <1>0, <1>2, <2>2, <2>4, <2>7, <2>8, StageWritten
<1> QED  BY <1>1, <1>2 DEF Create

LEMMA WriteKeeps == ASSUME BinInv, NEW p \in Procs, Write(p) PROVE BinInv'
<1> USE DEF BinInv
<1>0. pc[p] = "write" /\ fd' = [fd EXCEPT ![p] = Gone]
      /\ UNCHANGED <<os, backups, names, alive, img, name, running, job>>
  BY DEF Write, procVars
<1>1. /\ Stage(p) \in Paths /\ \A q \in Procs \ {p} : fd[q] = Gone
      /\ fd[p] = Stage(p) /\ Holds(Stage(p), job[p]) /\ Stage(p) # Gone
  BY <1>0, OnlyOne, GoneNoPath DEF StageInv
<1>2. fd' \in [Procs -> Paths \cup {Gone}] /\ \A q \in Procs : fd'[q] = Gone  BY <1>0, <1>1 DEF TypeInv
<1>3. CASE WriteOk(p)
  <2> DEFINE f == [ver |-> job[p].ver, fresh |-> TRUE, here |-> TRUE,
                   whole |-> /\ job[p].whole /\ fs[fd[p]].ver = job[p].ver
                             /\ \A q \in Procs \ {p} : fd[q] # fd[p]]
  <2>1. fs' = [fs EXCEPT ![Stage(p)] = f]  BY <1>1, <1>3 DEF WriteOk
  <2>2. f \in File /\ f.here /\ f.fresh /\ f.ver = job[p].ver  BY DEF File, TypeInv, Job
  <2>3. f.whole <=> job[p].whole  BY <1>1 DEF Holds
  <2> HIDE DEF f
  <2>4. /\ fs' \in [Paths -> File] /\ fs'[Stage(p)] = f /\ \A x \in Paths \ {Stage(p)} : fs'[x] = fs[x]
    BY <1>1, <2>1, <2>2 DEF TypeInv
  <2>5. LeftKeeps /\ out' \in [Procs -> {"none", "ok", "failed", "lost", "nobackup"}] /\ Goto(p, "sweep")
    BY <1>3, SameLeft DEF TypeInv, WriteOk
  <2> QED  BY <1>0, <1>2, <2>2, <2>3, <2>4, <2>5, StageWritten
<1>4. CASE WriteError(p)
  <2>1. LeftKeeps  BY <1>4, SpendDoes DEF Events, WriteError
  <2>2. Goto(p, "idle") /\ out' \in [Procs -> {"none", "ok", "failed", "lost", "nobackup"}]
    BY <1>4, EndDoes DEF WriteError
  <2>3. fs' \in [Paths -> File] /\ \A x \in Paths \ {Stage(p)} : fs'[x] = fs[x]
    BY <1>1, <1>4, NoFileIs DEF TypeInv, WriteError
  <2> QED  BY <1>0, <1>2, <2>1, <2>2, <2>3, StageWritten
<1> QED  BY <1>3, <1>4 DEF Write

(* Files that are swept or disposed of are .old files no image on Windows   *)
(* and not the program.                                                     *)
LEMMA UnlinkKeeps ==
  ASSUME BinInv, NEW p \in Procs, pc[p] \in {"sweep", "dispose"}, NEW X \in SUBSET Progs, Exe \notin X,
         \A x \in X : ~ Locked(x), Unlink(X),
         UNCHANGED <<os, backups, alive, name, left>>, \A q \in Procs : job'[q].whole = job[q].whole
  PROVE  NameInv' /\ WholeInv' /\ CopyInv' /\ There(Exe)' = There(Exe)
<1> USE DEF BinInv
<1>1. X \in SUBSET Paths /\ Exe \in Progs /\ Exe # Gone  BY ProgPaths, GoneNoPath
<1>2. /\ \A x \in Paths : IF x \in X THEN ~ fs'[x].here ELSE fs'[x] = fs[x]
      /\ \A q \in Procs : img'[q] = IF img[q] \in X THEN Gone ELSE img[q]
  BY <1>1, UnlinkDoes
<1>3. NameInv'
  <2> SUFFICES ASSUME NEW q \in Procs
        PROVE  /\ name'[q] \in Progs /\ img'[q] \in Progs \cup {Gone}
               /\ img'[q] # Gone => alive'[q] /\ fs'[img'[q]].here
               /\ os' = "windows" => name'[q] = Exe /\ (alive'[q] => img'[q] # Gone)
               /\ os' = "linux" /\ alive'[q] /\ name'[q] = Exe => img'[q] = Exe
    BY DEF NameInv
  <2>1. os = "windows" /\ alive[q] => img[q] \notin X  BY DEF Locked
  <2>2. /\ name[q] \in Progs /\ img[q] \in Progs \cup {Gone}
        /\ img[q] # Gone => alive[q] /\ fs[img[q]].here
        /\ os = "windows" => name[q] = Exe /\ (alive[q] => img[q] # Gone)
        /\ os = "linux" /\ alive[q] /\ name[q] = Exe => img[q] = Exe
    BY DEF NameInv
  <2> QED  BY <1>1, <1>2, <2>1, <2>2, ProgPaths
<1>4. \A x \in Progs : fs'[x].here => fs[x].here /\ fs'[x] = fs[x]  BY <1>2, ProgPaths
<1>5. WholeInv'  BY <1>4 DEF WholeInv, Spent
<1>6. fs'[Exe] = fs[Exe]  BY <1>1, <1>2, ProgPaths
<1>7. CopyInv'
  <2> SUFFICES ASSUME Spent("cut") = 0
        PROVE  /\ os = "linux" => fs'[Exe].here \/ \E s \in StageNames : fs'[<<s>>].here /\ fs'[<<s>>].whole
               /\ os = "windows" => \E x \in Paths : fs'[x].here /\ fs'[x].whole
    BY DEF CopyInv, There, Spent
  <2>1. \A s \in StageNames : <<s>> \in Paths /\ <<s>> \notin X  BY ProgPaths, StagePaths
  <2>2. os = "linux" => fs'[Exe].here \/ \E s \in StageNames : fs'[<<s>>].here /\ fs'[<<s>>].whole
    BY <1>2, <1>6, <2>1 DEF CopyInv, There
  <2>3. os = "windows" => \E x \in Paths : fs'[x].here /\ fs'[x].whole
    <3> SUFFICES ASSUME os = "windows" PROVE fs'[img[p]].here /\ fs'[img[p]].whole /\ img[p] \in Paths
      OBVIOUS
    <3>1. alive[p]  BY OnlyOne
    <3>2. img[p] \in Progs /\ fs[img[p]].here /\ img[p] \notin X  BY <3>1 DEF NameInv, Locked
    <3> QED  BY <1>2, <3>2, ProgPaths DEF WholeInv
  <2> QED  BY <2>2, <2>3
<1> QED  BY <1>3, <1>5, <1>6, <1>7 DEF There

LEMMA SweepKeeps == ASSUME BinInv, NEW p \in Procs, Sweep(p) PROVE BinInv'
<1> USE DEF BinInv
<1> DEFINE X == Leftovers(job[p].exe, FALSE)
           n == CHOOSE n \in names : TRUE
<1>1. /\ pc[p] = "sweep" /\ names # {} /\ Unlink(X) /\ Goto(p, "away")
      /\ names' = names \ {n} /\ job' = [job EXCEPT ![p].old = Append(job[p].exe, n)]
      /\ UNCHANGED <<os, backups, alive, name, running, out, left>>
  BY DEF Sweep
<1>2. /\ pc' \in [Procs -> Steps] /\ pc'[p] = "away" /\ \A q \in Procs \ {p} : pc'[q] = pc[q] /\ pc[q] = "idle"
      /\ job[p].exe \in Homes /\ Stage(p) \in Paths /\ Stage(p) \notin Progs
      /\ \A q \in Procs : fd[q] = Gone
  BY <1>1, GotoDoes, OnlyOne DEF Steps
<1>3. n \in OldNames  BY <1>1 DEF TypeInv
<1>4. X \in SUBSET Progs /\ Exe \notin X /\ \A x \in X : ~ Locked(x)
  BY <1>2, LeftoversAre
<1> HIDE DEF n, X
<1>5. Append(job[p].exe, n) \in Paths  BY <1>2, <1>3, OldPaths, ProgPaths
<1>6. /\ job' \in [Procs -> Job] /\ \A q \in Procs \ {p} : job'[q] = job[q]
      /\ job'[p].exe = job[p].exe /\ job'[p].stage = job[p].stage /\ job'[p].ver = job[p].ver
      /\ job'[p].whole = job[p].whole /\ job'[p].old = Append(job[p].exe, n)
  <2> DEFINE x == [job[p] EXCEPT !.old = Append(job[p].exe, n)]
  <2>1. job[p] \in Job  BY DEF TypeInv
  <2>2. /\ x \in Job /\ x.exe = job[p].exe /\ x.stage = job[p].stage /\ x.ver = job[p].ver
        /\ x.whole = job[p].whole /\ x.old = Append(job[p].exe, n)
    BY <1>5, <2>1 DEF Job
  <2>3. job' = [job EXCEPT ![p] = x]  BY <1>1
  <2> HIDE DEF x
  <2> QED  BY <2>2, <2>3 DEF TypeInv
<1>7. /\ fs' \in [Paths -> File] /\ \A x \in Paths : IF x \in X THEN ~ fs'[x].here ELSE fs'[x] = fs[x]
      /\ img' \in [Procs -> Paths \cup {Gone}] /\ fd' \in [Procs -> Paths \cup {Gone}]
      /\ \A q \in Procs : fd'[q] = Gone
  <2>1. X \in SUBSET Paths  BY <1>4, ProgPaths
  <2> QED  BY <1>1, <1>2, <2>1, UnlinkDoes
<1>8. NameInv' /\ WholeInv' /\ CopyInv' /\ There(Exe)' = There(Exe)
  <2>1. \A q \in Procs : job'[q].whole = job[q].whole  BY <1>6
  <2> QED  BY <1>1, <1>4, <2>1, UnlinkKeeps
<1>9. TypeInv'  BY <1>1, <1>2, <1>6, <1>7 DEF TypeInv
<1>10. BusyInv'  BY <1>1, BusyKept DEF Steps
<1>11. JobInv'  BY <1>1, <1>2, <1>3, <1>6 DEF JobInv
<1>12. StageInv'
  <2>1. Stage(p)' = Stage(p) /\ fs'[Stage(p)] = fs[Stage(p)]  BY <1>2, <1>4, <1>6, <1>7 DEF Stage
  <2>2. Holds(Stage(p), job[p]) /\ (fs[Stage(p)].whole <=> job[p].whole)  BY <1>1 DEF StageInv
  <2> SUFFICES ASSUME NEW q \in Procs
        PROVE  /\ pc'[q] \in {"write", "sweep", "away", "place", "recover"} => Holds(Stage(q), job[q])'
               /\ pc'[q] \in {"sweep", "away", "place", "recover"} => (fs'[Stage(q)'].whole <=> job'[q].whole)
               /\ pc'[q] # "dispose" /\ pc'[q] # "write"
    BY <1>7 DEF StageInv
  <2>3. CASE q = p  BY <1>2, <1>6, <2>1, <2>2, <2>3 DEF Holds
  <2>4. CASE q # p  BY <1>2, <2>4
  <2> QED  BY <2>3, <2>4
<1>13. PresentInv'
  <2>1. Spent("crash") = 0 /\ Spent("fail") <= 1 => There(Exe)  BY <1>1, <1>2 DEF PresentInv
  <2> QED  BY <1>1, <1>8, <2>1 DEF PresentInv, Spent
<1> QED  BY <1>8, <1>9, <1>10, <1>11, <1>12, <1>13

(* disposeOldBinary removes the old file, unless it is an image on Windows. *)
LEMMA DisposeKeeps == ASSUME BinInv, NEW p \in Procs, Dispose(p) PROVE BinInv'
<1> USE DEF BinInv
<1> DEFINE X == {job[p].old} \cap {x \in Paths : There(x) /\ ~Locked(x)}
<1>1. /\ pc[p] = "dispose" /\ Unlink(X) /\ End(p, "ok")
      /\ UNCHANGED <<os, backups, names, alive, name, running, job, left>>
  BY DEF Dispose
<1>2. /\ Goto(p, "idle") /\ out' \in [Procs -> {"none", "ok", "failed", "lost", "nobackup"}]
      /\ pc' \in [Procs -> Steps] /\ pc'[p] = "idle" /\ \A q \in Procs \ {p} : pc'[q] = pc[q] /\ pc[q] = "idle"
      /\ \A q \in Procs : fd[q] = Gone
  BY <1>1, EndDoes, GotoDoes, OnlyOne DEF Steps
<1>3. X \in SUBSET Progs /\ Exe \notin X /\ \A x \in X : ~ Locked(x)  BY <1>1, OldIs
<1> HIDE DEF X
<1>4. /\ fs' \in [Paths -> File] /\ img' \in [Procs -> Paths \cup {Gone}]
      /\ fd' \in [Procs -> Paths \cup {Gone}] /\ \A q \in Procs : fd'[q] = Gone
  <2>1. X \in SUBSET Paths  BY <1>3, ProgPaths
  <2> QED  BY <1>1, <1>2, <2>1, UnlinkDoes
<1>5. NameInv' /\ WholeInv' /\ CopyInv' /\ There(Exe)' = There(Exe)  BY <1>1, <1>3, UnlinkKeeps
<1>6. TypeInv'  BY <1>1, <1>2, <1>4 DEF TypeInv
<1>7. BusyInv'  BY <1>1, <1>2, BusyKept DEF Steps
<1>8. JobInv'  BY <1>1, <1>2 DEF JobInv
<1>9. StageInv'  BY <1>2, <1>4 DEF StageInv
<1>10. PresentInv'
  <2>1. Spent("crash") = 0 /\ Spent("fail") <= 1 => There(Exe)  BY <1>1, <1>2 DEF PresentInv
  <2> QED  BY <1>1, <1>5, <2>1 DEF PresentInv, Spent
<1> QED  BY <1>5, <1>6, <1>7, <1>8, <1>9, <1>10

(* A file that is there is moved to a path no image on Windows has: every   *)
(* process goes on running from a file that is there.                       *)
LEMMA RenameNames ==
  ASSUME BinInv, NEW a \in Paths, NEW b \in Progs, a # b, There(a), b = Exe => ~ There(Exe),
         ~ Locked(b), Rename(a, b), UNCHANGED <<os, alive>>
  PROVE  NameInv'
<1> USE DEF BinInv
<1>1. b \in Paths /\ Gone \notin Paths  BY ProgPaths, GoneNoPath
<1>2. /\ fs'[b] = fs[a] /\ \A x \in Paths \ {a, b} : fs'[x] = fs[x]
      /\ \A q \in Procs : img'[q] = IF img[q] = a THEN b ELSE IF img[q] = b THEN Gone ELSE img[q]
      /\ \A q \in Procs : name'[q] = IF os = "linux" /\ alive[q] /\ img[q] = a THEN b ELSE name[q]
  BY <1>1, RenameDoes
<1> SUFFICES ASSUME NEW q \in Procs
      PROVE  /\ name'[q] \in Progs /\ img'[q] \in Progs \cup {Gone}
             /\ img'[q] # Gone => alive[q] /\ fs'[img'[q]].here
             /\ os = "windows" => name'[q] = Exe /\ (alive[q] => img'[q] # Gone)
             /\ os = "linux" /\ alive[q] /\ name'[q] = Exe => img'[q] = Exe
  BY DEF NameInv
<1>3. /\ name[q] \in Progs /\ img[q] \in Progs \cup {Gone}
      /\ img[q] # Gone => alive[q] /\ fs[img[q]].here
      /\ os = "windows" => name[q] = Exe /\ (alive[q] => img[q] # Gone)
      /\ os = "linux" /\ alive[q] /\ name[q] = Exe => img[q] = Exe
  BY DEF NameInv
<1>4. os = "windows" /\ alive[q] => img[q] # b  BY DEF Locked
<1>5. CASE img[q] = a  BY <1>1, <1>2, <1>3, <1>5 DEF There
<1>6. CASE img[q] = b
  <2>1. b # Exe  BY <1>1, <1>3, <1>6 DEF There
  <2> QED  BY <1>1, <1>2, <1>3, <1>4, <1>6, <2>1
<1>7. CASE img[q] \notin {a, b}  BY <1>1, <1>2, <1>3, <1>7, ProgPaths
<1> QED  BY <1>5, <1>6, <1>7

(* The staging file of a replacement under way holds a whole copy, unless a *)
(* backup was cut short.                                                    *)
LEMMA StageCopy ==
  ASSUME BinInv, NEW p \in Procs, pc[p] \in {"sweep", "away", "place", "recover"}, Spent("cut") = 0
  PROVE  /\ fs[Stage(p)].here /\ fs[Stage(p)].whole
         /\ job[p].exe = Exe => \E s \in StageNames : Stage(p) = <<s>>
<1>1. fs[Stage(p)].here /\ fs[Stage(p)].whole  BY DEF BinInv, StageInv, WholeInv, Holds
<1>2. job[p].stage \in StageNames  BY DEF BinInv, TypeInv, Job, StageNames
<1> QED  BY <1>1, <1>2, ProgPaths DEF Stage

(* Between the moves nothing keeps the program from being put in place. *)
LEMMA CanMove ==
  ASSUME BinInv, NEW p \in Procs, pc[p] \in {"place", "recover"}, NEW a \in Paths
  PROVE  ~ CannotMove(a, job[p].exe) /\ ~ Locked(job[p].exe)
<1> USE DEF BinInv
<1>1. /\ \A q \in Procs : fd[q] = Gone /\ job[p].exe \in Paths /\ Gone \notin Paths
      /\ ~ fs[job[p].exe].here
  BY OnlyOne, GoneNoPath DEF JobInv
<1>2. \A q \in Procs : img[q] # job[p].exe  BY <1>1 DEF NameInv
<1> QED  BY <1>1, <1>2 DEF CannotMove, Locked

LEMMA MoveAwayKeeps == ASSUME BinInv, NEW p \in Procs, MoveAway(p) PROVE BinInv'
<1> USE DEF BinInv
<1> DEFINE a == job[p].exe
           b == job[p].old
<1>1. /\ pc[p] = "away" /\ UNCHANGED <<os, backups, names, alive, running, job>>
      /\ TryRename(a, b, Goto(p, "place") /\ UNCHANGED out, End(p, "failed"))
  BY DEF MoveAway
<1>2. /\ a \in Homes /\ a \in Progs /\ a \in Paths /\ b \in Progs /\ b \in Paths /\ b # a /\ b # Exe
      /\ Stage(p) \in Paths /\ Stage(p) \notin Progs /\ Stage(p)' = Stage(p)
      /\ \A q \in Procs : fd[q] = Gone /\ (q # p => pc[q] = "idle")
  BY <1>1, OnlyOne, OldIs DEF Stage
<1>3. Spent("crash") = 0 /\ Spent("fail") <= 1 => There(Exe)  BY <1>1, <1>2 DEF PresentInv
<1>4. Holds(Stage(p), job[p]) /\ (fs[Stage(p)].whole <=> job[p].whole)
      /\ \E n \in OldNames : job[p].old = Append(job[p].exe, n)
  BY <1>1 DEF StageInv, JobInv
<1>5. CASE ~There(a) /\ Goto(p, "place") /\ UNCHANGED <<out, fs, img, fd, name, left>>
  <2>1. pc' \in [Procs -> Steps] /\ pc'[p] = "place" /\ \A q \in Procs \ {p} : pc'[q] = "idle"
    BY <1>2, <1>5, GotoDoes DEF Steps
  <2>2. TypeInv'  BY <1>1, <1>5, <2>1 DEF TypeInv
  <2>3. BusyInv'  BY <1>1, <1>5, BusyKept DEF Steps
  <2>4. NameInv'  BY <1>1, <1>5 DEF NameInv
  <2>5. JobInv'  BY <1>1, <1>4, <1>5, <2>1 DEF JobInv, There
  <2>6. StageInv'  BY <1>1, <1>2, <1>4, <1>5, <2>1 DEF StageInv, Holds
  <2>7. WholeInv' /\ CopyInv'  BY <1>1, <1>5 DEF WholeInv, CopyInv, Spent, There
  <2>8. PresentInv'  BY <1>3, <1>5 DEF PresentInv, Spent, There
  <2> QED  BY <2>2, <2>3, <2>4, <2>5, <2>6, <2>7, <2>8
<1>6. CASE There(a) /\ ~CannotMove(a, b) /\ Rename(a, b) /\ Goto(p, "place") /\ UNCHANGED <<out, left>>
  <2>1. pc' \in [Procs -> Steps] /\ pc'[p] = "place" /\ \A q \in Procs \ {p} : pc'[q] = "idle"
    BY <1>2, <1>6, GotoDoes DEF Steps
  <2>2. /\ fs' \in [Paths -> File] /\ fs'[b] = fs[a] /\ ~ fs'[a].here
        /\ \A x \in Paths \ {a, b} : fs'[x] = fs[x]
        /\ img' \in [Procs -> Paths \cup {Gone}] /\ fd' \in [Procs -> Paths \cup {Gone}]
        /\ name' \in [Procs -> Paths]
        /\ \A q \in Procs : fd'[q] = IF fd[q] = a THEN b ELSE IF fd[q] = b THEN Gone ELSE fd[q]
    BY <1>2, <1>6, RenameDoes
  <2>2a. \A q \in Procs : fd'[q] = Gone  BY <1>2, <2>2, GoneNoPath
  <2>3. ~ Locked(b)  BY <1>6 DEF CannotMove, Locked
  <2>4. NameInv'  BY <1>1, <1>2, <1>6, <2>3, RenameNames
  <2>5. TypeInv'  BY <1>1, <1>6, <2>1, <2>2 DEF TypeInv
  <2>6. BusyInv'  BY <1>1, <1>6, BusyKept DEF Steps
  <2>7. JobInv'  BY <1>1, <1>4, <2>1, <2>2 DEF JobInv
  <2>8. fs'[Stage(p)] = fs[Stage(p)]  BY <1>2, <2>2
  <2>9. StageInv'  BY <1>1, <1>2, <1>4, <2>1, <2>2a, <2>8 DEF StageInv, Holds
  <2>10. WholeInv'
    <3>1. \A x \in Progs : fs'[x].here => fs'[x] = fs[x] \/ (fs'[x] = fs[a] /\ fs[a].here)
      BY <1>2, <2>2, ProgPaths
    <3> QED  BY <1>1, <1>2, <1>6, <3>1 DEF WholeInv, Spent
  <2>11. PresentInv'
    <3> SUFFICES ASSUME Spent("crash") = 0, Spent("fail") <= 1
                 PROVE  fs'[Exe].here \/ (a = Exe /\ fs'[b].here)
      BY <1>1, <1>6, <2>1 DEF PresentInv, Spent, There
    <3> QED  BY <1>2, <1>3, <1>6, <2>2, ProgPaths DEF There
  <2>12. CopyInv'
    <3> SUFFICES ASSUME Spent("cut") = 0
          PROVE  /\ os = "linux" => fs'[Exe].here \/ \E s \in StageNames : fs'[<<s>>].here /\ fs'[<<s>>].whole
                 /\ os = "windows" => \E x \in Paths : fs'[x].here /\ fs'[x].whole
      BY <1>1, <1>6 DEF CopyInv, There, Spent
    <3>1. fs'[Stage(p)].here /\ fs'[Stage(p)].whole  BY <1>1, <2>8, StageCopy
    <3>2. CASE a = Exe  BY <1>1, <1>2, <3>1, <3>2, StageCopy
    <3>3. CASE a # Exe
      <4>1. fs'[Exe] = fs[Exe] /\ \A s \in StageNames : fs'[<<s>>] = fs[<<s>>]
        <5>1. \A s \in StageNames : <<s>> \notin Progs /\ <<s>> \in Paths  BY ProgPaths, StagePaths
        <5> QED  BY <1>2, <2>2, <3>3, <5>1, ProgPaths
      <4> QED  BY <1>2, <3>1, <4>1 DEF CopyInv, There
    <3> QED  BY <3>2, <3>3
  <2> QED  BY <2>4, <2>5, <2>6, <2>7, <2>9, <2>10, <2>11, <2>12
<1>7. CASE End(p, "failed") /\ UNCHANGED <<fs, img, fd, name>> /\ (UNCHANGED left \/ Spend("fail"))
  <2>1. LeftKeeps  BY <1>7, SpendDoes, SameLeft DEF Events
  <2>2. PresentInv'  BY <1>3, <1>7, <2>1, LeftDoes DEF PresentInv, There
  <2> QED  BY <1>1, <1>7, <2>1, <2>2, EndKeeps
<1> QED  BY <1>1, <1>5, <1>6, <1>7 DEF TryRename

(* A file is moved to the program's place, which was free, from a staging   *)
(* file or from the old name.                                               *)
LEMMA PutInPlace ==
  ASSUME BinInv, NEW p \in Procs, pc[p] \in {"place", "recover"}, NEW a \in Paths, There(a),
         a # job[p].exe, a # Exe, Rename(a, job[p].exe), UNCHANGED <<os, alive, backups, job, left>>,
         Spent("cut") = 0 => fs[a].whole, job[p].exe # Exe => \A s \in StageNames : a # <<s>>
  PROVE  /\ NameInv' /\ WholeInv' /\ CopyInv' /\ PresentInv'
         /\ fs' \in [Paths -> File] /\ fs'[job[p].exe] = fs[a]
         /\ img' \in [Procs -> Paths \cup {Gone}] /\ name' \in [Procs -> Paths]
         /\ fd' \in [Procs -> Paths \cup {Gone}] /\ \A q \in Procs : fd'[q] = Gone
<1> USE DEF BinInv
<1> DEFINE b == job[p].exe
<1>1. /\ b \in Homes /\ b \in Progs /\ b \in Paths /\ a # b
      /\ \A q \in Procs : fd[q] = Gone /\ (q # p => pc[q] = "idle")
  BY OnlyOne
<1>2. ~ fs[b].here /\ ~ Locked(b)  BY CanMove DEF JobInv
<1>3. /\ fs' \in [Paths -> File] /\ fs'[b] = fs[a] /\ ~ fs'[a].here
      /\ \A x \in Paths \ {a, b} : fs'[x] = fs[x]
      /\ img' \in [Procs -> Paths \cup {Gone}] /\ fd' \in [Procs -> Paths \cup {Gone}]
      /\ name' \in [Procs -> Paths]
      /\ \A q \in Procs : fd'[q] = IF fd[q] = a THEN b ELSE IF fd[q] = b THEN Gone ELSE fd[q]
  BY <1>1, RenameDoes
<1>4. \A q \in Procs : fd'[q] = Gone  BY <1>1, <1>3, GoneNoPath
<1>5. NameInv'  BY <1>1, <1>2, RenameNames DEF There
<1>6. WholeInv'
  <2>1. \A x \in Progs : fs'[x].here => fs'[x] = fs[x] \/ fs'[x] = fs[a]  BY <1>3, ProgPaths
  <2> QED  BY <2>1 DEF WholeInv, Spent
<1>7. b # Exe => fs'[Exe] = fs[Exe]
  <2>1. Exe \in Homes /\ Exe \in Paths  BY ProgPaths
  <2> QED  BY <1>3, <2>1
<1>8. CopyInv'
  <2> SUFFICES ASSUME Spent("cut") = 0
        PROVE  /\ os = "linux" => fs'[Exe].here \/ \E s \in StageNames : fs'[<<s>>].here /\ fs'[<<s>>].whole
               /\ os = "windows" => \E x \in Paths : fs'[x].here /\ fs'[x].whole
    BY DEF CopyInv, There, Spent
  <2>1. fs'[b].here /\ fs'[b].whole  BY <1>3 DEF There
  <2>2. CASE b = Exe  BY <1>1, <2>1, <2>2
  <2>3. CASE b # Exe
    <3>1. \A s \in StageNames : <<s>> \in Paths /\ <<s>> # b
      <4>1. \A s \in StageNames : <<s>> \notin Progs /\ <<s>> \in Paths  BY ProgPaths, StagePaths
      <4> QED  BY <1>1, <4>1
    <3>2. \A s \in StageNames : fs'[<<s>>] = fs[<<s>>]  BY <1>3, <2>3, <3>1
    <3> QED  BY <1>1, <1>7, <2>1, <2>3, <3>2 DEF CopyInv, There
  <2> QED  BY <2>2, <2>3
<1>9. PresentInv'
  <2> SUFFICES ASSUME Spent("crash") = 0, Spent("fail") <= 1 PROVE fs'[Exe].here
    BY DEF PresentInv, Spent, There
  <2>1. CASE b = Exe  BY <1>3, <2>1 DEF There
  <2>2. CASE b # Exe
    <3>1. There(Exe)  BY <1>1, <2>2 DEF PresentInv
    <3> QED  BY <1>7, <2>2, <3>1 DEF There
  <2> QED  BY <2>1, <2>2
<1> QED  BY <1>3, <1>4, <1>5, <1>6, <1>8, <1>9

(* The second rename: the new version is put in place, or the old one is    *)
(* about to be put back, for a failure that counts.                         *)
LEMMA PlaceKeeps == ASSUME BinInv, NEW p \in Procs, Place(p) PROVE BinInv'
<1> USE DEF BinInv
<1> DEFINE a == Stage(p)
           b == job[p].exe
<1>1. /\ pc[p] = "place" /\ UNCHANGED <<os, backups, names, alive, running, job>>
      /\ TryRename(a, b, Goto(p, "dispose") /\ UNCHANGED out, Goto(p, "recover") /\ UNCHANGED out)
  BY DEF Place, PutBack
<1>2. /\ b \in Homes /\ b \in Progs /\ b \in Paths /\ a \in Paths /\ a \notin Progs
      /\ \A q \in Procs : fd[q] = Gone /\ (q # p => pc[q] = "idle")
      /\ a' = a
  BY <1>1, OnlyOne DEF Stage
<1>3. Holds(a, job[p]) /\ (fs[a].whole <=> job[p].whole)
      /\ \E n \in OldNames : job[p].old = Append(job[p].exe, n)
  BY <1>1 DEF StageInv, JobInv
<1>4. There(a) /\ ~ CannotMove(a, b)  BY <1>1, <1>2, <1>3, CanMove DEF Holds, There
<1>5. CASE Rename(a, b) /\ Goto(p, "dispose") /\ UNCHANGED <<out, left>>
  <2>1. pc' \in [Procs -> Steps] /\ pc'[p] = "dispose" /\ \A q \in Procs \ {p} : pc'[q] = "idle"
    BY <1>2, <1>5, GotoDoes DEF Steps
  <2>2. a # b /\ a # Exe  BY <1>2, ProgPaths
  <2>3. Spent("cut") = 0 => fs[a].whole  BY <1>1, StageCopy
  <2>4. b # Exe => \A s \in StageNames : a # <<s>>
    <3> SUFFICES ASSUME b # Exe, NEW s \in StageNames PROVE a # <<s>>  OBVIOUS
    <3>1. PICK d \in OldNames : b = <<d>>  BY <1>2 DEF Homes
    <3>2. a = <<d, job[p].stage>>  BY <3>1, AppendPair DEF Stage
    <3> QED  BY <3>2
  <2>5. /\ NameInv' /\ WholeInv' /\ CopyInv' /\ PresentInv'
        /\ fs' \in [Paths -> File] /\ fs'[b] = fs[a]
        /\ img' \in [Procs -> Paths \cup {Gone}] /\ name' \in [Procs -> Paths]
        /\ fd' \in [Procs -> Paths \cup {Gone}] /\ \A q \in Procs : fd'[q] = Gone
    BY <1>1, <1>2, <1>4, <1>5, <2>2, <2>3, <2>4, PutInPlace
  <2>6. TypeInv'  BY <1>1, <1>5, <2>1, <2>5 DEF TypeInv
  <2>7. BusyInv'  BY <1>1, <1>5, BusyKept DEF Steps
  <2>8. JobInv'  BY <1>1, <1>3, <2>1 DEF JobInv
  <2>9. StageInv'  BY <1>1, <1>3, <2>1, <2>5 DEF StageInv, Holds
  <2> QED  BY <2>5, <2>6, <2>7, <2>8, <2>9
<1>6. CASE Spend("fail") /\ Goto(p, "recover") /\ UNCHANGED <<out, fs, img, fd, name>>
  <2>1. LeftKeeps /\ left'["fail"] = left["fail"] - 1  BY <1>6, SpendDoes DEF Events
  <2>2. pc' \in [Procs -> Steps] /\ pc'[p] = "recover" /\ \A q \in Procs \ {p} : pc'[q] = "idle"
    BY <1>2, <1>6, GotoDoes DEF Steps
  <2>3. TypeInv'  BY <1>1, <1>6, <2>1, <2>2, LeftDoes DEF TypeInv, LeftKeeps
  <2>4. BusyInv'  BY <1>1, <1>6, BusyKept DEF Steps
  <2>5. NameInv'  BY <1>1, <1>6 DEF NameInv
  <2>6. JobInv'  BY <1>1, <1>3, <1>6, <2>2 DEF JobInv
  <2>7. StageInv'  BY <1>1, <1>2, <1>3, <1>6, <2>2 DEF StageInv, Holds
  <2>8. WholeInv' /\ CopyInv'  BY <1>1, <1>6, <2>1, LeftDoes DEF WholeInv, CopyInv, There
  <2>9. PresentInv'
    <3> SUFFICES ASSUME Spent("crash")' = 0, Spent("fail")' <= 1
          PROVE  There(Exe) \/ (b = Exe /\ There(job[p].old) /\ Spent("fail")' = 1)
      BY <1>1, <1>6, <2>2 DEF PresentInv, There
    <3>1. /\ left["fail"] \in Nat /\ left["fail"] <= Budget["fail"] /\ Budget["fail"] \in Nat
          /\ left'["fail"] \in Nat
      BY <2>1 DEF TypeInv, Events, LeftKeeps
    <3>2. Spent("fail")' = 1  BY <2>1, <3>1 DEF Spent
    <3>3. There(Exe) \/ (b = Exe /\ There(job[p].old))  BY <1>2, <2>1, LeftDoes DEF PresentInv
    <3> QED  BY <3>2, <3>3
  <2> QED  BY <2>3, <2>4, <2>5, <2>6, <2>7, <2>8, <2>9
<1> QED  BY <1>1, <1>4, <1>5, <1>6 DEF TryRename

(* The old version is put back; it is not only when a second operation      *)
(* fails.                                                                   *)
LEMMA RecoverKeeps == ASSUME BinInv, NEW p \in Procs, Recover(p) PROVE BinInv'
<1> USE DEF BinInv
<1> DEFINE a == job[p].old
           b == job[p].exe
<1>1. pc[p] = "recover" /\ UNCHANGED <<os, backups, names, alive, running, job>>  BY DEF Recover
<1>2. /\ b \in Homes /\ a \in Progs /\ a \in Paths /\ a # b /\ a # Exe
      /\ \A q \in Procs : fd[q] = Gone /\ (q # p => pc[q] = "idle")
  BY <1>1, OnlyOne, OldIs
<1>3. ~ CannotMove(a, b)  BY <1>1, <1>2, CanMove
<1>4. CASE There(a) /\ Rename(a, b) /\ End(p, "failed") /\ UNCHANGED left
  <2>1. /\ Goto(p, "idle") /\ out' \in [Procs -> {"none", "ok", "failed", "lost", "nobackup"}]
        /\ pc' \in [Procs -> Steps] /\ pc'[p] = "idle" /\ \A q \in Procs \ {p} : pc'[q] = "idle"
    BY <1>2, <1>4, EndDoes, GotoDoes DEF Steps
  <2>2. Spent("cut") = 0 => fs[a].whole  BY <1>2, <1>4 DEF WholeInv, There
  <2>3. \A s \in StageNames : a # <<s>>
    <3>1. \A s \in StageNames : <<s>> \notin Progs  BY ProgPaths, StagePaths
    <3> QED  BY <1>2, <3>1
  <2>4. /\ fs' \in [Paths -> File] /\ fs'[b] = fs[a] /\ NameInv' /\ WholeInv' /\ CopyInv' /\ PresentInv'
        /\ img' \in [Procs -> Paths \cup {Gone}] /\ name' \in [Procs -> Paths]
        /\ fd' \in [Procs -> Paths \cup {Gone}] /\ \A q \in Procs : fd'[q] = Gone
    BY <1>1, <1>2, <1>4, <2>2, <2>3, PutInPlace
  <2>5. TypeInv'  BY <1>1, <1>4, <2>1, <2>4 DEF TypeInv
  <2>6. BusyInv'  BY <1>1, <2>1, BusyKept DEF Steps
  <2>7. JobInv'  BY <1>1, <2>1 DEF JobInv
  <2>8. StageInv'  BY <2>1, <2>4 DEF StageInv
  <2> QED  BY <2>4, <2>5, <2>6, <2>7, <2>8
<1>5. CASE /\ IF There(a) THEN Spend("fail") ELSE UNCHANGED left
           /\ End(p, "lost") /\ UNCHANGED <<fs, img, fd, name>>
  <2>1. LeftKeeps  BY <1>5, SpendDoes, SameLeft DEF Events
  <2>2. PresentInv'
    <3> SUFFICES ASSUME Spent("crash")' = 0, Spent("fail")' <= 1 PROVE There(Exe)
      BY <1>5 DEF PresentInv, There
    <3> SUFFICES ASSUME ~ There(Exe) PROVE FALSE  OBVIOUS
    <3>1. There(a) /\ Spent("fail") = 1  BY <1>1, <1>2, <2>1, LeftDoes DEF PresentInv
    <3>2. left'["fail"] = left["fail"] - 1  BY <1>5, <3>1, SpendDoes DEF Events
    <3>3. left["fail"] \in Nat /\ Budget["fail"] \in Nat /\ left'["fail"] \in Nat
      BY <2>1 DEF TypeInv, Events, LeftKeeps
    <3> QED  BY <3>1, <3>2, <3>3 DEF Spent
  <2> QED  BY <1>1, <1>5, <2>1, <2>2, EndKeeps
<1> QED  BY <1>3, <1>4, <1>5 DEF Recover

(* A process that dies leaves the files as they are, and nothing is open. *)
LEMMA CrashKeeps == ASSUME BinInv, NEW p \in Procs, Crash(p) PROVE BinInv'
<1> USE DEF BinInv
<1>1. /\ alive' = [alive EXCEPT ![p] = FALSE] /\ img' = [img EXCEPT ![p] = Gone]
      /\ fd' = [fd EXCEPT ![p] = Gone] /\ Goto(p, "idle") /\ out' = [out EXCEPT ![p] = "none"]
      /\ UNCHANGED <<os, fs, backups, names, name, running, job>>
  BY DEF Crash
<1>2. LeftKeeps /\ left'["crash"] = left["crash"] - 1  BY SpendDoes DEF Crash, Events
<1>3. pc' \in [Procs -> Steps] /\ pc'[p] = "idle" /\ \A q \in Procs \ {p} : pc'[q] = pc[q]
  BY <1>1, GotoDoes DEF Steps
<1>4. /\ alive' \in [Procs -> BOOLEAN] /\ ~ alive'[p] /\ \A q \in Procs \ {p} : alive'[q] = alive[q]
      /\ img' \in [Procs -> Paths \cup {Gone}] /\ img'[p] = Gone /\ \A q \in Procs \ {p} : img'[q] = img[q]
      /\ fd' \in [Procs -> Paths \cup {Gone}] /\ fd'[p] = Gone /\ \A q \in Procs \ {p} : fd'[q] = fd[q]
  BY <1>1 DEF TypeInv
<1>5. TypeInv'  BY <1>1, <1>2, <1>3, <1>4, LeftDoes DEF TypeInv, LeftKeeps
<1>6. BusyInv'  BY <1>3, <1>4 DEF BusyInv
<1>7. NameInv'  BY <1>1, <1>4 DEF NameInv
<1>8. JobInv'  BY <1>1, <1>3 DEF JobInv
<1>9. StageInv'  BY <1>1, <1>3, <1>4 DEF StageInv, Stage, Holds
<1>10. WholeInv' /\ CopyInv'  BY <1>1, <1>2, LeftDoes DEF WholeInv, CopyInv, There
<1>11. PresentInv'
  <2>1. left["crash"] \in Nat /\ left["crash"] <= Budget["crash"] /\ Budget["crash"] \in Nat
    BY DEF TypeInv, Events
  <2>2. Spent("crash")' # 0  BY <1>2, <2>1 DEF Spent
  <2> QED  BY <2>2 DEF PresentInv
<1> QED  BY <1>5, <1>6, <1>7, <1>8, <1>9, <1>10, <1>11

(* A process started again runs the program, and what a Supervisor sweeps   *)
(* is no file of a replacement under way: those are too young.              *)
LEMMA RestartKeeps == ASSUME BinInv, NEW p \in Procs, Restart(p) PROVE BinInv'
<1> USE DEF BinInv
<1> DEFINE X == IF p \in Supervisors THEN Leftovers(Exe, TRUE) ELSE {}
<1>1. /\ pc[p] = "idle" /\ There(Exe) /\ fs[Exe].whole
      /\ alive' = [alive EXCEPT ![p] = TRUE] /\ running' = [running EXCEPT ![p] = fs[Exe].ver]
      /\ name' = [name EXCEPT ![p] = Exe]
      /\ fs' = [x \in Paths |-> IF x \in X THEN NoFile ELSE fs[x]]
      /\ img' = [Lose(img, X) EXCEPT ![p] = Exe] /\ fd' = Lose(fd, X)
      /\ UNCHANGED <<os, backups, names, pc, job, out>>
  BY DEF Restart
<1>2. LeftKeeps  BY SpendDoes DEF Restart, Events
<1>3. X \subseteq Paths /\ Exe \notin X /\ \A x \in X : ~ fs[x].fresh /\ ~ Locked(x)
  BY LeftoversAre, ProgPaths
<1> HIDE DEF X
<1>4. Exe \in Paths /\ Exe \in Progs /\ Exe \in Homes /\ Gone \notin Paths /\ Exe # Gone
  BY ProgPaths, GoneNoPath
<1>5. /\ fs' \in [Paths -> File] /\ fs'[Exe] = fs[Exe]
      /\ \A x \in Paths : IF x \in X THEN ~ fs'[x].here ELSE fs'[x] = fs[x]
      /\ \A x \in Paths : fs'[x].here => fs'[x] = fs[x]
      /\ \A x \in Paths : fs[x].fresh => fs'[x] = fs[x]
  BY <1>1, <1>3, <1>4, NoFileIs DEF TypeInv
<1>6. /\ alive' \in [Procs -> BOOLEAN] /\ alive'[p] /\ \A q \in Procs \ {p} : alive'[q] = alive[q]
      /\ name' \in [Procs -> Paths] /\ name'[p] = Exe /\ \A q \in Procs \ {p} : name'[q] = name[q]
  BY <1>1, <1>4 DEF TypeInv
<1>6a. running' \in [Procs -> Versions]
  <2>1. fs[Exe].ver \in Versions  BY <1>4 DEF TypeInv, File
  <2> QED  BY <1>1, <2>1 DEF TypeInv
<1>7. /\ img' \in [Procs -> Paths \cup {Gone}] /\ img'[p] = Exe
      /\ \A q \in Procs \ {p} : img'[q] = IF img[q] \in X THEN Gone ELSE img[q]
      /\ fd' \in [Procs -> Paths \cup {Gone}]
      /\ \A q \in Procs : fd'[q] = IF fd[q] \in X THEN Gone ELSE fd[q]
  BY <1>1, <1>4 DEF Lose, TypeInv
<1>8. TypeInv'  BY <1>1, <1>2, <1>5, <1>6, <1>6a, <1>7, LeftDoes DEF TypeInv, LeftKeeps
<1>9. BusyInv'  BY <1>1, <1>6 DEF BusyInv
<1>10. NameInv'
  <2> SUFFICES ASSUME NEW q \in Procs
        PROVE  /\ name'[q] \in Progs /\ img'[q] \in Progs \cup {Gone}
               /\ img'[q] # Gone => alive'[q] /\ fs'[img'[q]].here
               /\ os = "windows" => name'[q] = Exe /\ (alive'[q] => img'[q] # Gone)
               /\ os = "linux" /\ alive'[q] /\ name'[q] = Exe => img'[q] = Exe
    BY <1>1 DEF NameInv
  <2>1. CASE q = p  BY <1>1, <1>4, <1>5, <1>6, <1>7, <2>1 DEF There
  <2>2. CASE q # p
    <3>1. os = "windows" /\ alive[q] => img[q] \notin X  BY <1>3 DEF Locked
    <3>2. /\ name[q] \in Progs /\ img[q] \in Progs \cup {Gone}
          /\ img[q] # Gone => alive[q] /\ fs[img[q]].here
          /\ os = "windows" => name[q] = Exe /\ (alive[q] => img[q] # Gone)
          /\ os = "linux" /\ alive[q] /\ name[q] = Exe => img[q] = Exe
      BY DEF NameInv
    <3>3. img'[q] # Gone => img'[q] = img[q] /\ img[q] \notin X  BY <1>7, <2>2
    <3>4. img'[q] # Gone => fs'[img'[q]].here  BY <1>5, <3>2, <3>3, ProgPaths
    <3> QED  BY <1>3, <1>6, <1>7, <2>2, <3>1, <3>2, <3>3, <3>4
  <2> QED  BY <2>1, <2>2
<1>11. JobInv'
  <2>1. \A x \in Paths : ~ fs[x].here => ~ fs'[x].here  BY <1>5
  <2>2. \A q \in Procs : job[q].exe \in Paths  BY DEF TypeInv, Job
  <2> QED  BY <1>1, <1>6, <2>1, <2>2 DEF JobInv
<1>12. StageInv'
  <2> SUFFICES ASSUME NEW q \in Procs
        PROVE  /\ fd'[q] # Gone => pc[q] = "write"
               /\ pc[q] = "write" => fd'[q] = Stage(q)
               /\ pc[q] \in {"write", "sweep", "away", "place", "recover"} => Holds(Stage(q), job[q])'
               /\ pc[q] \in {"sweep", "away", "place", "recover"} => (fs'[Stage(q)].whole <=> job[q].whole)
               /\ pc[q] = "dispose" => Holds(job[q].exe, job[q])' /\ (fs'[job[q].exe].whole <=> job[q].whole)
    BY <1>1 DEF StageInv, Stage
  <2>1. pc[q] # "idle" => Stage(q) \in Paths /\ job[q].exe \in Paths  BY OnlyOne
  <2>2. pc[q] \in {"write", "sweep", "away", "place", "recover"} => fs'[Stage(q)] = fs[Stage(q)]
    BY <1>5, <2>1 DEF StageInv, Holds
  <2>3. pc[q] = "dispose" => fs'[job[q].exe] = fs[job[q].exe]
    BY <1>5, <2>1 DEF StageInv, Holds
  <2>4. pc[q] = "write" => fd[q] \notin X  BY <1>3, <2>1 DEF StageInv, Holds
  <2>5. Stage(q)' = Stage(q)  BY <1>1 DEF Stage
  <2> QED  BY <1>1, <1>7, <2>2, <2>3, <2>4, <2>5 DEF StageInv, Holds
<1>13. WholeInv'  BY <1>1, <1>2, <1>5, LeftDoes, ProgPaths DEF WholeInv
<1>14. PresentInv'  BY <1>1, <1>5 DEF PresentInv, There
<1>15. CopyInv'  BY <1>1, <1>4, <1>5 DEF CopyInv, There
<1> QED  BY <1>8, <1>9, <1>10, <1>11, <1>12, <1>13, <1>14, <1>15

(* Files grow old only while nothing is being replaced. *)
LEMMA AgeKeeps == ASSUME BinInv, Age PROVE BinInv'
<1> USE DEF BinInv
<1>1. /\ fs' = [x \in Paths |-> [fs[x] EXCEPT !.fresh = FALSE]]
      /\ UNCHANGED <<os, backups, names, alive, img, name, running, pc, job, fd, out>>
      /\ \A q \in Procs : pc[q] = "idle"
  BY DEF Age, procVars, jobVars, Busy
<1>2. LeftKeeps  BY SpendDoes DEF Age, Events
<1>3. /\ fs' \in [Paths -> File]
      /\ \A x \in Paths : fs'[x].here = fs[x].here /\ fs'[x].whole = fs[x].whole
  <2>1. \A x \in Paths : fs[x] \in File  BY DEF TypeInv
  <2>2. ASSUME NEW r \in File
        PROVE  /\ [r EXCEPT !.fresh = FALSE] \in File /\ [r EXCEPT !.fresh = FALSE].here = r.here
               /\ [r EXCEPT !.fresh = FALSE].whole = r.whole
    BY DEF File
  <2> QED  BY <1>1, <2>1, <2>2
<1>4. Progs \subseteq Paths /\ Exe \in Paths /\ \A s \in StageNames : <<s>> \in Paths  BY ProgPaths
<1>5. TypeInv'  BY <1>1, <1>2, <1>3, LeftDoes DEF TypeInv, LeftKeeps
<1>6. BusyInv' /\ JobInv' /\ StageInv'  BY <1>1 DEF BusyInv, JobInv, StageInv
<1>7. NameInv'  BY <1>1, <1>3, <1>4 DEF NameInv
<1>8. WholeInv'  BY <1>1, <1>2, <1>3, <1>4, LeftDoes DEF WholeInv
<1>9. PresentInv'  BY <1>1, <1>2, <1>3, <1>4, LeftDoes DEF PresentInv, There
<1>10. CopyInv'  BY <1>1, <1>2, <1>3, <1>4, LeftDoes DEF CopyInv, There
<1> QED  BY <1>5, <1>6, <1>7, <1>8, <1>9, <1>10

LEMMA BinInit == Init => BinInv
<1> SUFFICES ASSUME Init PROVE BinInv  OBVIOUS
<1>1. Exe \in Paths /\ Exe \in Progs /\ Exe \in Homes /\ Exe # Gone  BY ProgPaths, GoneNoPath
<1>2. fs \in [Paths -> File] /\ fs[Exe].here /\ fs[Exe].whole /\ \A x \in Paths \ {Exe} : ~ fs[x].here
  BY <1>1, NoFileIs DEF Init, File
<1>3. job \in [Procs -> Job] /\ \A p \in Procs : job[p].exe = Exe /\ job[p].whole
  BY <1>1 DEF Init, Job
<1>4. \A e \in Events : left[e] \in Nat /\ left[e] <= Budget[e]  BY DEF Init
<1>5. backups \in [Paths -> Seq(BackupFile)] /\ \A e \in Paths : DOMAIN backups[e] = {}  BY DEF Init
<1>6. TypeInv  BY <1>1, <1>2, <1>3, <1>4, <1>5 DEF Init, TypeInv, Steps
<1>7. BusyInv /\ NameInv  BY <1>1, <1>2 DEF Init, BusyInv, NameInv
<1>8. JobInv /\ StageInv  BY <1>1, <1>3 DEF Init, JobInv, StageInv
<1>9. WholeInv  BY <1>2, <1>3, <1>5, ProgPaths DEF WholeInv
<1>10. PresentInv /\ CopyInv  BY <1>1, <1>2 DEF PresentInv, CopyInv, There
<1> QED  BY <1>6, <1>7, <1>8, <1>9, <1>10 DEF BinInv

LEMMA BinStutter == ASSUME BinInv, UNCHANGED vars PROVE BinInv'
<1>1. UNCHANGED <<os, fs, backups, names, alive, img, name, running, pc, job, fd, out, left>>
  BY DEF vars, procVars, jobVars
<1>2. TypeInv' /\ BusyInv' /\ NameInv' /\ JobInv'
  BY <1>1 DEF BinInv, TypeInv, BusyInv, NameInv, JobInv
<1>3. StageInv'  BY <1>1 DEF BinInv, StageInv, Stage, Holds
<1>4. WholeInv' /\ PresentInv' /\ CopyInv'
  BY <1>1 DEF BinInv, WholeInv, PresentInv, CopyInv, Spent, There
<1> QED  BY <1>2, <1>3, <1>4 DEF BinInv

LEMMA BinStep == ASSUME BinInv, MaxBusy <= 1, [Next]_vars PROVE BinInv'
<1>1. ASSUME NEW p \in Procs, NEW v \in Versions, StartInstall(p, v) PROVE BinInv'  BY <1>1, StartInstallKeeps
<1>2. ASSUME NEW p \in Procs, NEW l, StartRollback(p, l) PROVE BinInv'  BY <1>2, StartRollbackKeeps
<1>3. ASSUME NEW p \in Procs, NEW l, NoBackup(p, l) PROVE BinInv'  BY <1>3, NoBackupKeeps
<1>4. ASSUME NEW p \in Procs, Backup(p) PROVE BinInv'  BY <1>4, BackupKeeps
<1>5. ASSUME NEW p \in Procs, Create(p) PROVE BinInv'  BY <1>5, CreateKeeps
<1>6. ASSUME NEW p \in Procs, Write(p) PROVE BinInv'  BY <1>6, WriteKeeps
<1>7. ASSUME NEW p \in Procs, Sweep(p) PROVE BinInv'  BY <1>7, SweepKeeps
<1>8. ASSUME NEW p \in Procs, MoveAway(p) PROVE BinInv'  BY <1>8, MoveAwayKeeps
<1>9. ASSUME NEW p \in Procs, Place(p) PROVE BinInv'  BY <1>9, PlaceKeeps
<1>10. ASSUME NEW p \in Procs, Recover(p) PROVE BinInv'  BY <1>10, RecoverKeeps
<1>11. ASSUME NEW p \in Procs, Dispose(p) PROVE BinInv'  BY <1>11, DisposeKeeps
<1>12. ASSUME NEW p \in Procs, Crash(p) PROVE BinInv'  BY <1>12, CrashKeeps
<1>13. ASSUME NEW p \in Procs, Restart(p) PROVE BinInv'  BY <1>13, RestartKeeps
<1>14. CASE Age  BY <1>14, AgeKeeps
<1>15. CASE UNCHANGED vars  BY <1>15, BinStutter
<1> QED  BY <1>1, <1>2, <1>3, <1>4, <1>5, <1>6, <1>7, <1>8, <1>9, <1>10, <1>11, <1>12, <1>13, <1>14, <1>15
        DEF Next

-----------------------------------------------------------------------------
(* The number of backups *)

(* Every backup is a file, and every later one comes with at least one more. *)
LEMMA FileNoIs ==
  ASSUME NEW s \in Seq(BackupFile), NEW i \in Nat, NEW k \in Nat, i <= k
  PROVE  FileNo(s, i) \in Nat /\ FileNo(s, k) \in Nat /\ FileNo(s, i) <= FileNo(s, k)
<1> DEFINE A(m) == {j \in 2..m : s[j].label # Unknown}
<1>1. ASSUME NEW m \in Nat PROVE IsFiniteSet(A(m)) /\ Cardinality(A(m)) \in Nat
  <2>1. IsFiniteSet(2..m)  BY FS_Interval
  <2>2. A(m) \in SUBSET (2..m)  OBVIOUS
  <2>3. IsFiniteSet(A(m))  BY <2>1, <2>2, FS_Subset
  <2> QED  BY <2>3, FS_CardinalityType
<1>2. A(i) \in SUBSET A(k)  OBVIOUS
<1>3. Cardinality(A(i)) <= Cardinality(A(k))  BY <1>1, <1>2, FS_Subset
<1>4. FileNo(s, i) = i + Cardinality(A(i)) /\ FileNo(s, k) = k + Cardinality(A(k))  BY DEF FileNo
<1>5. Cardinality(A(i)) \in Nat /\ Cardinality(A(k)) \in Nat  BY <1>1
<1> HIDE DEF A
<1> QED  BY <1>3, <1>4, <1>5

LEMMA FileNoNat == ASSUME NEW s \in Seq(BackupFile) PROVE FileNo(s, Len(s)) \in Nat
<1> DEFINE n == Len(s)
<1>1. n \in Nat /\ n <= n  OBVIOUS
<1> HIDE DEF n
<1>2. FileNo(s, n) \in Nat  BY <1>1, FileNoIs
<1> QED  BY <1>2 DEF n

(* CleanupOldBackups leaves no more than KeepCount files. *)
LEMMA CleanupBounds ==
  ASSUME NEW s \in Seq(BackupFile)
  PROVE  FileNo(Cleanup(s), Len(Cleanup(s))) <= KeepCount
<1> DEFINE K == {i \in 1..Len(s) : FileNo(s, i) <= KeepCount}
           C == (1..Len(s)) \ K
<1>1. Len(s) \in Nat /\ KeepCount \in Nat  OBVIOUS
<1>2. \E m \in 0..Len(s) : K = 1..m
  <2>1. CASE C = {}
    <3>1. K = 1..Len(s)  BY <2>1
    <3> QED  BY <1>1, <3>1
  <2>2. CASE C # {}
    <3>1. C \in SUBSET Nat  BY <1>1
    <3>2. PICK m \in C : \A j \in C : m <= j  BY <2>2, <3>1, Least
    <3>3. m \in 1..Len(s) /\ ~ (FileNo(s, m) <= KeepCount)  BY <3>2
    <3>4. ASSUME NEW i \in K PROVE i \in 1..(m - 1)
      <4>1. i \in Nat /\ m \in Nat /\ 1 <= i /\ FileNo(s, i) <= KeepCount  BY <1>1, <3>3
      <4>2. m <= i => FileNo(s, m) <= FileNo(s, i) /\ FileNo(s, m) \in Nat /\ FileNo(s, i) \in Nat
        BY <4>1, FileNoIs
      <4> QED  BY <1>1, <3>3, <4>1, <4>2
    <3>5. ASSUME NEW i \in 1..(m - 1) PROVE i \in K
      <4>1. i \in 1..Len(s) /\ ~ (m <= i)  BY <1>1, <3>3
      <4> QED  BY <3>2, <4>1
    <3>6. K = 1..(m - 1) /\ m - 1 \in 0..Len(s)  BY <1>1, <3>3, <3>4, <3>5
    <3> QED  BY <3>6
  <2> QED  BY <2>1, <2>2
<1>3. PICK m \in 0..Len(s) : K = 1..m  BY <1>2
<1>4. Cardinality(K) = m
  <2>1. \A n \in Nat : Cardinality(1..n) = IF 1 > n THEN 0 ELSE n - 1 + 1  BY FS_Interval
  <2>2. m \in Nat  BY <1>1
  <2>3. Cardinality(1..m) = m  BY <2>1, <2>2
  <2> QED  BY <1>3, <2>3
<1>5. Cleanup(s) = SubSeq(s, 1, m)  BY <1>4 DEF Cleanup
<1>6. Len(SubSeq(s, 1, m)) = m /\ \A j \in 2..m : SubSeq(s, 1, m)[j] = s[j]
  BY <1>1
<1>7. FileNo(SubSeq(s, 1, m), m) = FileNo(s, m)
  <2>1. {j \in 2..m : SubSeq(s, 1, m)[j].label # Unknown} = {j \in 2..m : s[j].label # Unknown}  BY <1>6
  <2> QED  BY <2>1 DEF FileNo
<1>8. FileNo(s, m) <= KeepCount
  <2>1. CASE m = 0
    <3>1. {j \in 2..0 : s[j].label # Unknown} = {}  OBVIOUS
    <3>2. FileNo(s, 0) = 0 + Cardinality({})  BY <3>1 DEF FileNo
    <3> QED  BY <1>1, <2>1, <3>2, FS_EmptySet
  <2>2. CASE m # 0
    <3>1. m \in 1..m  BY <1>1, <2>2
    <3> QED  BY <1>3, <3>1
  <2> QED  BY <2>1, <2>2
<1> QED  BY <1>5, <1>6, <1>7, <1>8

(* A backup cut short adds a file, and the .version of the next one counts. *)
LEMMA CutBounds ==
  ASSUME NEW s \in Seq(BackupFile), NEW b \in BackupFile
  PROVE  FileNo(<<b>> \o s, Len(<<b>> \o s)) <= FileNo(s, Len(s)) + 2
<1> DEFINE t == <<b>> \o s
           n == Len(s)
           A == {j \in 2..(n + 1) : t[j].label # Unknown}
           B == {j \in 2..n : s[j].label # Unknown}
           T == {j + 1 : j \in B \cup {1}}
           g == [j \in B \cup {1} |-> j + 1]
<1>1. n \in Nat /\ Len(t) = n + 1 /\ \A j \in 2..(n + 1) : t[j] = s[j - 1]
  <2>1. <<b>> \in Seq(BackupFile) /\ Len(<<b>>) = 1  OBVIOUS
  <2>2. /\ Len(t) = 1 + Len(s)
        /\ \A i \in 1..(1 + Len(s)) : t[i] = IF i <= 1 THEN <<b>>[i] ELSE s[i - 1]
    BY <2>1, ConcatProperties
  <2> QED  BY <2>2
<1> HIDE DEF t, n
<1>2. IsFiniteSet(B) /\ Cardinality(B) \in Nat
  <2>1. IsFiniteSet(2..n)  BY <1>1, FS_Interval
  <2>2. B \in SUBSET (2..n)  OBVIOUS
  <2>3. IsFiniteSet(B)  BY <2>1, <2>2, FS_Subset
  <2> QED  BY <2>3, FS_CardinalityType
<1>3. IsFiniteSet(B \cup {1}) /\ Cardinality(B \cup {1}) <= Cardinality(B) + 1
  <2> HIDE DEF B
  <2>1. /\ IsFiniteSet(B \cup {1})
        /\ Cardinality(B \cup {1}) = IF 1 \in B THEN Cardinality(B) ELSE Cardinality(B) + 1
    BY <1>2, FS_AddElement
  <2> QED  BY <1>2, <2>1
<1>4. g \in Surjection(B \cup {1}, T)  BY DEF Surjection
<1>5. IsFiniteSet(T) /\ Cardinality(T) <= Cardinality(B \cup {1})  BY <1>3, <1>4, FS_Surjection
<1>6. A \in SUBSET T
  <2> SUFFICES ASSUME NEW j \in A PROVE j \in T  OBVIOUS
  <2>1. j \in Int /\ 2 <= j /\ j <= n + 1 /\ s[j - 1].label # Unknown  BY <1>1
  <2>2. j - 1 \in B \cup {1} /\ j = (j - 1) + 1  BY <1>1, <2>1
  <2> QED  BY <2>2
<1>7. Cardinality(A) <= Cardinality(T) /\ IsFiniteSet(A)  BY <1>5, <1>6, FS_Subset
<1>8. Cardinality(A) \in Nat /\ Cardinality(T) \in Nat /\ Cardinality(B \cup {1}) \in Nat
  BY <1>3, <1>5, <1>7, FS_CardinalityType
<1>9. FileNo(t, Len(t)) = n + 1 + Cardinality(A) /\ FileNo(s, n) = n + Cardinality(B)
  BY <1>1 DEF FileNo
<1> HIDE DEF A, B, T
<1>10. FileNo(t, Len(t)) <= FileNo(s, n) + 2  BY <1>1, <1>2, <1>3, <1>5, <1>7, <1>8, <1>9
<1> QED  BY <1>10 DEF t, n

CountInv == \A e \in Paths : FileNo(backups[e], Len(backups[e])) <= KeepCount + 2 * Spent("cut")

LEMMA CountInit == Init => CountInv
<1> SUFFICES ASSUME Init, NEW e \in Paths PROVE FileNo(backups[e], Len(backups[e])) <= KeepCount + 2 * Spent("cut")
  BY DEF CountInv
<1>1. backups[e] = << >> /\ Len(<< >>) = 0 /\ Spent("cut") = 0  BY DEF Init, Spent, Events
<1>2. {j \in 2..0 : << >>[j].label # Unknown} = {}  OBVIOUS
<1>3. FileNo(<< >>, 0) = 0 + Cardinality({})  BY <1>2 DEF FileNo
<1> QED  BY <1>1, <1>3, FS_EmptySet

(* Only Backup changes the backups; the budget never grows. *)
LEMMA CountStep == ASSUME BinInv, BinInv', CountInv, [Next]_vars PROVE CountInv'
<1>1. {"cut", "op", "fail", "crash", "restart", "age"} \subseteq Events  BY DEF Events
<1>2. TypeInv  BY DEF BinInv
<1>3. /\ Spent("cut") \in Nat /\ Spent("cut")' \in Nat
      /\ left["cut"] \in Nat /\ Budget["cut"] \in Nat
  <2>1. left["cut"] \in Nat /\ left["cut"] <= Budget["cut"] /\ Budget["cut"] \in Nat
    BY <1>1, <1>2 DEF TypeInv
  <2>2. left'["cut"] \in Nat /\ left'["cut"] <= Budget["cut"]
    BY <1>1 DEF BinInv, TypeInv
  <2> QED  BY <2>1, <2>2 DEF Spent
<1>4. ASSUME UNCHANGED backups, LeftKeeps PROVE CountInv'
  <2>1. Spent("cut") <= Spent("cut")'  BY <1>1, <1>3, <1>4 DEF LeftKeeps, Spent
  <2> SUFFICES ASSUME NEW e \in Paths
        PROVE  FileNo(backups[e], Len(backups[e])) <= KeepCount + 2 * Spent("cut")'
    BY <1>4 DEF CountInv
  <2>2. FileNo(backups[e], Len(backups[e])) \in Nat
    <3>1. backups[e] \in Seq(BackupFile)  BY <1>2 DEF TypeInv
    <3> QED  BY <3>1, FileNoNat
  <2>3. FileNo(backups[e], Len(backups[e])) <= KeepCount + 2 * Spent("cut")  BY DEF CountInv
  <2> QED  BY <1>3, <2>1, <2>2, <2>3
<1>5. ASSUME NEW p \in Procs, Backup(p) PROVE CountInv'
  <2> SUFFICES ASSUME NEW d \in Paths
        PROVE  FileNo(backups'[d], Len(backups'[d])) <= KeepCount + 2 * Spent("cut")'
    BY DEF CountInv
  <2> DEFINE e == name[p]
             s == backups[e]
             b(w) == [label |-> IF w THEN running[p] ELSE Unknown, ver |-> fs[e].ver, whole |-> w /\ fs[e].whole]
  <2>1. e \in Paths /\ s \in Seq(BackupFile) /\ backups \in [Paths -> Seq(BackupFile)]  BY <1>2 DEF TypeInv
  <2>2. \A w \in BOOLEAN : b(w) \in BackupFile  BY <1>2 DEF TypeInv, BackupFile, File
  <2>3. \A x \in Paths : FileNo(backups[x], Len(backups[x])) \in Nat
                         /\ FileNo(backups[x], Len(backups[x])) <= KeepCount + 2 * Spent("cut")
    <3> SUFFICES ASSUME NEW x \in Paths PROVE FileNo(backups[x], Len(backups[x])) \in Nat
      BY DEF CountInv
    <3>1. backups[x] \in Seq(BackupFile)  BY <2>1
    <3> QED  BY <3>1, FileNoNat
  <2>4. CASE SaveBackup(p, TRUE) /\ UNCHANGED left
    <3> DEFINE t == Cleanup(<<b(TRUE)>> \o s)
    <3>1. backups' = [backups EXCEPT ![e] = t]  BY <2>4 DEF SaveBackup
    <3>2. FileNo(t, Len(t)) <= KeepCount /\ t \in Seq(BackupFile)
      BY <2>1, <2>2, AddedIs, CleanupBounds, CleanupIs
    <3>3. FileNo(t, Len(t)) \in Nat
      <4> HIDE DEF t
      <4> QED  BY <3>2, FileNoNat
    <3>4. Spent("cut")' = Spent("cut")  BY <2>4 DEF Spent
    <3> HIDE DEF t, s
    <3>5. CASE d = e  BY <1>3, <2>1, <3>1, <3>2, <3>3, <3>4, <3>5
    <3>6. CASE d # e  BY <2>1, <2>3, <3>1, <3>4, <3>6
    <3> QED  BY <3>5, <3>6
  <2>5. CASE Spend("cut") /\ SaveBackup(p, FALSE)
    <3> DEFINE t == <<b(FALSE)>> \o s
    <3>1. backups' = [backups EXCEPT ![e] = t]  BY <2>5 DEF SaveBackup
    <3>2. FileNo(t, Len(t)) <= FileNo(s, Len(s)) + 2 /\ t \in Seq(BackupFile)
      BY <2>1, <2>2, AddedIs, CutBounds
    <3>3. FileNo(t, Len(t)) \in Nat
      <4> HIDE DEF t
      <4> QED  BY <3>2, FileNoNat
    <3>4. Spent("cut")' = Spent("cut") + 1  BY <1>1, <1>2, <1>3, <2>5, SpendDoes DEF Spent
    <3>5. FileNo(s, Len(s)) \in Nat /\ FileNo(s, Len(s)) <= KeepCount + 2 * Spent("cut")  BY <2>1, <2>3
    <3> HIDE DEF t, s
    <3>6. CASE d = e
      <4>1. backups'[d] = t  BY <2>1, <3>1, <3>6
      <4>2. FileNo(t, Len(t)) <= KeepCount + 2 * Spent("cut")'  BY <1>3, <3>2, <3>3, <3>4, <3>5
      <4> QED  BY <4>1, <4>2
    <3>7. CASE d # e
      <4>1. backups'[d] = backups[d]  BY <2>1, <3>1, <3>7
      <4> QED  BY <1>3, <2>3, <3>4, <4>1
    <3> QED  BY <3>6, <3>7
  <2>6. CASE UNCHANGED <<backups, left>>  BY <1>2, <1>4, <2>6, SameLeft DEF CountInv
  <2> QED  BY <1>5, <2>4, <2>5, <2>6 DEF Backup
<1>6. ASSUME NEW p \in Procs, ~ Backup(p),
             (\E v \in Versions : StartInstall(p, v)) \/ (\E l : StartRollback(p, l) \/ NoBackup(p, l))
             \/ Create(p) \/ Write(p) \/ Sweep(p) \/ MoveAway(p) \/ Place(p) \/ Recover(p) \/ Dispose(p)
             \/ Crash(p) \/ Restart(p)
      PROVE  CountInv'
  <2>1. UNCHANGED backups
    BY <1>6 DEF StartInstall, StartRollback, Begin, NoBackup, Create, Write, Sweep, MoveAway, Place,
                Recover, Dispose, Crash, Restart
  <2>2. UNCHANGED left \/ \E k \in Events : Spend(k)
    <3>1. CASE \E v \in Versions : StartInstall(p, v)  BY <1>1, <3>1 DEF StartInstall, Begin
    <3>2. CASE \E l : StartRollback(p, l) \/ NoBackup(p, l)  BY <1>1, <3>2 DEF StartRollback, Begin, NoBackup
    <3>3. CASE Create(p) \/ Write(p)  BY <1>1, <3>3 DEF Create, Write, WriteOk, WriteError
    <3>4. CASE Sweep(p) \/ Dispose(p)  BY <3>4 DEF Sweep, Dispose
    <3>5. CASE MoveAway(p) \/ Place(p)  BY <1>1, <3>5 DEF MoveAway, Place, TryRename
    <3>6. CASE Recover(p)  BY <1>1, <3>6 DEF Recover
    <3>7. CASE Crash(p) \/ Restart(p)  BY <1>1, <3>7 DEF Crash, Restart
    <3> QED  BY <1>6, <3>1, <3>2, <3>3, <3>4, <3>5, <3>6, <3>7
  <2>3. LeftKeeps  BY <1>2, <2>2, SpendDoes, SameLeft
  <2> QED  BY <1>4, <2>1, <2>3
<1>7. CASE Age
  <2>1. LeftKeeps /\ UNCHANGED backups  BY <1>1, <1>2, <1>7, SpendDoes DEF Age
  <2> QED  BY <1>4, <2>1
<1>8. CASE UNCHANGED vars
  <2>1. LeftKeeps /\ UNCHANGED backups  BY <1>2, <1>8, SameLeft DEF vars
  <2> QED  BY <1>4, <2>1
<1> QED  BY <1>5, <1>6, <1>7, <1>8 DEF Next

-----------------------------------------------------------------------------
(* The theorems *)

LEMMA BinInvariant == ASSUME MaxBusy <= 1 PROVE Spec => []BinInv
<1>1. BinInv /\ [Next]_vars => BinInv'  BY BinStep
<1> QED  BY <1>1, BinInit, PTL DEF Spec

(* Files, handles, names and jobs stay within their types, and the backups  *)
(* of a program are no more than CleanupOldBackups leaves, but for those    *)
(* that were cut short.                                                     *)
THEOREM BinTypeCorrect == ASSUME MaxBusy <= 1 PROVE Spec => []TypeOK
<1>1. BinInv /\ BinInv' /\ CountInv /\ [Next]_vars => CountInv'  BY CountStep
<1>2. BinInv /\ CountInv => TypeOK  BY DEF BinInv, TypeInv, CountInv, TypeOK
<1> QED  BY <1>1, <1>2, BinInvariant, CountInit, PTL DEF Spec

(* replaceExecutable with its recovery: unless a process died or two        *)
(* operations failed, the program is there whenever nothing is under way.   *)
THEOREM BinProgramPresent == ASSUME MaxBusy <= 1 PROVE Spec => []ProgramPresent
<1>1. BinInv => ProgramPresent
  <2> SUFFICES ASSUME BinInv, Busy = {}, Spent("crash") = 0, Spent("fail") <= 1 PROVE There(Exe)
    BY DEF ProgramPresent
  <2>1. \A p \in Procs : pc[p] = "idle"  BY DEF Busy
  <2> QED  BY <2>1 DEF BinInv, PresentInv
<1> QED  BY <1>1, BinInvariant, PTL

(* The program at its path was copied to its end, whatever failed and       *)
(* whenever a process died.                                                 *)
THEOREM BinNeverHalf == ASSUME MaxBusy <= 1 PROVE Spec => []NeverHalf
<1>1. BinInv => NeverHalf  BY ProgPaths DEF BinInv, WholeInv, NeverHalf, There
<1> QED  BY <1>1, BinInvariant, PTL

(* On Windows a replacement that reports success has put the version asked  *)
(* for at the program's path.                                               *)
THEOREM BinSuccessIsTrue == ASSUME MaxBusy <= 1 PROVE Spec => []SuccessIsTrue
<1>1. BinInv => SuccessIsTrue
  <2> SUFFICES ASSUME BinInv, NEW p \in Procs, pc[p] = "dispose", os = "windows"
        PROVE  There(Exe) /\ fs[Exe].ver = job[p].ver /\ fs[Exe].whole = job[p].whole
    BY DEF SuccessIsTrue
  <2>1. job[p].exe = Exe  BY DEF BinInv, JobInv
  <2>2. Holds(Exe, job[p]) /\ (fs[Exe].whole <=> job[p].whole)  BY <2>1 DEF BinInv, StageInv
  <2>3. fs[Exe].whole \in BOOLEAN /\ job[p].whole \in BOOLEAN
    BY ProgPaths DEF BinInv, TypeInv, File, Job
  <2> QED  BY <2>2, <2>3 DEF Holds, There
<1> QED  BY <1>1, BinInvariant, PTL

(* No crash and no failed operation loses the program for good: a whole     *)
(* copy of it is at its path or beside it.                                  *)
THEOREM BinNothingLost == ASSUME MaxBusy <= 1 PROVE Spec => []NothingLost
<1>1. BinInv => NothingLost
  <2> SUFFICES ASSUME BinInv, Spent("cut") = 0 PROVE \E x \in Paths : There(x) /\ fs[x].whole
    BY DEF NothingLost
  <2>1. os = "linux" \/ os = "windows"  BY DEF BinInv, TypeInv
  <2>2. Exe \in Paths /\ (There(Exe) => fs[Exe].whole)  BY ProgPaths DEF BinInv, WholeInv, There
  <2> QED  BY <2>1, <2>2, ProgPaths DEF BinInv, CopyInv
<1> QED  BY <1>1, BinInvariant, PTL
=============================================================================

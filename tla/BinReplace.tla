----------------------------- MODULE BinReplace -----------------------------
(***************************************************************************)
(* Replacement of the program's executable on disk (wafupdate/             *)
(* binreplace.go, wafupdate/selfupdate.go, utils/backuputil.go): a Worker  *)
(* installs a new version or goes back to a backup, the Supervisor and the *)
(* command line go back to a backup.                                       *)
(*                                                                         *)
(* A step is one file operation (with its retries: retryFileOp is the      *)
(* outcome of the last attempt).  Every process does its own steps; only   *)
(* the Workers' flag GWAF_RUNTIME_IS_UPDATETING keeps two of ONE process's *)
(* replacements apart.                                                     *)
(***************************************************************************)
EXTENDS Integers, Sequences, FiniteSets

CONSTANTS
  Procs,      (* the processes: a Supervisor, Workers, command lines        *)
  Supervisors,(* those that sweep the leftovers when they start             *)
  Workers,    (* those that install new versions                            *)
  Platforms,  (* a subset of {"linux", "windows"}                           *)
  Versions,   (* versions of the program, positive numbers                  *)
  First,      (* the version installed at the beginning                     *)
  OldNames,   (* bound: the unique .old names ever used                     *)
  KeepCount,  (* files CleanupOldBackups keeps: 5 in the code               *)
  MaxBusy,    (* how many processes replace the program at the same time    *)
  Budget      (* bound: operations, faults, restarts and the age limit      *)

Events == {"op", "fail", "cut", "crash", "restart", "age"}

ASSUME BinAssumption ==
  /\ IsFiniteSet(Procs) /\ Supervisors \subseteq Procs /\ Workers \subseteq Procs
  /\ Platforms \subseteq {"linux", "windows"}
  /\ Versions \subseteq Nat \ {0} /\ First \in Versions
  /\ {"new", "rollback", "gone"} \cap OldNames = {}
  /\ KeepCount \in Nat \ {0} /\ MaxBusy \in Nat
  /\ Budget \in [Events -> Nat]

(* A path in the program's directory: the program itself, or a temporary   *)
(* file named after another path with one more suffix.                     *)
Suffix == OldNames \cup {"new", "rollback"}
Exe      == <<>>
Paths    == {Exe} \cup {<<a>> : a \in Suffix} \cup {<<a, b>> : a \in OldNames, b \in Suffix}
Gone     == <<"gone">>      \* where an unlinked file is
Newest   == 0               \* RollbackExecutable(""), instead of a version
Unknown  == -1              \* the label of a backup without a .version file
NoFile   == [ver |-> First, whole |-> FALSE, fresh |-> FALSE, here |-> FALSE]
Steps    == {"idle", "backup", "create", "write", "sweep", "away", "place", "recover", "dispose"}

VARIABLES
  os,       \* the platform
  fs,       \* the files of the program's directory
  backups,  \* data/backups_bin: the backups of the program at each path, newest first
  names,    \* .old names not used yet
  alive,    \* the processes running
  img,      \* where the file each one runs from is now
  name,     \* what os.Executable tells each one
  running,  \* the version each one runs
  pc, job,  \* the replacement each one is in
  fd,       \* the file each one is writing
  out,      \* how its last replacement ended
  left      \* what is left of Budget

procVars == <<alive, img, name, running>>
jobVars  == <<pc, job, fd, out>>
vars     == <<os, fs, backups, names, procVars, jobVars, left>>

File       == [ver : Versions, whole : BOOLEAN, fresh : BOOLEAN, here : BOOLEAN]
BackupFile == [label : Versions \cup {Unknown}, ver : Versions, whole : BOOLEAN]
Job == [exe : Paths, stage : {"new", "rollback"}, old : Paths \cup {Gone},
        ver : Versions, whole : BOOLEAN]

-----------------------------------------------------------------------------
(* Files *)

Spend(e) == left[e] > 0 /\ left' = [left EXCEPT ![e] = @ - 1]
Goto(p, l) == pc' = [pc EXCEPT ![p] = l]
There(x) == fs[x].here
Busy     == {p \in Procs : pc[p] # "idle"}
Stage(p) == Append(job[p].exe, job[p].stage)

(* Windows: a running image cannot be removed or replaced, an open file    *)
(* cannot be moved or removed either.                                      *)
Locked(x) == os = "windows" /\ \E p \in Procs : (alive[p] /\ img[p] = x) \/ fd[p] = x

(* Every handle on a file follows it when a is renamed to b ... *)
Follow(h, a, b) == [p \in Procs |-> IF h[p] = a THEN b ELSE IF h[p] = b THEN Gone ELSE h[p]]
(* ... and so does /proc/self/exe, which os.Executable reads on Linux. *)
NameAfter(a, b) ==
  [p \in Procs |-> IF os = "linux" /\ alive[p] /\ img[p] = a THEN b ELSE name[p]]

Rename(a, b) ==
  /\ fs'   = [fs EXCEPT ![a] = NoFile, ![b] = fs[a]]
  /\ img'  = Follow(img, a, b)
  /\ fd'   = Follow(fd, a, b)
  /\ name' = NameAfter(a, b)

(* os.Rename refused by the system. *)
CannotMove(a, b) == os = "windows" /\ (Locked(b) \/ \E p \in Procs : fd[p] = a)

Lose(h, X) == [p \in Procs |-> IF h[p] \in X THEN Gone ELSE h[p]]
Unlink(X) ==
  /\ fs'  = [x \in Paths |-> IF x \in X THEN NoFile ELSE fs[x]]
  /\ img' = Lose(img, X)
  /\ fd'  = Lose(fd, X)

(* sweepLeftovers: the .old files of the program at e, and its staging     *)
(* files when the process starts; a file written less than a minute ago    *)
(* stays, and so does one that cannot be removed.                          *)
SweepAll(e, staging) == {x \in {Append(e, s) : s \in Suffix} : x \in Paths /\ There(x) /\ ~Locked(x)} \* mutant
Leftovers(e, staging) ==
  {x \in {Append(e, s) : s \in OldNames \cup (IF staging THEN {"new", "rollback"} ELSE {})} :
     x \in Paths /\ There(x) /\ ~fs[x].fresh /\ ~Locked(x)}

-----------------------------------------------------------------------------
(* Beginning of a replacement *)

Begin(p, l, j) ==
  /\ alive[p] /\ pc[p] = "idle" /\ Cardinality(Busy) < MaxBusy
  /\ Len(name[p]) < 2 /\ names # {}           \* bound on the paths
  /\ Spend("op")
  /\ Goto(p, l)
  /\ job' = [job EXCEPT ![p] = j]
  /\ out' = [out EXCEPT ![p] = "none"]
  /\ UNCHANGED <<os, fs, backups, names, procVars, fd>>

(* UpdateApi: the goroutine backs up, downloads and installs v. *)
StartInstall(p, v) ==
  /\ p \in Workers
  /\ Begin(p, "backup", [exe |-> name[p], stage |-> "new", old |-> Gone, ver |-> v, whole |-> TRUE])

(* BackupExecutable: the file os.Executable names is copied; the label is  *)
(* the version that runs, in a .version file written after the clean-up.   *)
(* A copy that is cut short stays in the directory, without a label and    *)
(* without a clean-up, and the upgrade goes on.                            *)
FileNo(s, i) == i + Cardinality({j \in 2..i : s[j].label # Unknown})
KeepAll(s) == s   \* mutant
(* CleanupOldBackups takes the .version files for backups: the newest      *)
(* KeepCount files stay.  (A .version file left alone goes the next time.) *)
Cleanup(s) == SubSeq(s, 1, Cardinality({i \in 1..Len(s) : FileNo(s, i) <= KeepCount}))
SaveBackup(p, whole) ==
  LET e == name[p]
      b == [label |-> IF whole THEN running[p] ELSE Unknown, ver |-> fs[e].ver, whole |-> whole /\ fs[e].whole]
  IN backups' = [backups EXCEPT ![e] = IF whole THEN Cleanup(<<b>> \o @) ELSE <<b>> \o @]

Backup(p) ==
  /\ pc[p] = "backup"
  /\ \/ There(name[p]) /\ SaveBackup(p, TRUE) /\ UNCHANGED left
     \/ There(name[p]) /\ Spend("cut") /\ SaveBackup(p, FALSE)
     \/ ~There(name[p]) /\ UNCHANGED <<backups, left>>
  /\ Goto(p, "create")
  /\ job' = [job EXCEPT ![p].exe = name[p]]
  /\ UNCHANGED <<os, fs, names, procVars, fd, out>>

(* ListBackups: the backups of the program os.Executable names; those that *)
(* are asked for, and the first of them in a list sorted by time.          *)
Listed(p)    == backups[name[p]]
Asked(p, l)  == {i \in DOMAIN Listed(p) : l = Newest \/ Listed(p)[i].label = l}
Target(p, l) == Listed(p)[CHOOSE i \in Asked(p, l) : \A j \in Asked(p, l) : i <= j]

(* RollbackExecutable: rollbackBinary of the Supervisor asks for the       *)
(* newest backup, RollbackApi and the command line name one.               *)
StartRollback(p, l) ==
  /\ p \in Supervisors => l = Newest
  /\ Asked(p, l) # {}
  /\ LET b == Target(p, l)
     IN Begin(p, "create", [exe |-> name[p], stage |-> "rollback", old |-> Gone,
                            ver |-> b.ver, whole |-> b.whole])

(* RollbackExecutable: there is no such backup. *)
NoBackup(p, l) ==
  /\ p \in Supervisors => l = Newest
  /\ alive[p] /\ pc[p] = "idle" /\ Cardinality(Busy) < MaxBusy /\ Asked(p, l) = {}
  /\ Spend("op")
  /\ out' = [out EXCEPT ![p] = "nobackup"]
  /\ UNCHANGED <<os, fs, backups, names, procVars, pc, job, fd>>

-----------------------------------------------------------------------------
(* Staging *)

End(p, how) == Goto(p, "idle") /\ out' = [out EXCEPT ![p] = how]

(* removeFileForce of what an earlier attempt left, which fails silently   *)
(* on a file another process has open on Windows, then O_CREATE|O_TRUNC.   *)
Create(p) ==
  /\ pc[p] = "create"
  /\ \/ /\ fs' = [fs EXCEPT ![Stage(p)] =
                    [ver |-> job[p].ver, whole |-> FALSE, fresh |-> TRUE, here |-> TRUE]]
        /\ fd' = [(IF Locked(Stage(p)) THEN fd ELSE Lose(fd, {Stage(p)})) EXCEPT ![p] = Stage(p)]
        /\ Goto(p, "write")
        /\ UNCHANGED <<out, left>>
     \/ /\ Spend("fail")
        /\ End(p, "failed")
        /\ UNCHANGED <<fs, fd>>
  /\ UNCHANGED <<os, backups, names, procVars, job>>

(* The copy, Sync and Close; what could not be written is removed. *)
WriteOk(p) ==
  /\ fs' = IF fd[p] = Gone THEN fs
           ELSE [fs EXCEPT ![fd[p]] =
                  [ver |-> job[p].ver, fresh |-> TRUE, here |-> TRUE,
                   whole |-> /\ job[p].whole /\ fs[fd[p]].ver = job[p].ver
                             /\ \A q \in Procs \ {p} : fd[q] # fd[p]]]
  /\ Goto(p, "sweep")
  /\ UNCHANGED <<out, left>>
WriteErrorIgnored(p) == Spend("fail") /\ Goto(p, "sweep") /\ UNCHANGED <<fs, out>> \* mutant
WriteError(p) ==
  /\ Spend("fail")
  /\ fs' = IF os = "windows" /\ \E q \in Procs \ {p} : fd[q] = Stage(p) THEN fs
           ELSE [fs EXCEPT ![Stage(p)] = NoFile]
  /\ End(p, "failed")
Write(p) ==
  /\ pc[p] = "write"
  /\ WriteOk(p) \/ WriteError(p)
  /\ fd' = [fd EXCEPT ![p] = Gone]
  /\ UNCHANGED <<os, backups, names, procVars, job>>

-----------------------------------------------------------------------------
(* replaceExecutable *)

(* sweepLeftovers, then uniqueOldPath. *)
Sweep(p) ==
  /\ pc[p] = "sweep" /\ names # {}
  /\ Unlink(Leftovers(job[p].exe, FALSE))
  /\ LET n == CHOOSE n \in names : TRUE
     IN names' = names \ {n} /\ job' = [job EXCEPT ![p].old = Append(job[p].exe, n)]
  /\ Goto(p, "away")
  /\ UNCHANGED <<os, backups, alive, name, running, out, left>>

(* A rename through retryFileOp: a missing file counts as success. *)
TryRename(a, b, ok, bad) ==
  \/ ~There(a) /\ ok /\ UNCHANGED <<fs, img, fd, name, left>>
  \/ There(a) /\ ~CannotMove(a, b) /\ Rename(a, b) /\ ok /\ UNCHANGED left
  \/ /\ There(a) /\ (IF CannotMove(a, b) THEN UNCHANGED left ELSE Spend("fail"))
     /\ bad
     /\ UNCHANGED <<fs, img, fd, name>>

MoveAway(p) ==
  /\ pc[p] = "away"
  /\ TryRename(job[p].exe, job[p].old, Goto(p, "place") /\ UNCHANGED out, End(p, "failed"))
  /\ UNCHANGED <<os, backups, names, alive, running, job>>

GiveUp(p)   == End(p, "failed")                       \* mutant: the program is not put back
PutBack(p)  == Goto(p, "recover") /\ UNCHANGED out
Place(p) ==
  /\ pc[p] = "place"
  /\ TryRename(Stage(p), job[p].exe, Goto(p, "dispose") /\ UNCHANGED out, PutBack(p))
  /\ UNCHANGED <<os, backups, names, alive, running, job>>

(* One os.Rename back, without retries. *)
Recover(p) ==
  /\ pc[p] = "recover"
  /\ \/ /\ There(job[p].old) /\ ~CannotMove(job[p].old, job[p].exe)
        /\ Rename(job[p].old, job[p].exe)
        /\ End(p, "failed")
        /\ UNCHANGED left
     \/ /\ IF There(job[p].old) /\ ~CannotMove(job[p].old, job[p].exe)
           THEN Spend("fail") ELSE UNCHANGED left
        /\ End(p, "lost")
        /\ UNCHANGED <<fs, img, fd, name>>
  /\ UNCHANGED <<os, backups, names, alive, running, job>>

(* disposeOldBinary: what cannot be removed is hidden and stays. *)
Dispose(p) ==
  /\ pc[p] = "dispose"
  /\ Unlink({job[p].old} \cap {x \in Paths : There(x) /\ ~Locked(x)})
  /\ End(p, "ok")
  /\ UNCHANGED <<os, backups, names, alive, name, running, job, left>>

-----------------------------------------------------------------------------
(* Processes and time *)

(* The process dies, in the middle of a replacement or not. *)
Crash(p) ==
  /\ alive[p] /\ Spend("crash")
  /\ alive' = [alive EXCEPT ![p] = FALSE]
  /\ img'   = [img EXCEPT ![p] = Gone]
  /\ fd'    = [fd EXCEPT ![p] = Gone]
  /\ Goto(p, "idle")
  /\ out'   = [out EXCEPT ![p] = "none"]
  /\ UNCHANGED <<os, fs, backups, names, name, running, job>>

(* It is started again from the program's path (upgrade, handoff, service  *)
(* restart); a Supervisor calls CleanupLegacyLeftovers.                    *)
Restart(p) ==
  /\ pc[p] = "idle" /\ There(Exe) /\ fs[Exe].whole
  /\ Spend("restart")
  /\ alive'   = [alive EXCEPT ![p] = TRUE]
  /\ running' = [running EXCEPT ![p] = fs[Exe].ver]
  /\ name'    = [name EXCEPT ![p] = Exe]
  /\ LET X == IF p \in Supervisors THEN Leftovers(Exe, TRUE) ELSE {}
     IN /\ fs'  = [x \in Paths |-> IF x \in X THEN NoFile ELSE fs[x]]
        /\ img' = [Lose(img, X) EXCEPT ![p] = Exe]
        /\ fd'  = Lose(fd, X)
  /\ UNCHANGED <<os, backups, names, pc, job, out>>

(* A minute passes (sweepSkipRecent); the steps of a replacement take less. *)
Age ==
  /\ Busy = {} /\ \E x \in Paths : fs[x].fresh
  /\ Spend("age")
  /\ fs' = [x \in Paths |-> [fs[x] EXCEPT !.fresh = FALSE]]
  /\ UNCHANGED <<os, backups, names, procVars, jobVars>>

Init ==
  /\ os \in Platforms
  /\ fs = [x \in Paths |-> IF x = Exe THEN [ver |-> First, whole |-> TRUE, fresh |-> FALSE, here |-> TRUE]
                           ELSE NoFile]
  /\ backups = [e \in Paths |-> <<>>]
  /\ names = OldNames
  /\ alive = [p \in Procs |-> TRUE]
  /\ img = [p \in Procs |-> Exe]
  /\ name = [p \in Procs |-> Exe]
  /\ running = [p \in Procs |-> First]
  /\ pc = [p \in Procs |-> "idle"]
  /\ job = [p \in Procs |-> [exe |-> Exe, stage |-> "new", old |-> Gone, ver |-> First, whole |-> TRUE]]
  /\ fd = [p \in Procs |-> Gone]
  /\ out = [p \in Procs |-> "none"]
  /\ left = Budget

Next ==
  \/ \E p \in Procs :
       \/ \E v \in Versions : StartInstall(p, v)
       \/ \E l \in Versions \cup {Newest, Unknown} : StartRollback(p, l) \/ NoBackup(p, l)
       \/ Backup(p) \/ Create(p) \/ Write(p)
       \/ Sweep(p) \/ MoveAway(p) \/ Place(p) \/ Recover(p) \/ Dispose(p)
       \/ Crash(p) \/ Restart(p)
  \/ Age

Spec == Init /\ [][Next]_vars
-----------------------------------------------------------------------------
(* Properties *)

Spent(e) == Budget[e] - left[e]

(* The files, handles and jobs stay within their types, and the backups of *)
(* a program are no more than CleanupOldBackups leaves, but for those that *)
(* were cut short.                                                         *)
TypeOK ==
  /\ os \in Platforms
  /\ fs \in [Paths -> File]
  /\ backups \in [Paths -> Seq(BackupFile)]
  /\ names \subseteq OldNames
  /\ alive \in [Procs -> BOOLEAN] /\ running \in [Procs -> Versions]
  /\ img \in [Procs -> Paths \cup {Gone}] /\ fd \in [Procs -> Paths \cup {Gone}]
  /\ name \in [Procs -> Paths]
  /\ pc \in [Procs -> Steps] /\ job \in [Procs -> Job]
  /\ out \in [Procs -> {"none", "ok", "failed", "lost", "nobackup"}]
  /\ left \in [Events -> Nat]
  /\ \A e \in Paths : FileNo(backups[e], Len(backups[e])) <= KeepCount + 2 * Spent("cut")

(* replaceExecutable with its recovery: as long as no process died and at  *)
(* most one file operation failed, the program is there whenever no        *)
(* replacement is under way - wherever the failure came, and whatever      *)
(* earlier replacements, restarts and sweeps left in the directory.        *)
ProgramPresent ==
  (Busy = {} /\ Spent("crash") = 0 /\ Spent("fail") <= 1) => There(Exe)

(* fromStream, RollbackExecutable: the program, when there is one, was     *)
(* copied to its end, whatever copy failed and whenever a process died.    *)
(* (Backups that were cut short are left out: Spent("cut") = 0.)           *)
NeverHalf == (There(Exe) /\ Spent("cut") = 0) => fs[Exe].whole

(* On Windows a replacement that reports success has put the version it    *)
(* was asked for at the program's path.                                    *)
SuccessIsTrue ==
  \A p \in Procs : (pc[p] = "dispose" /\ os = "windows") =>
    There(Exe) /\ fs[Exe].ver = job[p].ver /\ fs[Exe].whole = job[p].whole

(* No crash and no failed operation loses the program for good: a whole    *)
(* copy is at its path or beside it, as a .old or a staging file.  (Again  *)
(* unless a backup was cut short: see the README.)                         *)
NothingLost == Spent("cut") = 0 => \E x \in Paths : There(x) /\ fs[x].whole

(* rollbackBinary (supervisor.go:882): "the version restored is the good   *)
(* one that the bad one covered".  After an installation by a Worker the   *)
(* Supervisor finds the backup that it made.                               *)
RollbackFindsBackup ==
  [][\A p \in Supervisors : (out'[p] = "nobackup" /\ out[p] # "nobackup") => \A e \in Paths : backups[e] = <<>>]_vars
=============================================================================

----------------------------- MODULE Supervisor -----------------------------
(***************************************************************************)
(* The resident Supervisor process, the Worker processes it spawns, and    *)
(* the control channel between them (supervisor/supervisor.go,             *)
(* cmd/samwaf/main.go, wafipc/protocol.go).                                *)
(*                                                                         *)
(* One Worker proxies the traffic and runs the exclusive singletons        *)
(* (tunnels, applications, cron, log export).  A rolling upgrade starts a  *)
(* second Worker in takeover mode, waits for its READY, switches to it,    *)
(* drains the old one and then lets the new one activate the singletons.   *)
(*                                                                         *)
(* A step is one critical section of s.mu with the sends and the state-    *)
(* file write that follow it, the start of a process, or a rollback of the *)
(* binary; the goroutines (one monitor per Worker, doUpgrade, Run with     *)
(* adoptOrphans, Shutdown, one handleConn per connection) interleave       *)
(* freely between steps.                                                   *)
(***************************************************************************)
EXTENDS Integers, Sequences, FiniteSets

CONSTANTS
  MaxPid,   (* bound: number of Worker processes ever spawned              *)
  Latest,   (* the newest version; the first binary is 1                   *)
  Offers,   (* the versions the update server may offer                    *)
  Proto,    (* control protocol each version speaks: ProtoVersion          *)
  CrashLimit, (* crashes within the window that make a version bad: 3      *)
  Budget    (* bound: how often each event of the environment may happen   *)

Events == {"crash", "bootFail", "supCrash", "cut", "install", "trigger",
           "readyTimeout", "goneTimeout", "spawnFail", "earlyReady", "late",
           "stop", "restart", "overtake", "rollbackFail"}

ASSUME SupervisorAssumption ==
  /\ MaxPid \in Nat \ {0}
  /\ Latest \in Nat \ {0}
  /\ CrashLimit \in Nat \ {0}
  /\ Budget \in [Events -> Nat]
  /\ Offers \subseteq 1 .. Latest /\ Proto \in [1 .. Latest -> Nat]

Pids     == 1 .. MaxPid
Versions == 1 .. Latest
None     == 0                 \* activePID = 0: no active Worker

ProcStates == {"none", "probing", "booting", "serving", "draining", "exit0", "crashed"}
RegStates  == {"none", "starting", "candidate", "active", "draining", "orphan"}
MonStates  == {"none", "new", "wait", "poll", "crash", "rollback", "backoff", "spawn"}
UpgStates  == {"idle", "spawn", "ready", "rollback", "gone", "activate", "handoff"}
RunStates  == {"none", "first", "wait1", "spawn", "ready", "wait2", "gone", "activate"}

VARIABLES
  (* Worker processes, as the operating system sees them *)
  proc,      \* life of each process
  ver,       \* version of the binary it runs
  tko,       \* started with --takeover
  tok,       \* control address and token it was given
  once,      \* its activateOnce is consumed
  singles,   \* its exclusive singletons are running
  (* control channel *)
  link,      \* "off", "dialed" (HELLO not handled yet), "up" (w.conn set) or
             \* "stray" (open, but not the connection of the registered Worker)
  rsent,     \* READY already sent on this connection
  toS, toW,  \* messages in flight to the Supervisor and to the Worker
  (* disk *)
  bin,       \* version of the executable on disk
  backups,   \* data/backups_bin, newest first
  stFile,    \* supervisor.state: token (0: no file) and PIDs
  (* Supervisor memory *)
  sup,       \* "down", "up", "stopping" (shuttingDown), "stopped" by the operator
  supVer,    \* version of the Supervisor's own image
  token,     \* control address and token in use
  reg,       \* s.workers: state of each registered Worker
  activePID,
  crashes,   \* len(s.crashTimes)
  probation, \* inside upgradeProbationWindow
  ready,     \* pids whose readyCh holds a signal
  mon,       \* monitor goroutine of each Worker; "new": still to be registered
  upg,       \* doUpgrade goroutine
  run,       \* Run goroutine with adoptOrphans
  (* environment and history *)
  left,      \* what is left of Budget
  said       \* pids that have ever sent READY

procVars == <<proc, ver, tko, tok, once, singles>>
chanVars == <<link, rsent, toS, toW>>
memVars  == <<supVer, token, reg, activePID, crashes, probation, ready, mon, upg, run>>
vars     == <<procVars, chanVars, bin, backups, stFile, sup, memVars, left, said>>

-----------------------------------------------------------------------------
(* Helpers *)

Alive(p)   == proc[p] \in {"probing", "booting", "serving", "draining"}
Dead(p)    == proc[p] \in {"exit0", "crashed"}
Online(p)  == link[p] \in {"up", "stray"}     \* its HELLO has been handled
SupUp      == sup \in {"up", "stopping"}
Unused     == {p \in Pids : proc[p] = "none"}
Fresh      == CHOOSE p \in Unused : TRUE
Holds(s,m) == \E i \in 1 .. Len(s) : s[i] = m

Spend(e) == left[e] > 0 /\ left' = [left EXCEPT ![e] = @ - 1]

(* A wait of the Supervisor is over: because nothing it could still wait   *)
(* for will happen, or because its timeout is early (event e).             *)
EndsOr(over, e) == IF over THEN UNCHANGED left ELSE Spend(e)

(* workerState.send: a message for a Worker without a connection is lost. *)
Sent(P, m) ==
  [p \in Pids |-> IF p \in P /\ link[p] = "up" /\ Alive(p) THEN Append(toW[p], m) ELSE toW[p]]

(* writeState: the registered PIDs, with the token. *)
StaleState(workers) == [token |-> token, pids |-> stFile.pids]  \* mutant: PIDs not collected
SavedState(workers) == [token |-> token, pids |-> {p \in Pids : workers[p] # "none"}]
WriteState == stFile' = SavedState(reg')

(* rollbackBinary: restore the newest backup.  Without one, or when the    *)
(* replacement fails (BinReplace has the ways), the error is logged and    *)
(* the binary stays.                                                       *)
RollbackBinary ==
  \/ bin' = (IF backups = <<>> THEN bin ELSE Head(backups)) /\ UNCHANGED left
  \/ bin' = bin /\ Spend("rollbackFail")

(* spawn: the first Worker is taken to be the active one. *)
NeverActive(p, takeover) == activePID  \* mutant: the new Worker is not made active
NewActive(p, takeover)   == IF ~takeover /\ activePID = None THEN p ELSE activePID

(* spawn up to cmd.Start: p runs the binary on disk, and nobody but the    *)
(* goroutine in spawn knows of it.  monitors is the table without p's.     *)
Spawn(p, takeover, monitors) ==
  /\ Unused # {} /\ p = Fresh
  /\ proc' = [proc EXCEPT ![p] = IF takeover THEN "booting" ELSE "probing"]
  /\ ver'  = [ver EXCEPT ![p] = bin]
  /\ tko'  = [tko EXCEPT ![p] = takeover]
  /\ tok'  = [tok EXCEPT ![p] = token]
  /\ mon'  = [monitors EXCEPT ![p] = "new"]
  /\ UNCHANGED <<once, singles, chanVars, reg, activePID>>

(* The rest of spawn: a new entry in s.workers, also where a HELLO has     *)
(* made one already (whose connection the new one lacks), and the monitor; *)
(* writeState is not called.                                               *)
Register(p) ==
  /\ SupUp /\ mon[p] = "new"
  /\ reg'  = [reg EXCEPT ![p] = "starting"]
  /\ activePID' = NewActive(p, tko[p])
  /\ link' = [link EXCEPT ![p] = IF @ = "up" THEN "stray" ELSE @]
  /\ mon'  = [mon EXCEPT ![p] = "wait"]
  /\ UNCHANGED <<procVars, rsent, toS, toW, bin, backups, stFile, sup, supVer, token, crashes,
                 probation, ready, upg, run, left, said>>

Spawned(p) == mon[p] # "new"     \* spawn has returned to its caller

(* waitReady has a READY of p. *)
DontWait(p) == TRUE  \* mutant: the result of waitReady is ignored
IsReady(p)  == p \in ready

(* A process ends: exit code 0, or a crash or kill. *)
Die(p, how) ==
  /\ proc'    = [proc EXCEPT ![p] = how]
  /\ singles' = [singles EXCEPT ![p] = FALSE]
  /\ toW'     = [toW EXCEPT ![p] = <<>>]
  /\ UNCHANGED <<ver, tko, tok, once>>

(* The Supervisor process is gone: its memory and its connections with it.  *)
(* What it wrote to a socket before is still delivered.                     *)
NoUpgrade == [pc |-> "idle", old |-> None, new |-> None]
NoRun     == [pc |-> "none", cands |-> {}, new |-> None]

LoseSupervisor ==
  /\ link'  = [p \in Pids |-> "off"]
  /\ rsent' = [p \in Pids |-> FALSE]
  /\ toS'   = [p \in Pids |-> <<>>]
  /\ reg'   = [p \in Pids |-> "none"]
  /\ mon'   = [p \in Pids |-> "none"]
  /\ activePID' = None /\ crashes' = 0 /\ probation' = FALSE /\ ready' = {}
  /\ upg' = NoUpgrade /\ run' = NoRun
  /\ UNCHANGED <<toW, token, supVer>>

Init ==
  /\ proc = [p \in Pids |-> "none"] /\ ver = [p \in Pids |-> 1]
  /\ tko = [p \in Pids |-> FALSE]   /\ tok = [p \in Pids |-> 0]
  /\ once = [p \in Pids |-> FALSE]  /\ singles = [p \in Pids |-> FALSE]
  /\ link = [p \in Pids |-> "off"]  /\ rsent = [p \in Pids |-> FALSE]
  /\ toS = [p \in Pids |-> <<>>]    /\ toW = [p \in Pids |-> <<>>]
  /\ bin = 1 /\ backups = <<>> /\ stFile = [token |-> 0, pids |-> {}]
  /\ sup = "down" /\ supVer = 1 /\ token = 0
  /\ reg = [p \in Pids |-> "none"]  /\ mon = [p \in Pids |-> "none"]
  /\ activePID = None /\ crashes = 0 /\ probation = FALSE /\ ready = {}
  /\ upg = NoUpgrade /\ run = NoRun
  /\ left = Budget /\ said = {}

-----------------------------------------------------------------------------
(* Supervisor: Run and adoptOrphans *)

(* adoptOrphans: the recorded Workers that are still alive. *)
Orphans == {p \in stFile.pids : Alive(p)}

(* Run: reuse token and port of supervisor.state, write the state file     *)
(* (still without Workers) and pre-register the Workers that survived.     *)
SupStart ==
  /\ sup = "down"
  /\ sup' = "up" /\ supVer' = bin
  /\ token' = IF stFile.token # 0 THEN stFile.token ELSE token + 1
  /\ stFile' = [token |-> token', pids |-> {}]
  /\ reg' = [p \in Pids |-> IF p \in Orphans THEN "orphan" ELSE reg[p]]
  /\ run' = [pc |-> IF Orphans = {} THEN "first" ELSE "wait1", cands |-> Orphans, new |-> None]
  /\ UNCHANGED <<procVars, chanVars, bin, backups, activePID, crashes, probation,
                 ready, mon, upg, left, said>>

(* The first Worker; if it cannot be started Run returns the error. *)
FirstSpawn ==
  /\ SupUp /\ run.pc = "first"
  /\ run' = NoRun
  /\ \/ \E p \in Pids : Spawn(p, FALSE, mon) /\ UNCHANGED left
     \/ Spend("spawnFail") /\ UNCHANGED <<procVars, chanVars, reg, mon, activePID>>
  /\ UNCHANGED <<bin, backups, stFile, sup, supVer, token, crashes, probation, ready, upg, said>>

(* singleSameVersionOrphan *)
Claimable(p) == run.cands = {p} /\ link[p] = "up" /\ ver[p] = supVer

(* allConnected, or waiting longer is useless: a Worker that is draining   *)
(* or dead does not dial again.                                            *)
Settled == \A p \in run.cands : link[p] = "up" \/ proc[p] \in {"draining", "exit0", "crashed"}

(* The only orphan is of our version: adopt it in place, with a monitor    *)
(* that polls.                                                             *)
AdoptClaim(p) ==
  /\ SupUp /\ run.pc = "wait1" /\ Claimable(p)
  /\ activePID' = p
  /\ reg' = [reg EXCEPT ![p] = "active"] /\ WriteState
  /\ toW' = Sent({p}, "ACTIVATE")
  /\ mon' = [mon EXCEPT ![p] = "poll"]
  /\ run' = NoRun
  /\ UNCHANGED <<procVars, link, rsent, toS, bin, backups, sup, supVer, token, crashes,
                 probation, ready, upg, left, said>>

(* The 8 seconds of an adoption wait are over.  Running out before every   *)
(* live orphan has dialed again is the event "late".                       *)
AdoptWaited ==
  /\ SupUp /\ run.pc = "wait1" /\ ~ \E p \in run.cands : Claimable(p)
  /\ EndsOr(Settled, "late")
  /\ run' = [run EXCEPT !.pc = "spawn"]
  /\ UNCHANGED <<procVars, chanVars, bin, backups, stFile, sup, supVer, token, reg, activePID,
                 crashes, probation, ready, mon, upg, said>>

AdoptSpawn ==
  /\ SupUp /\ run.pc = "spawn"
  /\ \/ \E p \in Pids : /\ Spawn(p, TRUE, mon)
                        /\ run' = [run EXCEPT !.pc = "ready", !.new = p]
                        /\ UNCHANGED left
     \/ /\ Spend("spawnFail")
        /\ reg' = [p \in Pids |-> IF p \in run.cands THEN "none" ELSE reg[p]]
        /\ run' = [NoRun EXCEPT !.pc = "first"]
        /\ UNCHANGED <<procVars, chanVars, mon, activePID>>
  /\ UNCHANGED <<bin, backups, stFile, sup, supVer, token, crashes, probation, ready, upg, said>>

AdoptReady ==
  /\ SupUp /\ run.pc = "ready" /\ Spawned(run.new) /\ IsReady(run.new)
  /\ ready' = ready \ {run.new}
  /\ activePID' = run.new /\ probation' = TRUE
  /\ reg' = [reg EXCEPT ![run.new] = IF @ = "none" THEN @ ELSE "active"] /\ WriteState
  /\ run' = [run EXCEPT !.pc = "wait2"]
  /\ UNCHANGED <<procVars, chanVars, bin, backups, sup, supVer, token, crashes, mon, upg,
                 left, said>>

(* waitReady timed out: kill the new Worker, leave the orphans serving. *)
AdoptReadyTimeout ==
  /\ SupUp /\ run.pc = "ready" /\ Spawned(run.new) /\ ~IsReady(run.new)
  /\ EndsOr(Dead(run.new), "readyTimeout")
  /\ IF Alive(run.new) THEN Die(run.new, "crashed") ELSE UNCHANGED <<procVars, toW>>
  /\ reg' = [reg EXCEPT ![run.new] = "none"]
  /\ run' = NoRun
  /\ UNCHANGED <<link, rsent, toS, bin, backups, stFile, sup, supVer, token, activePID, crashes,
                 probation, ready, mon, upg, said>>

(* After the second wait: drain the orphans that are connected, forget the *)
(* others.                                                                 *)
AdoptDrain ==
  /\ SupUp /\ run.pc = "wait2"
  /\ EndsOr(Settled, "late")
  /\ LET confirmed == {p \in run.cands : reg[p] # "none" /\ link[p] = "up"}
     IN  /\ reg' = [p \in Pids |-> IF p \in confirmed THEN "draining"
                                   ELSE IF p \in run.cands THEN "none" ELSE reg[p]]
         /\ toW' = Sent(confirmed, "DRAIN")
         /\ run' = [run EXCEPT !.pc = "gone", !.cands = confirmed]
  /\ UNCHANGED <<procVars, link, rsent, toS, bin, backups, stFile, sup, supVer, token, activePID,
                 crashes, probation, ready, mon, upg, said>>

(* A wait for p's exit can only end by its timeout: the message m that     *)
(* tells it to go was lost (p is connected again and knows nothing of it,  *)
(* or can never connect), or p is dead and nobody will unregister it.      *)
NoWait(p, m)    == TRUE   \* mutant: the exit is not awaited
NoTimeout(p, m) == FALSE  \* mutant: the wait has no timeout
Stuck(p, m) ==
  \/ /\ proc[p] \in {"probing", "booting", "serving"} /\ ~Holds(toW[p], m)
     /\ Online(p) \/ tok[p] # token
  \/ Dead(p) /\ mon[p] \notin {"new", "wait", "poll"}
  \/ Dead(p) /\ mon[p] = "poll" /\ sup = "stopping"

(* waitPIDsGone: unregister the ones that are dead; until all are, or the  *)
(* timeout.                                                                *)
AdoptGone ==
  /\ SupUp /\ run.pc = "gone"
  /\ EndsOr((\A p \in run.cands : Dead(p)) \/ (\E p \in run.cands : Alive(p) /\ Stuck(p, "DRAIN")),
            "goneTimeout")
  /\ reg' = [p \in Pids |-> IF p \in run.cands /\ Dead(p) THEN "none" ELSE reg[p]]
  /\ run' = [run EXCEPT !.pc = "activate"]
  /\ UNCHANGED <<procVars, chanVars, bin, backups, stFile, sup, supVer, token, activePID,
                 crashes, probation, ready, mon, upg, said>>

AdoptActivate ==
  /\ SupUp /\ run.pc = "activate"
  /\ toW' = IF reg[run.new] # "none" THEN Sent({run.new}, "ACTIVATE") ELSE toW
  /\ run' = NoRun
  /\ UNCHANGED <<procVars, link, rsent, toS, bin, backups, stFile, sup, supVer, token, reg,
                 activePID, crashes, probation, ready, mon, upg, left, said>>

-----------------------------------------------------------------------------
(* Supervisor: handleConn and onWorkerMsg *)

(* HELLO with the right token.  An unknown pid gets an entry of its own,   *)
(* which no monitor watches.  A Worker takes longer to get here than spawn *)
(* to register it; the contrary is the event "overtake".                   *)
Compatible(p) == Proto[ver[p]] = Proto[supVer]

HandleHello(p) ==
  /\ SupUp /\ link[p] = "dialed" /\ Compatible(p)
  /\ EndsOr(Spawned(p), "overtake")
  /\ link' = [link EXCEPT ![p] = "up"]
  /\ reg'  = [reg EXCEPT ![p] = IF @ = "none" THEN "starting" ELSE @] /\ WriteState
  /\ UNCHANGED <<procVars, rsent, toS, toW, bin, backups, sup, supVer, token, activePID, crashes,
                 probation, ready, mon, upg, run, said>>

(* HELLO of another protocol version: SHUTDOWN, and the connection is      *)
(* closed; what the Worker has sent behind its HELLO is not read.          *)
RejectHello(p) ==
  /\ SupUp /\ link[p] = "dialed" /\ ~Compatible(p)
  /\ link' = [link EXCEPT ![p] = "off"]
  /\ toS'  = [toS EXCEPT ![p] = <<>>]
  /\ toW'  = [toW EXCEPT ![p] = IF Alive(p) THEN Append(@, "SHUTDOWN") ELSE @]
  /\ UNCHANGED <<procVars, rsent, bin, backups, stFile, sup, memVars, left, said>>

OnReady(p) ==
  /\ SupUp /\ link[p] # "dialed" /\ toS[p] # <<>> /\ Head(toS[p]) = "READY"
  /\ toS'   = [toS EXCEPT ![p] = Tail(@)]
  /\ reg'   = [reg EXCEPT ![p] = IF @ = "none" \/ link[p] = "stray" THEN @ ELSE "candidate"]
  /\ ready' = ready \cup {p}
  /\ UNCHANGED <<procVars, link, rsent, toW, bin, backups, stFile, sup, supVer, token, activePID,
                 crashes, probation, mon, upg, run, left, said>>

(* doUpgrade up to the spawn; while one is running another is ignored. *)
BeginUpgrade == upg' = IF upg.pc = "idle" THEN [pc |-> "spawn", old |-> activePID, new |-> None] ELSE upg

OnRequestUpgrade(p) ==
  /\ SupUp /\ link[p] # "dialed" /\ toS[p] # <<>> /\ Head(toS[p]) = "REQUEST_UPGRADE"
  /\ toS' = [toS EXCEPT ![p] = Tail(@)]
  /\ BeginUpgrade
  /\ UNCHANGED <<procVars, link, rsent, toW, bin, backups, stFile, sup, supVer, token, reg,
                 activePID, crashes, probation, ready, mon, run, left, said>>

(* TRIGGER_UPGRADE from the command line: a rolling restart, which the     *)
(* operator asks of a service that is running.                             *)
OnTriggerUpgrade ==
  /\ SupUp /\ Spend("trigger") /\ \E p \in Pids : proc[p] = "serving"
  /\ BeginUpgrade
  /\ UNCHANGED <<procVars, chanVars, bin, backups, stFile, sup, supVer, token, reg, activePID,
                 crashes, probation, ready, mon, run, said>>

(* Recv fails once the dead Worker's last message is read: w.conn = nil. *)
ConnLost(p) ==
  /\ SupUp /\ Online(p) /\ Dead(p) /\ toS[p] = <<>>
  /\ link' = [link EXCEPT ![p] = "off"]
  /\ UNCHANGED <<procVars, rsent, toS, toW, bin, backups, stFile, sup, memVars, left, said>>

-----------------------------------------------------------------------------
(* Supervisor: doUpgrade *)

UpgSpawn ==
  /\ SupUp /\ upg.pc = "spawn"
  /\ \/ \E p \in Pids : /\ Spawn(p, TRUE, mon)
                        /\ upg' = [upg EXCEPT !.pc = "ready", !.new = p]
                        /\ UNCHANGED left
     \/ /\ Spend("spawnFail") /\ upg' = NoUpgrade
        /\ UNCHANGED <<procVars, chanVars, reg, mon, activePID>>
  /\ UNCHANGED <<bin, backups, stFile, sup, supVer, token, crashes, probation, ready, run, said>>

(* waitReady timed out: kill the new Worker if it is still registered and  *)
(* put the last backup back; the old Worker stays.                         *)
UpgTimeout ==
  /\ SupUp /\ upg.pc = "ready" /\ Spawned(upg.new) /\ ~IsReady(upg.new)
  /\ EndsOr(Dead(upg.new), "readyTimeout")
  /\ IF reg[upg.new] # "none" /\ Alive(upg.new)
     THEN Die(upg.new, "crashed") ELSE UNCHANGED <<procVars, toW>>
  /\ upg' = [upg EXCEPT !.pc = "rollback"]
  /\ UNCHANGED <<link, rsent, toS, bin, backups, stFile, sup, supVer, token, reg, activePID, crashes,
                 probation, ready, mon, run, said>>

UpgRollback ==
  /\ SupUp /\ upg.pc = "rollback"
  /\ RollbackBinary
  /\ upg' = NoUpgrade
  /\ UNCHANGED <<procVars, chanVars, backups, stFile, sup, supVer, token, reg, activePID, crashes,
                 probation, ready, mon, run, said>>

(* The new Worker is READY: make it the active one and drain the old one,  *)
(* if that is still registered.                                            *)
UpgSwitch ==
  /\ SupUp /\ upg.pc = "ready" /\ Spawned(upg.new) /\ IsReady(upg.new)
  /\ ready' = ready \ {upg.new}
  /\ activePID' = upg.new /\ probation' = TRUE
  /\ LET old == {p \in Pids : p = upg.old /\ reg[p] # "none"}
     IN  /\ reg' = [p \in Pids |-> IF p \in old THEN "draining"
                                   ELSE IF p = upg.new /\ reg[p] # "none" THEN "active" ELSE reg[p]]
         /\ toW' = Sent(old, "DRAIN")
         /\ upg' = [upg EXCEPT !.pc = IF old = {} THEN "activate" ELSE "gone"]
  /\ WriteState
  /\ UNCHANGED <<procVars, link, rsent, toS, bin, backups, sup, supVer, token, crashes, mon, run,
                 left, said>>

(* waitWorkerGone, or its timeout. *)
UpgOldGone ==
  /\ SupUp /\ upg.pc = "gone"
  /\ EndsOr(reg[upg.old] = "none" \/ Stuck(upg.old, "DRAIN"), "goneTimeout")
  /\ upg' = [upg EXCEPT !.pc = "activate"]
  /\ UNCHANGED <<procVars, chanVars, bin, backups, stFile, sup, supVer, token, reg, activePID,
                 crashes, probation, ready, mon, run, said>>

UpgActivate ==
  /\ SupUp /\ upg.pc = "activate"
  /\ toW' = IF reg[upg.new] # "none" THEN Sent({upg.new}, "ACTIVATE") ELSE toW
  /\ upg' = [upg EXCEPT !.pc = "handoff"]
  /\ UNCHANGED <<procVars, link, rsent, toS, bin, backups, stFile, sup, supVer, token, reg,
                 activePID, crashes, probation, ready, mon, run, left, said>>

(* selfHandoff: nothing to do, or save the state and give way to the new   *)
(* binary; handoffToNewBinary may also return an error.                    *)
HandoffNeeded == reg[upg.new] # "none" /\ ver[upg.new] # supVer /\ sup # "stopping"

HandoffSkip ==
  /\ SupUp /\ upg.pc = "handoff"
  /\ upg' = NoUpgrade
  /\ IF HandoffNeeded THEN UNCHANGED reg /\ WriteState ELSE UNCHANGED <<reg, stFile>>
  /\ UNCHANGED <<procVars, chanVars, bin, backups, sup, supVer, token, activePID, crashes,
                 probation, ready, mon, run, left, said>>

HandoffExec ==
  /\ SupUp /\ upg.pc = "handoff" /\ HandoffNeeded
  /\ stFile' = SavedState(reg)
  /\ sup' = "down" /\ LoseSupervisor
  /\ UNCHANGED <<procVars, bin, backups, left, said>>

-----------------------------------------------------------------------------
(* Supervisor: monitors and crash recovery *)

(* monitor: Wait has returned; only a crash of the active Worker heals. *)
Reap(p) ==
  /\ SupUp /\ mon[p] = "wait" /\ Dead(p)
  /\ mon' = [mon EXCEPT ![p] =
       IF sup = "stopping" \/ reg[p] = "draining" \/ p # activePID \/ proc[p] = "exit0"
       THEN "none" ELSE "crash"]
  /\ reg' = [reg EXCEPT ![p] = "none"] /\ WriteState
  /\ UNCHANGED <<procVars, chanVars, bin, backups, sup, supVer, token, activePID, crashes,
                 probation, ready, upg, run, left, said>>

(* monitorAdopted: the same by polling, without an exit code. *)
ReapAdopted(p) ==
  /\ SupUp /\ mon[p] = "poll" /\ Dead(p) /\ reg[p] # "none" /\ sup # "stopping"
  /\ mon' = [mon EXCEPT ![p] = IF reg[p] = "draining" \/ p # activePID THEN "none" ELSE "crash"]
  /\ reg' = [reg EXCEPT ![p] = "none"] /\ WriteState
  /\ UNCHANGED <<procVars, chanVars, bin, backups, sup, supVer, token, activePID, crashes,
                 probation, ready, upg, run, left, said>>

PollStops(p) ==
  /\ SupUp /\ mon[p] = "poll" /\ (reg[p] = "none" \/ sup = "stopping")
  /\ mon' = [mon EXCEPT ![p] = "none"]
  /\ UNCHANGED <<procVars, chanVars, bin, backups, stFile, sup, supVer, token, reg, activePID,
                 crashes, probation, ready, upg, run, left, said>>

(* handleCrashRespawn up to the backoff: the last crash allowed within the *)
(* window rolls the binary back if an upgrade is on probation.             *)
BadVersion == crashes + 1 >= CrashLimit /\ probation

HandleCrash(p) ==
  /\ SupUp /\ mon[p] = "crash"
  /\ activePID' = None /\ crashes' = crashes + 1
  /\ mon' = [mon EXCEPT ![p] = IF sup = "stopping" THEN "none"
                              ELSE IF BadVersion THEN "rollback" ELSE "backoff"]
  /\ UNCHANGED <<procVars, chanVars, bin, backups, stFile, sup, supVer, token, reg, probation, ready,
                 upg, run, left, said>>

CrashRollback(p) ==
  /\ SupUp /\ mon[p] = "rollback"
  /\ RollbackBinary
  /\ crashes' = 0 /\ probation' = FALSE
  /\ mon' = [mon EXCEPT ![p] = "backoff"]
  /\ UNCHANGED <<procVars, chanVars, backups, stFile, sup, supVer, token, reg, activePID, ready,
                 upg, run, said>>

(* After the backoff shuttingDown is looked at, and then, with the lock    *)
(* released, spawn(false) is called, without a retry if it fails.          *)
RespawnCheck(p) ==
  /\ SupUp /\ mon[p] = "backoff"
  /\ mon' = [mon EXCEPT ![p] = IF sup = "stopping" THEN "none" ELSE "spawn"]
  /\ UNCHANGED <<procVars, chanVars, bin, backups, stFile, sup, supVer, token, reg, activePID,
                 crashes, probation, ready, upg, run, left, said>>

Respawn(p) ==
  /\ SupUp /\ mon[p] = "spawn"
  /\ \/ (\E q \in Pids : Spawn(q, FALSE, [mon EXCEPT ![p] = "none"])) /\ UNCHANGED left
     \/ /\ Spend("spawnFail") /\ mon' = [mon EXCEPT ![p] = "none"]
        /\ UNCHANGED <<procVars, chanVars, reg, activePID>>
  /\ UNCHANGED <<bin, backups, stFile, sup, supVer, token, crashes, probation, ready, upg, run, said>>

(* Time passes: a crash leaves the 60 second window, the upgrade its       *)
(* probation.                                                              *)
CrashExpires ==
  /\ SupUp /\ crashes > 0
  /\ crashes' = crashes - 1
  /\ UNCHANGED <<procVars, chanVars, bin, backups, stFile, sup, supVer, token, reg, activePID,
                 probation, ready, mon, upg, run, left, said>>

ProbationExpires ==
  /\ SupUp /\ probation
  /\ probation' = FALSE
  /\ UNCHANGED <<procVars, chanVars, bin, backups, stFile, sup, supVer, token, reg, activePID,
                 crashes, ready, mon, upg, run, left, said>>

-----------------------------------------------------------------------------
(* Supervisor: Shutdown, crash and restart of the service *)

Shutdown ==
  /\ sup = "up" /\ Spend("stop")
  /\ sup' = "stopping"
  /\ toW' = Sent({p \in Pids : reg[p] # "none"}, "SHUTDOWN")
  /\ UNCHANGED <<procVars, link, rsent, toS, bin, backups, stFile, memVars, said>>

(* The state file is removed only if no Worker is left. *)
Nobody    == {}  \* mutant: the Workers still registered are not counted
Remaining == {p \in Pids : reg[p] # "none"}

ShutdownDone ==
  /\ sup = "stopping"
  /\ EndsOr(Remaining = {} \/ \E p \in Remaining : Stuck(p, "SHUTDOWN"), "goneTimeout")
  /\ stFile' = IF Remaining = {} THEN [token |-> 0, pids |-> {}] ELSE stFile
  /\ sup' = "stopped" /\ LoseSupervisor
  /\ UNCHANGED <<procVars, bin, backups, said>>

(* The operator starts the service again. *)
ServiceStart ==
  /\ sup = "stopped" /\ Spend("restart")
  /\ sup' = "down"
  /\ UNCHANGED <<procVars, chanVars, bin, backups, stFile, memVars, said>>

(* The Supervisor dies, its Workers do not; the service manager restarts it. *)
SupCrash ==
  /\ SupUp /\ Spend("supCrash")
  /\ sup' = "down" /\ LoseSupervisor
  /\ UNCHANGED <<procVars, bin, backups, stFile, said>>

-----------------------------------------------------------------------------
(* Workers *)

(* run: a Worker that does not take over panics if the management port is  *)
(* taken.  A Worker that boots or drains may or may not hold the port.     *)
PortTaken(p) == \E q \in Pids \ {p} : proc[q] = "serving"
PortMaybe(p) == \E q \in Pids \ {p} : proc[q] \in {"serving", "booting", "draining"}

Probe(p) ==
  /\ proc[p] = "probing" /\ ~PortTaken(p)
  /\ proc' = [proc EXCEPT ![p] = "booting"]
  /\ UNCHANGED <<ver, tko, tok, once, singles, chanVars, bin, backups, stFile, sup, memVars, left, said>>

ProbeFail(p) ==
  /\ proc[p] = "probing" /\ PortMaybe(p)
  /\ Die(p, "crashed")
  /\ UNCHANGED <<link, rsent, toS, bin, backups, stFile, sup, memVars, left, said>>

(* The proxy ports are open; only a Worker that does not take over starts  *)
(* the singletons now, and consumes its activateOnce.  Booting takes       *)
(* longer than the dial on the loopback that was started before it; the    *)
(* contrary is the event "late".                                           *)
NotConsumed(p) == once[p]              \* mutant: no markSingletonsActivated
Consumed(p)    == once[p] \/ ~tko[p]

Boot(p) ==
  /\ proc[p] = "booting"
  /\ EndsOr(Online(p) \/ ~SupUp \/ tok[p] # token, "late")
  /\ proc' = [proc EXCEPT ![p] = "serving"]
  /\ once'    = [once EXCEPT ![p] = Consumed(p)]
  /\ singles' = [singles EXCEPT ![p] = @ \/ ~tko[p]]
  /\ UNCHANGED <<ver, tko, tok, chanVars, bin, backups, stFile, sup, memVars, said>>

(* A bad binary, configuration or database ends the process during its start. *)
BootFail(p) ==
  /\ proc[p] = "booting" /\ Spend("bootFail")
  /\ Die(p, "crashed")
  /\ UNCHANGED <<link, rsent, toS, bin, backups, stFile, sup, memVars, said>>

Crash(p) ==
  /\ proc[p] = "serving" /\ Spend("crash")
  /\ Die(p, "crashed")
  /\ UNCHANGED <<link, rsent, toS, bin, backups, stFile, sup, memVars, said>>

(* workerCtrl.loop: dial and send HELLO, again 2 seconds after a loss. *)
Dial(p) ==
  /\ SupUp /\ proc[p] \in {"probing", "booting", "serving"}
  /\ link[p] = "off" /\ tok[p] = token /\ toS[p] = <<>> /\ toW[p] = <<>>
  /\ link'  = [link EXCEPT ![p] = "dialed"]
  /\ rsent' = [rsent EXCEPT ![p] = FALSE]
  /\ UNCHANGED <<procVars, toS, toW, bin, backups, stFile, sup, memVars, left, said>>

(* serve: once per connection, READY after the self check.  The check      *)
(* passes too early when the engine exists without ports, or when its      *)
(* ports are answered by another Worker: the event "earlyReady".           *)
SendReady(p) ==
  /\ link[p] # "off" /\ ~rsent[p] /\ proc[p] \in {"booting", "serving"}
  /\ EndsOr(proc[p] = "serving", "earlyReady")
  /\ rsent' = [rsent EXCEPT ![p] = TRUE]
  /\ toS'   = [toS EXCEPT ![p] = Append(@, "READY")]
  /\ said'  = said \cup {p}
  /\ UNCHANGED <<procVars, link, toW, bin, backups, stFile, sup, memVars>>

(* DRAIN and SHUTDOWN: stop reading, Graceful. *)
OnDrain(p) ==
  /\ proc[p] \in {"probing", "booting", "serving"} /\ toW[p] # <<>>
  /\ Head(toW[p]) \in {"DRAIN", "SHUTDOWN"}
  /\ proc' = [proc EXCEPT ![p] = "draining"]
  /\ link' = [link EXCEPT ![p] = IF @ = "dialed" THEN @ ELSE "off"]
  /\ toW'  = [toW EXCEPT ![p] = <<>>]
  /\ UNCHANGED <<ver, tko, tok, once, singles, rsent, toS, bin, backups, stFile, sup, memVars, left, said>>

(* ACTIVATE: activateSingletons, at most once.  While the Worker is still  *)
(* booting its engines are nil: nothing starts, and never will.            *)
ActivatesInline(p) == ~once[p] /\ proc[p] = "serving" /\ ~tko[p]  \* mutant: not after a takeover
Activates(p)       == ~once[p] /\ proc[p] = "serving"

OnActivate(p) ==
  /\ proc[p] \in {"probing", "booting", "serving"} /\ toW[p] # <<>> /\ Head(toW[p]) = "ACTIVATE"
  /\ toW'  = [toW EXCEPT ![p] = Tail(@)]
  /\ once' = [once EXCEPT ![p] = TRUE]
  /\ singles' = [singles EXCEPT ![p] = @ \/ Activates(p)]
  /\ UNCHANGED <<proc, ver, tko, tok, link, rsent, toS, bin, backups, stFile, sup, memVars, left, said>>

(* gracefulExit: os.Exit(0). *)
Exit(p) ==
  /\ proc[p] = "draining"
  /\ Die(p, "exit0")
  /\ UNCHANGED <<link, rsent, toS, bin, backups, stFile, sup, memVars, left, said>>

(* The control connection breaks; what was in flight is lost. *)
Cut(p) ==
  /\ Online(p) /\ Alive(p) /\ Spend("cut")
  /\ link' = [link EXCEPT ![p] = "off"]
  /\ toS' = [toS EXCEPT ![p] = <<>>] /\ toW' = [toW EXCEPT ![p] = <<>>]
  /\ UNCHANGED <<procVars, rsent, bin, backups, stFile, sup, memVars, said>>

(* UpdateApi: back the binary on disk up (a failure is only logged), put   *)
(* a newer version in its place, ask the Supervisor for the upgrade.       *)
BackedUpLate(v) == <<v>> \o backups    \* mutant: after the replacement
BackedUp(v)     == <<bin>> \o backups

Install(p) ==
  /\ proc[p] = "serving" /\ Spend("install")
  /\ \E v \in Offers : ver[p] < v /\ bin' = v /\ backups' \in {BackedUp(v), backups}
  /\ toS' = [toS EXCEPT ![p] = IF link[p] = "off" THEN @ ELSE Append(@, "REQUEST_UPGRADE")]
  /\ UNCHANGED <<procVars, link, rsent, toW, stFile, sup, memVars, said>>

-----------------------------------------------------------------------------
RunStep  == \/ SupStart \/ FirstSpawn \/ \E p \in Pids : AdoptClaim(p)
            \/ AdoptWaited \/ AdoptSpawn \/ AdoptReady \/ AdoptReadyTimeout
            \/ AdoptDrain \/ AdoptGone \/ AdoptActivate
UpgStep  == \/ UpgSpawn \/ UpgTimeout \/ UpgRollback \/ UpgSwitch \/ UpgOldGone \/ UpgActivate
            \/ HandoffSkip \/ HandoffExec
ConnStep(p) == HandleHello(p) \/ RejectHello(p) \/ OnReady(p) \/ OnRequestUpgrade(p) \/ ConnLost(p)
MonStep(p)  == \/ Register(p) \/ Reap(p) \/ ReapAdopted(p) \/ PollStops(p)
               \/ HandleCrash(p) \/ CrashRollback(p) \/ RespawnCheck(p) \/ Respawn(p)
WorkStep(p) == \/ Probe(p) \/ ProbeFail(p) \/ Boot(p) \/ Dial(p) \/ SendReady(p)
               \/ OnDrain(p) \/ OnActivate(p) \/ Exit(p)
EnvStep     == \/ OnTriggerUpgrade \/ CrashExpires \/ ProbationExpires
               \/ Shutdown \/ ServiceStart \/ SupCrash
               \/ \E p \in Pids : BootFail(p) \/ Crash(p) \/ Cut(p) \/ Install(p)

Next == \/ RunStep \/ UpgStep \/ ShutdownDone \/ EnvStep
        \/ \E p \in Pids : ConnStep(p) \/ MonStep(p) \/ WorkStep(p)

Spec == Init /\ [][Next]_vars

(* Goroutines and processes are scheduled, and every wait has a timeout;   *)
(* no event of the environment is promised.                                *)
Fairness ==
  /\ WF_vars(RunStep) /\ WF_vars(UpgStep) /\ WF_vars(ShutdownDone)
  /\ \A p \in Pids : WF_vars(ConnStep(p)) /\ WF_vars(MonStep(p)) /\ WF_vars(WorkStep(p))

FairSpec == Spec /\ Fairness

-----------------------------------------------------------------------------
(* Properties *)

ToSMsgs == {"READY", "REQUEST_UPGRADE"}
ToWMsgs == {"DRAIN", "SHUTDOWN", "ACTIVATE"}

ProcTypes ==
  /\ proc \in [Pids -> ProcStates] /\ ver \in [Pids -> Versions]
  /\ tko \in [Pids -> BOOLEAN]     /\ tok \in [Pids -> Nat]
  /\ once \in [Pids -> BOOLEAN]    /\ singles \in [Pids -> BOOLEAN]
  /\ \A p \in Pids : singles[p] => once[p]
ChanTypes ==
  /\ link \in [Pids -> {"off", "dialed", "up", "stray"}] /\ rsent \in [Pids -> BOOLEAN]
  /\ toS \in [Pids -> Seq(ToSMsgs)] /\ toW \in [Pids -> Seq(ToWMsgs)]
DiskTypes ==
  /\ bin \in Versions /\ backups \in Seq(Versions)
  /\ stFile \in [token : Nat, pids : SUBSET Pids]
MemTypes ==
  /\ sup \in {"down", "up", "stopping", "stopped"} /\ supVer \in Versions /\ token \in Nat
  /\ reg \in [Pids -> RegStates] /\ activePID \in Pids \cup {None} /\ ready \subseteq Pids
CrashTypes == crashes \in Nat /\ probation \in BOOLEAN
GoroutineTypes ==
  /\ mon \in [Pids -> MonStates]
  /\ upg \in [pc : UpgStates, old : Pids \cup {None}, new : Pids \cup {None}]
  /\ run \in [pc : RunStates, cands : SUBSET Pids, new : Pids \cup {None}]

(* The variables have their types, and singletons run only in a Worker     *)
(* whose activateOnce is consumed, so that no ACTIVATE starts them again.  *)
TypeOK ==
  /\ ProcTypes /\ ChanTypes /\ DiskTypes /\ MemTypes /\ CrashTypes /\ GoroutineTypes
  /\ left \in [Events -> Nat] /\ said \subseteq Pids

(* doUpgrade and adoptOrphans activate the new Worker's singletons only    *)
(* after the old Worker's process has really gone: the tunnels, the        *)
(* applications and the cron jobs never run in two Workers.                *)
SingletonExclusion == \A p, q \in Pids : singles[p] /\ singles[q] => p = q

(* A rolling upgrade, a failed one included, never interrupts the service: *)
(* once a Worker has been told to leave (and the service not been told to  *)
(* stop) some Worker is serving.                                           *)
ZeroInterruption ==
  (\E p \in Pids : proc[p] \in {"draining", "exit0"}) /\ left["stop"] = Budget["stop"]
    => \E p \in Pids : proc[p] = "serving"

(* The Supervisor drains a Worker only when another one has reported READY *)
(* (doUpgrade and adoptOrphans return when waitReady fails).               *)
DrainHasReplacement ==
  \A p \in Pids : reg[p] = "draining" \/ Holds(toW[p], "DRAIN") => \E q \in said : q # p

(* A rollback that succeeds, after a failed upgrade or a crash loop on     *)
(* probation, leaves a version on disk that is known to be good: the one   *)
(* the service was set up with, or one whose Worker has reported READY.    *)
Good(v) == v = 1 \/ \E p \in said : ver[p] = v
Judging == {p \in Pids : \/ upg.pc = "rollback" /\ upg'.pc = "idle" /\ upg.new = p
                         \/ mon[p] = "rollback" /\ mon'[p] = "backoff"}
RollsBack == Judging # {} /\ SupUp /\ SupUp' /\ left' = left /\ backups # <<>>
RollbackRestoresGood == [][RollsBack => Good(bin')]_vars

(* It is not the version of the Worker that failed, READY or not, unless   *)
(* that is the one the service was set up with.                            *)
BadVersionLeaves == [][RollsBack => bin' = 1 \/ \A p \in Judging : bin' # ver[p]]_vars

(* When the Supervisor gives way to a new binary or stops, supervisor.state *)
(* names every Worker that is still alive: the next one can adopt them.     *)
NoStrayWorker ==
  sup \in {"down", "stopped"} => \A p \in Pids : Alive(p) => p \in stFile.pids

(* When the service is stopped, at whatever point of a start or a respawn, *)
(* the state file it leaves names every Worker that was registered and is  *)
(* still alive.  (One between its start and its registration is forgotten: *)
(* README, scenarios.)                                                     *)
RegisteredKept ==
  [][SupUp /\ ~SupUp' => \A p \in Pids : Alive(p) /\ reg[p] # "none" => p \in stFile'.pids]_vars

(* A rolling upgrade always ends, whatever fails in it. *)
UpgradeTerminates == upg.pc # "idle" ~> upg.pc = "idle"

(* Crash recovery: in the end, unless the service is stopped, the active   *)
(* Worker serves and runs the singletons.  A Worker that an earlier        *)
(* Supervisor has forgotten, whose token the present one does not know,    *)
(* may prevent it: it keeps the management port.                           *)
Healthy  == activePID # None /\ proc[activePID] = "serving" /\ singles[activePID]
Forgotten == \E p \in Pids : Alive(p) /\ tok[p] # token
SelfHeals == <>Forgotten \/ <>[](Healthy \/ sup = "stopped")

(* Whatever fails, in the end some Worker serves again. *)
ServiceReturns == <>[](\E p \in Pids : proc[p] = "serving")

(* Unless something other than an installation happens, the version        *)
(* installed ends up in the active Worker.                                 *)
Undisturbed == \A e \in Events \ {"install"} : left[e] = Budget[e]
UpgradeTakesEffect == <>[](Undisturbed => Healthy /\ ver[activePID] = bin)

(* The Supervisor and its Workers implement RollingService, as long as no  *)
(* Worker that serves crashes and the service is not stopped: seen from    *)
(* outside, an upgrade, a failed one included, and the handoff to the new  *)
(* Supervisor are Workers that join before others leave, and singletons    *)
(* that change hands when their owner's process has ended.                 *)
Stage(p) ==
  CASE proc[p] \in {"none", "probing", "booting"} -> "new"
    [] proc[p] = "serving"                         -> "up"
    [] proc[p] = "draining"                        -> "leaving"
    [] OTHER                                       -> "gone"
Owners  == {p \in Pids : singles[p]}
Rolling == INSTANCE RollingService WITH
             Workers <- Pids, NoOwner <- None,
             stage <- [p \in Pids |-> Stage(p)],
             owner <- IF Owners = {} THEN None ELSE CHOOSE p \in Owners : TRUE
ImplementsRollingService == Rolling!Spec

=============================================================================

# Verification of SamWaf

TLA+ modules that model the parts of SamWaf whose correctness depends on the
order of events, TLC runs that check them on small instances, and theorems that
TLAPS proves for every instance. Paths below are relative to the repository.

## 1. The system and its parts

SamWaf is a web application firewall: a reverse proxy that inspects requests,
with a management interface, a database, scheduled tasks and an update service.
It runs as two kinds of process. A resident **Supervisor** keeps one **Worker**
running; the Worker does everything else.

| part | state it keeps | operations | what is hard |
|---|---|---|---|
| Supervisor (`supervisor/`) | registry of Workers, `activePID`, crash times, time of the last upgrade, `supervisor.state` on disk | `Run`, `adoptOrphans`, `doUpgrade`, `monitor`, `handleCrashRespawn`, `selfHandoff`, `Shutdown` | many goroutines on one mutex that is released during every wait; crash between two steps; lost messages; timeouts |
| Worker lifecycle (`cmd/samwaf/main.go`) | engines, `activateOnce`, control connection | start (with or without `--takeover`), READY, DRAIN, ACTIVATE, exit | the order of start, connection and messages |
| control channel (`wafipc/`) | TCP connections on the loopback | HELLO, READY, REQUEST_UPGRADE, TRIGGER_UPGRADE, DRAIN, SHUTDOWN, ACTIVATE | a message is sent once and may be lost |
| update (`wafupdate/`, `api/waf_sys_info.go`) | executable, backups | download, back up, replace, roll back | one step of several fails; crash between renames |
| CC counter (`wafenginecore/cccounter/`) | 64 shards of counting keys with rings of ten buckets; `ruleKeys`, `totalKeys` | `Incr`, `Cleanup`, `DropRule` | values read before a lock and used under it; limits checked outside the lock; integer division |
| CC rules (`wafenginecore/checkcc_rules.go`, `ccrule/`, `ccstats/`) | compiled rules, captcha grace, statistics | `runCCRuleSet`, `applyCCAction` | fallbacks, stale rules |
| routing of sites and hot update (`api/waf_host.go`, `cmd/samwaf/main.go`, `wafenginecore/wafworker.go`, `routing_table.go`, `website_diagnostic_route.go`, `sslorder.go`) | rows of the sites, three Go channels of ten messages and the certificate orders, the published immutable routing table | add, edit, delete, protection switch, rules, certificate renewal, reload; lookup of a request | two channels that overtake each other, a row read back after another request wrote it, several loads of the table by one request, a loop that sends to itself |
| listeners (`wafenginecore/wafengine.go`, `wafworker.go`, `model/wafenginmodel/safe_server_map.go`) | `ServerOnline`, one goroutine per server | `StartAllProxyServer`, `StartProxyServer`, `RemovePortServer`, `StopAllProxyServer` | entries looked up and written back without a lock between; check and close |
| application engine (`wafappengine/`) | `runtimes`, a monitor goroutine and a child process per runtime | `StartApp`, `StopApp`, `RestartApp`, `RemoveApp`, `LoadApp`, `StartApps`, `StopApps` | four callers at the same time, a process that ends or is restarted meanwhile, time limits |
| host guard (`wafhostguard/`), IP ban (`wafipban/`) | failure counters, bans with expiry | count, ban, escalate, expire | expiry against new failures |
| queues and log export (`wafqueue/`, `waflogexport/`, `utils/filelease/`) | queues, export tasks, leases | enqueue, batch, flush, export, delete | flush on exit, lease against deletion |
| tunnels (`waftunnelengine/`) | listeners, connections | start, stop | stop against new connections |
| cache, load balancing, web cache, websocket, access gate, captcha | in-memory tables with expiry | get, set, pick, push | expiry, concurrent removal |
| detection (`wafowasp/`, `libinjection-go/`, ...), database, API, services, certificates, firewall, notification | rows, files, system commands | request handlers | mostly data and I/O |

How they interact. The Supervisor starts Workers and talks to them over the
control channel. A Worker that serves installs a new binary and asks the
Supervisor for a rolling upgrade; the Supervisor starts a second Worker, waits
for its READY, makes it the active one, drains the first and activates the
exclusive singletons (applications, tunnels, cron, log export) in the second;
then it gives way to a Supervisor of the new binary, which adopts the Workers
named in `supervisor.state`. Inside a Worker each request passes the checks, the
CC rules among them, which count it in the shared CC counter; a scheduled task
sweeps that counter. The management API writes rows to the database and tells
the engines through channels, which one goroutine of the Worker, the main loop,
takes one message at a time.

What makes the parts correct:

- Supervisor: service is never interrupted by an upgrade; singletons never run
  twice; a Worker is drained only for one that is READY; every upgrade ends; a
  crash is healed; a rollback that succeeds leaves a good binary, not the one that
  failed; no registered Worker is forgotten by the state file.
- update: after a failure the program is still in its place; it is never half
  written; a crash loses no version for good; success means what it says.
- routing: no table sends a request to a site that is not there; a request to a
  site that stays is answered during every change; in the end the engine does
  what the database says; the main loop always returns to its channels.
- listeners: a port some site uses is not closed, and is served in the end.
- application engine: after a stop nothing of the runtime runs and nothing will
  start it; every call returns unless its own stop command never ends; an
  application that should run comes back.
- CC counter: the count returned is that of the window up to one bucket; quotas
  and maximum hold under concurrency; the counters agree with the table.

The hazards, each at its line, are listed in `PROJECT.json`.

## 2. Modules

| module | models | used by |
|---|---|---|
| `Supervisor` | Supervisor, Workers, control channel, binary and state file | `MCSupervisor` (instances), `SupervisorProofs` (theorems) |
| `RollingService` | what the Supervisor promises seen from outside: Workers join before others leave, the singletons have one owner | instantiated by `Supervisor` (refinement) |
| `BinReplace` | the files of the program's directory, backups, the replacement step by step, on Linux and Windows | `MCBinReplace` (instances), `BinReplaceProofs` (theorems) |
| `HostRouting` | rows, API requests, channels, main loop, routing table, a client's request | `MCHostRouting` (instances), `HostRoutingProofs`, `HostTableProofs` (theorems) |
| `PortServers` | `ServerOnline`, the goroutines of the servers, the drain at the end | `MCPortServers` (instances), `PortServersProofs` (theorems) |
| `AppEngine` | one managed application: runtimes, monitors, processes and the callers of the engine | `MCAppEngine` (instances), `AppEngineProofs` (theorems) |
| `CCRing` | one counting key: ring, clock, requests waiting for the lock, removal, edit of the rule | its own run, `CCRingProofs` (theorems) |
| `CCKeys` | the table of keys: shards, locks, quota, maximum, sweeps, retry by IP | `MCCCKeys` (instances), `CCKeysProofs` (theorems) |

### Supervisor

State. For each process its life (`proc`: probing the management port, booting,
serving, draining, ended with or without error), version, `--takeover` flag,
control token, `activateOnce` and running singletons; for each control
connection whether it is dialed, is the one in the Worker's registry entry (`up`)
or has lost that entry (`stray`), and the messages in flight in both directions; on disk the binary, its backups and `supervisor.state`; in the
Supervisor's memory the registry (`reg`), `activePID`, crash times,
probation, `readyCh`, and where each of its goroutines is (`mon` a monitor per
Worker, `upg` for `doUpgrade`, `run` for `Run` with `adoptOrphans`).

Actions. A step is one critical section of `s.mu` together with the sends and the
state-file write that follow it, the start of a process, or a rollback of the
binary; goroutines interleave between steps, and every
wait (`waitReady`, `waitWorkerGone`, `waitPIDsGone`, the two adoption waits, the
backoff, the shutdown deadline) is a point where anything else may happen. The
actions carry the names of the functions; `PROJECT.json` gives the lines. Three
places where a section looks like one step and is not: `spawn` starts the process
(`Spawn`) and registers it later (`Register`), and in between nobody knows of it;
`handleCrashRespawn` looks at `shuttingDown` (`RespawnCheck`), releases the lock and
only then calls `spawn` (`Respawn`); the rollback (`UpgRollback`, `CrashRollback`) comes
after the section that decided on it, and may fail, which leaves the binary as it is.
A HELLO of another protocol version is answered by SHUTDOWN and a closed connection
(`RejectHello`); the Worker's versions (`Offers`) and their protocols (`Proto`) are
constants.

Environment. Crashes of Workers (serving or booting) and of the Supervisor, cuts
of a connection, processes that cannot be started, rollbacks that fail, timeouts that
fire early, an early READY, a HELLO that overtakes the registration, installation, manual restart, stop and start of the service. Each is
an event with a `Budget`, so that a run says exactly which faults it allows.

Assumptions on time. A wait ends when nothing it waits for can still happen
(`Stuck`, `Settled`), or earlier as a budgeted event (`readyTimeout`,
`goneTimeout`, `late`). A Worker registers on the loopback before it has
finished its start, else that is the event `late`; its HELLO comes after `spawn` has
registered it, else that is the event `overtake`. A manual TRIGGER_UPGRADE
comes when a Worker serves. What a process wrote to a socket is delivered even if
it dies. A crash of the Supervisor leaves its Workers alive (the case adoption is
for). The write of the state file is one step with the section it follows.
The files an installation or a rollback touches change in one step; a rollback that
does nothing, for want of a backup it can find or because a file operation fails, is
the event `rollbackFail`. `BinReplace` has the steps between, and the case in which
`os.Executable` no longer names the installed program.

Refinement. `ImplementsRollingService` maps each process to a stage (new, up,
leaving, gone) and the singletons to their owner; every step of the Supervisor,
its Workers and the handoff is then a step of `RollingService` or a stutter. It
holds as long as no Worker that serves crashes and the service is not stopped,
which `RollingService` does not know of.

### BinReplace

State: the files beside the program (version, copied to the end or not, less than
a minute old or not), the backups, for each process the file it runs from, what
`os.Executable` tells it and where its replacement is. On Linux a rename moves
the name a process has of itself; on Windows a running image cannot be replaced
and an open file cannot be moved.

A step is one file operation with its retries (`retryFileOp` is its last
attempt): `Backup`, `Create`, `Write`, `Sweep` (with `uniqueOldPath`),
`MoveAway`, `Place`, `Recover`, `Dispose`; between two of them any process may
crash, restart and sweep. `Cleanup` counts as `CleanupOldBackups` does: every file
with the prefix, the `.version` files too. The backup's copy and label are one
step; the label's own loss is not modelled.

### HostRouting

State: the rows (`db`) and rule lists, the channels `GWAF_CHAN_MSG`,
`GWAF_CHAN_HOST`, `GWAF_CHAN_ENGINE` and `GWAF_CHAN_SSLOrder`, the table
(`HostTarget`, `HostCode`, `HostTargetNoPort`, `HostTargetMoreDomain`) in which an
object has an identity, the main loop (`eng`), API requests (`hand`), a client's
request (`req`). Host names are model strings, with `MaskSubdomain` as a map on
them; a site's settings are those that route; its rules stand for all the lists
that have a message type of their own.

An API request reads, writes the row, reads back what it sends, and sends: four
steps (`ModifyHostApi` and the like, `Write`, `Notify`, `Send`). The loop takes a
message in one step, since nothing but the loop writes the table (`withWriteTable`
publishes once); a reload loads site by site, a renewal writes and sends site by
site. `ServeHTTP` reads the table three times. `blur` and `calm` are histories:
which sites had notifications that overlapped, and whether the site of the
request has stayed at its place; the properties say what holds apart from them,
and section 3 what happens there.

### PortServers

A site is the set of the ports its row listens on. The loop's steps are
`LoadHost` (enter the ports), `StartAllProxyServer`, and `RemovePortServer` (take the
copy of `ServerOnline` that `Range` works on), `Check`, `ShutPort` for each port and
`DeletePorts`; a server's goroutine gets its
entry, sets it and listens. One protocol: the replacement of a port's server when
its type changes is not modelled, nor is HTTP/3.

### AppEngine

One application, since two share nothing. `StartApp` is the check under the lock
(`StartApp`) and the start of the process (`startProcess`); `StopApp` the lookup,
`Select`, `Close`, `Signal` or, in StopMode "cmd", `StopCmd` (the user's command, which
has no time limit and may hang), the wait with its `Timeout`, and `StopDone`;
`monitorApp` is `Wait`, `ReadConfig`, `Delay`, `Relaunch`. The callers are the main
loop, `UpgradeApi`/`RollbackApi`, ACTIVATE and the graceful stop. A stop that
exceeds its time does so because the process ignores the request, or the stop command
did nothing (`Overdue`: it does not happen while the monitor is launching); a killed process
is noticed within the five seconds that follow.

### CCRing

The ring is translated bucket by bucket, with the real number of buckets (10),
times in seconds and slots as integer quotients. A request reads clock and window
(`Enter`) before it gets the lock (`Incr`), so that requests are applied out of
order. `hits` is a history variable: the exact record the ring approximates.
Requests may come at every second from `Base` on, at the edge of a bucket or
inside it; `End` leaves more than a window and a removal.

### CCKeys

A key is a rule with a value of its dimension (client IPs among the values); the
hash is abstracted to an arbitrary map `ShardOf`. Looking a key up, reading
`totalKeys`, reserving under `metaMu`, the second read of `totalKeys` after the
unlock, and each step of a sweep are separate steps. What happens between a lock
and its unlock without touching shared state outside the lock is merged, which
is exact because of the lock. A sweep removes an arbitrary set of the shard's
keys: the idle ones (`Cleanup`) or those of a rule (`DropRule`). Two hashes that
collide, `Reset` (called by tests only) and the diagnostic counters are left out.

## 3. Runs

### Passing

| run | shows | instance |
|---|---|---|
| `sup_upgrade` | one rolling upgrade with a version that may fail at each stage, and whose rollback may fail, then the handoff: no second set of singletons, no interruption, a good binary after a rollback that succeeds, no Worker forgotten; it implements `RollingService` | 3 Workers, 2 versions, 5,733 states |
| `sup_adopt` | the Supervisor crashes at any point of a rolling restart and adopts what is left, with waits that end early and a stop of the service: never without a serving Worker, no drain without a READY | 3 Workers, 2,907,451 states |
| `sup_stop` | a crash, a stop and a start of the service in any order, also between the steps of a start or a respawn: every registered Worker left is named in the state file, and in the end the active Worker serves with its singletons, unless a Worker was forgotten between its start and its registration (a scenario below) | 3 Workers, liveness, 5,299 states |
| `sup_live` | an installation with faults, a HELLO that comes before its registration among them: the upgrade ends; one that nothing disturbs takes effect | 3 Workers, 2 versions, liveness, 135,381 states |
| `sup_bad` | a version that crashes again and again: a rollback that succeeds takes that version off the disk, although it has been READY; the singletons of a Worker are never started twice (`TypeOK`) | 3 Workers, 3 versions, one with another protocol, crash limit 2, 805,889 states |
| `cc_ring` | the count is that of the window up to one bucket, with requests up to 2 s late, removal and edit of the window within the same bucket width | windows 20, 21 s; 3 requests |
| `cc_keys` | quota, maximum and counters under two requests and a sweep | 2 rules, 6 keys, 2 shards |
| `bin_replace` | three installations and rollbacks with up to two failed operations, a backup cut short, a crash, a restart and the passing of the sweep's minute: the program is put back, never half written, never lost, and on Windows success is true | Supervisor and Worker, both platforms, 613,225 states |
| `route` | three changes out of ten kinds by two API requests: sound tables, requests answered, the engine in the end as the database says | 2 sites, one a wildcard with further ports, names, redirection and port-free names, one a catch-all; 3 requests; 697,893 states |
| `ports` | sites share and leave a port while servers start, fail to listen and the process stops: a port in use stays open and is served in the end | 2 sites, 1 port, 4 servers, liveness, 378,713 states |
| `app` | the four callers and the monitor around a process that ends or does not start: a stop holds, calls return unless their own stop command hangs, the process comes back | 1 application, 3 runtimes, 4 processes, liveness, 135,705 states |

Each property of a passing run is broken by a mutant of the code, listed in
`PROJECT.json`.

Bounds. `MaxPid` bounds the processes ever started. In the liveness runs it is
large enough for every process the allowed events can ask for; in the safety runs
it is large enough for the scenario the run is about (first Worker, upgrade or
adoption, respawn), and a behaviour that would need more simply ends. `Budget` bounds the faults: one or two of
each kind, which is what the scenarios need; faults of different kinds that
break a property together are separate runs. `CrashLimit` is the source's 3, or
2 where two crashes are enough to tell the rollback. `MaxHits = 3` in `cc_ring`:
one request in a bucket that must leave, one at the edge, one that observes.
`MaxLag` bounds how long a request waits for the lock: one that waited for a
whole window would add to a bucket of another slot. `IdleSeconds` is set just above
the window in `cc_ring`, as 300 s is for the windows in common use, and below it
in the scenario below. In `cc_keys` each rule has keys in both shards and each
shard keys of both rules; quota 2 and maximum 2 (so at most 3 keys) are both
reached; requests are symmetric.

In `bin_replace` one process replaces the program at a time (`MaxBusy = 1`; two at
a time is a scenario below), three `.old` names and paths of at most two suffixes
suffice for three replacements, and `KeepCount = 3` (5 in the code) lets the
clean-up delete. `route` bounds each kind of change and their sum by three: two
overlapping ones and one more; the channels never fill (`Cap = 10`), which is what
`route_renew` is about. In `ports` the sites share their only port, because ports
are independent but for the loop's order. In `app` the sum of API requests,
failures and exits is four: start, exit, stop and one more.

Deadlock. All runs but `cc_keys` end when their budgets or their
clock do, and a stopped service stays stopped: `CHECK_DEADLOCK FALSE`. The
`CCKeys` runs check deadlock: locks are always released.

Fairness (`FairSpec`). Weak fairness for each goroutine of the Supervisor, each
connection's handler, each monitor and each Worker: the Go scheduler and the
operating system run them, every wait of the code has a timeout, a Worker dials
again every 2 s. No event of the environment is promised. In `HostRouting`,
`PortServers` and `AppEngine` the main loop, each API request, each server's
goroutine, each call of the engine and each monitor is weakly fair: they are
goroutines. That a process ends is never assumed: `CallsReturn` holds because of
the time limit and the kill. That a stop command ends is not assumed either, and the
code has no limit for it: the property excepts the call that waits for one (`hung`),
and the main loop can be that call (a scenario below).

### A violation

`route_renew`: a renewed certificate is applied in the main loop
(`main.go:937`), and `processSSL` sends one message per site of that certificate to
`GWAF_CHAN_MSG` (`sslorder.go:413`), which holds ten and which only this loop
receives from. With eleven sites on one certificate (three, and channels of two,
in the run) the loop waits for itself for ever: no site is changed, no application
started or stopped any more.

### Scenarios in which a statement fails

Each was found with the constants given (the other constants are those of the
named run) by checking the named property; the properties are in the modules, the
budgets in the MC modules. The supervisor scenarios use `MaxPid = 4`, `Latest = 1`,
`CrashLimit = 3`, `Offers <- OnlyLatest`, `Proto <- SameProto` unless they say otherwise.

| scenario | how to see it |
|---|---|
| the new Worker dies between its READY and the switch (`supervisor.go:530`): the old one is drained for a dead process and nobody starts another, against `supervisor.go:7` "保证业务零中断" | `MCSupervisor`, `FairSpec`, `CrashInUpgrade`: `ServiceReturns` |
| the old Worker crashes during the upgrade: its respawn (`supervisor.go:490`) and the new Worker both run the singletons, against `supervisor.go:546` | `CrashInUpgrade`: `SingletonExclusion` |
| a second installation backs the bad binary up and the rollback restores it, against `supervisor.go:883` | `Latest = 2`, `SecondInstall`: `RollbackRestoresGood` |
| DRAIN is lost with the connection; after the timeout ACTIVATE is sent although the old Worker still runs (`supervisor.go:545-556`) | `CutInUpgrade`: `SingletonExclusion` |
| READY before the ports are open (`main.go:1443`): the old Worker leaves and nobody serves | `EarlyReady`: `ZeroInterruption` |
| ACTIVATE during the start consumes `activateOnce` (`main.go:1366`): the singletons never start | `FairSpec`, `EarlyReady`: `SelfHeals` |
| an upgrade during an adoption (`activePID` is 0) does not drain the orphan | `Latest = 2`, `TriggerInAdopt`: `SingletonExclusion` |
| a Supervisor crash right after a spawn: the Worker is not in the state file (`supervisor.go:335`) | `SupervisorCrash`: `SingletonExclusion` |
| a stop during an upgrade: a Worker that is started and registered after SHUTDOWN was sent is not in the state file, since `spawn` does not write it, against `supervisor.go:197` "否则下次启动收编不回来" | `Latest = 2`, `MaxPid = 3`, `StopInUpgrade`: `RegisteredKept` |
| a stop after `shuttingDown` was looked at (`supervisor.go:484`) and before the Worker is registered (`supervisor.go:337`): it gets no SHUTDOWN and is in no state file; the next Supervisor does not know its token, and it keeps the management port | `sup_stop` with `Spec`: `NoStrayWorker` |
| the Supervisor crashes after the installation of a version with another protocol: the new Supervisor, of that version, tells the old Worker, which alone serves, to shut down at its HELLO, against `supervisor.go:262` "由全量重启兜底" | `Latest = 3`, `Proto <- NewProto`, `NewProtocol`: `ZeroInterruption` |
| a Worker crashes after such an installation: the one respawned is of the new version, is refused by the old Supervisor, exits with code 0, and nobody starts another | the same with `FairSpec`, `CrashNewProtocol`: `ServiceReturns` |
| a rollback in a crash loop fails: the bad version stays on disk and is started again while no Worker serves, against `supervisor.go:883` "回滚失败不影响业务：旧 Worker 仍在服务" | `sup_bad`: `BadVersionLeaves` without `left' = left` in `RollsBack` |
| the HELLO of a Worker overtakes its registration: the entry that has the connection is replaced (`supervisor.go:338`), so that DRAIN and ACTIVATE are lost | `Overtaken`: `SingletonExclusion`; with `FairSpec`: `SelfHeals` |
| a rule's window is edited to a longer one: the slots go backwards, no bucket is cleared (`counter.go:157`) and old requests are counted | `CCRing` with `Windows = {10, 20}`, `IdleSeconds = 300`, `End = 1030`, `MaxHits = 2`, `MaxLag = 0`: `NoStaleHits` |
| windows below 10 s count 10 s (a bucket is at least a second) | the same with `Windows = {5}` |
| a window of 19 s counts 10 s (the width is truncated): far above the 10 % of the comment at `counter.go:24` | the same with `Windows = {19}`: `NoLostHits` |
| a request that waits for the lock while the ring turns once adds to the bucket of another slot | the same with `Windows = {10}`, `MaxLag = 10`: `NoStaleHits` |
| keys are removed after 300 s although the window may be a day | the same with `Windows = {40}`, `IdleSeconds = 6`, `MaxHits = 3`: `NoLostHits` |
| a rule at its quota cannot count by IP either (`checkcc_rules.go:109`), against `counter.go:41` | `cc_keys` with `MaxKeys = 3`, `RuleQuota = 1`: `OverQuotaCountsByIP` |
| on Linux a Worker's installation renames the file the Supervisor runs from; `os.Executable` then names the `.old` file and the Supervisor's rollback (`supervisor.go:882-884`) finds no backup of that name | `bin_replace` with `PlainBudget`: `RollbackFindsBackup` |
| two processes replace the program at the same time (a Worker's rollback and the Supervisor's or the command line's): they share the `.rollback` file, and a missing file counts as success (`binreplace.go:89`) | `bin_replace` with `MaxBusy = 2`, `RaceBudget`: `NeverHalf`, `SuccessIsTrue`, `ProgramPresent` |
| a backup cut short stays listed, and a rollback installs it half | `bin_replace`: `NeverHalf` without its condition on `Spent("cut")` |
| with five files kept, three backups stay, not five: the `.version` files count (`backuputil.go:71` "只保留最新的n个") | `Cleanup` with `KeepCount = 5` |
| a site that is renamed: the loop loads a row only if the name is the old one (`main.go:698-735`), and the engine keeps the old name until a reload; if the site is then deleted, the keys of its old name stay | `route` with an edit of `host` among the `Offers`: `EngineFollowsDB`, `TableSound` |
| a site with port-free names loses a further domain in an edit: `LoadHost` writes the names of the new row to `HostTargetNoPort` and removes none of the old one (`wafworker.go:262-282`), so the dropped name leads to the site until a restart | `route` with `Offers` of `s1` = `{Site("*.a", 443, {}, {"b"}, FALSE, TRUE), Site("*.a", 443, {}, {}, FALSE, TRUE)}`, the first as its existing row and `<<"b", 443>>` as a request: `EngineFollowsDB` |
| an edit of a site and the switch of its protection overlap: on two channels, or with a row read before the other's write, the older one wins; an edit and a deletion leave keys of the deleted site behind | `route`: `EngineFollowsDB` and `TableSound` without `blur` |
| a request is resolved, then its site moves to another port or is deleted: the second and third load of the table (`wafengine.go:206`) find nothing and the request is aborted, against `routing_table.go:11` "也不会读到撕裂/半改状态" | `route`: `req.pc # "aborted"` |
| `StopAllProxyServer` drains a copy of `ServerOnline` (`wafengine.go:1871`): a server that is just starting goes on serving, against `main.go:1111` | `ports` with `Spec`, `StopBudget`: `StopDrains` |
| a start request during the restart delay, or ACTIVATE beside a start request, runs the application twice: `StartApp` looks only whether it is running (`waf_app_engine.go:92`) | `app` with `Spec`: `OneProcess` |
| two stops of the same application pass the select together and close `StopChan` twice (`waf_app_engine.go:381-385`): the program panics, unless the second caller is an API request | `app` with `Spec`: `NoPanic` |
| a stop command that never ends (`waf_app_engine.go:402-410`, before the wait that has a limit) holds the main loop for good: no site is changed, no application started or stopped any more | `app`: `LoopReturns` of `AppEngine` |

## 4. Proofs

`SupervisorProofs` (assumes only that the bounds are positive naturals, the budget a
function, the versions offered among those there are, and a protocol for each):

- `TypeCorrect`: `Spec => []TypeOK`. `TypeOK` is inductive; the proof has one
  step per action.
- `DrainSafe`: `Spec => []DrainHasReplacement`. The property is not inductive: it
  needs to know where a READY comes from (`ReadySaid`: what is in a queue or in
  `readyCh` was sent by a Worker), that a process once started stays in the table
  (`SaidStarted`), and that the new Worker of an upgrade or an adoption is another
  process than those it replaces (`UpgApart`, `RunApart`), which holds because
  `spawn` starts a process that was not there. `DrainInv` is their conjunction.
- `RollbackSafe`: `Spec /\ [][InstallsOverGood]_vars => RollbackRestoresGood`, for
  every budget: a rollback that succeeds restores a good binary, whichever others
  fail, as long as no installation
  replaces a binary that no Worker has run to its READY. A second installation over
  a bad one does, and section 3 shows what comes of it (`SecondInstall`). The
  argument: every backup is of a good version (`GoodBackups`), and a version once
  good stays good because no step changes the version of a process that was
  started (`VerStays`) and only a rollback and an installation touch the disk
  (`DiskStep`). `FirstRollbackSafe` is the form without that condition for at most one
  installation, `Spec => RollbackRestoresGood /\ BadVersionLeaves`: the only backup is
  the version the service was set up with (`FirstBinary`), so that the one that failed
  leaves the disk even if it has been READY. Both speak of rollbacks that find a backup
  and succeed. One that does not leaves the binary as it is, which is not claimed to be
  good; on Linux the Supervisor does not find the backup of a Worker's installation
  (`RollbackFindsBackup`, section 3).
- `NeverInterrupted`: `Spec => []ZeroInterruption` when no Worker that serves crashes,
  none says READY early and all versions speak one protocol (`OneProtocol`); cuts, late or failed starts, crashes of the Supervisor,
  adoptions, timeouts, any number of upgrades are allowed. The three exclusions are
  scenarios of section 3. The property says that a Worker serves once another has
  been told to leave; for induction the Worker has to be one that nobody is going to
  tell or kill. That is a `Keeper`: it serves, no DRAIN or SHUTDOWN is on its way,
  and it is not on trial (a Worker that `doUpgrade` or `adoptOrphans` waits for is
  killed when its READY is late, even though it may serve by then). `Kept`: if
  anybody leaves or is told to, there is a `Keeper`; `KeptAdopt`: while an adoption
  waits for what it has claimed, the `Keeper` is not among it; `TrialApart` and
  `Trials`: the Workers on trial are none of those that are drained for them.
  `ServeInv` holds until the service is told to stop (`Unstopped`), which is when
  `ZeroInterruption` stops promising anything.

The second part of `SupervisorProofs` has three theorems for
budgets that satisfy `CalmBudget`: any number of installations or of rolling
restarts, and in them any number of Workers that fail to start, processes that
cannot be started, rollbacks that fail and upgrades whose wait for READY ends too soon,
but no event of `CalmEvents`, not both an installation and a rolling restart, one
protocol (`OneProtocol`) and one version on offer (`Offers \subseteq {Latest}`). Each
event left
out breaks `SingletonExclusion` or `NoStrayWorker`, as TLC shows: for a crash of a
Worker, a cut, a crash of the Supervisor, a HELLO that overtakes its registration, an
installation with a restart and a stop the scenarios of section 3; an early READY with two installations and a failed start;
a wait for the old Worker that ends too soon (`goneTimeout`) with one restart; a
late registration with two restarts, an upgrade that timed out and a failed start.
The budget of the run `sup_upgrade` satisfies `CalmBudget`.

- `OneSingletonOwner`: `Spec => []SingletonExclusion`;
- `WorkersFound`: `Spec => []NoStrayWorker`;
- `RollingUpgrade`: `Spec => ImplementsRollingService`.

  The inductive invariant `CalmInv` is `ServeInv` and what makes an upgrade a
  sequence of phases in spite of its being spread over two goroutines per Worker,
  the control channel and two Supervisors. `Members`: the Workers alive are the
  active one and, while an upgrade waits, its new or its old one. `Phases` and
  `Drains`: the new Worker has no singletons and no message on its way until
  ACTIVATE; DRAIN is on its way to the old one as long as it serves, so that the
  wait for its end cannot finish early. `Asked`: an upgrade, also one that is only
  requested, finds an active Worker which serves. `Heals`: the monitor restarts
  only where nobody is left. `Newborn`: a Worker that is started and not yet registered
  has no connection the Supervisor knows of, and is the new one of an upgrade or alone. `HandedOver`, `Starts`, `Settles`: between the two
  Supervisors the new Worker is alone, in the state file, and has the token the new
  one will read; after the adoption nothing asks for another upgrade. `TokensAgree`,
  `Linked` and `Registered` are why messages arrive. `ServeInv`, `CalmInv` and the
  theorems were checked with TLC on several budgets with four processes first.

  The refinement. `Stage` maps `Boot` to the abstract Join, `OnDrain` to Leave,
  `Exit` to End, `OnActivate` to Own, a start that fails and the kill of a Worker that
  timed out to Abandon, and every other step to a stutter. The abstract Leave, and
  Abandon of a Worker that may have come up by then, ask for another Worker that is
  up: the active one of `Asked`, which is the new one from the switch on. Own asks
  that nobody else has the singletons, which is what `Phases` and `Members` say
  when ACTIVATE arrives.

`CCRingProofs` (assumes `RingAssumption`: the bounds are naturals, a rule has a
window and the clock does not end before it starts; any number of buckets, seconds,
requests and edits, any windows that satisfy the hypotheses):

- `CountNotStale`: `Spec => []NoStaleHits` for `FullWindows` and `ShortWaits`: the
  windows a rule may be edited to have one bucket width and are not shorter than all
  the buckets together, and no request waits for the lock while the ring turns.
- `CountComplete`: `Spec => []NoLostHits` for `EvenWindows` and `KeysKept`: one
  width, windows at most a second longer than the buckets together, and `Cleanup`
  waits longer than the ring reaches back and two waits for the lock. With the
  code's 10 buckets and 300 seconds that is a window of up to 330 seconds in steps
  of ten, less the wait.

  Each hypothesis excludes a scenario of section 3 in which the property fails. The
  run `cc_ring` satisfies all of them.

  The first inductive invariant, `StaleInv`: the slot of the ring is that of the
  latest second counted (`SlotOfNewest`), and no bucket holds more than was counted
  in the seconds `Held(i)` of the one slot it stands for (`CountsBelow`). The second,
  `LostInv`: no bucket holds less than was counted in those of its seconds that the
  ring is sure to reach (`CountsAbove`), nothing was counted after the latest second
  (`NothingAhead`), and what was counted in a ring that was removed is out of reach
  of the requests that wait and of those to come (`Forgotten`). Both rest on
  `ClearsOld`: `Rotated` clears a bucket exactly when its slot leaves the ring.
  `TotalBelow` and `TotalAbove` carry a bound of each bucket to the count, which is
  `MapThenSumSet` over the buckets. What is needed of such sums is proved from its
  definition (`SumFirst` to `SumByBucket`) by `NatInd` and `SetInd`, two induction
  lemmas in which the property to be proved is a set, not an operator, and which
  follow from the well-foundedness of the naturals. Both invariants were checked with
  TLC on the instance of `cc_ring` first.

`CCKeysProofs` (assumes `KeysAssumption`; any number of rules, values, shards,
requests and sweeps, finite or not):

- `AccountingExact`, `QuotaSafe`, `CapSafe`, `KeysTypeCorrect`. The inductive
  invariant `KeysInv` says who holds which lock (`LockInv`: a request that
  reserves holds its shard and its key is not there; a sweep holds the shard of
  the keys it is to remove, and they are there), what the counters count
  (`Counts`), and that `totalKeys` plus the number of shards held by requests
  stays within `MaxKeys + NumShards - 1` (`CapInv`): a request enters with
  `totalKeys` below the maximum and leaves with the one key it adds. That
  `totalKeys` is never negative follows from `Counts`.

`AppEngineProofs` (assumes `AppAssumption`: the bounds are naturals; any number of
runtimes and processes):

- `AppTypeCorrect`, `AppStopHolds`. The inductive invariant `AppInv` ties the
  three parties of a stop together: a runtime has a `Cmd` exactly when it has a
  monitor, and the process of a monitor that is not waiting for it has ended
  (`ProcInv`); one caller starts a runtime, before it has a monitor (`StartInv`);
  whoever is in `StopApp` past the close of `StopChan` stops a started runtime, and
  what it killed is the process the monitor waits for (`StopInv`); a closed
  `StopChan` has either its closer still waiting or a monitor that is gone
  (`StoppedInv`). It must name the closer, not any stopper, because a second caller
  whose close panics leaves at once. The theorem is about one runtime, the one whose
  `StopChan` a stop has closed: after that stop has returned the runtime has no process
  and its monitor is gone. It says nothing of a second runtime of the same application
  (`OneProcess` in section 3) and nothing of a stop that found no process and returned
  without closing anything, and it rests on `Overdue`: the time limit of a stop does
  not pass while the monitor is launching. That `restarts` stays within `MaxRestart` needs
  `RestartInv`: the monitor compares before the delay and counts after it.

`PortServersProofs` (assumes `PortAssumption`: rows are sets of ports; any sites,
ports and servers):

- `PortTypeCorrect`, and `PortKeptTheorem`, an action property. `RemovePortServer`
  asks the rows and closes in two steps; `ShutInv` says that a site which has come
  to want the port in between has a message waiting in the channel, so that the
  port is not one a loaded row uses without anybody having been told. `EntryInv`
  (an entry, and the copy the loop works from, names a server of its own port) is
  needed because the step closes a server and the property speaks of a port.

`BinReplaceProofs` (assumes `BinAssumption`: finitely many processes, `.old` names
that are not those of staging files; any versions, names, faults and both
platforms):

- `BinTypeCorrect`, `BinProgramPresent`, `BinNeverHalf`, `BinSuccessIsTrue`,
  `BinNothingLost`, each for `MaxBusy <= 1`: with two replacements at a time
  they are false (section 3). `BinInv` has one part per question: who replaces
  (`BusyInv`), what `os.Executable` may tell a process after renames (`NameInv`), that
  the program being replaced is that one and its place is free between the two
  renames (`JobInv`), that the staging file is there, young and what the job says
  from the end of the copy to the rename (`StageInv`), that everything but staging
  files is whole unless a backup was cut short (`WholeInv`), where the program is
  when it is not at its path (`PresentInv`), and which whole copy a crash leaves
  (`CopyInv`). The bound on the backups is a second invariant (`CountInv`).

`HostRoutingProofs` (assumes `RoutingAssumption`: finitely many sites and further
ports, rows whose settings are among those the site may be given; any number of
sites, names, API requests, changes and any channel capacity):

- `RouteTypeCorrect`. `TypeInv` is finer than `TypeOK`: every row anywhere (in the
  database, a message, a request, the table) has settings its site may be given,
  and a message that is read for its row has one. That no code is given out twice
  needs that a request which is adding a site has taken its code already.
- `RouteServes`, for sites of which no two claim the same name and port (`Apart`).
  Without it `LoadHost` lets one site take another's key, and removing the first
  removes the key of the second; `CheckIsExist` (`waf_host.go:140`) compares name
  and main port only, not the further ports, so that `Apart` is about the rows an
  administrator enters. The argument: a code that was given out and has no row is
  deleted for good, and only such sites are ever removed from the table (`BornInv`,
  for messages in every place they can be); each key of the table belongs to the site whose object
  it leads to and a code leads to the place its object's row says (`TabInv`, with
  fresh identities for new objects); hence a site of the database that is in the
  table is found by its code (`FoundInv`), and a request whose site is settled
  finds the same place in each of its three reads (`ReqInv`). `ServeInv` and
  `Apart` were checked with TLC on the instance of `route` before the proof.

`HostTableProofs` (assumes `RoutingAssumption`; it extends `HostRoutingProofs`):

- `RouteTableSound`: `Spec => []TableSound` under `Apart` and `OneName`. `OneName`
  says that an edit does not change a site's name: the loop does not load a row
  whose name differs from the old one (section 3), so that a later deletion, which
  clears the keys of the row it carries, leaves those of the old name behind
  (TLC shows it once the `Offers` of a site differ in `host`).
  What has to be shown is that for a site whose changes did not overlap the row a
  deletion carries is the row the table has when the deletion is taken. The table
  may lag behind the database by any number of messages and by a reload in
  progress, so the invariant speaks of the table to come: `Tip` is the row of the
  site once the rows still to be reloaded and the messages before a given place
  have been taken. `LiveTip`: at the end of the channel that is the row of the
  database, unless a request has written and not yet sent; `HandTip`: it is the row
  a request holds that deletes the site, and what a request that adds or edits it
  is about to send is the row of the database; `DelTip`: at the place of a deletion
  in the channel it is the row that deletion carries; `OutTip` and `GoneTip` say the
  same of a renewed certificate and of a reload's removals. `OneInv` (all keys of a
  site lead to one object and are the keys of its row) then makes the removal
  complete. That there is only one request to consider at a time is `BlurInv`:
  sites with two are in `blur`. `TableInv`, `Apart` and `OneName` were checked with
  TLC on the instance of `route` before the proof. `RoutingAssumption` says that no
  API request is called "loop", the name `Busy` gives the main loop.

Only model-checked, and why:

- liveness (`PortServed`, `CallsReturn`, `ComesBack`, `SelfHeals` and the like): out of the
  prover's reach;
- the Supervisor's properties for budgets outside the hypotheses above: there they
  are false in general (section 3), and a run shows those combinations for which one
  holds all the same (`RegisteredKept` with a crash and a stop in `sup_stop`);
- `NoStaleHits` and `NoLostHits` outside the hypotheses of `CCRingProofs`, where they
  are false (section 3);
- `EngineFollowsDB`: it is false without hypotheses on the names (section 3: a port-free
  name that is dropped; and sites that share a port-free name or a further domain
  depend on the order of the loads, which `Rebuilt`, a fold of `LoadHost` over the rows,
  leaves open). Under such hypotheses it needs an invariant that follows the whole row
  (settings, switch, certificate) and the rules of each site through both channels, the
  loop's own messages and a reload. `HostTableProofs` follows the settings (`Tips`),
  which is what `TableSound` needs, and no more; the rest is left to `route`.

## 5. What is not modelled

See the components in `PROJECT.json`. Of the Supervisor: the random port it takes
when the recorded one is in use, two state-file writes that overtake each other,
heartbeats, logging. (What the code does there and no document speaks of: a respawn
that cannot be started is not tried again, `supervisor.go:490`; an adopted Worker's
exit is not noticed once the shutdown has begun, `supervisor.go:407`; a manual
restart that is slow rolls the binary back, `supervisor.go:524`.) Of the Worker: what its start initialises. Of the update: the
download and the progress tracker. Of the proxy engine: what happens to a request
once its site is found, the server types and HTTP/3, `BatchCopyConfigApi` (it sends
the row read before the copy, `api/waf_host.go:261`). Of the application engine:
its log buffer and statistics, and the database error that ends a monitor
(`waf_app_engine.go:263-266`). Of the CC rules: matching and actions. Detection
engines, database rows and migrations, certificates and system commands are data or
I/O without a protocol of their own; they are most of the repository's lines.

## 6. Plan

Done: `Supervisor`, `RollingService`, `CCRing`, `CCKeys`, `BinReplace`, `HostRouting`,
`PortServers`, `AppEngine`, and the proofs of section 4.

1. Proofs: `RegisteredKept` with crashes and stops but without upgrades;
   `EngineFollowsDB`, with `SetInd` of `CCRingProofs` for the fold.
2. The one-step installation and rollback of `Supervisor` as an abstraction of `BinReplace`;
   state-file writes that overtake each other.
3. CC captcha grace state, emergency mode and bans (`checkcc_rules.go`,
   `cc_emergency.go`, `anticc_ban.go`), TTL cache (`cache/`), IP ban (`wafipban/`).
4. Tunnel engine; host guard ladder; queues with flush on exit; log export with
   leases; load balancing; access tickets; websocket registry.

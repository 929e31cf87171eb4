----------------------------- MODULE AppEngine -----------------------------
(***************************************************************************)
(* The application engine (wafappengine/waf_app_engine.go): it runs an     *)
(* external application as a child process, starts it again when it exits, *)
(* and stops it.  Four goroutines call it: the main loop, which takes the  *)
(* management API's requests one by one, an API request that replaces the  *)
(* application's file, the ACTIVATE of a takeover (StartApps) and the      *)
(* graceful stop of the process (StopApps); each runtime whose process was *)
(* started has a monitor of its own.                                       *)
(*                                                                         *)
(* One application: runtimes is keyed by its code, and nothing else is     *)
(* shared between two of them.  AutoStart is set.  The process is the      *)
(* shell that Start forks.                                                 *)
(***************************************************************************)
EXTENDS Integers, Sequences, FiniteSets

CONSTANTS
  Rows,        (* the rows the application may have                         *)
  MaxRt,       (* bound: AppRuntime objects ever made                       *)
  MaxProc,     (* bound: processes ever started                             *)
  MaxRestart,  (* MaxRestartCount of the application                        *)
  Budget       (* bound: how often each kind of event, and all, happen      *)

Policies == {"no", "on-failure", "always"}
Row      == [there : BOOLEAN, on : BOOLEAN, policy : Policies, cmd : BOOLEAN]
Kinds    == {"op", "exit", "fail", "hang", "activate", "graceful", "all"}

ASSUME AppAssumption ==
  /\ Rows \subseteq {x \in Row : x.there} /\ Budget \in [Kinds -> Nat]
  /\ MaxRt \in Nat /\ MaxProc \in Nat /\ MaxRestart \in Nat

Rts      == 1..MaxRt
Procs    == 1..MaxProc
Nil      == 0
Actors   == {"loop", "file", "activate", "graceful"}
Stopping == {"select", "close", "signal", "hung", "wait", "killed"}
Pcs      == Stopping \cup {"idle", "start", "drop", "dropped"}
Requests == {"new", "start", "stop", "restart", "update", "delete"}
Calls    == Requests \cup {"replace", "none"}

VARIABLES
  row,     \* the application's row: whether it exists, StartStatus, RestartPolicy
           \* and whether StopMode asks for a command (with a StopCmd)
  ch,      \* GWAF_CHAN_COMMON_MSG
  cur,     \* runtimes[code]
  made,    \* how many AppRuntime objects have been made
  rt,      \* the AppRuntime objects: Status, Cmd, StopChan closed, RestartCount
  mon,     \* monitorApp of each runtime, and the error of its last Wait
  proc,    \* the processes
  act,     \* what each caller of the engine is doing, for which request and
           \* runtime, and whether it stops by a command
  exited,  \* the process of the firewall is gone: "no", "stopped" or "panic"
  left     \* what is left of Budget

vars == <<row, ch, cur, made, rt, mon, proc, act, exited, left>>

At(pc, op, r) == [pc |-> pc, op |-> op, r |-> r, cmd |-> FALSE]
Idle       == At("idle", "none", Nil)
NoRuntime  == [status |-> "stopped", cmd |-> Nil, stop |-> FALSE, count |-> 0]
Alive(p)   == p # Nil /\ proc[p] \in {"running", "interrupted"}
Unused     == {p \in Procs : proc[p] = "unused"}
NewProc    == CHOOSE p \in Unused : TRUE
Spend(k)   == left[k] > 0 /\ left["all"] > 0 /\ left' = [left EXCEPT ![k] = @ - 1, !["all"] = @ - 1]
Up         == exited = "no" /\ UNCHANGED exited
Return(a)  == act' = [act EXCEPT ![a] = Idle]
Done(r)    == mon[r].pc = "gone"                         \* the channel Done is closed

-----------------------------------------------------------------------------
(* The management API *)

Submit(o) == ch' = Append(ch, o) /\ Spend("op") /\ Up /\ UNCHANGED <<cur, made, rt, mon, proc, act>>

AddApi(x)    == ~row.there /\ row' = x /\ Submit("new")
ModifyApi(x) == row.there /\ x # row /\ row' = x /\ Submit("update")
DelApi       == row.there /\ UNCHANGED row /\ Submit("delete")
OperateApi(o) == row.there /\ UNCHANGED row /\ Submit(o)   \* StartApi, StopApi, RestartApi

-----------------------------------------------------------------------------
(* StartApp: the check and the new runtime under the lock, then the process *)

MayStart == row.there /\ row.on /\ ~ (cur # Nil /\ rt[cur].status = "running")

StartApp(a) ==
  \/ /\ MayStart /\ made < MaxRt /\ made' = made + 1 /\ cur' = made'
     /\ act' = [act EXCEPT ![a] = At("start", "start", made')]
  \/ ~ MayStart /\ Return(a) /\ UNCHANGED <<cur, made>>

Launch(r) ==                        \* a process is started, the monitor waits for it
  /\ Unused # {} /\ proc' = [proc EXCEPT ![NewProc] = "running"]
  /\ rt' = [rt EXCEPT ![r].cmd = NewProc, ![r].status = "running"]
  /\ mon' = [mon EXCEPT ![r] = [pc |-> "wait", err |-> FALSE]]

startProcess(a) ==
  /\ act[a].pc = "start" /\ Launch(act[a].r) /\ Return(a)
  /\ Up /\ UNCHANGED <<row, ch, cur, made, left>>

startFails(a) ==
  /\ act[a].pc = "start" /\ Spend("fail") /\ Return(a)
  /\ Up /\ UNCHANGED <<row, ch, cur, made, rt, mon, proc>>

-----------------------------------------------------------------------------
(* StopApp.  A stop that lasts longer than StopTimeout does so because the *)
(* process ignores the request: what the monitor still has to do takes far *)
(* less, and a killed process is gone within the five seconds that follow. *)

Then(o) ==
  CASE o \in {"restart", "delete"} -> At("drop", o, Nil)
    [] o = "replace" -> At("dropped", o, Nil)
    [] OTHER -> Idle

StopApp(a, o) ==                    \* reads runtimes[code] and its Cmd, and the row
  act' = [act EXCEPT ![a] = IF cur # Nil /\ rt[cur].cmd # Nil
                            THEN [At("select", o, cur) EXCEPT !.cmd = row.there /\ row.cmd]
                            ELSE Then(o)]

Select(a) ==                        \* a StopChan that is closed is not closed again
  /\ act[a].pc = "select"
  /\ act' = [act EXCEPT ![a].pc = IF rt[act[a].r].stop THEN "signal" ELSE "close"]
  /\ Up /\ UNCHANGED <<row, ch, cur, made, rt, mon, proc, left>>

Close(a) ==
  /\ act[a].pc = "close" /\ ~ rt[act[a].r].stop
  /\ rt' = [rt EXCEPT ![act[a].r].stop = TRUE] /\ act' = [act EXCEPT ![a].pc = "signal"]
  /\ Up /\ UNCHANGED <<row, ch, cur, made, mon, proc, left>>

(* Another caller has closed it in between: close panics.  Only the API    *)
(* request recovers; elsewhere the whole program ends.                     *)
CloseTwice(a) ==
  /\ act[a].pc = "close" /\ rt[act[a].r].stop /\ exited = "no"
  /\ IF a = "file" THEN Return(a) /\ UNCHANGED exited ELSE exited' = "panic" /\ UNCHANGED act
  /\ UNCHANGED <<row, ch, cur, made, rt, mon, proc, left>>

Asked(p) == [proc EXCEPT ![p] = IF Alive(p) THEN "interrupted" ELSE @]

Signal(a) ==                        \* the process is asked to end
  /\ act[a].pc = "signal" /\ ~ act[a].cmd
  /\ proc' = Asked(rt[act[a].r].cmd) /\ act' = [act EXCEPT ![a].pc = "wait"]
  /\ Up /\ UNCHANGED <<row, ch, cur, made, rt, mon, left>>

(* StopMode "cmd": the user's command may ask the process or do nothing,   *)
(* and Run waits for it without a time limit: it may never return.         *)
StopCmd(a) ==
  /\ act[a].pc = "signal" /\ act[a].cmd
  /\ proc' \in {proc, Asked(rt[act[a].r].cmd)}
  /\ \/ act' = [act EXCEPT ![a].pc = "wait"] /\ UNCHANGED left
     \/ act' = [act EXCEPT ![a].pc = "hung"] /\ Spend("hang")
  /\ Up /\ UNCHANGED <<row, ch, cur, made, rt, mon>>

NeverOverdue(r) == FALSE            \* mutant: a wait without a time limit
Overdue(r)   == mon[r].pc = "wait" /\ Alive(rt[r].cmd)
FirstOnly(r) == IF proc[rt[r].cmd] = "interrupted" THEN rt[r].cmd ELSE Nil   \* mutant: the one asked to end
Victim(r)    == rt[r].cmd           \* Cmd as it is when the time is over

Timeout(a) ==
  LET r == act[a].r IN
  /\ act[a].pc = "wait" /\ Overdue(r)
  /\ proc' = [p \in Procs |-> IF p = Victim(r) THEN "failed" ELSE proc[p]]
  /\ act' = [act EXCEPT ![a].pc = "killed"]
  /\ Up /\ UNCHANGED <<row, ch, cur, made, rt, mon, left>>

WaitOver(a) ==                      \* Done is closed, or the kill did not hit
  \/ act[a].pc \in {"wait", "killed"} /\ Done(act[a].r)
  \/ act[a].pc = "killed" /\ Alive(rt[act[a].r].cmd)

StopDone(a) ==
  /\ WaitOver(a) /\ rt' = [rt EXCEPT ![act[a].r].status = "stopped"]
  /\ act' = [act EXCEPT ![a] = Then(@.op)]
  /\ Up /\ UNCHANGED <<row, ch, cur, made, mon, proc, left>>

(* RestartApp and RemoveApp drop the runtime once it is stopped; the one   *)
(* then calls StartApp, the caller of the other deletes the row.  After a  *)
(* replacement of the file, also a failed one, StartApp is called without  *)
(* the runtime being dropped.                                              *)
Drop(a) ==
  /\ act[a].pc = "drop" /\ cur' = Nil /\ act' = [act EXCEPT ![a].pc = "dropped"]
  /\ Up /\ UNCHANGED <<row, ch, made, rt, mon, proc, left>>

Dropped(a) ==
  /\ act[a].pc = "dropped"
  /\ \/ act[a].op \in {"restart", "replace"} /\ StartApp(a) /\ UNCHANGED row
     \/ /\ act[a].op = "delete" /\ Return(a) /\ row' = [row EXCEPT !.there = FALSE]
        /\ UNCHANGED <<cur, made>>
  /\ Up /\ UNCHANGED <<ch, rt, mon, proc, left>>

-----------------------------------------------------------------------------
(* The callers *)

TakeMsg ==                          \* the main loop takes a request
  LET o == Head(ch) IN
  /\ act["loop"].pc = "idle" /\ ch # <<>> /\ ch' = Tail(ch)
  /\ \/ o \in {"new", "start"} /\ StartApp("loop")
     \/ o \in {"stop", "restart", "delete"} /\ StopApp("loop", o) /\ UNCHANGED <<cur, made>>
     \/ /\ o = "update" /\ UNCHANGED <<cur, made>>          \* LoadApp restarts what runs
        /\ IF cur # Nil /\ rt[cur].status = "running" THEN StopApp("loop", "restart") ELSE Return("loop")
  /\ Up /\ UNCHANGED <<row, rt, mon, proc, left>>

ReplaceApi ==                       \* UpgradeApi, RollbackApi: not through the loop
  /\ act["file"].pc = "idle" /\ row.there /\ Spend("op")
  /\ StopApp("file", IF row.on THEN "replace" ELSE "stop")
  /\ Up /\ UNCHANGED <<row, ch, cur, made, rt, mon, proc>>

StartApps ==                        \* activateSingletons, at most once
  /\ act["activate"].pc = "idle" /\ Spend("activate") /\ StartApp("activate")
  /\ Up /\ UNCHANGED <<row, ch, rt, mon, proc>>

StopApps ==                         \* the graceful stop, at most once
  /\ act["graceful"].pc = "idle" /\ Spend("graceful") /\ StopApp("graceful", "stop")
  /\ Up /\ UNCHANGED <<row, ch, cur, made, rt, mon, proc>>

Exit ==                             \* the firewall's process ends after StopApps
  /\ left["graceful"] < Budget["graceful"] /\ act["graceful"].pc = "idle"
  /\ exited = "no" /\ exited' = "stopped"
  /\ UNCHANGED <<row, ch, cur, made, rt, mon, proc, act, left>>

-----------------------------------------------------------------------------
(* monitorApp *)

Wait(r) ==                          \* Wait returns; StopChan, or Status crashed
  /\ mon[r].pc = "wait" /\ ~ Alive(rt[r].cmd)
  /\ mon' = [mon EXCEPT ![r] = [pc |-> IF rt[r].stop THEN "gone" ELSE "config",
                                err |-> @.err \/ proc[rt[r].cmd] = "failed"]]
  /\ rt' = [rt EXCEPT ![r].status = IF rt[r].stop THEN "stopped" ELSE "crashed"]
  /\ Up /\ UNCHANGED <<row, ch, cur, made, proc, act, left>>

AtMax(r)    == MaxRestart > 0 => rt[r].count <= MaxRestart    \* mutant: one more
BelowMax(r) == MaxRestart > 0 => rt[r].count < MaxRestart

WantsRestart(r) ==
  /\ row.there /\ row.on
  /\ row.policy = "always" \/ (row.policy = "on-failure" /\ mon[r].err)
  /\ BelowMax(r)

ReadConfig(r) ==                    \* the row as it is now decides
  /\ mon[r].pc = "config"
  /\ mon' = [mon EXCEPT ![r].pc = IF WantsRestart(r) THEN "delay" ELSE "gone"]
  /\ Up /\ UNCHANGED <<row, ch, cur, made, rt, proc, act, left>>

Delay(r) ==                         \* RestartDelay, then StopChan is looked at again
  /\ mon[r].pc = "delay"
  /\ mon' = [mon EXCEPT ![r].pc = IF rt[r].stop THEN "gone" ELSE "launch"]
  /\ rt' = [rt EXCEPT ![r].status = IF rt[r].stop THEN "stopped" ELSE @,
                      ![r].count = IF rt[r].stop THEN @ ELSE @ + 1]
  /\ Up /\ UNCHANGED <<row, ch, cur, made, proc, act, left>>

Relaunch(r) ==
  /\ mon[r].pc = "launch" /\ Launch(r)
  /\ Up /\ UNCHANGED <<row, ch, cur, made, act, left>>

GivesUp      == [pc |-> "gone", err |-> TRUE]    \* mutant: return
AfterFailure == [pc |-> "wait", err |-> TRUE]    \* continue: Wait on the old Cmd fails at once

RelaunchFails(r) ==
  /\ mon[r].pc = "launch" /\ Spend("fail")
  /\ mon' = [mon EXCEPT ![r] = AfterFailure]
  /\ Up /\ UNCHANGED <<row, ch, cur, made, rt, proc, act>>

(* A process ends by itself, or because it was asked to. *)
ProcExit(p, how) ==
  /\ \/ proc[p] = "running" /\ Spend("exit")
     \/ proc[p] = "interrupted" /\ UNCHANGED left
  /\ proc' = [proc EXCEPT ![p] = how]
  /\ UNCHANGED <<row, ch, cur, made, rt, mon, act, exited>>

-----------------------------------------------------------------------------
Init ==
  /\ row \in Rows
  /\ ch = <<>> /\ cur = Nil /\ made = 0 /\ rt = [r \in Rts |-> NoRuntime]
  /\ mon = [r \in Rts |-> [pc |-> "none", err |-> FALSE]] /\ proc = [p \in Procs |-> "unused"]
  /\ act = [a \in Actors |-> Idle] /\ exited = "no" /\ left = Budget

Api     == \/ ReplaceApi \/ \E x \in Rows : AddApi(x) \/ ModifyApi(x)
           \/ DelApi \/ \E o \in {"start", "stop", "restart"} : OperateApi(o)
Call(a) == \/ startProcess(a) \/ startFails(a) \/ Select(a) \/ Close(a) \/ CloseTwice(a)
           \/ Signal(a) \/ StopCmd(a) \/ Timeout(a) \/ StopDone(a)
           \/ Drop(a) \/ Dropped(a)
Monitor(r) == Wait(r) \/ ReadConfig(r) \/ Delay(r) \/ Relaunch(r) \/ RelaunchFails(r)
Engine  == \/ TakeMsg \/ StartApps \/ StopApps \/ \E a \in Actors : Call(a)
           \/ \E r \in Rts : Monitor(r)

Next == Api \/ Engine \/ Exit \/ \E p \in Procs, how \in {"ok", "failed"} : ProcExit(p, how)

Spec == Init /\ [][Next]_vars

(* The goroutines run; nothing makes a process end by itself.              *)
FairSpec == /\ Spec /\ WF_vars(TakeMsg)
            /\ \A a \in Actors : WF_vars(Call(a))
            /\ \A r \in Rts : WF_vars(Monitor(r))

-----------------------------------------------------------------------------
RtType   == [status : {"stopped", "running", "crashed"}, cmd : Procs \cup {Nil},
             stop : BOOLEAN, count : Nat]
MonType  == [pc : {"none", "wait", "config", "delay", "launch", "gone"}, err : BOOLEAN]
ProcType == {"unused", "running", "interrupted", "ok", "failed"}
ActType  == [pc : Pcs, op : Calls, r : Rts \cup {Nil}, cmd : BOOLEAN]

(* The state is well typed, and a runtime is restarted at most             *)
(* MaxRestartCount times.                                                  *)
TypeOK ==
  /\ row \in Row /\ ch \in Seq(Requests) /\ cur \in 0..made /\ made \in 0..MaxRt
  /\ rt \in [Rts -> RtType] /\ mon \in [Rts -> MonType] /\ proc \in [Procs -> ProcType]
  /\ act \in [Actors -> ActType]
  /\ exited \in {"no", "stopped", "panic"} /\ left \in [Kinds -> Nat]
  /\ \A r \in Rts : MaxRestart > 0 => rt[r].count <= MaxRestart

(* Once StopApp has closed a runtime's StopChan and returned, the runtime  *)
(* has no process and no monitor that could start one: also when the       *)
(* monitor had looked at StopChan before and was starting a process that   *)
(* the request to end never reached.                                       *)
StopHolds ==
  \A r \in Rts : rt[r].stop /\ (\A a \in Actors : act[a].pc \in Stopping => act[a].r # r)
                => ~ Alive(rt[r].cmd) /\ Done(r)

(* A process that ends is replaced as long as the row asks for it, nobody  *)
(* stops the runtime and MaxRestartCount is not reached, also when a start *)
(* fails: the Wait that follows is one for a process that is long gone.    *)
ComesBack ==
  \A r \in Rts : mon[r].pc = "config" /\ WantsRestart(r)
                ~> Alive(rt[r].cmd) \/ rt[r].stop \/ ~ WantsRestart(r) \/ exited # "no"

(* Whatever the process does with the request to end, a call of the engine *)
(* returns, unless it is itself in a stop command that never ends: such a  *)
(* command holds up its own caller and no other.                           *)
CallsReturn ==
  \A a \in Actors : act[a].pc # "idle" ~> act[a].pc \in {"idle", "hung"} \/ exited # "no"

(* The main loop is never held up for good by an application, which the    *)
(* time limit of StopApp is for.  The stop command is run before the       *)
(* limit begins (README, scenarios).                                       *)
LoopReturns == act["loop"].pc # "idle" ~> act["loop"].pc = "idle" \/ exited # "no"

(* The application runs at most once, which the check for a running one in *)
(* StartApp is for.  It does not look at a monitor that is about to restart*)
(* a crashed process (README, scenarios).                                  *)
OneProcess == Cardinality({p \in Procs : Alive(p)}) <= 1

(* No two callers close the same StopChan, which would end the program.    *)
(* The check before the close is not under the lock (README, scenarios).   *)
NoPanic == exited # "panic"
=============================================================================

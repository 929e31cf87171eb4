-------------------------- MODULE AppEngineProofs --------------------------
(* Theorems about AppEngine: for any number of runtimes, processes and      *)
(* restarts, any rows and any budget of events.                             *)
EXTENDS AppEngine, TLAPS

USE AppAssumption

Over  == {"ok", "failed"}                       \* a process that has ended
Later == {"signal", "hung", "wait", "killed"}   \* StopApp once StopChan is closed

(* A monitor that waits for its restart is below the maximum. *)
RestartInv == \A r \in Rts : mon[r].pc = "delay" => (MaxRestart > 0 => rt[r].count < MaxRestart)

(* A runtime has a Cmd as soon as it has a monitor, and the process of a    *)
(* monitor that is not waiting for it has ended.                            *)
ProcInv == \A r \in Rts :
  /\ rt[r].cmd = Nil <=> mon[r].pc = "none"
  /\ rt[r].cmd # Nil => proc[rt[r].cmd] # "unused"
  /\ mon[r].pc \in {"config", "delay", "launch", "gone"} => proc[rt[r].cmd] \in Over
  /\ mon[r].pc = "none" => ~ rt[r].stop
  /\ r > made => mon[r].pc = "none"

(* A runtime whose process is being started for the first time has no       *)
(* monitor, and one caller starts it.                                       *)
StartInv == \A a \in Actors : act[a].pc = "start" =>
  /\ act[a].r \in 1..made /\ mon[act[a].r].pc = "none"
  /\ \A b \in Actors \ {a} : act[b].pc = "start" => act[b].r # act[a].r

(* A runtime being stopped has been started; what was killed at the end of  *)
(* the wait is the process the monitor waits for.                           *)
StopInv == \A a \in Actors :
  /\ act[a].pc \in Stopping => act[a].r # Nil /\ mon[act[a].r].pc # "none"
  /\ act[a].pc \in Later => rt[act[a].r].stop
  /\ act[a].pc = "killed" => mon[act[a].r].pc \in {"wait", "gone"} /\ proc[rt[act[a].r].cmd] \in Over

(* Whoever closed the StopChan is still waiting, or the monitor is gone.    *)
(* (Not: whoever stops the runtime, since a caller whose close panics       *)
(* leaves at once.)                                                         *)
StoppedInv == \A r \in Rts : rt[r].stop =>
  mon[r].pc = "gone" \/ \E a \in Actors : act[a].r = r /\ act[a].pc \in Later

EngineInv == RestartInv /\ ProcInv /\ StartInv /\ StopInv /\ StoppedInv
AppInv    == TypeOK /\ EngineInv

-----------------------------------------------------------------------------
(* A process that can be started is one that never was. *)
LEMMA NewProcUnused == ASSUME Unused # {} PROVE NewProc \in Procs /\ proc[NewProc] = "unused"
  BY DEF NewProc, Unused

(* What the requests and callers do to the typed state: StartApp, StopApp   *)
(* and Launch are parts of several actions.                                 *)
LEMMA StartAppType ==
  ASSUME TypeOK, NEW a \in Actors, StartApp(a)
  PROVE  made' \in 0..MaxRt /\ cur' \in 0..made' /\ act' \in [Actors -> ActType]
<1>1. Idle \in ActType  BY DEF At, Idle, Pcs, Calls, Nil, ActType
<1>2. CASE MayStart /\ made < MaxRt /\ made' = made + 1 /\ cur' = made'
           /\ act' = [act EXCEPT ![a] = At("start", "start", made')]
  <2>1. made' \in Rts  BY <1>2 DEF TypeOK, Rts
  <2>2. At("start", "start", made') \in ActType
    BY <2>1 DEF At, Pcs, Calls, Requests, ActType
  <2> QED  BY <1>2, <2>1, <2>2 DEF TypeOK, Rts
<1>3. CASE ~ MayStart /\ Return(a) /\ UNCHANGED <<cur, made>>  BY <1>1, <1>3 DEF Return, TypeOK
<1> QED  BY <1>2, <1>3 DEF StartApp

LEMMA ThenType == ASSUME NEW o \in Calls PROVE Then(o) \in ActType
  BY DEF Then, At, Idle, Pcs, Calls, Nil, ActType

LEMMA StopAppType ==
  ASSUME TypeOK, NEW a \in Actors, NEW o \in Calls, StopApp(a, o)
  PROVE  act' \in [Actors -> ActType]
<1>1. Then(o) \in ActType  BY ThenType
<1>2. (row.there /\ row.cmd) \in BOOLEAN  BY DEF TypeOK, Row
<1>3. cur # Nil => [At("select", o, cur) EXCEPT !.cmd = row.there /\ row.cmd] \in ActType
  <2>1. ASSUME cur # Nil, NEW b \in BOOLEAN PROVE [At("select", o, cur) EXCEPT !.cmd = b] \in ActType
    <3>1. [At("select", o, cur) EXCEPT !.cmd = b] = [pc |-> "select", op |-> o, r |-> cur, cmd |-> b]
      BY DEF At
    <3>2. cur \in Rts /\ "select" \in Pcs  BY <2>1 DEF TypeOK, Pcs, Stopping, Rts, Nil
    <3> QED  BY <3>1, <3>2 DEF ActType
  <2> QED  BY <1>2, <2>1
<1> QED  BY <1>1, <1>3 DEF StopApp, TypeOK

(* A runtime gets another StopChan state, status or command. *)
LEMMA RtStop ==
  ASSUME NEW x \in RtType
  PROVE  [x EXCEPT !.stop = TRUE] \in RtType /\ [x EXCEPT !.stop = TRUE].count = x.count
  BY DEF RtType

LEMMA RtStatus ==
  ASSUME NEW x \in RtType, NEW s \in {"stopped", "running", "crashed"}
  PROVE  [x EXCEPT !.status = s] \in RtType /\ [x EXCEPT !.status = s].count = x.count
  BY DEF RtType

LEMMA RtCmd ==
  ASSUME NEW x \in RtType, NEW c \in Procs
  PROVE  [x EXCEPT !.cmd = c, !.status = "running"] \in RtType
         /\ [x EXCEPT !.cmd = c, !.status = "running"].count = x.count
  BY DEF RtType

LEMMA RtSet ==
  ASSUME NEW f \in [Rts -> RtType], NEW r, NEW x, r \in Rts => x \in RtType /\ x.count = f[r].count
  PROVE  /\ [f EXCEPT ![r] = x] \in [Rts -> RtType]
         /\ \A q \in Rts : [f EXCEPT ![r] = x][q].count = f[q].count
  OBVIOUS

LEMMA LaunchType ==
  ASSUME TypeOK, NEW r \in Rts, Launch(r)
  PROVE  /\ rt' \in [Rts -> RtType] /\ mon' \in [Rts -> MonType] /\ proc' \in [Procs -> ProcType]
         /\ \A q \in Rts : rt'[q].count = rt[q].count
<1>1. NewProc \in Procs  BY NewProcUnused DEF Launch
<1>2. rt' \in [Rts -> RtType] /\ \A q \in Rts : rt'[q].count = rt[q].count
  <2> DEFINE x == [rt[r] EXCEPT !.cmd = NewProc, !.status = "running"]
  <2>1. x \in RtType /\ x.count = rt[r].count  BY <1>1, RtCmd DEF TypeOK
  <2>2. rt' = [rt EXCEPT ![r] = x]  BY DEF Launch
  <2> HIDE DEF x
  <2> QED  BY <2>1, <2>2, RtSet DEF TypeOK
<1>3. mon' \in [Rts -> MonType]  BY DEF Launch, TypeOK, MonType
<1>4. proc' \in [Procs -> ProcType]  BY DEF Launch, TypeOK, ProcType
<1> QED  BY <1>2, <1>3, <1>4

LEMMA SpendType == ASSUME left \in [Kinds -> Nat], NEW k \in Kinds, Spend(k) PROVE left' \in [Kinds -> Nat]
  BY DEF Spend, Kinds

LEMMA ReturnType ==
  ASSUME TypeOK, NEW a \in Actors, Return(a)
  PROVE  act' \in [Actors -> ActType]
<1>1. Idle \in ActType  BY DEF At, Idle, Pcs, Calls, Nil, ActType
<1> QED  BY <1>1 DEF Return, TypeOK

(* StopApp's steps move a caller from one place to the next. *)
LEMMA MoveType ==
  ASSUME TypeOK, NEW a \in Actors, NEW x \in Pcs, act' = [act EXCEPT ![a].pc = x]
  PROVE  act' \in [Actors -> ActType]
<1>1. [act[a] EXCEPT !.pc = x] \in ActType  BY DEF TypeOK, ActType
<1> QED  BY <1>1 DEF TypeOK

(* Every step keeps the types and the bound on the restarts. *)
LEMMA TypeStep == ASSUME TypeOK, RestartInv, StartInv, [Next]_vars PROVE TypeOK'
<1> USE DEF TypeOK
<1>0. \A o \in Requests : Append(ch, o) \in Seq(Requests)  OBVIOUS
<1>1. CASE Api
  <2> USE <1>0, SpendType DEF Submit, Up, Kinds
  <2>1. CASE ReplaceApi
    <3>1. "replace" \in Calls /\ "stop" \in Calls /\ "file" \in Actors  BY DEF Calls, Requests, Actors
    <3>2. left' \in [Kinds -> Nat]  BY <2>1 DEF ReplaceApi
    <3>3. act' \in [Actors -> ActType]
      BY <2>1, <3>1, StopAppType DEF ReplaceApi
    <3> QED  BY <2>1, <3>2, <3>3 DEF ReplaceApi
  <2>2. ASSUME NEW x \in Rows, AddApi(x) \/ ModifyApi(x) PROVE TypeOK'
    BY <2>2 DEF AddApi, ModifyApi, Requests
  <2>3. CASE DelApi  BY <2>3 DEF DelApi, Requests
  <2>4. ASSUME NEW o \in {"start", "stop", "restart"}, OperateApi(o) PROVE TypeOK'
    BY <2>4 DEF OperateApi, Requests
  <2> QED  BY <1>1, <2>1, <2>2, <2>3, <2>4 DEF Api
<1>2. CASE TakeMsg
  <2>1. "loop" \in Actors /\ Requests \subseteq Calls  BY DEF Actors, Calls
  <2>2. Head(ch) \in Requests /\ Tail(ch) \in Seq(Requests)  BY <1>2 DEF TakeMsg
  <2>3. "restart" \in Calls  BY DEF Calls, Requests
  <2>4. /\ made' \in 0..MaxRt /\ cur' \in 0..made'
        /\ act' \in [Actors -> ActType]
    BY <1>2, <2>1, <2>2, <2>3, StartAppType, StopAppType, ReturnType DEF TakeMsg
  <2> QED  BY <1>2, <2>2, <2>4 DEF TakeMsg, Up
<1>3. CASE StartApps
  <2>1. "activate" \in Actors /\ left' \in [Kinds -> Nat]  BY <1>3, SpendType DEF StartApps, Actors, Kinds
  <2>2. /\ made' \in 0..MaxRt /\ cur' \in 0..made'
        /\ act' \in [Actors -> ActType]
    BY <1>3, <2>1, StartAppType DEF StartApps
  <2> QED  BY <1>3, <2>1, <2>2 DEF StartApps, Up
<1>4. CASE StopApps
  <2>1. "graceful" \in Actors /\ "stop" \in Calls /\ left' \in [Kinds -> Nat]
    BY <1>4, SpendType DEF StopApps, Actors, Kinds, Calls, Requests
  <2>2. act' \in [Actors -> ActType]
    BY <1>4, <2>1, StopAppType DEF StopApps
  <2> QED  BY <1>4, <2>1, <2>2 DEF StopApps, Up
<1>5. ASSUME NEW a \in Actors, Call(a) PROVE TypeOK'
  <2> USE ReturnType DEF Up
  <2>0. Stopping \subseteq Pcs /\ "dropped" \in Pcs  BY DEF Pcs
  <2>1. CASE startProcess(a)
    <3>1. act[a].r \in Rts  BY <2>1 DEF startProcess, StartInv, Rts
    <3> QED  BY <2>1, <3>1, LaunchType DEF startProcess
  <2>2. CASE startFails(a)  BY <2>2, SpendType DEF startFails, Kinds
  <2>3. CASE Select(a)
    <3>1. act' \in [Actors -> ActType]  BY <2>3, <2>0, MoveType DEF Select, Stopping
    <3> QED  BY <2>3, <3>1 DEF Select
  <2>4. CASE Close(a)
    <3>1. act' \in [Actors -> ActType]  BY <2>4, <2>0, MoveType DEF Close, Stopping
    <3>2. rt' \in [Rts -> RtType] /\ \A r \in Rts : rt'[r].count = rt[r].count
      <4> DEFINE x == [rt[act[a].r] EXCEPT !.stop = TRUE]
      <4>1. act[a].r \in Rts => x \in RtType /\ x.count = rt[act[a].r].count  BY RtStop
      <4>2. rt' = [rt EXCEPT ![act[a].r] = x]  BY <2>4 DEF Close
      <4> HIDE DEF x
      <4> QED  BY <4>1, <4>2, RtSet
    <3> QED  BY <2>4, <3>1, <3>2 DEF Close
  <2>5. CASE CloseTwice(a)  BY <2>5 DEF CloseTwice
  <2>6. CASE Signal(a)
    <3>1. act' \in [Actors -> ActType]  BY <2>6, <2>0, MoveType DEF Signal, Stopping
    <3>2. proc' \in [Procs -> ProcType]  BY <2>6 DEF Signal, Asked, ProcType
    <3> QED  BY <2>6, <3>1, <3>2 DEF Signal
  <2>6a. CASE StopCmd(a)
    <3>1. act' \in [Actors -> ActType]  BY <2>6a, <2>0, MoveType DEF StopCmd, Stopping
    <3>2. proc' \in [Procs -> ProcType]  BY <2>6a DEF StopCmd, Asked, ProcType
    <3>3. left' \in [Kinds -> Nat]  BY <2>6a, SpendType DEF StopCmd, Kinds
    <3> QED  BY <2>6a, <3>1, <3>2, <3>3 DEF StopCmd
  <2>7. CASE Timeout(a)
    <3>1. act' \in [Actors -> ActType]  BY <2>7, <2>0, MoveType DEF Timeout, Stopping
    <3>2. proc' \in [Procs -> ProcType]  BY <2>7 DEF Timeout, ProcType
    <3> QED  BY <2>7, <3>1, <3>2 DEF Timeout
  <2>8. CASE StopDone(a)
    <3>1. Then(act[a].op) \in ActType  BY ThenType DEF ActType
    <3>2. act' \in [Actors -> ActType]  BY <2>8, <3>1 DEF StopDone
    <3>3. rt' \in [Rts -> RtType] /\ \A r \in Rts : rt'[r].count = rt[r].count
      <4> DEFINE x == [rt[act[a].r] EXCEPT !.status = "stopped"]
      <4>1. act[a].r \in Rts => x \in RtType /\ x.count = rt[act[a].r].count  BY RtStatus
      <4>2. rt' = [rt EXCEPT ![act[a].r] = x]  BY <2>8 DEF StopDone
      <4> HIDE DEF x
      <4> QED  BY <4>1, <4>2, RtSet
    <3> QED  BY <2>8, <3>2, <3>3 DEF StopDone
  <2>9. CASE Drop(a)
    <3>1. act' \in [Actors -> ActType]  BY <2>9, <2>0, MoveType DEF Drop
    <3> QED  BY <2>9, <3>1 DEF Drop, Nil
  <2>10. CASE Dropped(a)
    <3>1. /\ made' \in 0..MaxRt /\ cur' \in 0..made'
          /\ act' \in [Actors -> ActType]
      BY <2>10, StartAppType DEF Dropped
    <3>2. row' \in Row  BY <2>10 DEF Dropped, Row
    <3> QED  BY <2>10, <3>1, <3>2 DEF Dropped
  <2> QED  BY <1>5, <2>1, <2>2, <2>3, <2>4, <2>5, <2>6, <2>6a, <2>7, <2>8, <2>9, <2>10 DEF Call
<1>6. ASSUME NEW r \in Rts, Monitor(r) PROVE TypeOK'
  <2> USE DEF Up
  <2>1. CASE Wait(r)
    <3>1. rt' \in [Rts -> RtType] /\ \A q \in Rts : rt'[q].count = rt[q].count
      <4> DEFINE s == IF rt[r].stop THEN "stopped" ELSE "crashed"
                 x == [rt[r] EXCEPT !.status = s]
      <4>1. x \in RtType /\ x.count = rt[r].count  BY RtStatus
      <4>2. rt' = [rt EXCEPT ![r] = x]  BY <2>1 DEF Wait
      <4> HIDE DEF x
      <4> QED  BY <4>1, <4>2, RtSet
    <3>2. mon' \in [Rts -> MonType]
      <4> DEFINE x == [pc |-> IF rt[r].stop THEN "gone" ELSE "config",
                       err |-> mon[r].err \/ proc[rt[r].cmd] = "failed"]
      <4>1. x \in MonType  BY DEF MonType
      <4>2. mon' = [mon EXCEPT ![r] = x]  BY <2>1 DEF Wait
      <4> QED  BY <4>1, <4>2
    <3> QED  BY <2>1, <3>1, <3>2 DEF Wait
  <2>2. CASE ReadConfig(r)
    <3>1. mon' \in [Rts -> MonType]  BY <2>2 DEF ReadConfig, MonType
    <3> QED  BY <2>2, <3>1 DEF ReadConfig
  <2>3. CASE Delay(r)
    <3>1. mon' \in [Rts -> MonType]  BY <2>3 DEF Delay, MonType
    <3>2. rt' \in [Rts -> RtType]
      <4>0. rt[r] \in RtType  OBVIOUS
      <4>1. CASE rt[r].stop  BY <2>3, <4>0, <4>1 DEF Delay, RtType
      <4>2. CASE ~ rt[r].stop  BY <2>3, <4>0, <4>2 DEF Delay, RtType
      <4> QED  BY <4>1, <4>2
    <3>3. \A q \in Rts : MaxRestart > 0 => rt'[q].count <= MaxRestart
      BY <2>3 DEF Delay, RtType, RestartInv
    <3> QED  BY <2>3, <3>1, <3>2, <3>3 DEF Delay
  <2>4. CASE Relaunch(r)  BY <2>4, LaunchType DEF Relaunch
  <2>5. CASE RelaunchFails(r)
    <3>1. mon' \in [Rts -> MonType]  BY <2>5 DEF RelaunchFails, AfterFailure, MonType
    <3> QED  BY <2>5, <3>1, SpendType DEF RelaunchFails, Kinds
  <2> QED  BY <1>6, <2>1, <2>2, <2>3, <2>4, <2>5 DEF Monitor
<1>7. CASE Exit  BY <1>7 DEF Exit
<1>8. ASSUME NEW p \in Procs, NEW how \in {"ok", "failed"}, ProcExit(p, how) PROVE TypeOK'
  BY <1>8, SpendType DEF ProcExit, Kinds, ProcType
<1>9. CASE UNCHANGED vars  BY <1>9 DEF vars
<1> QED  BY <1>1, <1>2, <1>3, <1>4, <1>5, <1>6, <1>7, <1>8, <1>9 DEF Next, Engine

-----------------------------------------------------------------------------
(* What a step does to the fields the invariant is about.                   *)

LEMMA LaunchDoes ==
  ASSUME TypeOK, NEW r \in Rts, Launch(r)
  PROVE  \E p \in Procs :
         /\ proc[p] = "unused" /\ proc'[p] = "running"
         /\ \A q \in Procs : q # p => proc'[q] = proc[q]
         /\ \A q \in Rts : /\ rt'[q].cmd = IF q = r THEN p ELSE rt[q].cmd
                           /\ rt'[q].stop = rt[q].stop /\ rt'[q].count = rt[q].count
                           /\ mon'[q].pc = IF q = r THEN "wait" ELSE mon[q].pc
<1>1. NewProc \in Procs /\ proc[NewProc] = "unused"  BY NewProcUnused DEF Launch
<1>2. proc'[NewProc] = "running" /\ \A q \in Procs : q # NewProc => proc'[q] = proc[q]
  BY <1>1 DEF Launch, TypeOK
<1>3. \A q \in Rts : /\ rt'[q].cmd = IF q = r THEN NewProc ELSE rt[q].cmd
                     /\ rt'[q].stop = rt[q].stop /\ rt'[q].count = rt[q].count
  BY DEF Launch, TypeOK, RtType
<1>4. \A q \in Rts : mon'[q].pc = IF q = r THEN "wait" ELSE mon[q].pc  BY DEF Launch, TypeOK, MonType
<1> QED  BY <1>1, <1>2, <1>3, <1>4

(* A caller that is not waiting for a runtime to stop turns to something    *)
(* that neither stops nor starts one.                                       *)
LEMMA QuietKeeps ==
  ASSUME AppInv, UNCHANGED <<rt, mon, proc, made>>, NEW a \in Actors, NEW x,
         x.pc \notin Stopping \cup {"start"}, act[a].pc \notin Later,
         act' = [act EXCEPT ![a] = x]
  PROVE  EngineInv'
<1> USE DEF AppInv, EngineInv
<1>1. act'[a] = x /\ \A b \in Actors \ {a} : act'[b] = act[b]  BY DEF TypeOK
<1>2. RestartInv' /\ ProcInv'  BY DEF RestartInv, ProcInv
<1>3. StartInv'  BY <1>1 DEF StartInv
<1>4. StopInv'  BY <1>1 DEF StopInv, Stopping, Later
<1>5. StoppedInv'  BY <1>1 DEF StoppedInv
<1> QED  BY <1>2, <1>3, <1>4, <1>5

LEMMA StartAppKeeps ==
  ASSUME AppInv, UNCHANGED <<rt, mon, proc>>, NEW a \in Actors, act[a].pc \notin Later, StartApp(a)
  PROVE  EngineInv'
<1>1. CASE ~ MayStart /\ Return(a) /\ UNCHANGED <<cur, made>>
  BY <1>1, QuietKeeps DEF Return, At, Idle, Stopping
<1>2. CASE MayStart /\ made < MaxRt /\ made' = made + 1 /\ cur' = made'
           /\ act' = [act EXCEPT ![a] = At("start", "start", made')]
  <2> USE DEF AppInv, EngineInv
  <2>1. act'[a].pc = "start" /\ act'[a].r = made + 1 /\ \A b \in Actors \ {a} : act'[b] = act[b]
    BY <1>2 DEF At, TypeOK
  <2>2. made \in Nat /\ made + 1 \in Rts  BY <1>2 DEF TypeOK, Rts
  <2>3. RestartInv' /\ ProcInv'  BY <1>2, <2>2 DEF RestartInv, ProcInv, Rts
  <2>4. StartInv'
    <3>1. mon[made + 1].pc = "none"  BY <2>2 DEF ProcInv
    <3>2. \A b \in Actors : act[b].pc = "start" => act[b].r \in 1..made  BY DEF StartInv
    <3> QED  BY <1>2, <2>1, <2>2, <3>1, <3>2 DEF StartInv
  <2>5. StopInv'  BY <2>1 DEF StopInv, Stopping, Later
  <2>6. StoppedInv'  BY <2>1 DEF StoppedInv
  <2> QED  BY <2>3, <2>4, <2>5, <2>6
<1> QED  BY <1>1, <1>2 DEF StartApp

LEMMA ThenQuiet == ASSUME NEW o PROVE Then(o).pc \notin Stopping \cup {"start"}
  BY DEF Then, At, Idle, Stopping

LEMMA StopAppKeeps ==
  ASSUME AppInv, UNCHANGED <<rt, mon, proc, made>>, NEW a \in Actors, NEW o,
         act[a].pc \notin Later, StopApp(a, o)
  PROVE  EngineInv'
<1>1. CASE ~ (cur # Nil /\ rt[cur].cmd # Nil)
  <2>1. act' = [act EXCEPT ![a] = Then(o)]  BY <1>1 DEF StopApp
  <2> QED  BY <2>1, ThenQuiet, QuietKeeps
<1>2. CASE cur # Nil /\ rt[cur].cmd # Nil
  <2> USE DEF AppInv, EngineInv
  <2>1. act'[a].pc = "select" /\ act'[a].r = cur /\ \A b \in Actors \ {a} : act'[b] = act[b]
    BY <1>2 DEF StopApp, At, TypeOK
  <2>2. cur \in Rts /\ mon[cur].pc # "none"  BY <1>2 DEF TypeOK, ProcInv, Rts, Nil
  <2>3. RestartInv' /\ ProcInv'  BY DEF RestartInv, ProcInv
  <2>4. StartInv'  BY <2>1 DEF StartInv
  <2>5. StopInv'  BY <1>2, <2>1, <2>2 DEF StopInv, Stopping, Later
  <2>6. StoppedInv'  BY <2>1 DEF StoppedInv
  <2> QED  BY <2>3, <2>4, <2>5, <2>6
<1> QED  BY <1>1, <1>2

(* Close the StopChan, and stay to see the runtime stop. *)
LEMMA CloseKeeps == ASSUME AppInv, NEW a \in Actors, Close(a) PROVE EngineInv'
<1> DEFINE r == act[a].r
<1> USE DEF AppInv, EngineInv
<1>1. act'[a].pc = "signal" /\ act'[a].r = r /\ \A b \in Actors \ {a} : act'[b] = act[b]
  BY DEF Close, TypeOK, ActType
<1>2. r \in Rts /\ mon[r].pc # "none" /\ act[a].pc = "close"
  BY DEF Close, StopInv, Stopping, TypeOK, ActType
<1>3. \A q \in Rts : /\ rt'[q].cmd = rt[q].cmd /\ rt'[q].count = rt[q].count
                     /\ rt'[q].stop <=> (q = r \/ rt[q].stop)
  BY <1>2 DEF Close, TypeOK, RtType
<1>4. UNCHANGED <<mon, proc, made>>  BY DEF Close
<1> HIDE DEF r
<1>5. RestartInv'  BY <1>3, <1>4 DEF RestartInv
<1>6. ProcInv'  BY <1>2, <1>3, <1>4 DEF ProcInv
<1>7. StartInv'  BY <1>1, <1>4 DEF StartInv
<1>8. StopInv'
  <2>1. \A b \in Actors : act[b].pc \in Stopping => act[b].r \in Rts  BY DEF StopInv, TypeOK, ActType
  <2> SUFFICES ASSUME NEW b \in Actors
        PROVE  /\ act'[b].pc \in Stopping => act'[b].r # Nil /\ mon[act'[b].r].pc # "none"
               /\ act'[b].pc \in Later => rt'[act'[b].r].stop
               /\ act'[b].pc = "killed" => /\ mon[act'[b].r].pc \in {"wait", "gone"}
                                           /\ proc[rt'[act'[b].r].cmd] \in Over
    BY <1>4 DEF StopInv
  <2>2. CASE b = a  BY <1>1, <1>2, <1>3, <2>2 DEF Rts, Nil
  <2>3. CASE b # a
    <3>1. act'[b] = act[b]  BY <1>1, <2>3
    <3>2. act[b].pc \in Later => act[b].pc \in Stopping  BY DEF Later, Stopping
    <3>3. act[b].pc = "killed" => act[b].pc \in Stopping  BY DEF Stopping
    <3> QED  BY <1>3, <2>1, <3>1, <3>2, <3>3 DEF StopInv
  <2> QED  BY <2>2, <2>3
<1>9. StoppedInv'  BY <1>1, <1>2, <1>3, <1>4 DEF StoppedInv, Later
<1> QED  BY <1>5, <1>6, <1>7, <1>8, <1>9

(* Select takes a caller on; the request to end, by a signal or by the stop *)
(* command, does so too, and ends no process.                               *)
LEMMA SelectKeeps == ASSUME AppInv, NEW a \in Actors, Select(a) PROVE EngineInv'
<1> USE DEF AppInv, EngineInv
<1>1. /\ act'[a].pc = (IF rt[act[a].r].stop THEN "signal" ELSE "close") /\ act'[a].r = act[a].r
      /\ \A b \in Actors \ {a} : act'[b] = act[b]
  BY DEF Select, TypeOK, ActType
<1>2. act[a].pc = "select" /\ UNCHANGED <<mon, proc, made, rt>>  BY DEF Select
<1>3. RestartInv' /\ ProcInv'  BY <1>2 DEF RestartInv, ProcInv
<1>4. StartInv'  BY <1>1, <1>2 DEF StartInv
<1>5. StopInv'  BY <1>1, <1>2 DEF StopInv, Stopping, Later
<1>6. StoppedInv'  BY <1>1, <1>2 DEF StoppedInv, Later
<1> QED  BY <1>3, <1>4, <1>5, <1>6

LEMMA SignalKeeps == ASSUME AppInv, NEW a \in Actors, Signal(a) \/ StopCmd(a) PROVE EngineInv'
<1> USE DEF AppInv, EngineInv
<1>1. /\ act'[a].pc \in {"wait", "hung"} /\ act'[a].r = act[a].r
      /\ \A b \in Actors \ {a} : act'[b] = act[b]
  BY DEF Signal, StopCmd, TypeOK, ActType
<1>2. act[a].pc = "signal" /\ UNCHANGED <<mon, made, rt>>  BY DEF Signal, StopCmd
<1>3. \A p \in Procs : /\ proc[p] \in Over => proc'[p] = proc[p]
                       /\ proc'[p] # "unused" \/ proc[p] = "unused"
  BY DEF Signal, StopCmd, Asked, TypeOK, Alive, Over
<1>4. RestartInv'  BY <1>2 DEF RestartInv
<1>5. ProcInv'
  <2>1. \A r \in Rts : rt[r].cmd \in Procs \cup {Nil}  BY DEF TypeOK, RtType
  <2> QED  BY <1>2, <1>3, <2>1 DEF ProcInv
<1>6. StartInv'  BY <1>1, <1>2 DEF StartInv
<1>7. StopInv'
  <2>1. \A b \in Actors : act[b].pc = "killed" => rt[act[b].r].cmd \in Procs
    BY DEF StopInv, TypeOK, RtType, ActType, ProcInv, Stopping
  <2> QED  BY <1>1, <1>2, <1>3, <2>1 DEF StopInv, Stopping, Later
<1>8. StoppedInv'  BY <1>1, <1>2 DEF StoppedInv, Later
<1> QED  BY <1>4, <1>5, <1>6, <1>7, <1>8

(* The kill after the time limit hits the process the monitor waits for.    *)
LEMMA TimeoutKeeps == ASSUME AppInv, NEW a \in Actors, Timeout(a) PROVE EngineInv'
<1> USE DEF AppInv, EngineInv
<1>1. /\ act'[a].pc = "killed" /\ act'[a].r = act[a].r
      /\ \A b \in Actors \ {a} : act'[b] = act[b]
  BY DEF Timeout, TypeOK, ActType
<1>2. act[a].pc = "wait" /\ mon[act[a].r].pc = "wait" /\ UNCHANGED <<mon, made, rt>>
  BY DEF Timeout, Overdue
<1>3. \A p \in Procs : proc'[p] = IF p = rt[act[a].r].cmd THEN "failed" ELSE proc[p]
  BY DEF Timeout, Victim
<1>3a. act[a].r \in Rts /\ rt[act[a].r].cmd \in Procs
  BY <1>2 DEF StopInv, TypeOK, RtType, ActType, ProcInv, Stopping
<1>4. RestartInv'  BY <1>2 DEF RestartInv
<1>5. ProcInv'
  <2>1. \A r \in Rts : rt[r].cmd \in Procs \cup {Nil}  BY DEF TypeOK, RtType
  <2> QED  BY <1>2, <1>3, <2>1 DEF ProcInv, Over
<1>6. StartInv'  BY <1>1, <1>2 DEF StartInv
<1>7. StopInv'
  <2>1. \A b \in Actors : act[b].pc = "killed" => rt[act[b].r].cmd \in Procs
    BY DEF StopInv, TypeOK, RtType, ActType, ProcInv, Stopping
  <2> QED  BY <1>1, <1>2, <1>3, <1>3a, <2>1 DEF StopInv, Stopping, Later, Over
<1>8. StoppedInv'  BY <1>1, <1>2 DEF StoppedInv, Later
<1> QED  BY <1>4, <1>5, <1>6, <1>7, <1>8

(* StopApp returns only once the monitor is gone: a process that was killed *)
(* is not alive.                                                            *)
LEMMA StopDoneKeeps == ASSUME AppInv, NEW a \in Actors, StopDone(a) PROVE EngineInv'
<1> USE DEF AppInv, EngineInv
<1>1. mon[act[a].r].pc = "gone"  BY DEF StopDone, WaitOver, Done, Alive, StopInv, Over
<1>2. act'[a] = Then(act[a].op) /\ \A b \in Actors \ {a} : act'[b] = act[b]  BY DEF StopDone, TypeOK
<1>3. act'[a].pc \notin Stopping \cup {"start"}  BY <1>2, ThenQuiet
<1>4. UNCHANGED <<mon, made, proc>>  BY DEF StopDone
<1>5. \A q \in Rts : /\ rt'[q].cmd = rt[q].cmd /\ rt'[q].count = rt[q].count
                     /\ rt'[q].stop = rt[q].stop
  BY DEF StopDone, TypeOK, RtType
<1>6. RestartInv' /\ ProcInv'  BY <1>4, <1>5 DEF RestartInv, ProcInv
<1>7. StartInv'  BY <1>2, <1>3, <1>4 DEF StartInv
<1>8. StopInv'
  <2>1. \A b \in Actors : act[b].pc \in Stopping => act[b].r \in Rts  BY DEF StopInv, TypeOK, ActType
  <2> QED  BY <1>2, <1>3, <1>4, <1>5, <2>1 DEF StopInv, Stopping, Later
<1>9. StoppedInv'  BY <1>1, <1>2, <1>4, <1>5 DEF StoppedInv
<1> QED  BY <1>6, <1>7, <1>8, <1>9

(* A process started for a runtime: the first by its caller, which StopApp  *)
(* cannot know of yet, the others by the monitor.                           *)
LEMMA startProcessKeeps == ASSUME AppInv, NEW a \in Actors, startProcess(a) PROVE EngineInv'
<1> USE DEF AppInv, EngineInv
<1>1. act[a].pc = "start" /\ act[a].r \in Rts /\ act[a].r <= made /\ mon[act[a].r].pc = "none"
  BY DEF startProcess, StartInv, Rts, TypeOK
<1>2. PICK p \in Procs :
        /\ proc[p] = "unused" /\ proc'[p] = "running"
        /\ \A q \in Procs : q # p => proc'[q] = proc[q]
        /\ \A q \in Rts : /\ rt'[q].cmd = IF q = act[a].r THEN p ELSE rt[q].cmd
                          /\ rt'[q].stop = rt[q].stop /\ rt'[q].count = rt[q].count
                          /\ mon'[q].pc = IF q = act[a].r THEN "wait" ELSE mon[q].pc
  BY <1>1, LaunchDoes DEF startProcess
<1>3. act'[a].pc = "idle" /\ \A b \in Actors \ {a} : act'[b] = act[b]
  BY DEF startProcess, Return, At, Idle, TypeOK
<1>4. made' = made /\ p # Nil  BY DEF startProcess, Procs, Nil
<1>5. \A q \in Rts : rt[q].cmd \in Procs \cup {Nil}  BY DEF TypeOK, RtType
<1>6. RestartInv'  BY <1>2 DEF RestartInv
<1>7. ProcInv'
  <2>1. \A q \in Rts : rt[q].cmd # Nil => rt[q].cmd # p  BY <1>2 DEF ProcInv
  <2>2. ~ (act[a].r > made)  BY <1>1 DEF TypeOK, Rts
  <2>3. \A q \in Rts : rt[q].cmd \in Procs => proc'[rt[q].cmd] = proc[rt[q].cmd]
    BY <1>2, <2>1, <1>4
  <2>4. \A q \in Rts : mon[q].pc # "none" => rt[q].cmd \in Procs  BY <1>5 DEF ProcInv
  <2> QED  BY <1>1, <1>2, <1>4, <1>5, <2>2, <2>3, <2>4 DEF ProcInv
<1>8. StartInv'
  <2>1. \A b \in Actors \ {a} : act[b].pc = "start" => act[b].r # act[a].r /\ act[b].r \in Rts
    BY <1>1 DEF StartInv, Rts, TypeOK
  <2> QED  BY <1>1, <1>2, <1>3, <1>4, <2>1 DEF StartInv
<1>9. StopInv'
  <2>1. \A b \in Actors : act[b].pc \in Stopping => act[b].r \in Rts /\ act[b].r # act[a].r
    BY <1>1 DEF StopInv, TypeOK, ActType
  <2>2. \A q \in Rts : proc[rt[q].cmd] \in Over => rt[q].cmd # p  BY <1>2 DEF Over
  <2>3. \A b \in Actors : act[b].pc = "killed" => rt[act[b].r].cmd \in Procs
    BY DEF StopInv, TypeOK, RtType, ActType, ProcInv, Stopping
  <2> QED  BY <1>2, <1>3, <2>1, <2>2, <2>3 DEF StopInv, Stopping, Later
<1>10. StoppedInv'  BY <1>1, <1>2, <1>3 DEF StoppedInv, ProcInv, Later
<1> QED  BY <1>6, <1>7, <1>8, <1>9, <1>10

LEMMA RelaunchKeeps == ASSUME AppInv, NEW r \in Rts, Relaunch(r) PROVE EngineInv'
<1> USE DEF AppInv, EngineInv
<1>1. mon[r].pc = "launch" /\ UNCHANGED <<act, made>>  BY DEF Relaunch
<1>2. PICK p \in Procs :
        /\ proc[p] = "unused" /\ proc'[p] = "running"
        /\ \A q \in Procs : q # p => proc'[q] = proc[q]
        /\ \A q \in Rts : /\ rt'[q].cmd = IF q = r THEN p ELSE rt[q].cmd
                          /\ rt'[q].stop = rt[q].stop /\ rt'[q].count = rt[q].count
                          /\ mon'[q].pc = IF q = r THEN "wait" ELSE mon[q].pc
  BY LaunchDoes DEF Relaunch
<1>4. p # Nil  BY DEF Procs, Nil
<1>5. \A q \in Rts : rt[q].cmd \in Procs \cup {Nil}  BY DEF TypeOK, RtType
<1>6. RestartInv'  BY <1>2 DEF RestartInv
<1>7. ProcInv'
  <2>1. \A q \in Rts : rt[q].cmd # Nil => rt[q].cmd # p  BY <1>2 DEF ProcInv
  <2>2. ~ (r > made)  BY <1>1 DEF ProcInv
  <2>3. \A q \in Rts \ {r} : rt[q].cmd \in Procs => proc'[rt[q].cmd] = proc[rt[q].cmd]
    BY <1>2, <2>1, <1>4
  <2>4. \A q \in Rts \ {r} : mon[q].pc # "none" => rt[q].cmd \in Procs  BY <1>5 DEF ProcInv
  <2> QED  BY <1>1, <1>2, <1>4, <1>5, <2>2, <2>3, <2>4 DEF ProcInv
<1>8. StartInv'
  <2>1. \A b \in Actors : act[b].pc = "start" => act[b].r \in Rts  BY DEF StartInv, Rts, TypeOK
  <2> QED  BY <1>1, <1>2, <2>1 DEF StartInv
<1>9. StopInv'
  <2>1. \A b \in Actors : act[b].pc \in Stopping => act[b].r \in Rts
    BY DEF StopInv, TypeOK, ActType
  <2>2. \A q \in Rts : proc[rt[q].cmd] \in Over => rt[q].cmd # p  BY <1>2 DEF Over
  <2>3. \A b \in Actors : act[b].pc = "killed" => rt[act[b].r].cmd \in Procs
    BY DEF StopInv, TypeOK, RtType, ActType, ProcInv, Stopping
  <2> QED  BY <1>1, <1>2, <2>1, <2>2, <2>3 DEF StopInv, Stopping, Later
<1>10. StoppedInv'  BY <1>1, <1>2 DEF StoppedInv
<1> QED  BY <1>6, <1>7, <1>8, <1>9, <1>10

(* The monitor's other steps leave every process alone, and leave StopChan, *)
(* Cmd and the other monitors as they are.                                  *)
LEMMA MonitorKeeps ==
  ASSUME AppInv, NEW r \in Rts, NEW x \in {"wait", "config", "delay", "launch", "gone"},
         UNCHANGED <<act, made, proc>>, mon[r].pc \notin {"none", "gone"},
         \A q \in Rts : rt'[q].cmd = rt[q].cmd /\ rt'[q].stop = rt[q].stop,
         \A q \in Rts \ {r} : rt'[q].count = rt[q].count,
         \A q \in Rts : mon'[q].pc = IF q = r THEN x ELSE mon[q].pc,
         x # "wait" => proc[rt[r].cmd] \in Over,
         x = "delay" => (MaxRestart > 0 => rt'[r].count < MaxRestart),
         mon[r].pc = "wait" /\ rt[r].stop => x \in {"wait", "gone"}
  PROVE  EngineInv'
<1> USE DEF AppInv, EngineInv
<1>1. RestartInv'  BY DEF RestartInv
<1>2. ProcInv'  BY DEF ProcInv
<1>3. StartInv'
  <2>1. \A b \in Actors : act[b].pc = "start" => act[b].r \in Rts  BY DEF StartInv, Rts, TypeOK
  <2> QED  BY <2>1 DEF StartInv
<1>4. StopInv'
  <2>1. \A b \in Actors : act[b].pc \in Stopping => act[b].r \in Rts
    BY DEF StopInv, TypeOK, ActType
  <2> QED  BY <2>1 DEF StopInv, Stopping, Later
<1>5. StoppedInv'  BY DEF StoppedInv
<1> QED  BY <1>1, <1>2, <1>3, <1>4, <1>5

(* Every step keeps the invariant. *)
LEMMA EngineStep == ASSUME AppInv, [Next]_vars PROVE EngineInv'
<1>1. ASSUME UNCHANGED <<rt, mon, proc, act, made>> PROVE EngineInv'
  BY <1>1 DEF AppInv, EngineInv, RestartInv, ProcInv, StartInv, StopInv, StoppedInv
<1>2. CASE Api
  <2>1. CASE ReplaceApi
    <3>1. "file" \in Actors /\ act["file"].pc \notin Later  BY <2>1 DEF ReplaceApi, Actors, Later
    <3> QED  BY <2>1, <3>1, StopAppKeeps DEF ReplaceApi
  <2> QED  BY <1>1, <1>2, <2>1 DEF Api, AddApi, ModifyApi, DelApi, OperateApi, Submit
<1>3. CASE TakeMsg
  <2>1. "loop" \in Actors /\ act["loop"].pc \notin Later  BY <1>3 DEF TakeMsg, Actors, Later
  <2>2. UNCHANGED <<rt, mon, proc>>  BY <1>3 DEF TakeMsg
  <2>3. CASE StartApp("loop")  BY <2>1, <2>2, <2>3, StartAppKeeps
  <2>4. ASSUME NEW o, StopApp("loop", o), made' = made PROVE EngineInv'
    BY <2>1, <2>2, <2>4, StopAppKeeps
  <2>5. CASE Return("loop") /\ made' = made
    BY <2>1, <2>2, <2>5, QuietKeeps DEF Return, At, Idle, Stopping
  <2> QED  BY <1>3, <2>3, <2>4, <2>5 DEF TakeMsg
<1>4. CASE StartApps
  <2>1. "activate" \in Actors /\ act["activate"].pc \notin Later  BY <1>4 DEF StartApps, Actors, Later
  <2> QED  BY <1>4, <2>1, StartAppKeeps DEF StartApps
<1>5. CASE StopApps
  <2>1. "graceful" \in Actors /\ act["graceful"].pc \notin Later  BY <1>5 DEF StopApps, Actors, Later
  <2> QED  BY <1>5, <2>1, StopAppKeeps DEF StopApps
<1>6. ASSUME NEW a \in Actors, Call(a) PROVE EngineInv'
  <2>1. CASE startFails(a)
    BY <2>1, QuietKeeps DEF startFails, Return, At, Idle, Stopping, Later
  <2>2. CASE CloseTwice(a)
    BY <1>1, <2>2, QuietKeeps DEF CloseTwice, Return, At, Idle, Stopping, Later
  <2>3. CASE Drop(a)
    <3> DEFINE x == [act[a] EXCEPT !.pc = "dropped"]
    <3>1. act' = [act EXCEPT ![a] = x]  BY <2>3 DEF Drop
    <3>2. x.pc = "dropped"  BY DEF AppInv, TypeOK, ActType
    <3> HIDE DEF x
    <3> QED  BY <2>3, <3>1, <3>2, QuietKeeps DEF Drop, Stopping, Later
  <2>4. CASE Dropped(a)
    <3>1. act[a].pc \notin Later /\ UNCHANGED <<rt, mon, proc>>  BY <2>4 DEF Dropped, Later
    <3>2. CASE StartApp(a)  BY <3>1, <3>2, StartAppKeeps
    <3>3. CASE Return(a) /\ UNCHANGED <<cur, made>>
      BY <3>1, <3>3, QuietKeeps DEF Return, At, Idle, Stopping
    <3> QED  BY <2>4, <3>2, <3>3 DEF Dropped
  <2> QED  BY <1>6, <2>1, <2>2, <2>3, <2>4, startProcessKeeps, SelectKeeps, CloseKeeps, SignalKeeps,
              TimeoutKeeps, StopDoneKeeps DEF Call
<1>7. ASSUME NEW r \in Rts, Monitor(r) PROVE EngineInv'
  <2>1. CASE Wait(r)
    <3> DEFINE x == IF rt[r].stop THEN "gone" ELSE "config"
    <3>1. \A q \in Rts : mon'[q].pc = IF q = r THEN x ELSE mon[q].pc  BY <2>1 DEF Wait, MonType, AppInv, TypeOK
    <3>2. \A q \in Rts : rt'[q].cmd = rt[q].cmd /\ rt'[q].stop = rt[q].stop /\ rt'[q].count = rt[q].count
      BY <2>1 DEF Wait, RtType, AppInv, TypeOK
    <3>3. proc[rt[r].cmd] \in Over
      <4>1. rt[r].cmd \in Procs  BY <2>1 DEF Wait, RtType, ProcInv, AppInv, TypeOK, EngineInv
      <4>2. rt[r].cmd # Nil /\ proc[rt[r].cmd] # "unused" /\ proc[rt[r].cmd] \in ProcType
        BY <2>1, <4>1 DEF Wait, ProcInv, Procs, Nil, AppInv, TypeOK, EngineInv
      <4> QED  BY <2>1, <4>2 DEF Wait, Alive, ProcType, Over
    <3>4. mon[r].pc = "wait" /\ UNCHANGED <<act, made, proc>>  BY <2>1 DEF Wait
    <3>5. x \in {"wait", "config", "delay", "launch", "gone"} /\ x # "delay"
          /\ (rt[r].stop => x \in {"wait", "gone"})
      OBVIOUS
    <3> HIDE DEF x
    <3> QED  BY <3>1, <3>2, <3>3, <3>4, <3>5, MonitorKeeps
  <2>2. CASE ReadConfig(r)
    <3> DEFINE x == IF WantsRestart(r) THEN "delay" ELSE "gone"
    <3>1. \A q \in Rts : mon'[q].pc = IF q = r THEN x ELSE mon[q].pc  BY <2>2 DEF ReadConfig, MonType, AppInv, TypeOK
    <3>2. mon[r].pc = "config" /\ UNCHANGED <<act, made, proc, rt>>  BY <2>2 DEF ReadConfig
    <3>3. proc[rt[r].cmd] \in Over  BY <3>2 DEF ProcInv, AppInv, EngineInv
    <3>4. x \in {"wait", "config", "delay", "launch", "gone"}  OBVIOUS
    <3>5. x = "delay" => (MaxRestart > 0 => rt[r].count < MaxRestart)  BY DEF WantsRestart, BelowMax
    <3> HIDE DEF x
    <3> QED  BY <3>1, <3>2, <3>3, <3>4, <3>5, MonitorKeeps
  <2>3. CASE Delay(r)
    <3> DEFINE x == IF rt[r].stop THEN "gone" ELSE "launch"
    <3>1. \A q \in Rts : mon'[q].pc = IF q = r THEN x ELSE mon[q].pc  BY <2>3 DEF Delay, MonType, AppInv, TypeOK
    <3>2. \A q \in Rts : rt'[q].cmd = rt[q].cmd /\ rt'[q].stop = rt[q].stop
                         /\ (q # r => rt'[q].count = rt[q].count)
      BY <2>3 DEF Delay, RtType, AppInv, TypeOK
    <3>3. mon[r].pc = "delay" /\ UNCHANGED <<act, made, proc>>  BY <2>3 DEF Delay
    <3>4. proc[rt[r].cmd] \in Over  BY <3>3 DEF ProcInv, AppInv, EngineInv
    <3>5. x \in {"wait", "config", "delay", "launch", "gone"} /\ x # "delay"  OBVIOUS
    <3> HIDE DEF x
    <3> QED  BY <3>1, <3>2, <3>3, <3>4, <3>5, MonitorKeeps
  <2>4. CASE RelaunchFails(r)
    <3>1. \A q \in Rts : mon'[q].pc = IF q = r THEN "wait" ELSE mon[q].pc
      BY <2>4 DEF RelaunchFails, AfterFailure, MonType, AppInv, TypeOK
    <3>2. mon[r].pc = "launch" /\ UNCHANGED <<act, made, proc, rt>>  BY <2>4 DEF RelaunchFails
    <3> QED  BY <3>1, <3>2, MonitorKeeps
  <2> QED  BY <1>7, <2>1, <2>2, <2>3, <2>4, RelaunchKeeps DEF Monitor
<1>8. CASE Exit  BY <1>1, <1>8 DEF Exit
<1>9. ASSUME NEW p \in Procs, NEW how \in {"ok", "failed"}, ProcExit(p, how) PROVE EngineInv'
  <2> USE DEF AppInv, EngineInv, TypeOK
  <2>1. UNCHANGED <<rt, mon, act, made>>  BY <1>9 DEF ProcExit
  <2>2. \A q \in Procs : /\ proc[q] \in Over => proc'[q] \in Over
                         /\ proc[q] # "unused" => proc'[q] # "unused"
    BY <1>9 DEF ProcExit, Over
  <2>3. \A r \in Rts : rt[r].cmd \in Procs \cup {Nil}  BY DEF RtType
  <2>4. RestartInv' /\ StartInv' /\ StoppedInv'  BY <2>1 DEF RestartInv, StartInv, StoppedInv
  <2>5. ProcInv'  BY <2>1, <2>2, <2>3 DEF ProcInv
  <2>6. StopInv'
    <3>1. \A b \in Actors : act[b].pc = "killed" => rt[act[b].r].cmd \in Procs
      BY DEF StopInv, RtType, ActType, ProcInv, Stopping
    <3> QED  BY <2>1, <2>2, <3>1 DEF StopInv
  <2> QED  BY <2>4, <2>5, <2>6
<1>10. CASE UNCHANGED vars  BY <1>1, <1>10 DEF vars
<1> QED  BY <1>2, <1>3, <1>4, <1>5, <1>6, <1>7, <1>8, <1>9, <1>10 DEF Next, Engine

LEMMA AppInit == Init => AppInv
<1> SUFFICES ASSUME Init PROVE AppInv  OBVIOUS
<1>1. Idle \in ActType  BY DEF At, Idle, Pcs, Calls, Nil, ActType
<1>2. NoRuntime \in RtType /\ [pc |-> "none", err |-> FALSE] \in MonType /\ "unused" \in ProcType
  BY DEF NoRuntime, RtType, MonType, ProcType, Nil
<1>3. TypeOK
  <2>1. row \in Row  BY DEF Init
  <2>2. rt \in [Rts -> RtType] /\ mon \in [Rts -> MonType] /\ proc \in [Procs -> ProcType]
        /\ act \in [Actors -> ActType]
    BY <1>1, <1>2 DEF Init
  <2>3. \A r \in Rts : MaxRestart > 0 => rt[r].count <= MaxRestart  BY DEF Init, NoRuntime
  <2> QED  BY <2>1, <2>2, <2>3 DEF Init, TypeOK, Nil
<1>4. EngineInv
  BY DEF Init, At, Idle, NoRuntime, Nil, EngineInv, RestartInv, ProcInv, StartInv, StopInv, StoppedInv,
         Stopping, Later
<1> QED  BY <1>3, <1>4 DEF AppInv

LEMMA AppInvariant == Spec => []AppInv
<1>1. AppInv /\ [Next]_vars => AppInv'  BY TypeStep, EngineStep DEF AppInv, EngineInv
<1> QED  BY AppInit, <1>1, PTL DEF Spec

(* The engine's state stays well typed, and no runtime is restarted more    *)
(* often than MaxRestartCount (monitorApp reads the count, waits for the    *)
(* restart delay and counts only then).                                     *)
THEOREM AppTypeCorrect == Spec => []TypeOK
  BY AppInvariant, PTL DEF AppInv

(* A runtime's stop holds: once its StopChan is closed and no caller is     *)
(* still in StopApp for it, this runtime has no process and its monitor has *)
(* returned, however the stop, the kill, the restart and other callers      *)
(* interleave.  This is about the one runtime: the application may have a   *)
(* process of another runtime (OneProcess), and a StopApp that returns      *)
(* because Cmd is still nil closes nothing.  It rests on Overdue: the time  *)
(* limit does not pass while the monitor is starting a process.             *)
THEOREM AppStopHolds == Spec => []StopHolds
<1>1. AppInv => StopHolds
  <2> SUFFICES ASSUME AppInv, NEW r \in Rts, rt[r].stop,
                      \A a \in Actors : act[a].pc \in Stopping => act[a].r # r
               PROVE  ~ Alive(rt[r].cmd) /\ Done(r)
    BY DEF StopHolds
  <2>1. mon[r].pc = "gone"  BY DEF AppInv, EngineInv, StoppedInv, Later, Stopping
  <2>2. proc[rt[r].cmd] \in Over  BY <2>1 DEF AppInv, EngineInv, ProcInv
  <2> QED  BY <2>1, <2>2 DEF Alive, Done, Over
<1> QED  BY AppInvariant, <1>1, PTL
=============================================================================

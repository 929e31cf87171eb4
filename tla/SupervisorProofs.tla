-------------------------- MODULE SupervisorProofs --------------------------
(* Theorems about Supervisor, for every number of Workers, versions and     *)
(* events of the environment.                                               *)
EXTENDS Supervisor, TLAPS

USE SupervisorAssumption DEF None

(* None is not a process: activePID = 0 means that no Worker is active. *)
LEMMA NoneNotPid == \A p \in Pids : p # None
  BY DEF Pids

(* A message appended to, or a message taken from, a well-typed queue. *)
LEMMA QueueType ==
  ASSUME NEW S, NEW q \in Seq(S)
  PROVE  /\ \A m \in S : Append(q, m) \in Seq(S) /\ <<m>> \o q \in Seq(S)
         /\ q # <<>> => Tail(q) \in Seq(S) /\ Head(q) \in S
         /\ <<>> \in Seq(S)
  OBVIOUS

(* workerState.send only appends to queues. *)
LEMMA SentType ==
  ASSUME TypeOK, NEW P, NEW m \in ToWMsgs
  PROVE  Sent(P, m) \in [Pids -> Seq(ToWMsgs)]
<1>1. SUFFICES ASSUME NEW p \in Pids
               PROVE (IF p \in P /\ link[p] = "up" /\ Alive(p) THEN Append(toW[p], m) ELSE toW[p])
                        \in Seq(ToWMsgs)
  BY DEF Sent
<1>2. toW[p] \in Seq(ToWMsgs)  BY DEF TypeOK, ChanTypes
<1> QED  BY <1>2, QueueType

(* What writeState saves is a state file. *)
LEMMA SavedStateType ==
  ASSUME TypeOK, NEW w
  PROVE  [token |-> token, pids |-> {p \in Pids : w[p] # "none"}] \in [token : Nat, pids : SUBSET Pids]
  BY DEF TypeOK, MemTypes

(* An event of the environment is paid from the budget. *)
LEMMA SpendType == ASSUME TypeOK, NEW e \in Events, Spend(e) PROVE left' \in [Events -> Nat]
  BY DEF TypeOK, Spend

(* A wait that ends changes the budget only as an event does. *)
LEMMA EndsOrType ==
  ASSUME TypeOK, NEW b, NEW e \in Events, EndsOr(b, e) PROVE left' \in [Events -> Nat]
  BY SpendType DEF TypeOK, EndsOr

(* rollbackBinary restores a version. *)
LEMMA RollbackType ==
  ASSUME TypeOK, RollbackBinary PROVE bin' \in Versions /\ left' \in [Events -> Nat]
<1>1. bin' \in Versions  BY QueueType DEF TypeOK, DiskTypes, RollbackBinary
<1>2. "rollbackFail" \in Events  BY DEF Events
<1>3. left' \in [Events -> Nat]  BY <1>2, SpendType DEF RollbackBinary, TypeOK
<1> QED  BY <1>1, <1>3

(* spawn *)
LEMMA SpawnType ==
  ASSUME TypeOK, NEW p \in Pids, NEW t \in BOOLEAN, NEW m \in [Pids -> MonStates], Spawn(p, t, m)
  PROVE  /\ ProcTypes' /\ ChanTypes'
         /\ reg' \in [Pids -> RegStates] /\ mon' \in [Pids -> MonStates]
         /\ activePID' \in Pids \cup {None}
<1> USE DEF TypeOK, Spawn
<1>1. ProcTypes'  BY DEF ProcTypes, DiskTypes, MemTypes, ProcStates
<1>2. ChanTypes'  BY DEF ChanTypes, chanVars
<1>3. reg' \in [Pids -> RegStates]  BY DEF MemTypes, RegStates
<1>4. mon' \in [Pids -> MonStates]  BY DEF MonStates
<1>5. activePID' \in Pids \cup {None}  BY DEF MemTypes
<1> QED  BY <1>1, <1>2, <1>3, <1>4, <1>5

(* A process ends. *)
LEMMA DieType ==
  ASSUME TypeOK, NEW p, NEW how \in {"exit0", "crashed"}, Die(p, how)
  PROVE  ProcTypes' /\ toW' \in [Pids -> Seq(ToWMsgs)]
<1> USE DEF TypeOK, Die
<1>1. ProcTypes'  BY DEF ProcTypes, ProcStates
<1>2. toW' \in [Pids -> Seq(ToWMsgs)]  BY QueueType DEF ChanTypes
<1> QED  BY <1>1, <1>2

(* The Supervisor's memory is lost. *)
LEMMA LoseType ==
  ASSUME TypeOK, LoseSupervisor, sup' \in {"down", "stopped"}
  PROVE  ChanTypes' /\ MemTypes' /\ CrashTypes' /\ GoroutineTypes'
<1> USE DEF TypeOK, LoseSupervisor
<1>1. ChanTypes'  BY QueueType DEF ChanTypes
<1>2. MemTypes'  BY DEF MemTypes, RegStates
<1>3. crashes' \in Nat  OBVIOUS
<1>4. probation' \in BOOLEAN  OBVIOUS
<1>5. GoroutineTypes'  BY DEF GoroutineTypes, NoUpgrade, NoRun, MonStates, UpgStates, RunStates
<1> QED  BY <1>1, <1>2, <1>3, <1>4, <1>5 DEF CrashTypes

(* The Supervisor before its first start. *)
LEMMA InitTypeOK == Init => TypeOK
<1> SUFFICES ASSUME Init PROVE TypeOK  OBVIOUS
<1> USE DEF Init
<1>1. ProcTypes  BY DEF ProcTypes, ProcStates, Versions
<1>2. ChanTypes  BY QueueType DEF ChanTypes
<1>3. DiskTypes  BY QueueType DEF DiskTypes, Versions
<1>4. MemTypes   BY DEF MemTypes, RegStates, Versions
<1>5. GoroutineTypes  BY DEF GoroutineTypes, NoUpgrade, NoRun, MonStates, UpgStates, RunStates
<1>6. crashes \in Nat  OBVIOUS
<1>7. probation \in BOOLEAN  OBVIOUS
<1> QED  BY <1>1, <1>2, <1>3, <1>4, <1>5, <1>6, <1>7 DEF TypeOK, CrashTypes

(* Every step keeps the types: one step of the proof per action. *)
LEMMA TypeStep == TypeOK /\ [Next]_vars => TypeOK'
<1> SUFFICES ASSUME TypeOK, [Next]_vars PROVE TypeOK'  OBVIOUS
<1> USE DEF TypeOK
<1>1. ASSUME SupStart PROVE TypeOK'
  <2> USE <1>1 DEF SupStart, procVars, chanVars
  <2>1. DiskTypes'  BY DEF DiskTypes, MemTypes
  <2>2. MemTypes'  BY DEF MemTypes, RegStates, DiskTypes
  <2>3. GoroutineTypes'  BY DEF GoroutineTypes, MonStates, UpgStates, RunStates, DiskTypes, Orphans
  <2> QED  BY <2>1, <2>2, <2>3 DEF ProcTypes, ChanTypes, CrashTypes
<1>2. ASSUME FirstSpawn PROVE TypeOK'
  <2> USE <1>2 DEF FirstSpawn, procVars, chanVars
  <2>1. GoroutineTypes'  BY SpawnType DEF GoroutineTypes, MonStates, UpgStates, RunStates, NoRun
  <2>2. ProcTypes'  BY SpawnType DEF ProcTypes, ProcStates, GoroutineTypes
  <2>3. ChanTypes'  BY SpawnType DEF ChanTypes, ToSMsgs, ToWMsgs, GoroutineTypes
  <2>4. MemTypes'  BY SpawnType DEF MemTypes, RegStates, GoroutineTypes
  <2>5. left' \in [Events -> Nat]  BY SpendType DEF Events
  <2> QED  BY <2>1, <2>2, <2>3, <2>4, <2>5 DEF DiskTypes, CrashTypes
<1>3. ASSUME NEW p \in Pids, AdoptClaim(p) PROVE TypeOK'
  <2> USE <1>3 DEF AdoptClaim, procVars
  <2>1. ChanTypes'  BY SentType DEF ChanTypes, ToSMsgs, ToWMsgs
  <2>2. MemTypes'  BY DEF MemTypes, RegStates
  <2>3. GoroutineTypes'  BY DEF GoroutineTypes, MonStates, UpgStates, RunStates, NoRun
  <2>4. DiskTypes'  BY SavedStateType DEF DiskTypes, WriteState, SavedState
  <2> QED  BY <2>1, <2>2, <2>3, <2>4 DEF ProcTypes, CrashTypes
<1>4. ASSUME AdoptWaited PROVE TypeOK'
  <2> USE <1>4 DEF AdoptWaited, procVars, chanVars
  <2>1. GoroutineTypes'  BY DEF GoroutineTypes, MonStates, UpgStates, RunStates
  <2>2. left' \in [Events -> Nat]  BY EndsOrType DEF Events
  <2> QED  BY <2>1, <2>2 DEF ProcTypes, ChanTypes, DiskTypes, MemTypes, CrashTypes
<1>5. ASSUME AdoptSpawn PROVE TypeOK'
  <2> USE <1>5 DEF AdoptSpawn, procVars, chanVars
  <2>1. MemTypes'  BY SpawnType DEF MemTypes, RegStates, GoroutineTypes
  <2>2. GoroutineTypes'
    <3>1. mon' \in [Pids -> MonStates]  BY SpawnType DEF GoroutineTypes
    <3> DEFINE R == [pc : RunStates, cands : SUBSET Pids, new : Pids \cup {None}]
    <3>2. \A q \in Pids : [run EXCEPT !.pc = "ready", !.new = q] \in R  BY DEF GoroutineTypes, RunStates
    <3>3. [NoRun EXCEPT !.pc = "first"] \in R  BY DEF RunStates, NoRun
    <3>4. run' \in R  BY <3>2, <3>3
    <3> QED  BY <3>1, <3>4 DEF GoroutineTypes
  <2>3. ProcTypes'  BY SpawnType DEF ProcTypes, ProcStates, GoroutineTypes
  <2>4. ChanTypes'  BY SpawnType DEF ChanTypes, ToSMsgs, ToWMsgs, GoroutineTypes
  <2>5. left' \in [Events -> Nat]  BY SpendType DEF Events
  <2> QED  BY <2>1, <2>2, <2>3, <2>4, <2>5 DEF DiskTypes, CrashTypes
<1>6. ASSUME AdoptReady PROVE TypeOK'
  <2> USE <1>6 DEF AdoptReady, procVars, chanVars
  <2>1. MemTypes'  BY DEF MemTypes, RegStates, GoroutineTypes
  <2>2. CrashTypes'  BY DEF CrashTypes
  <2>3. GoroutineTypes'  BY DEF GoroutineTypes, MonStates, UpgStates, RunStates
  <2>4. DiskTypes'  BY SavedStateType DEF DiskTypes, WriteState, SavedState
  <2> QED  BY <2>1, <2>2, <2>3, <2>4 DEF ProcTypes, ChanTypes
<1>7. ASSUME AdoptReadyTimeout PROVE TypeOK'
  <2> USE <1>7 DEF AdoptReadyTimeout, procVars
  <2>1. MemTypes'  BY DEF MemTypes, RegStates
  <2>2. GoroutineTypes'  BY DEF GoroutineTypes, MonStates, UpgStates, RunStates, NoRun
  <2>3. ProcTypes'  BY DieType DEF ProcTypes, ProcStates
  <2>4. ChanTypes'  BY DieType DEF ChanTypes, ToSMsgs, ToWMsgs
  <2>5. left' \in [Events -> Nat]  BY EndsOrType DEF Events
  <2> QED  BY <2>1, <2>2, <2>3, <2>4, <2>5 DEF DiskTypes, CrashTypes
<1>8. ASSUME AdoptDrain PROVE TypeOK'
  <2> USE <1>8 DEF AdoptDrain, procVars
  <2>1. ChanTypes'  BY SentType DEF ChanTypes, ToSMsgs, ToWMsgs
  <2>2. MemTypes'  BY DEF MemTypes, RegStates
  <2>3. GoroutineTypes'  BY DEF GoroutineTypes, MonStates, UpgStates, RunStates
  <2>4. left' \in [Events -> Nat]  BY EndsOrType DEF Events
  <2> QED  BY <2>1, <2>2, <2>3, <2>4 DEF ProcTypes, DiskTypes, CrashTypes
<1>9. ASSUME AdoptGone PROVE TypeOK'
  <2> USE <1>9 DEF AdoptGone, procVars, chanVars
  <2>1. MemTypes'  BY DEF MemTypes, RegStates
  <2>2. GoroutineTypes'  BY DEF GoroutineTypes, MonStates, UpgStates, RunStates
  <2>3. left' \in [Events -> Nat]  BY EndsOrType DEF Events
  <2> QED  BY <2>1, <2>2, <2>3 DEF ProcTypes, ChanTypes, DiskTypes, CrashTypes
<1>10. ASSUME AdoptActivate PROVE TypeOK'
  <2> USE <1>10 DEF AdoptActivate, procVars
  <2>1. ChanTypes'  BY SentType DEF ChanTypes, ToSMsgs, ToWMsgs
  <2>2. GoroutineTypes'  BY DEF GoroutineTypes, MonStates, UpgStates, RunStates, NoRun
  <2> QED  BY <2>1, <2>2 DEF ProcTypes, DiskTypes, MemTypes, CrashTypes
<1>11. ASSUME UpgSpawn PROVE TypeOK'
  <2> USE <1>11 DEF UpgSpawn, procVars, chanVars
  <2>1. GoroutineTypes'
    <3>1. mon' \in [Pids -> MonStates]  BY SpawnType DEF GoroutineTypes
    <3> DEFINE U == [pc : UpgStates, old : Pids \cup {None}, new : Pids \cup {None}]
    <3>2. \A q \in Pids : [upg EXCEPT !.pc = "ready", !.new = q] \in U  BY DEF GoroutineTypes, UpgStates
    <3>3. NoUpgrade \in U  BY DEF UpgStates, NoUpgrade
    <3>4. upg' \in U  BY <3>2, <3>3
    <3> QED  BY <3>1, <3>4 DEF GoroutineTypes
  <2>2. ProcTypes'  BY SpawnType DEF ProcTypes, ProcStates, GoroutineTypes
  <2>3. ChanTypes'  BY SpawnType DEF ChanTypes, ToSMsgs, ToWMsgs, GoroutineTypes
  <2>4. MemTypes'  BY SpawnType DEF MemTypes, RegStates, GoroutineTypes
  <2>5. left' \in [Events -> Nat]  BY SpendType DEF Events
  <2> QED  BY <2>1, <2>2, <2>3, <2>4, <2>5 DEF DiskTypes, CrashTypes
<1>12. ASSUME UpgTimeout PROVE TypeOK'
  <2> USE <1>12 DEF UpgTimeout, procVars
  <2>1. GoroutineTypes'  BY DEF GoroutineTypes, MonStates, UpgStates, RunStates
  <2>2. ProcTypes'  BY DieType DEF ProcTypes, ProcStates
  <2>3. ChanTypes'  BY DieType DEF ChanTypes, ToSMsgs, ToWMsgs
  <2>4. left' \in [Events -> Nat]  BY EndsOrType DEF Events
  <2> QED  BY <2>1, <2>2, <2>3, <2>4 DEF DiskTypes, MemTypes, CrashTypes
<1>13. ASSUME UpgSwitch PROVE TypeOK'
  <2> USE <1>13 DEF UpgSwitch, procVars
  <2>1. ChanTypes'  BY SentType DEF ChanTypes, ToSMsgs, ToWMsgs
  <2>2. MemTypes'  BY DEF MemTypes, RegStates, GoroutineTypes
  <2>3. CrashTypes'  BY DEF CrashTypes
  <2>4. GoroutineTypes'  BY DEF GoroutineTypes, MonStates, UpgStates, RunStates
  <2>5. DiskTypes'  BY SavedStateType DEF DiskTypes, WriteState, SavedState
  <2> QED  BY <2>1, <2>2, <2>3, <2>4, <2>5 DEF ProcTypes
<1>14. ASSUME UpgOldGone PROVE TypeOK'
  <2> USE <1>14 DEF UpgOldGone, procVars, chanVars
  <2>1. GoroutineTypes'  BY DEF GoroutineTypes, MonStates, UpgStates, RunStates
  <2>2. left' \in [Events -> Nat]  BY EndsOrType DEF Events
  <2> QED  BY <2>1, <2>2 DEF ProcTypes, ChanTypes, DiskTypes, MemTypes, CrashTypes
<1>15. ASSUME UpgActivate PROVE TypeOK'
  <2> USE <1>15 DEF UpgActivate, procVars
  <2>1. ChanTypes'  BY SentType DEF ChanTypes, ToSMsgs, ToWMsgs
  <2>2. GoroutineTypes'  BY DEF GoroutineTypes, MonStates, UpgStates, RunStates
  <2> QED  BY <2>1, <2>2 DEF ProcTypes, DiskTypes, MemTypes, CrashTypes
<1>16. ASSUME HandoffSkip PROVE TypeOK'
  <2> USE <1>16 DEF HandoffSkip, procVars, chanVars
  <2>1. GoroutineTypes'  BY DEF GoroutineTypes, MonStates, UpgStates, RunStates, NoUpgrade
  <2>2. DiskTypes'  BY SavedStateType DEF DiskTypes, WriteState, SavedState
  <2> QED  BY <2>1, <2>2 DEF ProcTypes, ChanTypes, MemTypes, CrashTypes
<1>17. ASSUME HandoffExec PROVE TypeOK'
  <2> USE <1>17 DEF HandoffExec, procVars
  <2>1. DiskTypes'  BY SavedStateType DEF DiskTypes, SavedState
  <2>2. MemTypes'  BY LoseType DEF MemTypes, RegStates
  <2>3. ChanTypes'  BY LoseType DEF ChanTypes, ToSMsgs, ToWMsgs
  <2>4. CrashTypes'  BY LoseType DEF CrashTypes
  <2>5. GoroutineTypes'  BY LoseType DEF GoroutineTypes, MonStates, UpgStates, RunStates
  <2> QED  BY <2>1, <2>2, <2>3, <2>4, <2>5 DEF ProcTypes
<1>18. ASSUME NEW p \in Pids, HandleHello(p) PROVE TypeOK'
  <2> USE <1>18 DEF HandleHello, procVars
  <2>1. ChanTypes'  BY DEF ChanTypes, ToSMsgs, ToWMsgs
  <2>2. MemTypes'  BY DEF MemTypes, RegStates
  <2>3. DiskTypes'  BY SavedStateType DEF DiskTypes, WriteState, SavedState
  <2>4. left' \in [Events -> Nat]  BY EndsOrType DEF Events
  <2> QED  BY <2>1, <2>2, <2>3, <2>4 DEF ProcTypes, CrashTypes, GoroutineTypes
<1>19. ASSUME NEW p \in Pids, OnReady(p) PROVE TypeOK'
  <2> USE <1>19 DEF OnReady, procVars
  <2>1. ChanTypes'  BY QueueType DEF ChanTypes, ToSMsgs, ToWMsgs
  <2>2. MemTypes'  BY DEF MemTypes, RegStates
  <2> QED  BY <2>1, <2>2 DEF ProcTypes, DiskTypes, CrashTypes, GoroutineTypes
<1>20. ASSUME NEW p \in Pids, OnRequestUpgrade(p) PROVE TypeOK'
  <2> USE <1>20 DEF OnRequestUpgrade, procVars
  <2>1. ChanTypes'  BY QueueType DEF ChanTypes, ToSMsgs, ToWMsgs
  <2>2. GoroutineTypes'  BY DEF GoroutineTypes, MonStates, UpgStates, RunStates, MemTypes, BeginUpgrade
  <2> QED  BY <2>1, <2>2 DEF ProcTypes, DiskTypes, MemTypes, CrashTypes
<1>21. ASSUME NEW p \in Pids, ConnLost(p) PROVE TypeOK'
  <2> USE <1>21 DEF ConnLost, procVars, memVars
  <2>1. ChanTypes'  BY QueueType DEF ChanTypes, ToSMsgs, ToWMsgs
  <2> QED  BY <2>1 DEF ProcTypes, DiskTypes, MemTypes, CrashTypes, GoroutineTypes
<1>22. ASSUME NEW p \in Pids, Reap(p) PROVE TypeOK'
  <2> USE <1>22 DEF Reap, procVars, chanVars
  <2>1. MemTypes'  BY DEF MemTypes, RegStates
  <2>2. GoroutineTypes'  BY DEF GoroutineTypes, MonStates, UpgStates, RunStates
  <2>3. DiskTypes'  BY SavedStateType DEF DiskTypes, WriteState, SavedState
  <2> QED  BY <2>1, <2>2, <2>3 DEF ProcTypes, ChanTypes, CrashTypes
<1>23. ASSUME NEW p \in Pids, ReapAdopted(p) PROVE TypeOK'
  <2> USE <1>23 DEF ReapAdopted, procVars, chanVars
  <2>1. MemTypes'  BY DEF MemTypes, RegStates
  <2>2. GoroutineTypes'  BY DEF GoroutineTypes, MonStates, UpgStates, RunStates
  <2>3. DiskTypes'  BY SavedStateType DEF DiskTypes, WriteState, SavedState
  <2> QED  BY <2>1, <2>2, <2>3 DEF ProcTypes, ChanTypes, CrashTypes
<1>24. ASSUME NEW p \in Pids, PollStops(p) PROVE TypeOK'
  <2> USE <1>24 DEF PollStops, procVars, chanVars
  <2>1. GoroutineTypes'  BY DEF GoroutineTypes, MonStates, UpgStates, RunStates
  <2> QED  BY <2>1 DEF ProcTypes, ChanTypes, DiskTypes, MemTypes, CrashTypes
<1>25. ASSUME NEW p \in Pids, HandleCrash(p) PROVE TypeOK'
  <2> USE <1>25 DEF HandleCrash, procVars, chanVars
  <2>1. MemTypes'  BY DEF MemTypes, RegStates
  <2>2. crashes' \in Nat  BY DEF CrashTypes
  <2>3. probation' \in BOOLEAN  BY DEF CrashTypes
  <2>4. GoroutineTypes'  BY DEF GoroutineTypes, MonStates, UpgStates, RunStates
  <2> QED  BY <2>1, <2>2, <2>3, <2>4 DEF ProcTypes, ChanTypes, DiskTypes, CrashTypes
<1>26. ASSUME NEW p \in Pids, Respawn(p) PROVE TypeOK'
  <2> USE <1>26 DEF Respawn, procVars, chanVars
  <2>0. [mon EXCEPT ![p] = "none"] \in [Pids -> MonStates]  BY DEF GoroutineTypes, MonStates
  <2>1. GoroutineTypes'  BY SpawnType, <2>0 DEF GoroutineTypes
  <2>2. ProcTypes'  BY SpawnType, <2>0 DEF ProcTypes
  <2>3. ChanTypes'  BY SpawnType, <2>0 DEF ChanTypes
  <2>4. MemTypes'  BY SpawnType, <2>0 DEF MemTypes
  <2>5. left' \in [Events -> Nat]  BY SpendType DEF Events
  <2> QED  BY <2>1, <2>2, <2>3, <2>4, <2>5 DEF DiskTypes, CrashTypes
<1>27. ASSUME NEW p \in Pids, Probe(p) PROVE TypeOK'
  <2> USE <1>27 DEF Probe, chanVars, memVars
  <2>1. ProcTypes'  BY DEF ProcTypes, ProcStates
  <2> QED  BY <2>1 DEF ChanTypes, DiskTypes, MemTypes, CrashTypes, GoroutineTypes
<1>28. ASSUME NEW p \in Pids, ProbeFail(p) PROVE TypeOK'
  <2> USE <1>28 DEF ProbeFail, memVars
  <2>1. ProcTypes'  BY DieType DEF ProcTypes, ProcStates
  <2>2. ChanTypes'  BY DieType DEF ChanTypes, ToSMsgs, ToWMsgs
  <2> QED  BY <2>1, <2>2 DEF DiskTypes, MemTypes, CrashTypes, GoroutineTypes
<1>29. ASSUME NEW p \in Pids, Boot(p) PROVE TypeOK'
  <2> USE <1>29 DEF Boot, chanVars, memVars
  <2>1. ProcTypes'  BY DEF ProcTypes, ProcStates, Consumed
  <2>2. left' \in [Events -> Nat]  BY EndsOrType DEF Events
  <2> QED  BY <2>1, <2>2 DEF ChanTypes, DiskTypes, MemTypes, CrashTypes, GoroutineTypes
<1>30. ASSUME NEW p \in Pids, Dial(p) PROVE TypeOK'
  <2> USE <1>30 DEF Dial, procVars, memVars
  <2>1. ChanTypes'  BY QueueType DEF ChanTypes, ToSMsgs, ToWMsgs
  <2> QED  BY <2>1 DEF ProcTypes, DiskTypes, MemTypes, CrashTypes, GoroutineTypes
<1>31. ASSUME NEW p \in Pids, SendReady(p) PROVE TypeOK'
  <2> USE <1>31 DEF SendReady, procVars, memVars
  <2>1. ChanTypes'  BY QueueType DEF ChanTypes, ToSMsgs, ToWMsgs
  <2>2. said' \subseteq Pids  OBVIOUS
  <2>3. left' \in [Events -> Nat]  BY EndsOrType DEF Events
  <2> QED  BY <2>1, <2>2, <2>3 DEF ProcTypes, DiskTypes, MemTypes, CrashTypes, GoroutineTypes
<1>32. ASSUME NEW p \in Pids, OnDrain(p) PROVE TypeOK'
  <2> USE <1>32 DEF OnDrain, memVars
  <2>1. ProcTypes'  BY DEF ProcTypes, ProcStates
  <2>2. ChanTypes'  BY QueueType DEF ChanTypes, ToSMsgs, ToWMsgs
  <2> QED  BY <2>1, <2>2 DEF DiskTypes, MemTypes, CrashTypes, GoroutineTypes
<1>33. ASSUME NEW p \in Pids, OnActivate(p) PROVE TypeOK'
  <2> USE <1>33 DEF OnActivate, memVars
  <2>1. ProcTypes'  BY DEF ProcTypes, ProcStates
  <2>2. ChanTypes'  BY QueueType DEF ChanTypes, ToSMsgs, ToWMsgs
  <2> QED  BY <2>1, <2>2 DEF DiskTypes, MemTypes, CrashTypes, GoroutineTypes
<1>34. ASSUME NEW p \in Pids, Exit(p) PROVE TypeOK'
  <2> USE <1>34 DEF Exit, memVars
  <2>1. ProcTypes'  BY DieType DEF ProcTypes, ProcStates
  <2>2. ChanTypes'  BY DieType DEF ChanTypes, ToSMsgs, ToWMsgs
  <2> QED  BY <2>1, <2>2 DEF DiskTypes, MemTypes, CrashTypes, GoroutineTypes
<1>35. ASSUME OnTriggerUpgrade PROVE TypeOK'
  <2> USE <1>35 DEF OnTriggerUpgrade, procVars, chanVars
  <2>1. left' \in [Events -> Nat]  BY SpendType DEF Events
  <2>2. GoroutineTypes'  BY DEF GoroutineTypes, MonStates, UpgStates, RunStates, MemTypes, BeginUpgrade
  <2> QED  BY <2>1, <2>2 DEF ProcTypes, ChanTypes, DiskTypes, MemTypes, CrashTypes
<1>36. ASSUME CrashExpires PROVE TypeOK'
  <2> USE <1>36 DEF CrashExpires, procVars, chanVars
  <2>1. CrashTypes'  BY DEF CrashTypes
  <2> QED  BY <2>1 DEF ProcTypes, ChanTypes, DiskTypes, MemTypes, GoroutineTypes
<1>37. ASSUME ProbationExpires PROVE TypeOK'
  <2> USE <1>37 DEF ProbationExpires, procVars, chanVars
  <2>1. CrashTypes'  BY DEF CrashTypes
  <2> QED  BY <2>1 DEF ProcTypes, ChanTypes, DiskTypes, MemTypes, GoroutineTypes
<1>38. ASSUME Shutdown PROVE TypeOK'
  <2> USE <1>38 DEF Shutdown, procVars, memVars
  <2>1. ChanTypes'  BY SentType DEF ChanTypes, ToSMsgs, ToWMsgs
  <2>2. MemTypes'  BY DEF MemTypes, RegStates
  <2>3. left' \in [Events -> Nat]  BY SpendType DEF Events
  <2> QED  BY <2>1, <2>2, <2>3 DEF ProcTypes, DiskTypes, CrashTypes, GoroutineTypes
<1>39. ASSUME ShutdownDone PROVE TypeOK'
  <2> USE <1>39 DEF ShutdownDone, procVars
  <2>1. DiskTypes'  BY DEF DiskTypes
  <2>2. MemTypes'  BY LoseType DEF MemTypes, RegStates
  <2>3. ChanTypes'  BY LoseType DEF ChanTypes, ToSMsgs, ToWMsgs
  <2>4. CrashTypes'  BY LoseType DEF CrashTypes
  <2>5. GoroutineTypes'  BY LoseType DEF GoroutineTypes, MonStates, UpgStates, RunStates
  <2>6. left' \in [Events -> Nat]  BY EndsOrType DEF Events
  <2> QED  BY <2>1, <2>2, <2>3, <2>4, <2>5, <2>6 DEF ProcTypes
<1>40. ASSUME ServiceStart PROVE TypeOK'
  <2> USE <1>40 DEF ServiceStart, procVars, chanVars, memVars
  <2>1. MemTypes'  BY DEF MemTypes, RegStates
  <2>2. left' \in [Events -> Nat]  BY SpendType DEF Events
  <2> QED  BY <2>1, <2>2 DEF ProcTypes, ChanTypes, DiskTypes, CrashTypes, GoroutineTypes
<1>41. ASSUME SupCrash PROVE TypeOK'
  <2> USE <1>41 DEF SupCrash, procVars
  <2>1. MemTypes'  BY LoseType DEF MemTypes, RegStates
  <2>2. ChanTypes'  BY LoseType DEF ChanTypes, ToSMsgs, ToWMsgs
  <2>3. CrashTypes'  BY LoseType DEF CrashTypes
  <2>4. GoroutineTypes'  BY LoseType DEF GoroutineTypes, MonStates, UpgStates, RunStates
  <2>5. left' \in [Events -> Nat]  BY SpendType DEF Events
  <2> QED  BY <2>1, <2>2, <2>3, <2>4, <2>5 DEF ProcTypes, DiskTypes
<1>42. ASSUME NEW p \in Pids, BootFail(p) PROVE TypeOK'
  <2> USE <1>42 DEF BootFail, memVars
  <2>1. ProcTypes'  BY DieType DEF ProcTypes, ProcStates
  <2>2. ChanTypes'  BY DieType DEF ChanTypes, ToSMsgs, ToWMsgs
  <2>3. left' \in [Events -> Nat]  BY SpendType DEF Events
  <2> QED  BY <2>1, <2>2, <2>3 DEF DiskTypes, MemTypes, CrashTypes, GoroutineTypes
<1>43. ASSUME NEW p \in Pids, Crash(p) PROVE TypeOK'
  <2> USE <1>43 DEF Crash, memVars
  <2>1. ProcTypes'  BY DieType DEF ProcTypes, ProcStates
  <2>2. ChanTypes'  BY DieType DEF ChanTypes, ToSMsgs, ToWMsgs
  <2>3. left' \in [Events -> Nat]  BY SpendType DEF Events
  <2> QED  BY <2>1, <2>2, <2>3 DEF DiskTypes, MemTypes, CrashTypes, GoroutineTypes
<1>44. ASSUME NEW p \in Pids, Cut(p) PROVE TypeOK'
  <2> USE <1>44 DEF Cut, procVars, memVars
  <2>1. ChanTypes'  BY QueueType DEF ChanTypes, ToSMsgs, ToWMsgs
  <2>2. left' \in [Events -> Nat]  BY SpendType DEF Events
  <2> QED  BY <2>1, <2>2 DEF ProcTypes, DiskTypes, MemTypes, CrashTypes, GoroutineTypes
<1>45. ASSUME NEW p \in Pids, Install(p) PROVE TypeOK'
  <2> USE <1>45 DEF Install, procVars, memVars
  <2>1. ChanTypes'  BY QueueType DEF ChanTypes, ToSMsgs, ToWMsgs
  <2>2. bin' \in Versions  BY DEF Versions
  <2>3. backups' \in Seq(Versions)
    <3> USE DEF BackedUp
    <3>1. <<bin>> \o backups \in Seq(Versions)
      <4> HIDE <1>45
      <4> QED  BY QueueType DEF DiskTypes
    <3> QED  BY <3>1 DEF DiskTypes
  <2>4. left' \in [Events -> Nat]  BY SpendType DEF Events
  <2> QED  BY <2>1, <2>2, <2>3, <2>4 DEF DiskTypes, ProcTypes, MemTypes, CrashTypes, GoroutineTypes
<1>46. ASSUME NEW p \in Pids, Register(p) PROVE TypeOK'
  <2> USE <1>46 DEF Register, procVars
  <2>1. MemTypes'  BY DEF MemTypes, RegStates, NewActive
  <2>2. ChanTypes'  BY DEF ChanTypes, ToSMsgs, ToWMsgs
  <2>3. GoroutineTypes'  BY DEF GoroutineTypes, MonStates, UpgStates, RunStates
  <2> QED  BY <2>1, <2>2, <2>3 DEF ProcTypes, DiskTypes, CrashTypes
<1>47. ASSUME UpgRollback PROVE TypeOK'
  <2> USE <1>47 DEF UpgRollback, procVars, chanVars
  <2>1. GoroutineTypes'  BY DEF GoroutineTypes, MonStates, UpgStates, RunStates, NoUpgrade
  <2>2. DiskTypes' /\ left' \in [Events -> Nat]  BY RollbackType DEF DiskTypes
  <2> QED  BY <2>1, <2>2 DEF ProcTypes, ChanTypes, MemTypes, CrashTypes
<1>48. ASSUME NEW p \in Pids, CrashRollback(p) PROVE TypeOK'
  <2> USE <1>48 DEF CrashRollback, procVars, chanVars
  <2>1. GoroutineTypes'  BY DEF GoroutineTypes, MonStates, UpgStates, RunStates
  <2>2. DiskTypes' /\ left' \in [Events -> Nat]  BY RollbackType DEF DiskTypes
  <2>3. CrashTypes'  BY DEF CrashTypes
  <2> QED  BY <2>1, <2>2, <2>3 DEF ProcTypes, ChanTypes, MemTypes
<1>49. ASSUME NEW p \in Pids, RespawnCheck(p) PROVE TypeOK'
  <2> USE <1>49 DEF RespawnCheck, procVars, chanVars
  <2>1. GoroutineTypes'  BY DEF GoroutineTypes, MonStates, UpgStates, RunStates
  <2> QED  BY <2>1 DEF ProcTypes, ChanTypes, DiskTypes, MemTypes, CrashTypes
<1>50. ASSUME NEW p \in Pids, RejectHello(p) PROVE TypeOK'
  <2> USE <1>50 DEF RejectHello, procVars, memVars
  <2>1. ChanTypes'  BY QueueType DEF ChanTypes, ToSMsgs, ToWMsgs
  <2> QED  BY <2>1 DEF ProcTypes, DiskTypes, MemTypes, CrashTypes, GoroutineTypes
<1>51. CASE UNCHANGED vars
  BY <1>51 DEF vars, procVars, chanVars, memVars, ProcTypes, ChanTypes, DiskTypes, MemTypes, CrashTypes,
         GoroutineTypes
<1> QED  BY <1>1, <1>2, <1>3, <1>4, <1>5, <1>6, <1>7, <1>8, <1>9, <1>10, <1>11, <1>12, <1>13,
       <1>14, <1>15, <1>16, <1>17, <1>18, <1>19, <1>20, <1>21, <1>22, <1>23, <1>24, <1>25, <1>26,
       <1>27, <1>28, <1>29, <1>30, <1>31, <1>32, <1>33, <1>34, <1>35, <1>36, <1>37, <1>38, <1>39,
       <1>40, <1>41, <1>42, <1>43, <1>44, <1>45, <1>46, <1>47, <1>48, <1>49, <1>50, <1>51
       DEF Next, RunStep, UpgStep, ConnStep, MonStep, WorkStep, EnvStep

(* Spec keeps its variables in their types (the type invariant TypeOK of the *)
(* Supervisor, its Workers and the control channel).                         *)
THEOREM TypeCorrect == Spec => []TypeOK
  BY InitTypeOK, TypeStep, PTL DEF Spec

-----------------------------------------------------------------------------
(* DrainHasReplacement is not inductive: that a Worker which is drained has  *)
(* a replacement rests on where the READY came from (the Worker, its queue,  *)
(* readyCh), and on the replacement being another process than the one       *)
(* drained, that is on spawn starting a process that was not there before.   *)

ReadySaid == /\ ready \subseteq said
             /\ \A p \in Pids : Holds(toS[p], "READY") => p \in said
Started(p) == proc[p] # "none"
SaidStarted == /\ \A p \in said : Started(p)
               /\ activePID # None => Started(activePID)
NewStarted == \A p \in Pids : mon[p] = "new" => Started(p)
UpgApart == /\ upg.pc = "spawn" /\ upg.old # None => Started(upg.old)
            /\ upg.pc = "ready" => upg.new # upg.old
RunApart == /\ \A p \in run.cands : Started(p)
            /\ run.pc = "ready" => run.new \notin run.cands
            /\ run.pc = "wait2" => run.new \in said /\ run.new \notin run.cands

DrainInv == /\ TypeOK /\ ReadySaid /\ SaidStarted /\ NewStarted /\ UpgApart /\ RunApart
            /\ DrainHasReplacement

(* What a queue holds after a message is appended or taken. *)
LEMMA HoldsQueue ==
  ASSUME NEW S, NEW q \in Seq(S), NEW x
  PROVE  /\ ~Holds(<<>>, x)
         /\ \A m \in S : Holds(Append(q, m), x) => Holds(q, x) \/ m = x
         /\ q # <<>> => (Holds(Tail(q), x) => Holds(q, x)) /\ (Head(q) = x => Holds(q, x))
<1>1. ~Holds(<<>>, x)  BY DEF Holds
<1>2. ASSUME NEW m \in S, Holds(Append(q, m), x) PROVE Holds(q, x) \/ m = x
  <2>1. PICK i \in 1 .. Len(Append(q, m)) : Append(q, m)[i] = x  BY <1>2 DEF Holds
  <2>2. i \in 1 .. Len(q) => q[i] = x  BY <2>1
  <2>3. i \notin 1 .. Len(q) => m = x  BY <2>1
  <2> QED  BY <2>2, <2>3 DEF Holds
<1>3. ASSUME q # <<>>, Holds(Tail(q), x) PROVE Holds(q, x)
  <2>1. PICK i \in 1 .. Len(Tail(q)) : Tail(q)[i] = x  BY <1>3 DEF Holds
  <2>2. i + 1 \in 1 .. Len(q) /\ q[i + 1] = x  BY <1>3, <2>1
  <2> QED  BY <2>2 DEF Holds
<1>4. ASSUME q # <<>>, Head(q) = x PROVE Holds(q, x)
  <2>1. 1 \in 1 .. Len(q) /\ q[1] = x  BY <1>4
  <2> QED  BY <2>1 DEF Holds
<1> QED  BY <1>1, <1>2, <1>3, <1>4

(* A message that was sent is held. *)
LEMMA HoldsSent ==
  ASSUME NEW S, NEW q \in Seq(S), NEW m \in S
  PROVE  Holds(Append(q, m), m)
<1>1. Len(q) + 1 \in 1 .. Len(Append(q, m)) /\ Append(q, m)[Len(q) + 1] = m  OBVIOUS
<1> QED  BY <1>1 DEF Holds

(* A send puts its message into the queues of its addressees only. *)
LEMMA SentHolds ==
  ASSUME TypeOK, NEW P, NEW m \in ToWMsgs, NEW x, NEW p \in Pids, Holds(Sent(P, m)[p], x)
  PROVE  Holds(toW[p], x) \/ (m = x /\ p \in P)
<1>1. toW[p] \in Seq(ToWMsgs)  BY DEF TypeOK, ChanTypes
<1>2. Sent(P, m)[p] = toW[p] \/ (p \in P /\ Sent(P, m)[p] = Append(toW[p], m))  BY DEF Sent
<1>3. CASE Sent(P, m)[p] = toW[p]  BY <1>3
<1>4. CASE p \in P /\ Sent(P, m)[p] = Append(toW[p], m)
  <2>1. Holds(Append(toW[p], m), x)  BY <1>4
  <2> QED  BY <1>1, <1>4, <2>1, HoldsQueue
<1> QED  BY <1>2, <1>3, <1>4

(* spawn starts a process that was not there. *)
LEMMA SpawnFresh ==
  ASSUME TypeOK, NEW p \in Pids, NEW t, NEW m, Spawn(p, t, m)
  PROVE  /\ ~Started(p) /\ Started(p)'
         /\ \A q \in Pids \ {p} : proc'[q] = proc[q]
         /\ m \in [Pids -> MonStates] => \A q \in Pids \ {p} : mon'[q] = m[q]
         /\ UNCHANGED <<activePID, reg, toS, toW>>
<1>1. p \in Unused  BY DEF Spawn, Fresh
<1> QED  BY <1>1 DEF Spawn, Unused, Started, TypeOK, ProcTypes, MemTypes, chanVars

(* No process disappears from the table, and no READY is forgotten. *)
LEMMA Monotone ==
  ASSUME TypeOK, [Next]_vars
  PROVE  said \subseteq said' /\ \A p \in Pids : Started(p) => Started(p)'
<1> DEFINE Grows == said \subseteq said' /\ \A q \in Pids : Started(q) => Started(q)'
<1> USE DEF Started, TypeOK, ProcTypes
<1>1. ASSUME FirstSpawn PROVE Grows
  BY SpawnFresh, <1>1 DEF FirstSpawn, procVars
<1>2. ASSUME AdoptSpawn PROVE Grows
  BY SpawnFresh, <1>2 DEF AdoptSpawn, procVars
<1>3. ASSUME UpgSpawn PROVE Grows
  BY SpawnFresh, <1>3 DEF UpgSpawn, procVars
<1>4. ASSUME NEW p \in Pids, Respawn(p) PROVE Grows
  BY SpawnFresh, <1>4 DEF Respawn, procVars
<1>5. ASSUME AdoptReadyTimeout PROVE Grows
  BY <1>5 DEF AdoptReadyTimeout, Die, procVars
<1>6. ASSUME UpgTimeout PROVE Grows
  BY <1>6 DEF UpgTimeout, Die, procVars
<1>7. ASSUME NEW p \in Pids, ProbeFail(p) PROVE Grows
  BY <1>7 DEF ProbeFail, Die
<1>8. ASSUME NEW p \in Pids, BootFail(p) PROVE Grows
  BY <1>8 DEF BootFail, Die
<1>9. ASSUME NEW p \in Pids, Crash(p) PROVE Grows
  BY <1>9 DEF Crash, Die
<1>10. ASSUME NEW p \in Pids, Exit(p) PROVE Grows
  BY <1>10 DEF Exit, Die
<1>11. ASSUME NEW p \in Pids, Probe(p) PROVE Grows
  BY <1>11 DEF Probe
<1>12. ASSUME NEW p \in Pids, Boot(p) PROVE Grows
  BY <1>12 DEF Boot
<1>13. ASSUME NEW p \in Pids, OnDrain(p) PROVE Grows
  BY <1>13 DEF OnDrain
<1>14. ASSUME NEW p \in Pids, SendReady(p) PROVE Grows
  BY <1>14 DEF SendReady, procVars
<1>15. CASE UNCHANGED <<proc, said>>  BY <1>15
<1> QED  BY <1>1, <1>2, <1>3, <1>4, <1>5, <1>6, <1>7, <1>8, <1>9, <1>10, <1>11, <1>12, <1>13,
       <1>14, <1>15, ZenonT(30) DEF Next, RunStep, UpgStep, ConnStep, MonStep, WorkStep, EnvStep, vars,
       procVars, SupStart, AdoptClaim, AdoptWaited, AdoptReady, AdoptDrain, AdoptGone, AdoptActivate, UpgSwitch,
       UpgOldGone, UpgActivate, HandoffSkip, HandoffExec, HandleHello, OnReady, OnRequestUpgrade,
       ConnLost, Reap, ReapAdopted, PollStops, HandleCrash, Dial, OnActivate, OnTriggerUpgrade,
       CrashExpires, ProbationExpires, Shutdown, ShutdownDone, ServiceStart, SupCrash, Cut, Install,
       Register, RejectHello, UpgRollback, CrashRollback, RespawnCheck

(* A process that is still to be registered has been started. *)
LEMMA NewStep ==
  ASSUME TypeOK, NewStarted, [Next]_vars
  PROVE  NewStarted'
<1> DEFINE Grows == \A q \in Pids : Started(q) => Started(q)'
           Old == \A q \in Pids : mon'[q] = "new" => mon[q] = "new"
           Spawns(m) == \E p \in Pids, t \in BOOLEAN : Spawn(p, t, m)
<1>0. Grows  BY Monotone
<1>1. ASSUME NEW m \in [Pids -> MonStates], \A q \in Pids : m[q] = "new" => mon[q] = "new", Spawns(m)
      PROVE  NewStarted'
  BY <1>0, <1>1, SpawnFresh DEF NewStarted
<1>2. ASSUME Old PROVE NewStarted'
  BY <1>0, <1>2 DEF NewStarted
<1> HIDE DEF Grows
<1> USE DEF TypeOK, GoroutineTypes
<1>3. ASSUME FirstSpawn \/ AdoptSpawn \/ UpgSpawn PROVE NewStarted'
  <2>1. CASE Spawns(mon)  BY <1>1, <2>1
  <2>2. CASE UNCHANGED mon  BY <1>2, <2>2
  <2> QED  BY <1>3, <2>1, <2>2 DEF FirstSpawn, AdoptSpawn, UpgSpawn
<1>4. ASSUME NEW p \in Pids, Respawn(p) PROVE NewStarted'
  <2> DEFINE m == [mon EXCEPT ![p] = "none"]
  <2>1. m \in [Pids -> MonStates] /\ \A q \in Pids : m[q] = "new" => mon[q] = "new"  BY DEF MonStates
  <2>2. Spawns(m) \/ mon' = m  BY <1>4 DEF Respawn
  <2>3. CASE mon' = m  BY <2>1, <2>3, <1>2
  <2> HIDE DEF m
  <2> QED  BY <1>1, <2>1, <2>2, <2>3
<1>5. ASSUME NEW p \in Pids,
             \/ Register(p) \/ Reap(p) \/ ReapAdopted(p) \/ PollStops(p) \/ HandleCrash(p)
             \/ CrashRollback(p) \/ RespawnCheck(p) \/ AdoptClaim(p)
      PROVE  NewStarted'
  <2>1. Old
    BY <1>5 DEF Register, Reap, ReapAdopted, PollStops, HandleCrash, CrashRollback, RespawnCheck, AdoptClaim
  <2> QED  BY <1>2, <2>1
<1>6. ASSUME HandoffExec \/ ShutdownDone \/ SupCrash PROVE NewStarted'
  <2>1. Old  BY <1>6 DEF HandoffExec, ShutdownDone, SupCrash, LoseSupervisor
  <2> QED  BY <1>2, <2>1
<1>7. CASE UNCHANGED mon  BY <1>2, <1>7
<1> HIDE DEF TypeOK, GoroutineTypes
<1> QED  BY <1>3, <1>4, <1>5, <1>6, <1>7 DEF Next, RunStep, UpgStep, ConnStep, MonStep, WorkStep, EnvStep,
       vars, memVars, SupStart, AdoptWaited, AdoptReady, AdoptReadyTimeout, AdoptDrain, AdoptGone,
       AdoptActivate, UpgTimeout, UpgRollback, UpgSwitch, UpgOldGone, UpgActivate, HandoffSkip,
       HandleHello, RejectHello, OnReady, OnRequestUpgrade, ConnLost, Probe, ProbeFail, Boot, Dial,
       SendReady, OnDrain, OnActivate, Exit, OnTriggerUpgrade, CrashExpires, ProbationExpires, Shutdown,
       ServiceStart, BootFail, Crash, Cut, Install

(* What keeps each part of the inductive invariant: most actions keep most *)
(* parts for these reasons.                                                *)
Steady == TypeOK' /\ said \subseteq said' /\ \A p \in Pids : Started(p) => Started(p)'
NoDrain == /\ \A p \in Pids : reg'[p] = "draining" => reg[p] = "draining"
           /\ \A p \in Pids : Holds(toW'[p], "DRAIN") => Holds(toW[p], "DRAIN")

(* A step that touches nothing DrainInv is about keeps it. *)
LEMMA Frame ==
  ASSUME DrainInv, Steady
  PROVE  /\ ready' \subseteq ready /\ toS' = toS => ReadySaid'
         /\ said' = said /\ activePID' \in {activePID, None} => SaidStarted'
         /\ upg' \in {upg, NoUpgrade} => UpgApart'
         /\ run' \in {run, NoRun} => RunApart'
         /\ NoDrain => DrainHasReplacement'
<1> USE DEF DrainInv, Steady, TypeOK
<1>1. ready' \subseteq ready /\ toS' = toS => ReadySaid'  BY DEF ReadySaid
<1>2. said' = said /\ activePID' \in {activePID, None} => SaidStarted'  BY DEF SaidStarted, MemTypes
<1>3. upg' \in {upg, NoUpgrade} => UpgApart'  BY DEF UpgApart, NoUpgrade, GoroutineTypes
<1>4. run' \in {run, NoRun} => RunApart'  BY DEF RunApart, NoRun, GoroutineTypes
<1>5. NoDrain => DrainHasReplacement'  BY DEF DrainHasReplacement, NoDrain
<1> QED  BY <1>1, <1>2, <1>3, <1>4, <1>5

(* spawn: nobody is drained. *)
LEMMA SpawnKeeps ==
  ASSUME DrainInv, Steady, UNCHANGED said, NEW p \in Pids, NEW t, NEW m, Spawn(p, t, m)
  PROVE  SaidStarted' /\ NoDrain
<1>1. TypeOK  BY DEF DrainInv
<1>2. SaidStarted'  BY <1>1, SpawnFresh DEF DrainInv, Steady, SaidStarted, TypeOK, MemTypes
<1>3. NoDrain  BY <1>1, SpawnFresh DEF NoDrain
<1> QED  BY <1>2, <1>3

(* A message other than DRAIN is sent, or a queue is emptied. *)
LEMMA SentKeeps ==
  ASSUME TypeOK, NEW P, NEW m \in ToWMsgs \ {"DRAIN"}, toW' = Sent(P, m)
  PROVE  \A p \in Pids : Holds(toW'[p], "DRAIN") => Holds(toW[p], "DRAIN")
<1> SUFFICES ASSUME NEW p \in Pids, Holds(Sent(P, m)[p], "DRAIN") PROVE Holds(toW[p], "DRAIN")
  OBVIOUS
<1> QED  BY SentHolds

(* The end of a process keeps it: no queue gains a message. *)
LEMMA DieKeeps ==
  ASSUME TypeOK, NEW p, NEW how, Die(p, how)
  PROVE  \A q \in Pids : Holds(toW'[q], "DRAIN") => Holds(toW[q], "DRAIN")
<1> SUFFICES ASSUME NEW q \in Pids, Holds(toW'[q], "DRAIN") PROVE Holds(toW[q], "DRAIN")
  OBVIOUS
<1>1. toW'[q] = toW[q] \/ toW'[q] = <<>>  BY DEF Die, TypeOK, ChanTypes
<1>2. CASE toW'[q] = <<>>  BY <1>2 DEF Holds
<1>3. CASE toW'[q] = toW[q]  BY <1>3
<1> QED  BY <1>1, <1>2, <1>3

(* Every step keeps the inductive invariant: under each action the parts it *)
(* could disturb; Frame does the others.                                    *)
LEMMA DrainStep == DrainInv /\ [Next]_vars => DrainInv'
<1> SUFFICES ASSUME DrainInv, [Next]_vars PROVE DrainInv'  OBVIOUS
<1>a. TypeOK  BY DEF DrainInv
<1>b. Steady  BY <1>a, TypeStep, Monotone DEF Steady
<1>c. NewStarted'  BY <1>a, NewStep DEF DrainInv
<1> DEFINE Goal == ReadySaid' /\ SaidStarted' /\ UpgApart' /\ RunApart' /\ DrainHasReplacement'
<1> USE <1>a, <1>b
<1>1. ASSUME SupStart PROVE Goal
  <2> USE <1>1 DEF SupStart, procVars, chanVars
  <2>1. RunApart'  BY DEF RunApart, Orphans, Alive, Started, Steady, TypeOK, DiskTypes
  <2>2. NoDrain  BY DEF NoDrain, TypeOK, MemTypes
  <2> QED  BY <2>1, <2>2, Frame
<1>2. ASSUME FirstSpawn PROVE Goal
  <2> USE <1>2 DEF FirstSpawn, procVars, chanVars
  <2>1. CASE \E p \in Pids : Spawn(p, FALSE, mon)
    BY <2>1, SpawnKeeps, Frame DEF Spawn
  <2>2. CASE UNCHANGED <<procVars, chanVars, reg, mon, activePID>>
    BY <2>2, Frame DEF NoDrain
  <2> QED  BY <2>1, <2>2
<1>3. ASSUME NEW p \in Pids, AdoptClaim(p) PROVE Goal
  <2> USE <1>3 DEF AdoptClaim, procVars
  <2>1. SaidStarted'  BY DEF SaidStarted, RunApart, DrainInv, Claimable, Steady, TypeOK
  <2>2. \A q \in Pids : Holds(toW'[q], "DRAIN") => Holds(toW[q], "DRAIN")  BY SentKeeps DEF ToWMsgs
  <2>3. NoDrain  BY <2>2 DEF NoDrain, TypeOK, MemTypes
  <2> QED  BY <2>1, <2>2, <2>3, Frame
<1>4. ASSUME AdoptWaited PROVE Goal
  <2> USE <1>4 DEF AdoptWaited, procVars, chanVars
  <2>1. RunApart'  BY DEF RunApart, DrainInv, Steady, TypeOK, GoroutineTypes
  <2>2. NoDrain  BY DEF NoDrain
  <2> QED  BY <2>1, <2>2, Frame
<1>5. ASSUME AdoptSpawn PROVE Goal
  <2> USE <1>5 DEF AdoptSpawn, procVars, chanVars
  <2>1. ASSUME NEW p \in Pids, Spawn(p, TRUE, mon), run' = [run EXCEPT !.pc = "ready", !.new = p]
        PROVE  Goal
    <3>1. RunApart'  BY <2>1, SpawnFresh DEF RunApart, DrainInv, Steady, TypeOK, GoroutineTypes
    <3> QED  BY <2>1, <3>1, SpawnKeeps, Frame DEF Spawn
  <2>2. ASSUME UNCHANGED <<procVars, chanVars, mon, activePID>>,
               reg' = [p \in Pids |-> IF p \in run.cands THEN "none" ELSE reg[p]],
               run' = [NoRun EXCEPT !.pc = "first"]
        PROVE  Goal
    <3>1. RunApart'  BY <2>2 DEF RunApart, NoRun
    <3>2. NoDrain  BY <2>2 DEF NoDrain
    <3> QED  BY <2>2, <3>1, <3>2, Frame
  <2> QED  BY <2>1, <2>2
<1>6. ASSUME AdoptReady PROVE Goal
  <2> USE <1>6 DEF AdoptReady, procVars, chanVars
  <2>1. run.new \in said  BY DEF IsReady, ReadySaid, DrainInv
  <2>2. SaidStarted'  BY <2>1 DEF SaidStarted, DrainInv, Steady, TypeOK
  <2>3. RunApart'  BY <2>1 DEF RunApart, DrainInv, Steady, TypeOK, GoroutineTypes
  <2>4. NoDrain  BY DEF NoDrain, TypeOK, MemTypes
  <2> QED  BY <2>1, <2>2, <2>3, <2>4, Frame
<1>7. ASSUME AdoptReadyTimeout PROVE Goal
  <2> USE <1>7 DEF AdoptReadyTimeout, procVars
  <2>1. \A q \in Pids : Holds(toW'[q], "DRAIN") => Holds(toW[q], "DRAIN")  BY DieKeeps
  <2>2. NoDrain  BY <2>1 DEF NoDrain, TypeOK, MemTypes
  <2> QED  BY <2>1, <2>2, Frame
<1>8. ASSUME AdoptDrain PROVE Goal
  <2> USE <1>8 DEF AdoptDrain, procVars
  <2>1. RunApart'  BY DEF RunApart, DrainInv, Steady, TypeOK, GoroutineTypes
  <2>2. DrainHasReplacement'
    <3>1. run.new \in said' /\ run.new \notin run.cands  BY DEF RunApart, DrainInv, Steady
    <3> DEFINE confirmed == {q \in run.cands : reg[q] # "none" /\ link[q] = "up"}
    <3>2. SUFFICES ASSUME NEW p \in Pids, reg'[p] = "draining" \/ Holds(toW'[p], "DRAIN")
                   PROVE  \E q \in said' : q # p
      BY DEF DrainHasReplacement
    <3>3. CASE p \in run.cands  BY <3>1, <3>3
    <3>4. CASE p \notin run.cands
      <4>1. reg'[p] = reg[p]  BY <3>4
      <4>2. Holds(toW'[p], "DRAIN") => Holds(toW[p], "DRAIN")
        <5>1. toW' = Sent(confirmed, "DRAIN")  OBVIOUS
        <5>2. p \notin confirmed /\ "DRAIN" \in ToWMsgs  BY <3>4 DEF ToWMsgs
        <5> HIDE DEF confirmed
        <5> QED  BY <5>1, <5>2, SentHolds
      <4> QED  BY <3>2, <4>1, <4>2 DEF DrainInv, DrainHasReplacement, Steady
    <3> QED  BY <3>3, <3>4
  <2> QED  BY <2>1, <2>2, Frame
<1>9. ASSUME AdoptGone PROVE Goal
  <2> USE <1>9 DEF AdoptGone, procVars, chanVars
  <2>1. RunApart'  BY DEF RunApart, DrainInv, Steady, TypeOK, GoroutineTypes
  <2>2. NoDrain  BY DEF NoDrain, TypeOK, MemTypes
  <2> QED  BY <2>1, <2>2, Frame
<1>10. ASSUME AdoptActivate PROVE Goal
  <2> USE <1>10 DEF AdoptActivate, procVars
  <2>1. \A q \in Pids : Holds(toW'[q], "DRAIN") => Holds(toW[q], "DRAIN")  BY SentKeeps DEF ToWMsgs
  <2>2. NoDrain  BY <2>1 DEF NoDrain
  <2> QED  BY <2>1, <2>2, Frame
<1>11. ASSUME UpgSpawn PROVE Goal
  <2> USE <1>11 DEF UpgSpawn, procVars, chanVars
  <2>1. ASSUME NEW p \in Pids, Spawn(p, TRUE, mon), upg' = [upg EXCEPT !.pc = "ready", !.new = p]
        PROVE  Goal
    <3>1. upg'.pc = "ready" /\ upg'.new = p /\ upg'.old = upg.old  BY <2>1 DEF TypeOK, GoroutineTypes
    <3>2. p # upg.old
      <4>1. ~Started(p)  BY <2>1, SpawnFresh
      <4>2. p # None  BY NoneNotPid
      <4> QED  BY <4>1, <4>2 DEF UpgApart, DrainInv
    <3>3. UpgApart'  BY <3>1, <3>2 DEF UpgApart
    <3> QED  BY <2>1, <3>3, SpawnKeeps, Frame DEF Spawn
  <2>2. ASSUME UNCHANGED <<procVars, chanVars, reg, mon, activePID>>, upg' = NoUpgrade PROVE Goal
    BY <2>2, Frame DEF NoDrain
  <2> QED  BY <2>1, <2>2
<1>12. ASSUME UpgTimeout PROVE Goal
  <2> USE <1>12 DEF UpgTimeout, procVars
  <2>1. \A q \in Pids : Holds(toW'[q], "DRAIN") => Holds(toW[q], "DRAIN")  BY DieKeeps
  <2>2. NoDrain  BY <2>1 DEF NoDrain
  <2>3. UpgApart'  BY DEF UpgApart, TypeOK, GoroutineTypes
  <2> QED  BY <2>1, <2>2, <2>3, Frame
<1>13. ASSUME UpgSwitch PROVE Goal
  <2> USE <1>13 DEF UpgSwitch, procVars
  <2>1. upg.new \in said  BY DEF IsReady, ReadySaid, DrainInv
  <2>2. SaidStarted'  BY <2>1 DEF SaidStarted, DrainInv, Steady, TypeOK
  <2>3. UpgApart'  BY DEF UpgApart, TypeOK, GoroutineTypes
  <2>4. DrainHasReplacement'
    <3>1. upg.new # upg.old  BY DEF UpgApart, DrainInv
    <3> DEFINE old == {q \in Pids : q = upg.old /\ reg[q] # "none"}
    <3>2. SUFFICES ASSUME NEW p \in Pids, reg'[p] = "draining" \/ Holds(toW'[p], "DRAIN")
                   PROVE  \E q \in said' : q # p
      BY DEF DrainHasReplacement
    <3>3. CASE p = upg.old  BY <2>1, <3>1, <3>3 DEF Steady
    <3>4. CASE p # upg.old
      <4>1. reg'[p] = "draining" => reg[p] = "draining"  BY <3>4
      <4>2. Holds(toW'[p], "DRAIN") => Holds(toW[p], "DRAIN")
        <5>1. toW' = Sent(old, "DRAIN")  OBVIOUS
        <5>2. p \notin old /\ "DRAIN" \in ToWMsgs  BY <3>4 DEF ToWMsgs
        <5> HIDE DEF old
        <5> QED  BY <5>1, <5>2, SentHolds
      <4> QED  BY <3>2, <4>1, <4>2 DEF DrainInv, DrainHasReplacement, Steady
    <3> QED  BY <3>3, <3>4
  <2> QED  BY <2>1, <2>2, <2>3, <2>4, Frame
<1>14. ASSUME UpgOldGone PROVE Goal
  <2> USE <1>14 DEF UpgOldGone, procVars, chanVars
  <2>1. UpgApart'  BY DEF UpgApart, TypeOK, GoroutineTypes
  <2>2. NoDrain  BY DEF NoDrain
  <2> QED  BY <2>1, <2>2, Frame
<1>15. ASSUME UpgActivate PROVE Goal
  <2> USE <1>15 DEF UpgActivate, procVars
  <2>1. \A q \in Pids : Holds(toW'[q], "DRAIN") => Holds(toW[q], "DRAIN")  BY SentKeeps DEF ToWMsgs
  <2>2. NoDrain  BY <2>1 DEF NoDrain
  <2>3. UpgApart'  BY DEF UpgApart, TypeOK, GoroutineTypes
  <2> QED  BY <2>1, <2>2, <2>3, Frame
<1>16. ASSUME HandoffSkip PROVE Goal
  <2> USE <1>16 DEF HandoffSkip, procVars, chanVars
  <2>1. NoDrain  BY DEF NoDrain
  <2> QED  BY <2>1, Frame
<1>17. ASSUME HandoffExec PROVE Goal
  <2> USE <1>17 DEF HandoffExec, procVars
  <2>1. NoDrain  BY DEF NoDrain, LoseSupervisor
  <2>2. ReadySaid'  BY DEF ReadySaid, LoseSupervisor, Holds
  <2>3. SaidStarted' /\ UpgApart' /\ RunApart'  BY Frame DEF LoseSupervisor
  <2> QED  BY <2>1, <2>2, <2>3, Frame
<1>18. ASSUME NEW p \in Pids, HandleHello(p) PROVE Goal
  <2> USE <1>18 DEF HandleHello, procVars
  <2>1. NoDrain  BY DEF NoDrain, TypeOK, MemTypes
  <2> QED  BY <2>1, Frame
<1>19. ASSUME NEW p \in Pids, OnReady(p) PROVE Goal
  <2> USE <1>19 DEF OnReady, procVars
  <2>1. ReadySaid'
    <3>1. toS[p] \in Seq(ToSMsgs)  BY DEF TypeOK, ChanTypes
    <3>2. Holds(toS[p], "READY") /\ (Holds(Tail(toS[p]), "READY") => Holds(toS[p], "READY"))
      BY <3>1, HoldsQueue
    <3> QED  BY <3>2 DEF ReadySaid, DrainInv, TypeOK, ChanTypes
  <2>2. NoDrain  BY DEF NoDrain, TypeOK, MemTypes
  <2> QED  BY <2>1, <2>2, Frame
<1>20. ASSUME NEW p \in Pids, OnRequestUpgrade(p) PROVE Goal
  <2> USE <1>20 DEF OnRequestUpgrade, procVars
  <2>1. ReadySaid'
    <3>1. toS[p] \in Seq(ToSMsgs)  BY DEF TypeOK, ChanTypes
    <3>2. Holds(Tail(toS[p]), "READY") => Holds(toS[p], "READY")  BY <3>1, HoldsQueue
    <3> QED  BY <3>2 DEF ReadySaid, DrainInv, TypeOK, ChanTypes
  <2>2. UpgApart'
    BY DEF BeginUpgrade, UpgApart, SaidStarted, DrainInv, Steady, TypeOK, MemTypes, GoroutineTypes
  <2>3. NoDrain  BY DEF NoDrain
  <2> QED  BY <2>1, <2>2, <2>3, Frame
<1>21. ASSUME NEW p \in Pids, ConnLost(p) PROVE Goal
  <2> USE <1>21 DEF ConnLost, procVars, memVars
  <2>1. NoDrain  BY DEF NoDrain
  <2> QED  BY <2>1, Frame
<1>22. ASSUME NEW p \in Pids, Reap(p) PROVE Goal
  <2> USE <1>22 DEF Reap, procVars, chanVars
  <2>1. NoDrain  BY DEF NoDrain, TypeOK, MemTypes
  <2> QED  BY <2>1, Frame
<1>23. ASSUME NEW p \in Pids, ReapAdopted(p) PROVE Goal
  <2> USE <1>23 DEF ReapAdopted, procVars, chanVars
  <2>1. NoDrain  BY DEF NoDrain, TypeOK, MemTypes
  <2> QED  BY <2>1, Frame
<1>24. ASSUME NEW p \in Pids, PollStops(p) PROVE Goal
  <2> USE <1>24 DEF PollStops, procVars, chanVars
  <2>1. NoDrain  BY DEF NoDrain
  <2> QED  BY <2>1, Frame
<1>25. ASSUME NEW p \in Pids, HandleCrash(p) PROVE Goal
  <2> USE <1>25 DEF HandleCrash, procVars, chanVars
  <2>1. NoDrain  BY DEF NoDrain
  <2> QED  BY <2>1, Frame
<1>26. ASSUME NEW p \in Pids, Respawn(p) PROVE Goal
  <2> USE <1>26 DEF Respawn, procVars, chanVars
  <2>1. CASE \E q \in Pids : Spawn(q, FALSE, [mon EXCEPT ![p] = "none"])
    BY <2>1, SpawnKeeps, Frame DEF Spawn
  <2>2. CASE UNCHANGED <<procVars, chanVars, reg, activePID>>
    BY <2>2, Frame DEF NoDrain
  <2> QED  BY <2>1, <2>2
<1>27. ASSUME NEW p \in Pids, Probe(p) PROVE Goal
  <2> USE <1>27 DEF Probe, chanVars, memVars
  <2>1. NoDrain  BY DEF NoDrain
  <2> QED  BY <2>1, Frame
<1>28. ASSUME NEW p \in Pids, ProbeFail(p) PROVE Goal
  <2> USE <1>28 DEF ProbeFail, memVars
  <2>1. NoDrain  BY DieKeeps DEF NoDrain
  <2> QED  BY <2>1, Frame
<1>29. ASSUME NEW p \in Pids, Boot(p) PROVE Goal
  <2> USE <1>29 DEF Boot, chanVars, memVars
  <2>1. NoDrain  BY DEF NoDrain
  <2> QED  BY <2>1, Frame
<1>30. ASSUME NEW p \in Pids, Dial(p) PROVE Goal
  <2> USE <1>30 DEF Dial, procVars, memVars
  <2>1. NoDrain  BY DEF NoDrain
  <2> QED  BY <2>1, Frame
<1>31. ASSUME NEW p \in Pids, SendReady(p) PROVE Goal
  <2> USE <1>31 DEF SendReady, procVars, memVars
  <2>1. ReadySaid'
    <3>1. ASSUME NEW q \in Pids, q # p, Holds(toS'[q], "READY") PROVE q \in said'
      BY <3>1 DEF ReadySaid, DrainInv, TypeOK, ChanTypes
    <3> QED  BY <3>1 DEF ReadySaid, DrainInv
  <2>2. SaidStarted'
    <3>1. Started(p)  BY DEF Started
    <3> QED  BY <3>1 DEF SaidStarted, DrainInv, Steady, TypeOK, MemTypes
  <2>3. NoDrain  BY DEF NoDrain
  <2> QED  BY <2>1, <2>2, <2>3, Frame
<1>32. ASSUME NEW p \in Pids, OnDrain(p) PROVE Goal
  <2> USE <1>32 DEF OnDrain, memVars
  <2>1. NoDrain
    <3>1. \A q \in Pids : toW'[q] = toW[q] \/ toW'[q] = <<>>  BY DEF TypeOK, ChanTypes
    <3> QED  BY <3>1 DEF NoDrain, Holds
  <2> QED  BY <2>1, Frame
<1>33. ASSUME NEW p \in Pids, OnActivate(p) PROVE Goal
  <2> USE <1>33 DEF OnActivate, memVars
  <2>1. NoDrain
    <3>1. toW[p] \in Seq(ToWMsgs)  BY DEF TypeOK, ChanTypes
    <3>2. Holds(Tail(toW[p]), "DRAIN") => Holds(toW[p], "DRAIN")  BY <3>1, HoldsQueue
    <3> QED  BY <3>2 DEF NoDrain, TypeOK, ChanTypes
  <2> QED  BY <2>1, Frame
<1>34. ASSUME NEW p \in Pids, Exit(p) PROVE Goal
  <2> USE <1>34 DEF Exit, memVars
  <2>1. NoDrain  BY DieKeeps DEF NoDrain
  <2> QED  BY <2>1, Frame
<1>35. ASSUME OnTriggerUpgrade PROVE Goal
  <2> USE <1>35 DEF OnTriggerUpgrade, procVars, chanVars
  <2>1. UpgApart'
    BY DEF BeginUpgrade, UpgApart, SaidStarted, DrainInv, Steady, TypeOK, MemTypes, GoroutineTypes
  <2>2. NoDrain  BY DEF NoDrain
  <2> QED  BY <2>1, <2>2, Frame
<1>36. ASSUME CrashExpires PROVE Goal
  <2> USE <1>36 DEF CrashExpires, procVars, chanVars
  <2>1. NoDrain  BY DEF NoDrain
  <2> QED  BY <2>1, Frame
<1>37. ASSUME ProbationExpires PROVE Goal
  <2> USE <1>37 DEF ProbationExpires, procVars, chanVars
  <2>1. NoDrain  BY DEF NoDrain
  <2> QED  BY <2>1, Frame
<1>38. ASSUME Shutdown PROVE Goal
  <2> USE <1>38 DEF Shutdown, procVars, memVars
  <2>1. \A q \in Pids : Holds(toW'[q], "DRAIN") => Holds(toW[q], "DRAIN")  BY SentKeeps DEF ToWMsgs
  <2>2. NoDrain  BY <2>1 DEF NoDrain
  <2> QED  BY <2>1, <2>2, Frame
<1>39. ASSUME ShutdownDone PROVE Goal
  <2> USE <1>39 DEF ShutdownDone, procVars
  <2>1. NoDrain  BY DEF NoDrain, LoseSupervisor
  <2>2. ReadySaid'  BY DEF ReadySaid, LoseSupervisor, Holds
  <2>3. SaidStarted' /\ UpgApart' /\ RunApart'  BY Frame DEF LoseSupervisor
  <2> QED  BY <2>1, <2>2, <2>3, Frame
<1>40. ASSUME ServiceStart PROVE Goal
  <2> USE <1>40 DEF ServiceStart, procVars, chanVars, memVars
  <2>1. NoDrain  BY DEF NoDrain
  <2> QED  BY <2>1, Frame
<1>41. ASSUME SupCrash PROVE Goal
  <2> USE <1>41 DEF SupCrash, procVars
  <2>1. NoDrain  BY DEF NoDrain, LoseSupervisor
  <2>2. ReadySaid'  BY DEF ReadySaid, LoseSupervisor, Holds
  <2>3. SaidStarted' /\ UpgApart' /\ RunApart'  BY Frame DEF LoseSupervisor
  <2> QED  BY <2>1, <2>2, <2>3, Frame
<1>42. ASSUME NEW p \in Pids, BootFail(p) PROVE Goal
  <2> USE <1>42 DEF BootFail, memVars
  <2>1. NoDrain  BY DieKeeps DEF NoDrain
  <2> QED  BY <2>1, Frame
<1>43. ASSUME NEW p \in Pids, Crash(p) PROVE Goal
  <2> USE <1>43 DEF Crash, memVars
  <2>1. NoDrain  BY DieKeeps DEF NoDrain
  <2> QED  BY <2>1, Frame
<1>44. ASSUME NEW p \in Pids, Cut(p) PROVE Goal
  <2> USE <1>44 DEF Cut, procVars, memVars
  <2>1. NoDrain
    <3>1. \A q \in Pids : toW'[q] = toW[q] \/ toW'[q] = <<>>  BY DEF TypeOK, ChanTypes
    <3> QED  BY <3>1 DEF NoDrain, Holds
  <2>2. ReadySaid'
    <3>1. \A q \in Pids : toS'[q] = toS[q] \/ toS'[q] = <<>>  BY DEF TypeOK, ChanTypes
    <3> QED  BY <3>1 DEF ReadySaid, DrainInv, Holds
  <2> QED  BY <2>1, <2>2, Frame
<1>45. ASSUME NEW p \in Pids, Install(p) PROVE Goal
  <2> USE <1>45 DEF Install, procVars, memVars
  <2>1. ReadySaid'
    <3>1. toS[p] \in Seq(ToSMsgs) /\ "REQUEST_UPGRADE" \in ToSMsgs  BY DEF TypeOK, ChanTypes, ToSMsgs
    <3>2. Holds(Append(toS[p], "REQUEST_UPGRADE"), "READY") => Holds(toS[p], "READY")  BY <3>1, HoldsQueue
    <3> QED  BY <3>2 DEF ReadySaid, DrainInv, TypeOK, ChanTypes
  <2>2. NoDrain  BY DEF NoDrain
  <2> QED  BY <2>1, <2>2, Frame
<1>46. ASSUME NEW p \in Pids, Register(p) PROVE Goal
  <2> USE <1>46 DEF Register, procVars
  <2>1. SaidStarted'  BY DEF SaidStarted, NewStarted, NewActive, DrainInv, Steady, TypeOK, MemTypes
  <2>2. NoDrain  BY DEF NoDrain, TypeOK, MemTypes
  <2> QED  BY <2>1, <2>2, Frame
<1>47. ASSUME UpgRollback PROVE Goal
  <2> USE <1>47 DEF UpgRollback, procVars, chanVars
  <2>1. NoDrain  BY DEF NoDrain
  <2> QED  BY <2>1, Frame
<1>48. ASSUME NEW p \in Pids, CrashRollback(p) PROVE Goal
  <2> USE <1>48 DEF CrashRollback, procVars, chanVars
  <2>1. NoDrain  BY DEF NoDrain
  <2> QED  BY <2>1, Frame
<1>49. ASSUME NEW p \in Pids, RespawnCheck(p) PROVE Goal
  <2> USE <1>49 DEF RespawnCheck, procVars, chanVars
  <2>1. NoDrain  BY DEF NoDrain
  <2> QED  BY <2>1, Frame
<1>50. ASSUME NEW p \in Pids, RejectHello(p) PROVE Goal
  <2> USE <1>50 DEF RejectHello, procVars, memVars
  <2>1. NoDrain
    <3>1. toW[p] \in Seq(ToWMsgs) /\ "SHUTDOWN" \in ToWMsgs  BY DEF TypeOK, ChanTypes, ToWMsgs
    <3>2. Holds(Append(toW[p], "SHUTDOWN"), "DRAIN") => Holds(toW[p], "DRAIN")  BY <3>1, HoldsQueue
    <3> QED  BY <3>2 DEF NoDrain, TypeOK, ChanTypes
  <2>2. ReadySaid'
    <3>1. \A q \in Pids : toS'[q] = toS[q] \/ toS'[q] = <<>>  BY DEF TypeOK, ChanTypes
    <3> QED  BY <3>1 DEF ReadySaid, DrainInv, Holds
  <2> QED  BY <2>1, <2>2, Frame
<1>51. ASSUME UNCHANGED vars PROVE Goal
  BY <1>51, Frame DEF NoDrain, vars, procVars, chanVars, memVars
<1>52. Goal
  BY <1>1, <1>2, <1>3, <1>4, <1>5, <1>6, <1>7, <1>8, <1>9, <1>10, <1>11, <1>12, <1>13, <1>14,
       <1>15, <1>16, <1>17, <1>18, <1>19, <1>20, <1>21, <1>22, <1>23, <1>24, <1>25, <1>26, <1>27,
       <1>28, <1>29, <1>30, <1>31, <1>32, <1>33, <1>34, <1>35, <1>36, <1>37, <1>38, <1>39, <1>40,
       <1>41, <1>42, <1>43, <1>44, <1>45, <1>46, <1>47, <1>48, <1>49, <1>50, <1>51 DEF Next, RunStep,
       UpgStep, ConnStep, MonStep, WorkStep, EnvStep
<1> QED  BY <1>c, <1>52 DEF DrainInv, Steady

(* At the start nobody is drained. *)
LEMMA DrainInit == Init => DrainInv
<1> SUFFICES ASSUME Init PROVE DrainInv  OBVIOUS
<1> USE DEF Init
<1>1. TypeOK  BY InitTypeOK
<1>2. ReadySaid /\ DrainHasReplacement  BY DEF ReadySaid, DrainHasReplacement, Holds
<1>3. SaidStarted /\ NewStarted /\ UpgApart /\ RunApart
  BY DEF SaidStarted, NewStarted, UpgApart, RunApart, NoUpgrade, NoRun
<1> QED  BY <1>1, <1>2, <1>3 DEF DrainInv

(* The Supervisor never drains a Worker before another one has reported     *)
(* READY: doUpgrade and adoptOrphans return when waitReady fails, and the   *)
(* Worker they wait for is never the one they drain, whatever crashes, is   *)
(* lost or comes too late, and with any number of Workers.                  *)
THEOREM DrainSafe == Spec => []DrainHasReplacement
<1>1. Init => DrainInv  BY DrainInit
<1>2. DrainInv => DrainHasReplacement  BY DEF DrainInv
<1> QED  BY <1>1, <1>2, DrainStep, PTL DEF Spec

-----------------------------------------------------------------------------
(* RollbackRestoresGood.  A rollback takes the newest backup, and a backup is *)
(* the binary an installation has replaced: what has to be shown is that     *)
(* the binary of a Worker stays what it was, that a version once known to be *)
(* good stays so, and that only the two rollbacks and an installation touch  *)
(* the disk.                                                                 *)

(* How a step may touch the budget: an event is paid, or nothing happens. *)
LEMMA SpendStep ==
  ASSUME TypeOK, NEW e \in Events, Spend(e)
  PROVE  \A f \in Events : left'[f] <= left[f] /\ (f # e => left'[f] = left[f])
  BY DEF TypeOK, Spend

(* A wait that ends changes the budget at most as its event does. *)
LEMMA EndsOrStep ==
  ASSUME TypeOK, NEW b, NEW e \in Events, EndsOr(b, e)
  PROVE  \A f \in Events : left'[f] <= left[f] /\ (f # e => left'[f] = left[f])
<1>1. CASE b  BY <1>1 DEF EndsOr, TypeOK
<1>2. CASE ~b  BY <1>2, SpendStep DEF EndsOr
<1> QED  BY <1>1, <1>2

(* The budget of an event never grows, and only an installation is paid as *)
(* one.                                                                    *)
LEMMA LeftStep ==
  ASSUME TypeOK, [Next]_vars
  PROVE  /\ \A f \in Events : left'[f] <= left[f]
         /\ left'["install"] = left["install"] \/ \E p \in Pids : Install(p)
<1> DEFINE Goal == /\ \A f \in Events : left'[f] <= left[f]
                   /\ left'["install"] = left["install"] \/ \E p \in Pids : Install(p)
<1>a. \A f \in Events : left[f] \in Nat  BY DEF TypeOK
<1>b. UNCHANGED left => Goal  BY <1>a
<1>c. ASSUME NEW e \in Events, e # "install", Spend(e) PROVE Goal
  BY <1>c, SpendStep DEF Events
<1>d. ASSUME NEW b, NEW e \in Events, e # "install", EndsOr(b, e) PROVE Goal
  BY <1>d, EndsOrStep DEF Events
<1>e. /\ "spawnFail" \in Events /\ "late" \in Events /\ "readyTimeout" \in Events
      /\ "goneTimeout" \in Events /\ "earlyReady" \in Events /\ "crash" \in Events
      /\ "bootFail" \in Events /\ "cut" \in Events /\ "trigger" \in Events /\ "stop" \in Events
      /\ "restart" \in Events /\ "supCrash" \in Events /\ "install" \in Events
      /\ "overtake" \in Events /\ "rollbackFail" \in Events
  BY DEF Events
<1> HIDE DEF Goal
<1>1. ASSUME FirstSpawn PROVE Goal  BY <1>1, <1>b, <1>c, <1>e DEF FirstSpawn
<1>2. ASSUME AdoptWaited PROVE Goal  BY <1>2, <1>d, <1>e DEF AdoptWaited
<1>3. ASSUME AdoptSpawn PROVE Goal  BY <1>3, <1>b, <1>c, <1>e DEF AdoptSpawn
<1>4. ASSUME AdoptReadyTimeout PROVE Goal  BY <1>4, <1>d, <1>e DEF AdoptReadyTimeout
<1>5. ASSUME AdoptDrain PROVE Goal  BY <1>5, <1>d, <1>e DEF AdoptDrain
<1>6. ASSUME AdoptGone PROVE Goal  BY <1>6, <1>d, <1>e DEF AdoptGone
<1>7. ASSUME UpgSpawn PROVE Goal  BY <1>7, <1>b, <1>c, <1>e DEF UpgSpawn
<1>8. ASSUME UpgTimeout PROVE Goal  BY <1>8, <1>d, <1>e DEF UpgTimeout
<1>9. ASSUME UpgOldGone PROVE Goal  BY <1>9, <1>d, <1>e DEF UpgOldGone
<1>10. ASSUME NEW p \in Pids, Respawn(p) PROVE Goal  BY <1>10, <1>b, <1>c, <1>e DEF Respawn
<1>11. ASSUME NEW p \in Pids, Boot(p) PROVE Goal  BY <1>11, <1>d, <1>e DEF Boot
<1>12. ASSUME NEW p \in Pids, SendReady(p) PROVE Goal  BY <1>12, <1>d, <1>e DEF SendReady
<1>13. ASSUME OnTriggerUpgrade PROVE Goal  BY <1>13, <1>c, <1>e DEF OnTriggerUpgrade
<1>14. ASSUME Shutdown PROVE Goal  BY <1>14, <1>c, <1>e DEF Shutdown
<1>15. ASSUME ShutdownDone PROVE Goal  BY <1>15, <1>d, <1>e DEF ShutdownDone
<1>16. ASSUME ServiceStart PROVE Goal  BY <1>16, <1>c, <1>e DEF ServiceStart
<1>17. ASSUME SupCrash PROVE Goal  BY <1>17, <1>c, <1>e DEF SupCrash
<1>18. ASSUME NEW p \in Pids, BootFail(p) PROVE Goal  BY <1>18, <1>c, <1>e DEF BootFail
<1>19. ASSUME NEW p \in Pids, Crash(p) PROVE Goal  BY <1>19, <1>c, <1>e DEF Crash
<1>20. ASSUME NEW p \in Pids, Cut(p) PROVE Goal  BY <1>20, <1>c, <1>e DEF Cut
<1>21. ASSUME NEW p \in Pids, Install(p) PROVE Goal  BY <1>21, <1>e, SpendStep DEF Install, Goal
<1>22. ASSUME UNCHANGED left PROVE Goal  BY <1>22, <1>b
<1>23. ASSUME UpgRollback PROVE Goal  BY <1>23, <1>b, <1>c, <1>e DEF UpgRollback, RollbackBinary
<1>24. ASSUME NEW p \in Pids, CrashRollback(p) PROVE Goal
  BY <1>24, <1>b, <1>c, <1>e DEF CrashRollback, RollbackBinary
<1>25. ASSUME NEW p \in Pids, HandleHello(p) PROVE Goal  BY <1>25, <1>d, <1>e DEF HandleHello
<1>26. Goal
  BY <1>1, <1>2, <1>3, <1>4, <1>5, <1>6, <1>7, <1>8, <1>9, <1>10, <1>11, <1>12, <1>13, <1>14, <1>15,
     <1>16, <1>17, <1>18, <1>19, <1>20, <1>21, <1>22, <1>23, <1>24, <1>25, ZenonT(30)
     DEF Next, RunStep, UpgStep,
     ConnStep, MonStep, WorkStep, EnvStep, vars, SupStart, AdoptClaim, AdoptReady, AdoptActivate,
     UpgSwitch, UpgActivate, HandoffSkip, HandoffExec, RejectHello, OnReady, OnRequestUpgrade, ConnLost,
     Register, Reap, ReapAdopted, PollStops, HandleCrash, RespawnCheck, Probe, ProbeFail, Dial, OnDrain,
     OnActivate, Exit, CrashExpires, ProbationExpires
<1> QED  BY <1>26 DEF Goal

(* The binary and the arguments of a process never change. *)
LEMMA SpawnVer ==
  ASSUME TypeOK, NEW p \in Pids, NEW t, NEW m, Spawn(p, t, m)
  PROVE  \A q \in Pids : Started(q) => ver'[q] = ver[q] /\ tko'[q] = tko[q]
  BY SpawnFresh DEF Spawn, TypeOK, ProcTypes

(* No step changes those of a process that has been started. *)
LEMMA VerStays ==
  ASSUME TypeOK, [Next]_vars
  PROVE  \A q \in Pids : Started(q) => ver'[q] = ver[q] /\ tko'[q] = tko[q]
<1> DEFINE Goal == \A q \in Pids : Started(q) => ver'[q] = ver[q] /\ tko'[q] = tko[q]
<1>1. ASSUME FirstSpawn PROVE Goal  BY <1>1, SpawnVer DEF FirstSpawn, procVars
<1>2. ASSUME AdoptSpawn PROVE Goal  BY <1>2, SpawnVer DEF AdoptSpawn, procVars
<1>3. ASSUME UpgSpawn PROVE Goal  BY <1>3, SpawnVer DEF UpgSpawn, procVars
<1>4. ASSUME NEW p \in Pids, Respawn(p) PROVE Goal  BY <1>4, SpawnVer DEF Respawn, procVars
<1>5. CASE UNCHANGED <<ver, tko>>  BY <1>5
<1>6. ASSUME RunStep PROVE Goal
  BY <1>6, <1>1, <1>2, <1>3, <1>4, <1>5 DEF RunStep, SupStart, AdoptClaim, AdoptWaited, AdoptReady,
     AdoptReadyTimeout, AdoptDrain, AdoptGone, AdoptActivate, procVars, Die
<1>7. ASSUME UpgStep PROVE Goal
  BY <1>7, <1>1, <1>2, <1>3, <1>4, <1>5 DEF UpgStep, UpgTimeout, UpgRollback, UpgSwitch, UpgOldGone, UpgActivate,
     HandoffSkip, HandoffExec, procVars, Die
<1>8. ASSUME NEW p \in Pids, ConnStep(p) PROVE Goal
  BY <1>8, <1>1, <1>2, <1>3, <1>4, <1>5 DEF ConnStep, HandleHello, RejectHello, OnReady,
     OnRequestUpgrade, ConnLost, procVars, Die
<1>9. ASSUME NEW p \in Pids, MonStep(p) PROVE Goal
  BY <1>9, <1>1, <1>2, <1>3, <1>4, <1>5 DEF MonStep, Register, Reap, ReapAdopted, PollStops,
     HandleCrash, CrashRollback, RespawnCheck, procVars, Die
<1>10. ASSUME NEW p \in Pids, WorkStep(p) PROVE Goal
  BY <1>10, <1>1, <1>2, <1>3, <1>4, <1>5 DEF WorkStep, Probe, ProbeFail, Boot, Dial, SendReady,
     OnDrain, OnActivate, Exit, procVars, Die
<1>11. ASSUME EnvStep PROVE Goal
  BY <1>11, <1>1, <1>2, <1>3, <1>4, <1>5 DEF EnvStep, OnTriggerUpgrade, CrashExpires,
     ProbationExpires, Shutdown, ServiceStart, SupCrash, BootFail, Crash, Cut, Install, procVars, Die
<1>12. ASSUME ShutdownDone \/ UNCHANGED vars PROVE Goal
  BY <1>12, <1>1, <1>2, <1>3, <1>4, <1>5 DEF ShutdownDone, vars, procVars, Die
<1> QED  BY <1>6, <1>7, <1>8, <1>9, <1>10, <1>11, <1>12 DEF Next

(* The disk changes by a rollback or by an installation. *)
LEMMA DiskStep ==
  ASSUME [Next]_vars
  PROVE  \/ UNCHANGED <<bin, backups>>
         \/ UNCHANGED backups /\ RollbackBinary
         \/ \E p \in Pids : Install(p)
<1> DEFINE Goal == \/ UNCHANGED <<bin, backups>>
                   \/ UNCHANGED backups /\ RollbackBinary
                   \/ \E p \in Pids : Install(p)
<1>1. ASSUME UpgRollback PROVE UNCHANGED backups /\ RollbackBinary  BY <1>1 DEF UpgRollback
<1>2. ASSUME NEW p \in Pids, CrashRollback(p) PROVE UNCHANGED backups /\ RollbackBinary
  BY <1>2 DEF CrashRollback
<1>3. ASSUME RunStep PROVE Goal
  BY <1>3, <1>1, <1>2 DEF RunStep, SupStart, FirstSpawn, AdoptClaim, AdoptWaited, AdoptSpawn,
     AdoptReady, AdoptReadyTimeout, AdoptDrain, AdoptGone, AdoptActivate
<1>4. ASSUME UpgStep PROVE Goal
  BY <1>4, <1>1, <1>2 DEF UpgStep, UpgSpawn, UpgTimeout, UpgSwitch, UpgOldGone, UpgActivate, HandoffSkip,
     HandoffExec
<1>5. ASSUME NEW p \in Pids, ConnStep(p) PROVE Goal
  BY <1>5, <1>1, <1>2 DEF ConnStep, HandleHello, RejectHello, OnReady, OnRequestUpgrade, ConnLost
<1>6. ASSUME NEW p \in Pids, MonStep(p) PROVE Goal
  BY <1>6, <1>1, <1>2 DEF MonStep, Register, Reap, ReapAdopted, PollStops, HandleCrash, RespawnCheck, Respawn
<1>7. ASSUME NEW p \in Pids, WorkStep(p) PROVE Goal
  BY <1>7, <1>1, <1>2 DEF WorkStep, Probe, ProbeFail, Boot, Dial, SendReady, OnDrain, OnActivate,
     Exit
<1>8. ASSUME EnvStep PROVE Goal
  BY <1>8, <1>1, <1>2 DEF EnvStep, OnTriggerUpgrade, CrashExpires, ProbationExpires, Shutdown,
     ServiceStart, SupCrash, BootFail, Crash, Cut
<1>9. ASSUME ShutdownDone \/ UNCHANGED vars PROVE Goal
  BY <1>9, <1>1, <1>2 DEF ShutdownDone, vars
<1> QED  BY <1>3, <1>4, <1>5, <1>6, <1>7, <1>8, <1>9 DEF Next

(* A version that is known to be good stays so. *)
LEMMA GoodStays ==
  ASSUME DrainInv, [Next]_vars, NEW v, Good(v)
  PROVE  Good(v)'
<1>1. TypeOK /\ SaidStarted  BY DEF DrainInv
<1>2. said \subseteq said'  BY <1>1, Monotone
<1>3. CASE v = 1  BY <1>3 DEF Good
<1>4. ASSUME NEW p \in said, ver[p] = v PROVE Good(v)'
  <2>1. p \in Pids /\ Started(p)  BY <1>1 DEF SaidStarted, TypeOK
  <2>2. ver'[p] = ver[p]  BY <1>1, <2>1, VerStays
  <2> QED  BY <1>2, <1>4, <2>2 DEF Good
<1> QED  BY <1>3, <1>4 DEF Good

(* Every backup is of a version that is known to be good. *)
GoodBackups == \A i \in 1 .. Len(backups) : Good(backups[i])

(* The binary that an installation replaces, and backs up, is known to be good. *)
InstallsOverGood == \A p \in Pids : Install(p) => Good(bin)

(* An installation over a good binary keeps every backup good. *)
LEMMA BackupsStep ==
  ASSUME DrainInv, GoodBackups, [Next]_vars, InstallsOverGood
  PROVE  GoodBackups'
<1>1. backups \in Seq(Versions) /\ bin \in Versions  BY DEF DrainInv, TypeOK, DiskTypes
<1>2. CASE UNCHANGED backups  BY <1>2, GoodStays DEF GoodBackups
<1>3. ASSUME NEW p \in Pids, Install(p) PROVE GoodBackups'
  <2>1. \A v : Good(v) => Good(v)'  BY GoodStays
  <2>2. Good(bin)  BY <1>3 DEF InstallsOverGood
  <2>3. CASE backups' = backups  BY <2>1, <2>3 DEF GoodBackups
  <2>4. CASE backups' = <<bin>> \o backups
    <3> SUFFICES ASSUME NEW i \in 1 .. Len(backups') PROVE Good(backups[i])'  BY DEF GoodBackups
    <3>1. backups'[i] = bin \/ (i - 1 \in 1 .. Len(backups) /\ backups'[i] = backups[i - 1])
      BY <1>1, <2>4
    <3>2. CASE backups'[i] = bin  BY <2>1, <2>2, <3>2 DEF Good
    <3>3. CASE i - 1 \in 1 .. Len(backups) /\ backups'[i] = backups[i - 1]
      BY <2>1, <3>3 DEF GoodBackups, Good
    <3> QED  BY <3>1, <3>2, <3>3
  <2> QED  BY <1>3, <2>3, <2>4 DEF Install, BackedUp
<1> QED  BY <1>2, <1>3, DiskStep

(* An upgrade that goes from its rollback to its end has rolled back. *)
LEMMA UpgEnds ==
  ASSUME TypeOK, [Next]_vars, upg.pc = "rollback", upg'.pc = "idle", SupUp, SupUp'
  PROVE  UpgRollback
<1> DEFINE Goal == UpgRollback
<1> USE DEF TypeOK, GoroutineTypes
<1>1. ~UNCHANGED upg  OBVIOUS
<1>2. ~UpgSpawn /\ ~UpgTimeout /\ ~UpgOldGone /\ ~UpgActivate /\ ~HandoffSkip
  BY DEF UpgSpawn, UpgTimeout, UpgOldGone, UpgActivate, HandoffSkip
<1>3. ~UpgSwitch
  BY DEF UpgSwitch
<1>4. ~HandoffExec /\ ~SupCrash /\ ~ShutdownDone
  BY DEF HandoffExec, SupCrash, ShutdownDone, SupUp
<1>5. ~OnTriggerUpgrade /\ \A p \in Pids : ~OnRequestUpgrade(p)
  BY DEF OnTriggerUpgrade, OnRequestUpgrade, BeginUpgrade
<1>6. ASSUME RunStep PROVE Goal
  BY <1>6, <1>1, <1>2, <1>3, <1>4, <1>5 DEF RunStep, SupStart, FirstSpawn, AdoptClaim, AdoptWaited,
     AdoptSpawn, AdoptReady, AdoptReadyTimeout, AdoptDrain, AdoptGone, AdoptActivate, memVars, vars
<1>7. ASSUME UpgStep PROVE Goal
  BY <1>7, <1>1, <1>2, <1>3, <1>4, <1>5 DEF UpgStep, memVars, vars
<1>8. ASSUME NEW p \in Pids, ConnStep(p) PROVE Goal
  BY <1>8, <1>1, <1>2, <1>3, <1>4, <1>5 DEF ConnStep, HandleHello, RejectHello, OnReady, ConnLost,
     memVars, vars
<1>9. ASSUME NEW p \in Pids, MonStep(p) PROVE Goal
  BY <1>9, <1>1, <1>2, <1>3, <1>4, <1>5 DEF MonStep, Register, Reap, ReapAdopted, PollStops,
     HandleCrash, CrashRollback, RespawnCheck, Respawn, memVars, vars
<1>10. ASSUME NEW p \in Pids, WorkStep(p) PROVE Goal
  BY <1>10, <1>1, <1>2, <1>3, <1>4, <1>5 DEF WorkStep, Probe, ProbeFail, Boot, Dial, SendReady,
     OnDrain, OnActivate, Exit, memVars, vars
<1>11. ASSUME EnvStep PROVE Goal
  BY <1>11, <1>1, <1>2, <1>3, <1>4, <1>5 DEF EnvStep, CrashExpires, ProbationExpires, Shutdown,
     ServiceStart, BootFail, Crash, Cut, Install, memVars, vars
<1>12. ASSUME ShutdownDone \/ UNCHANGED vars PROVE Goal
  BY <1>12, <1>1, <1>2, <1>3, <1>4, <1>5 DEF vars, memVars
<1> QED  BY <1>6, <1>7, <1>8, <1>9, <1>10, <1>11, <1>12 DEF Next

(* A monitor goes from the rollback to the backoff in handleCrashRespawn. *)
LEMMA MonBacksOff ==
  ASSUME TypeOK, [Next]_vars, NEW p \in Pids, mon[p] = "rollback", mon'[p] = "backoff"
  PROVE  CrashRollback(p)
<1> USE DEF TypeOK, GoroutineTypes
<1>1. ~UNCHANGED mon  OBVIOUS
<1>2. ASSUME NEW q \in Pids, NEW t, NEW r \in Pids, NEW m \in {mon, [mon EXCEPT ![r] = "none"]},
             Spawn(q, t, m)
      PROVE  FALSE
  BY <1>2 DEF Spawn
<1>3. ~FirstSpawn /\ ~AdoptSpawn /\ ~UpgSpawn
  BY <1>1, <1>2 DEF FirstSpawn, AdoptSpawn, UpgSpawn
<1>4. ASSUME NEW q \in Pids, Respawn(q) PROVE FALSE
  <2>1. ~ \E r \in Pids : Spawn(r, FALSE, [mon EXCEPT ![q] = "none"])  BY <1>2
  <2> QED  BY <1>4, <2>1 DEF Respawn
<1>5. ~HandoffExec /\ ~SupCrash /\ ~ShutdownDone
  BY DEF HandoffExec, SupCrash, ShutdownDone, LoseSupervisor
<1>6. \A q \in Pids : /\ ~AdoptClaim(q) /\ ~Register(q) /\ ~Reap(q) /\ ~ReapAdopted(q)
                      /\ ~PollStops(q) /\ ~HandleCrash(q) /\ ~RespawnCheck(q)
  <2> TAKE q \in Pids
  <2>1. ~AdoptClaim(q) /\ ~Register(q)  BY DEF AdoptClaim, Register
  <2>2. ~Reap(q) /\ ~ReapAdopted(q) /\ ~PollStops(q)  BY DEF Reap, ReapAdopted, PollStops
  <2>3. ~HandleCrash(q) /\ ~RespawnCheck(q)  BY DEF HandleCrash, RespawnCheck
  <2> QED  BY <2>1, <2>2, <2>3
<1>7. ASSUME NEW q \in Pids, CrashRollback(q) PROVE q = p
  BY <1>7 DEF CrashRollback
<1> QED
  BY <1>1, <1>3, <1>4, <1>5, <1>6, <1>7, SMTT(30) DEF Next, RunStep, UpgStep, ConnStep, MonStep,
     WorkStep, EnvStep, vars, memVars, SupStart, AdoptWaited, AdoptReady,
     AdoptReadyTimeout, AdoptDrain, AdoptGone, AdoptActivate, UpgTimeout, UpgRollback, UpgSwitch,
     UpgOldGone, UpgActivate, HandoffSkip, HandleHello, RejectHello, OnReady, OnRequestUpgrade, ConnLost,
     Probe, ProbeFail, Boot, Dial, SendReady, OnDrain,
     OnActivate, Exit, OnTriggerUpgrade, CrashExpires, ProbationExpires, Shutdown,
     ServiceStart, BootFail, Crash, Cut, Install

(* A rollback that neither finds no backup nor fails restores the newest one. *)
LEMMA RollsBackStep ==
  ASSUME TypeOK, [Next]_vars, RollsBack
  PROVE  bin' = Head(backups)
<1>1. PICK p \in Pids : \/ upg.pc = "rollback" /\ upg'.pc = "idle"
                        \/ mon[p] = "rollback" /\ mon'[p] = "backoff"
  BY DEF RollsBack, Judging
<1>2. RollbackBinary
  BY <1>1, UpgEnds, MonBacksOff DEF RollsBack, UpgRollback, CrashRollback
<1>3. ~Spend("rollbackFail")
  <2>1. "rollbackFail" \in Events  BY DEF Events
  <2>2. left["rollbackFail"] \in Nat  BY <2>1 DEF TypeOK
  <2>3. Spend("rollbackFail") => left'["rollbackFail"] = left["rollbackFail"] - 1
    BY <2>1 DEF Spend, TypeOK
  <2> QED  BY <2>2, <2>3 DEF RollsBack
<1> QED  BY <1>2, <1>3 DEF RollbackBinary, RollsBack

(* What rollbackBinary puts back when it succeeds, after a failed upgrade   *)
(* or a crash loop on probation, is known to be good, however often a new   *)
(* version is installed and whatever fails, other rollbacks included, as    *)
(* long as no installation replaces a binary that no Worker has run to its  *)
(* READY.  (A rollback that fails leaves the binary as it is.)              *)
THEOREM RollbackSafe == Spec /\ [][InstallsOverGood]_vars => RollbackRestoresGood
<1>1. Init => DrainInv /\ GoodBackups
  BY DrainInit DEF Init, GoodBackups
<1>2. DrainInv /\ GoodBackups /\ [Next]_vars /\ [InstallsOverGood]_vars => (DrainInv /\ GoodBackups)'
  <2>1. ASSUME DrainInv, GoodBackups, UNCHANGED vars PROVE GoodBackups'
    BY <2>1 DEF GoodBackups, Good, vars, procVars
  <2> QED  BY <2>1, DrainStep, BackupsStep
<1>3. DrainInv /\ GoodBackups /\ [Next]_vars /\ [InstallsOverGood]_vars
        => [RollsBack => Good(bin')]_vars
  <2> SUFFICES ASSUME DrainInv, GoodBackups, [Next]_vars, RollsBack
               PROVE  Good(bin')
    OBVIOUS
  <2>1. TypeOK /\ backups # <<>>  BY DEF DrainInv, RollsBack
  <2>2. bin' = Head(backups)  BY <2>1, RollsBackStep
  <2>3. Head(backups) = backups[1] /\ 1 \in 1 .. Len(backups)  BY <2>1 DEF TypeOK, DiskTypes
  <2> QED  BY <2>2, <2>3 DEF GoodBackups
<1> QED  BY <1>1, <1>2, <1>3, PTL DEF Spec, RollbackRestoresGood

(* Until the only installation the binary is the one the service was set up *)
(* with, and no other version is ever backed up.                            *)
FirstBinary == /\ left["install"] > 0 => bin = 1 /\ backups = <<>>
               /\ backups \in {<<>>, <<1>>}

(* Without a condition on what is replaced when there is at most one        *)
(* installation: a rollback that finds a backup and succeeds puts the       *)
(* version the service was set up with back, so that the one that failed    *)
(* leaves, whether it has said READY or not.                                *)
THEOREM FirstRollbackSafe ==
  ASSUME Budget["install"] <= 1 PROVE Spec => RollbackRestoresGood /\ BadVersionLeaves
<1> DEFINE Inv == TypeOK /\ left["install"] <= 1 /\ FirstBinary
<1>1. Init => Inv  BY InitTypeOK DEF Init, FirstBinary, Events
<1>2. Inv /\ [Next]_vars => Inv'
  <2> SUFFICES ASSUME Inv, [Next]_vars PROVE Inv'  OBVIOUS
  <2>1. TypeOK' /\ "install" \in Events /\ left["install"] \in Nat /\ left'["install"] \in Nat
    BY TypeStep DEF TypeOK, Events
  <2>2. ASSUME NEW p \in Pids, Install(p) PROVE Inv'
    <3>1. left["install"] = 1 /\ left'["install"] = 0  BY <2>1, <2>2 DEF Install, Spend, TypeOK
    <3>2. bin = 1 /\ backups = <<>>  BY <3>1 DEF FirstBinary
    <3>3. backups' \in {<<>>, <<1>>}  BY <2>2, <3>2 DEF Install, BackedUp
    <3> QED  BY <2>1, <3>1, <3>3 DEF FirstBinary
  <2>3. ASSUME left'["install"] = left["install"], UNCHANGED backups, UNCHANGED bin \/ RollbackBinary
        PROVE  Inv'
    BY <2>1, <2>3 DEF FirstBinary, RollbackBinary
  <2> QED  BY <2>2, <2>3, LeftStep, DiskStep
<1>3. Inv /\ [Next]_vars => [RollsBack => bin' = 1]_vars
  <2> SUFFICES ASSUME Inv, [Next]_vars, RollsBack PROVE bin' = 1  OBVIOUS
  <2>1. bin' = Head(backups) /\ backups # <<>>  BY RollsBackStep DEF RollsBack
  <2> QED  BY <2>1 DEF FirstBinary
<1>4. [RollsBack => bin' = 1]_vars => [RollsBack => Good(bin')]_vars
  BY DEF Good
<1>5. [RollsBack => bin' = 1]_vars => [RollsBack => bin' = 1 \/ \A p \in Judging : bin' # ver[p]]_vars
  OBVIOUS
<1> QED  BY <1>1, <1>2, <1>3, <1>4, <1>5, PTL DEF Spec, RollbackRestoresGood, BadVersionLeaves

-----------------------------------------------------------------------------
(* ZeroInterruption.  Once somebody has been told to leave there has to be a  *)
(* Worker that serves and that nobody will tell to leave or kill (Keeper):    *)
(* the Worker an upgrade or an adoption has on trial is killed when it is not *)
(* READY in time, so that it does not count until the switch makes it the     *)
(* active one, and that switch is the only step which tells anybody to leave. *)
(* Going is about a service that has not been told to stop.                   *)

Unstopped  == left["stop"] = Budget["stop"]
LeftBound  == \A e \in Events : left[e] <= Budget[e]
InTrial(p) == \/ upg.pc = "ready" /\ upg.new = p
              \/ run.pc = "ready" /\ run.new = p
Told(p)    == Holds(toW[p], "DRAIN") \/ Holds(toW[p], "SHUTDOWN")
Keeper(p)  == proc[p] = "serving" /\ ~Told(p) /\ ~InTrial(p)

Running    == sup \notin {"stopping", "stopped"}
SaidServes == \A p \in said : proc[p] \notin {"none", "probing", "booting"}
Unborn     == \A p \in Pids : proc[p] = "none" => ~Told(p)
DownBlank  == ~SupUp => upg = NoUpgrade /\ run = NoRun
TrialApart ==
  /\ upg.pc # "idle" /\ upg.old # None => Started(upg.old)
  /\ upg.pc = "ready" => upg.new \in Pids /\ upg.new \notin run.cands
  /\ run.pc = "ready" => /\ run.new \in Pids /\ tko[run.new] /\ run.new # activePID
                         /\ upg.pc # "idle" => run.new # upg.old
  /\ upg.pc = "ready" /\ run.pc = "ready" => upg.new # run.new
Trials == \A p \in Pids : InTrial(p) =>
            /\ proc[p] \in {"booting", "serving", "crashed"} /\ ~Told(p)
            /\ p \in said => proc[p] = "serving"
Kept      == (\E p \in Pids : proc[p] \in {"draining", "exit0"} \/ Told(p)) => \E q \in Pids : Keeper(q)
KeptAdopt == run.pc = "wait2" => \E q \in Pids : Keeper(q) /\ q \notin run.cands

Going    == Running /\ SaidServes /\ Unborn /\ DownBlank /\ TrialApart /\ Trials /\ Kept /\ KeptAdopt
ServeInv == DrainInv /\ LeftBound /\ (Unstopped => Going)

(* What a step may do to a Worker, when it is not the one that drains. *)
Lives(p) ==
  \/ proc'[p] = proc[p]
  \/ proc[p] \in {"none", "probing"} /\ proc'[p] \in {"probing", "booting", "crashed"}
  \/ proc[p] = "booting" /\ proc'[p] \in {"serving", "crashed"}
  \/ Told(p) /\ proc'[p] = "draining"
  \/ proc[p] = "draining" /\ proc'[p] = "exit0"
  \/ InTrial(p) /\ ~InTrial(p)' /\ proc'[p] = "crashed"
TellsNobody == \A p \in Pids : Told(p)' => Told(p)
TriesNew    == \A p \in Pids : InTrial(p)' => InTrial(p) \/ (proc[p] = "none" /\ proc'[p] = "booting")
SpeaksUp    == \A p \in said' : p \in said \/ proc[p] = "serving"

(* What a step keeps when every Worker lives on as Lives says, nobody new *)
(* is told to leave and only a new process is put on trial.               *)
LEMMA LifeFrame ==
  ASSUME TypeOK, TypeOK', Going, \A p \in Pids : Started(p) => Started(p)',
         \A p \in Pids : Lives(p), TellsNobody, TriesNew, SpeaksUp
  PROVE  /\ SaidServes' /\ Unborn' /\ Trials' /\ Kept'
         /\ (run'.pc = "wait2" => run.pc = "wait2" /\ run'.cands = run.cands) => KeptAdopt'
<1> USE DEF Going
<1>a. proc \in [Pids -> ProcStates] /\ said \subseteq Pids /\ said' \subseteq Pids
  BY DEF TypeOK, ProcTypes
<1>1. SaidServes'
  <2> SUFFICES ASSUME NEW p \in said' PROVE proc'[p] \notin {"none", "probing", "booting"}
    BY DEF SaidServes
  <2>1. proc[p] \notin {"none", "probing", "booting"}  BY DEF SpeaksUp, SaidServes
  <2>2. p \in Pids  BY <1>a
  <2> QED  BY <2>1, <2>2 DEF Lives
<1>2. Unborn'  BY DEF Unborn, TellsNobody, Started
<1>3. ASSUME NEW q \in Pids, Keeper(q) PROVE Keeper(q)'
  <2>1. proc'[q] = "serving"  BY <1>3 DEF Keeper, Lives
  <2>2. ~Told(q)'  BY <1>3 DEF Keeper, TellsNobody
  <2>3. ~InTrial(q)'  BY <1>3 DEF Keeper, TriesNew
  <2> QED  BY <2>1, <2>2, <2>3 DEF Keeper
<1>4. Trials'
  <2> SUFFICES ASSUME NEW p \in Pids, InTrial(p)'
               PROVE  /\ proc'[p] \in {"booting", "serving", "crashed"} /\ ~Told(p)'
                      /\ p \in said' => proc'[p] = "serving"
    BY DEF Trials
  <2>1. CASE InTrial(p)
    <3>1. proc[p] \in {"booting", "serving", "crashed"} /\ ~Told(p) /\ (p \in said => proc[p] = "serving")
      BY <2>1 DEF Trials
    <3>2. ~Told(p)'  BY <3>1 DEF TellsNobody
    <3>3. proc'[p] \in {"booting", "serving", "crashed"} /\ (proc[p] = "serving" => proc'[p] = "serving")
      BY <3>1 DEF Lives
    <3> QED  BY <3>1, <3>2, <3>3 DEF SpeaksUp
  <2>2. CASE proc[p] = "none" /\ proc'[p] = "booting"
    <3>1. ~Told(p)'  BY <2>2 DEF Unborn, TellsNobody
    <3>2. p \notin said'  BY <2>2 DEF SpeaksUp, SaidServes
    <3> QED  BY <2>2, <3>1, <3>2
  <2> QED  BY <2>1, <2>2 DEF TriesNew
<1>5. Kept'
  <2> SUFFICES ASSUME NEW p \in Pids, proc'[p] \in {"draining", "exit0"} \/ Told(p)'
               PROVE  \E q \in Pids : Keeper(q)'
    BY DEF Kept
  <2>1. proc[p] \in {"draining", "exit0"} \/ Told(p)  BY DEF Lives, TellsNobody
  <2> QED  BY <1>3, <2>1 DEF Kept
<1>6. ASSUME run'.pc = "wait2" => run.pc = "wait2" /\ run'.cands = run.cands PROVE KeptAdopt'
  BY <1>3, <1>6 DEF KeptAdopt
<1> QED  BY <1>1, <1>2, <1>4, <1>5, <1>6

(* Emptying a queue tells nobody to leave. *)
LEMMA ToldShrinks ==
  ASSUME \A p \in Pids : toW'[p] = toW[p] \/ toW'[p] = <<>>
  PROVE  TellsNobody
  BY DEF TellsNobody, Told, Holds

(* ACTIVATE tells nobody to leave. *)
LEMMA ToldSent ==
  ASSUME TypeOK, NEW P, toW' = Sent(P, "ACTIVATE")
  PROVE  TellsNobody
<1> SUFFICES ASSUME NEW p \in Pids, NEW x \in {"DRAIN", "SHUTDOWN"}, Holds(toW'[p], x)
             PROVE  Holds(toW[p], x)
  BY DEF TellsNobody, Told
<1>1. "ACTIVATE" \in ToWMsgs /\ Holds(Sent(P, "ACTIVATE")[p], x)  BY DEF ToWMsgs
<1> QED  BY <1>1, SentHolds

(* spawn, as this proof sees it. *)
LEMMA SpawnLives ==
  ASSUME TypeOK, NEW p \in Pids, NEW t \in BOOLEAN, NEW m, Spawn(p, t, m)
  PROVE  /\ \A q \in Pids : Lives(q)
         /\ TellsNobody
         /\ proc[p] = "none" /\ (t => proc'[p] = "booting")
         /\ tko'[p] = t /\ activePID' = activePID
<1>1. ~Started(p) /\ \A q \in Pids \ {p} : proc'[q] = proc[q]  BY SpawnFresh
<1>2. proc'[p] = IF t THEN "booting" ELSE "probing"  BY DEF Spawn, TypeOK, ProcTypes
<1>3. TellsNobody  BY ToldShrinks DEF Spawn, chanVars
<1>4. tko'[p] = t /\ activePID' = activePID  BY DEF Spawn, TypeOK, ProcTypes
<1> QED  BY <1>1, <1>2, <1>3, <1>4 DEF Lives, Started

(* A process that ends, as this proof sees it. *)
LEMMA DieLives ==
  ASSUME TypeOK, NEW p \in Pids, NEW how, Die(p, how)
  PROVE  /\ \A q \in Pids \ {p} : Lives(q)
         /\ proc'[p] = how
         /\ TellsNobody
<1>1. TellsNobody  BY ToldShrinks DEF Die, TypeOK, ChanTypes
<1> QED  BY <1>1 DEF Die, Lives, TypeOK, ProcTypes

(* Every version speaks the protocol of every Supervisor. *)
OneProtocol == \A v, w \in Versions : Proto[v] = Proto[w]

(* Then no HELLO is refused. *)
LEMMA NoReject == ASSUME TypeOK, OneProtocol, NEW p \in Pids PROVE Compatible(p) /\ ~RejectHello(p)
<1>1. ver[p] \in Versions /\ supVer \in Versions  BY DEF TypeOK, ProcTypes, MemTypes
<1> QED  BY <1>1 DEF OneProtocol, Compatible, RejectHello

(* Every step that the service is not stopped by keeps it going. *)
LEMMA GoingStep ==
  ASSUME DrainInv, LeftBound, Going, [Next]_vars, DrainInv', Unstopped', Unstopped, OneProtocol,
         Budget["crash"] = 0, Budget["earlyReady"] = 0
  PROVE  Going'
<1>a. TypeOK /\ TypeOK' /\ SaidStarted /\ RunApart /\ ReadySaid /\ UpgApart  BY DEF DrainInv
<1>b. /\ \A q \in Pids : Started(q) => Started(q)'
      /\ "crash" \in Events /\ "earlyReady" \in Events /\ "stop" \in Events
  BY <1>a, Monotone DEF Events
<1>c. left["crash"] = 0 /\ left["earlyReady"] = 0  BY <1>a, <1>b DEF LeftBound, TypeOK
<1>j. /\ upg.pc # "idle" /\ upg.old # None => Started(upg.old) /\ upg.old \in Pids
      /\ upg.pc # "idle" /\ upg.old # None /\ upg'.old = upg.old => Started(upg.old)'
  BY <1>a, <1>b DEF Going, TrialApart, TypeOK, GoroutineTypes, Started
<1>k. run.pc = "ready" => run.new \in Pids /\ Started(run.new) /\ tko[run.new] /\ tko'[run.new]
  BY <1>a, VerStays DEF Going, TrialApart, Trials, InTrial, Started
<1>d. \A q \in Pids : proc[q] # "none" <=> Started(q)  BY DEF Started
<1> DEFINE Life == (\A q \in Pids : Lives(q)) /\ TellsNobody /\ TriesNew /\ SpeaksUp
           Adopts == run'.pc = "wait2" => run.pc = "wait2" /\ run'.cands = run.cands
<1>e. ASSUME Life, Adopts, Running', DownBlank', TrialApart' PROVE Going'
  BY <1>a, <1>b, <1>e, LifeFrame DEF Going
<1>f. ASSUME UNCHANGED <<upg, run, activePID, sup>>
      PROVE  Adopts /\ Running' /\ DownBlank' /\ TrialApart' /\ TriesNew
  BY <1>a, <1>b, <1>f, <1>k DEF Going, Running, DownBlank, TrialApart, TriesNew, InTrial, SupUp, TypeOK,
     GoroutineTypes
<1>g. ASSUME UNCHANGED proc PROVE \A q \in Pids : Lives(q)  BY <1>g DEF Lives
<1>h. ASSUME UNCHANGED toW PROVE TellsNobody  BY <1>h, ToldShrinks
<1>i. ASSUME UNCHANGED said PROVE SpeaksUp  BY <1>i DEF SpeaksUp
<1> HIDE DEF Life, Adopts
<1>1. ASSUME UNCHANGED <<proc, toW, said, upg, run, activePID, sup>> PROVE Going'
  BY <1>1, <1>e, <1>f, <1>g, <1>h, <1>i DEF Life
<1>2. ASSUME SupStart PROVE Going'
  <2> USE <1>2 DEF SupStart, procVars, chanVars
  <2>1. upg = NoUpgrade /\ run = NoRun  BY DEF Going, DownBlank, SupUp
  <2>2. Adopts /\ TriesNew  BY <2>1 DEF Adopts, TriesNew, InTrial, NoRun, NoUpgrade
  <2>3. Running' /\ DownBlank' /\ TrialApart'
    BY <2>1 DEF Running, DownBlank, SupUp, TrialApart, NoUpgrade
  <2> QED  BY <2>2, <2>3, <1>e, <1>g, <1>h, <1>i DEF Life
<1>3. ASSUME FirstSpawn PROVE Going'
  <2> USE <1>3 DEF FirstSpawn, procVars, chanVars
  <2>1. ASSUME NEW p \in Pids, Spawn(p, FALSE, mon) PROVE Going'
    <3>1. Life  BY <2>1, <1>a, <1>i, SpawnLives DEF Life, TriesNew, InTrial, NoRun
    <3>2. Adopts /\ Running' /\ DownBlank'  BY DEF Adopts, NoRun, Running, DownBlank, Going, SupUp
    <3>3. TrialApart'  BY <1>a, <1>b, <1>j, <1>k DEF TrialApart, NoRun, Going
    <3> QED  BY <3>1, <3>2, <3>3, <1>e
  <2>2. ASSUME UNCHANGED <<procVars, chanVars, reg, mon, activePID>> PROVE Going'
    <3>1. Life  BY <2>2, <1>g, <1>h, <1>i DEF Life, TriesNew, InTrial, NoRun
    <3>2. Adopts /\ Running' /\ DownBlank'  BY DEF Adopts, NoRun, Running, DownBlank, Going, SupUp
    <3>3. TrialApart'  BY <1>a, <1>b, <1>j, <1>k DEF TrialApart, NoRun, Going
    <3> QED  BY <3>1, <3>2, <3>3, <1>e
  <2> QED  BY <2>1, <2>2
<1>4. ASSUME NEW p \in Pids, AdoptClaim(p) PROVE Going'
  <2> USE <1>4 DEF AdoptClaim, procVars
  <2>1. TellsNobody  BY <1>a, ToldSent
  <2>2. Life  BY <2>1, <1>g, <1>i DEF Life, TriesNew, InTrial, NoRun
  <2>3. Adopts /\ Running' /\ DownBlank'  BY DEF Adopts, NoRun, Running, DownBlank, Going, SupUp
  <2>4. TrialApart'  BY <1>a, <1>b, <1>j, <1>k DEF TrialApart, NoRun, Going
  <2> QED  BY <2>2, <2>3, <2>4, <1>e
<1>5. ASSUME AdoptWaited PROVE Going'
  <2> USE <1>5 DEF AdoptWaited, procVars, chanVars
  <2>1. run' = [run EXCEPT !.pc = "spawn"] /\ run'.pc = "spawn" /\ run'.cands = run.cands
    BY <1>a DEF TypeOK, GoroutineTypes
  <2>2. Life  BY <2>1, <1>g, <1>h, <1>i DEF Life, TriesNew, InTrial
  <2>3. Adopts /\ Running' /\ DownBlank'  BY <2>1 DEF Adopts, Running, DownBlank, Going, SupUp
  <2>4. TrialApart'  BY <2>1, <1>a, <1>b, <1>j, <1>k DEF TrialApart, Going
  <2> QED  BY <2>2, <2>3, <2>4, <1>e
<1>6. ASSUME AdoptSpawn PROVE Going'
  <2> USE <1>6 DEF AdoptSpawn, procVars, chanVars
  <2>1. ASSUME NEW p \in Pids, Spawn(p, TRUE, mon), run' = [run EXCEPT !.pc = "ready", !.new = p]
        PROVE  Going'
    <3>1. run'.pc = "ready" /\ run'.new = p /\ run'.cands = run.cands
      BY <2>1, <1>a DEF TypeOK, GoroutineTypes
    <3>2. ~Started(p) /\ proc[p] = "none" /\ proc'[p] = "booting" /\ tko'[p] /\ activePID' = activePID
      BY <2>1, <1>a, SpawnLives DEF Started
    <3>3. Life  BY <2>1, <3>1, <3>2, <1>a, <1>i, SpawnLives, ZenonT(30) DEF Life, TriesNew, InTrial
    <3>4. Adopts /\ Running' /\ DownBlank'  BY <3>1 DEF Adopts, Running, DownBlank, Going, SupUp
    <3>5. p # activePID
      BY <3>2, <1>a, NoneNotPid DEF SaidStarted
    <3>6. upg.pc # "idle" => p # upg.old
      BY <3>2, <1>a, NoneNotPid DEF Going, TrialApart
    <3>7. upg.pc = "ready" => p # upg.new
      BY <3>2 DEF Going, Trials, InTrial
    <3>8. TrialApart'
      BY <3>1, <3>2, <3>5, <3>6, <3>7, <1>a, <1>b, <1>j, <1>k DEF TrialApart, Going, TypeOK, GoroutineTypes
    <3> QED  BY <3>3, <3>4, <3>8, <1>e
  <2>2. ASSUME UNCHANGED <<procVars, chanVars, mon, activePID>>, run' = [NoRun EXCEPT !.pc = "first"]
        PROVE  Going'
    <3>1. run'.pc = "first" /\ run'.cands = {}  BY <2>2 DEF NoRun
    <3>2. Life  BY <2>2, <3>1, <1>g, <1>h, <1>i DEF Life, TriesNew, InTrial
    <3>3. Adopts /\ Running' /\ DownBlank'  BY <3>1 DEF Adopts, Running, DownBlank, Going, SupUp
    <3>4. TrialApart'  BY <3>1, <1>a, <1>b, <1>j, <1>k DEF TrialApart, Going
    <3> QED  BY <3>2, <3>3, <3>4, <1>e
  <2> QED  BY <2>1, <2>2
<1>7. ASSUME AdoptReady PROVE Going'
  <2> USE <1>7 DEF AdoptReady, procVars, chanVars
  <2>1. run'.pc = "wait2" /\ run'.cands = run.cands /\ run'.new = run.new
    BY <1>a DEF TypeOK, GoroutineTypes
  <2>2. run.new \in Pids /\ proc[run.new] = "serving" /\ ~Told(run.new) /\ run.new \notin run.cands
    BY <1>a DEF IsReady, ReadySaid, Going, TrialApart, Trials, InTrial, RunApart
  <2>3. Life  BY <2>1, <1>g, <1>h, <1>i DEF Life, TriesNew, InTrial
  <2>4. Running' /\ DownBlank'  BY DEF Running, DownBlank, Going, SupUp
  <2>5. TrialApart'  BY <2>1, <1>a, <1>b, <1>j, <1>k DEF TrialApart, Going
  <2>6. KeptAdopt'
    <3>1. ~InTrial(run.new)'  BY <2>1 DEF InTrial, Going, TrialApart
    <3>2. Keeper(run.new)'  BY <2>2, <3>1 DEF Keeper, Told
    <3> QED  BY <2>1, <2>2, <3>2 DEF KeptAdopt
  <2> QED  BY <2>3, <2>4, <2>5, <2>6, <1>a, <1>b, LifeFrame DEF Life, Going
<1>8. ASSUME AdoptReadyTimeout PROVE Going'
  <2> USE <1>8 DEF AdoptReadyTimeout, procVars
  <2>1. run'.pc = "none" /\ run'.cands = {}  BY DEF NoRun
  <2>2. Adopts /\ Running' /\ DownBlank'  BY <2>1 DEF Adopts, Running, DownBlank, Going, SupUp
  <2>3. TrialApart'  BY <2>1, <1>a, <1>b, <1>j, <1>k DEF TrialApart, Going
  <2>4. TriesNew  BY <2>1 DEF TriesNew, InTrial
  <2> PICK p \in Pids : p = run.new  BY DEF Going, TrialApart
  <2>5. InTrial(p) /\ ~InTrial(p)'
    BY <2>1 DEF InTrial, Going, TrialApart
  <2>6. CASE Alive(run.new)
    BY <2>2, <2>3, <2>4, <2>5, <2>6, <1>a, <1>e, <1>i, DieLives DEF Life, Lives
  <2>7. CASE ~Alive(run.new)
    BY <2>2, <2>3, <2>4, <2>7, <1>e, <1>g, <1>h, <1>i DEF Life
  <2> QED  BY <2>6, <2>7
<1>9. ASSUME AdoptDrain PROVE Going'
  <2> USE <1>9 DEF AdoptDrain, procVars
  <2> DEFINE confirmed == {p \in run.cands : reg[p] # "none" /\ link[p] = "up"}
  <2>1. run'.pc = "gone" /\ run'.cands \subseteq run.cands /\ toW' = Sent(confirmed, "DRAIN")
    BY <1>a DEF TypeOK, GoroutineTypes
  <2> HIDE <1>9 DEF confirmed
  <2>2. \A q \in Pids : q \notin run.cands => toW'[q] = toW[q]
    BY <2>1 DEF Sent, confirmed
  <2>3. \A q \in Pids : ~Alive(q) => toW'[q] = toW[q]
    BY <2>1 DEF Sent
  <2>4. \A q \in Pids : q \notin run.cands \/ ~Alive(q) => (Told(q)' <=> Told(q))
    BY <2>2, <2>3 DEF Told
  <2>5. UNCHANGED <<proc, said, upg, sup, activePID>> /\ run.pc = "wait2"  BY <1>9
  <2>6. SaidServes'  BY <2>5 DEF Going, SaidServes
  <2>7. Unborn'  BY <2>4, <2>5 DEF Going, Unborn, Alive
  <2>8. Running' /\ DownBlank'  BY <1>9 DEF Going, Running, DownBlank, SupUp
  <2>9. TrialApart'  BY <2>1, <2>5, <1>a, <1>b, <1>j, <1>k DEF TrialApart, Going
  <2>10. \A q \in Pids : InTrial(q)' => InTrial(q) /\ q \notin run.cands
    BY <2>1, <2>5 DEF InTrial, Going, TrialApart
  <2>11. Trials'  BY <2>4, <2>5, <2>10 DEF Going, Trials
  <2>12. \E q \in Pids : Keeper(q)'
    <3>1. PICK q \in Pids : Keeper(q) /\ q \notin run.cands  BY <2>5 DEF Going, KeptAdopt
    <3>2. Keeper(q)'  BY <2>4, <2>5, <2>10, <3>1 DEF Keeper
    <3> QED  BY <3>2
  <2> QED  BY <2>1, <2>6, <2>7, <2>8, <2>9, <2>11, <2>12 DEF Going, Kept, KeptAdopt
<1>10. ASSUME AdoptGone PROVE Going'
  <2> USE <1>10 DEF AdoptGone, procVars, chanVars
  <2>1. run'.pc = "activate" /\ run'.cands = run.cands  BY <1>a DEF TypeOK, GoroutineTypes
  <2>2. Life  BY <2>1, <1>g, <1>h, <1>i DEF Life, TriesNew, InTrial
  <2>3. Adopts /\ Running' /\ DownBlank'  BY <2>1 DEF Adopts, Running, DownBlank, Going, SupUp
  <2>4. TrialApart'  BY <2>1, <1>a, <1>b, <1>j, <1>k DEF TrialApart, Going
  <2> QED  BY <2>2, <2>3, <2>4, <1>e
<1>11. ASSUME AdoptActivate PROVE Going'
  <2> USE <1>11 DEF AdoptActivate, procVars
  <2>1. run'.pc = "none" /\ run'.cands = {}  BY DEF NoRun
  <2>2. TellsNobody  BY <1>a, <1>h, ToldSent
  <2>3. Life  BY <2>1, <2>2, <1>g, <1>i DEF Life, TriesNew, InTrial
  <2>4. Adopts /\ Running' /\ DownBlank'  BY <2>1 DEF Adopts, Running, DownBlank, Going, SupUp
  <2>5. TrialApart'  BY <2>1, <1>a, <1>b, <1>j, <1>k DEF TrialApart, Going
  <2> QED  BY <2>3, <2>4, <2>5, <1>e
<1>12. ASSUME UpgSpawn PROVE Going'
  <2> USE <1>12 DEF UpgSpawn, procVars, chanVars
  <2>1. ASSUME NEW p \in Pids, Spawn(p, TRUE, mon), upg' = [upg EXCEPT !.pc = "ready", !.new = p]
        PROVE  Going'
    <3>1. upg'.pc = "ready" /\ upg'.new = p /\ upg'.old = upg.old
      BY <2>1, <1>a DEF TypeOK, GoroutineTypes
    <3>2. ~Started(p) /\ proc[p] = "none" /\ proc'[p] = "booting" /\ tko'[p] /\ activePID' = activePID
      BY <2>1, <1>a, SpawnLives DEF Started
    <3>3. Life  BY <2>1, <3>1, <3>2, <1>a, <1>i, SpawnLives, ZenonT(30) DEF Life, TriesNew, InTrial
    <3>4. Adopts /\ Running' /\ DownBlank'  BY DEF Adopts, Running, DownBlank, Going, SupUp
    <3>5. p \notin run.cands  BY <3>2, <1>a DEF RunApart
    <3>6. run.pc = "ready" => p # run.new  BY <3>2 DEF Going, Trials, InTrial
    <3>7. TrialApart'
      BY <3>1, <3>2, <3>5, <3>6, <1>a, <1>b, <1>j, <1>k DEF TrialApart, Going, TypeOK, GoroutineTypes
    <3> QED  BY <3>3, <3>4, <3>7, <1>e
  <2>2. ASSUME UNCHANGED <<procVars, chanVars, reg, mon, activePID>>, upg' = NoUpgrade PROVE Going'
    <3>1. upg'.pc = "idle"  BY <2>2 DEF NoUpgrade
    <3>2. Life  BY <2>2, <3>1, <1>g, <1>h, <1>i DEF Life, TriesNew, InTrial
    <3>3. Adopts /\ Running' /\ DownBlank'  BY DEF Adopts, Running, DownBlank, Going, SupUp
    <3>4. TrialApart'  BY <2>2, <3>1, <1>a, <1>b, <1>j, <1>k DEF TrialApart, Going
    <3> QED  BY <3>2, <3>3, <3>4, <1>e
  <2> QED  BY <2>1, <2>2
<1>13. ASSUME UpgTimeout PROVE Going'
  <2> USE <1>13 DEF UpgTimeout, procVars
  <2>1. upg'.pc = "rollback" /\ upg'.old = upg.old  BY <1>a DEF TypeOK, GoroutineTypes
  <2>2. Adopts /\ Running' /\ DownBlank'  BY DEF Adopts, Running, DownBlank, Going, SupUp
  <2>3. TrialApart'  BY <2>1, <1>a, <1>b, <1>j, <1>k DEF TrialApart, Going, TypeOK, GoroutineTypes
  <2>4. TriesNew  BY <2>1 DEF TriesNew, InTrial
  <2> PICK p \in Pids : p = upg.new  BY DEF Going, TrialApart
  <2>5. InTrial(p) /\ ~InTrial(p)'
    BY <2>1 DEF InTrial, Going, TrialApart
  <2>6. CASE reg[upg.new] # "none" /\ Alive(upg.new)
    BY <2>2, <2>3, <2>4, <2>5, <2>6, <1>a, <1>e, <1>i, DieLives DEF Life, Lives
  <2>7. CASE ~(reg[upg.new] # "none" /\ Alive(upg.new))
    BY <2>2, <2>3, <2>4, <2>7, <1>e, <1>g, <1>h, <1>i DEF Life
  <2> QED  BY <2>6, <2>7
<1>14. ASSUME UpgSwitch PROVE Going'
  <2> USE <1>14 DEF UpgSwitch, procVars
  <2> DEFINE old == {p \in Pids : p = upg.old /\ reg[p] # "none"}
  <2>1. upg'.pc \in {"gone", "activate"} /\ upg'.new = upg.new /\ upg'.old = upg.old
        /\ toW' = Sent(old, "DRAIN")
    BY <1>a DEF TypeOK, GoroutineTypes
  <2>2. UNCHANGED <<proc, said, run,
                    sup>> /\ upg.pc = "ready" /\ activePID' = upg.new /\ upg.new \in ready
        /\ SupUp
    BY DEF IsReady
  <2> HIDE <1>14 DEF old
  <2>3. \A q \in Pids : q # upg.old \/ ~Alive(q) => toW'[q] = toW[q]
    BY <2>1 DEF Sent, old
  <2>4. \A q \in Pids : q # upg.old \/ ~Alive(q) => (Told(q)' <=> Told(q))
    BY <2>3 DEF Told
  <2>5. SaidServes'  BY <2>2 DEF Going, SaidServes
  <2>6. Unborn'  BY <2>2, <2>4 DEF Going, Unborn, Alive
  <2>7. Running' /\ DownBlank'  BY <2>2 DEF Going, Running, DownBlank, SupUp
  <2>8. TrialApart'  BY <2>1, <2>2, <1>a, <1>b, <1>j, <1>k DEF TrialApart, Going
  <2>9. \A q \in Pids : InTrial(q)' => InTrial(q) /\ q # upg.old
    BY <2>1, <2>2 DEF InTrial, Going, TrialApart
  <2>10. Trials'  BY <2>2, <2>4, <2>9 DEF Going, Trials
  <2>11. \E p \in Pids : Keeper(p)' /\ p \notin run.cands
    <3>1. PICK p \in Pids : p = upg.new  BY <2>2 DEF Going, TrialApart
    <3>2. p # upg.old /\ p \notin run.cands
      BY <2>2, <3>1, <1>a DEF Going, TrialApart, UpgApart
    <3>3. proc[p] = "serving" /\ ~Told(p)
      BY <2>2, <3>1, <1>a DEF Going, Trials, InTrial, ReadySaid
    <3>4. ~InTrial(p)'  BY <2>1, <2>2, <3>1 DEF InTrial, Going, TrialApart
    <3> QED  BY <2>2, <2>4, <3>2, <3>3, <3>4 DEF Keeper
  <2> QED  BY <2>2, <2>5, <2>6, <2>7, <2>8, <2>10, <2>11 DEF Going, Kept, KeptAdopt
<1>15. ASSUME UpgOldGone PROVE Going'
  <2> USE <1>15 DEF UpgOldGone, procVars, chanVars
  <2>1. upg'.pc = "activate" /\ upg'.old = upg.old  BY <1>a DEF TypeOK, GoroutineTypes
  <2>2. Life  BY <2>1, <1>g, <1>h, <1>i DEF Life, TriesNew, InTrial
  <2>3. Adopts /\ Running' /\ DownBlank'  BY DEF Adopts, Running, DownBlank, Going, SupUp
  <2>4. TrialApart'  BY <2>1, <1>a, <1>b, <1>j, <1>k DEF TrialApart, Going, TypeOK, GoroutineTypes
  <2> QED  BY <2>2, <2>3, <2>4, <1>e
<1>16. ASSUME UpgActivate PROVE Going'
  <2> USE <1>16 DEF UpgActivate, procVars
  <2>1. upg'.pc = "handoff" /\ upg'.old = upg.old  BY <1>a DEF TypeOK, GoroutineTypes
  <2>2. TellsNobody  BY <1>a, <1>h, ToldSent
  <2>3. Life  BY <2>1, <2>2, <1>g, <1>i DEF Life, TriesNew, InTrial
  <2>4. Adopts /\ Running' /\ DownBlank'  BY DEF Adopts, Running, DownBlank, Going, SupUp
  <2>5. TrialApart'  BY <2>1, <1>a, <1>b, <1>j, <1>k DEF TrialApart, Going, TypeOK, GoroutineTypes
  <2> QED  BY <2>3, <2>4, <2>5, <1>e
<1>17. ASSUME HandoffSkip PROVE Going'
  <2> USE <1>17 DEF HandoffSkip, procVars, chanVars
  <2>1. upg'.pc = "idle"  BY DEF NoUpgrade
  <2>2. Life  BY <2>1, <1>g, <1>h, <1>i DEF Life, TriesNew, InTrial
  <2>3. Adopts /\ Running' /\ DownBlank'  BY DEF Adopts, Running, DownBlank, Going, SupUp
  <2>4. TrialApart'  BY <2>1, <1>a, <1>b, <1>j, <1>k DEF TrialApart, Going
  <2> QED  BY <2>2, <2>3, <2>4, <1>e
<1>18. ASSUME LoseSupervisor, sup' = "down", UNCHANGED <<proc, said>> PROVE Going'
  <2> USE <1>18 DEF LoseSupervisor
  <2>1. upg'.pc = "idle" /\ run'.pc = "none"  BY DEF NoUpgrade, NoRun
  <2>2. Life  BY <2>1, <1>g, <1>h, <1>i DEF Life, TriesNew, InTrial
  <2>3. Adopts /\ Running' /\ DownBlank'  BY <2>1 DEF Adopts, Running, DownBlank, Going, SupUp
  <2>4. TrialApart'  BY <2>1, <1>a, <1>b, <1>j, <1>k DEF TrialApart, Going
  <2> QED  BY <2>2, <2>3, <2>4, <1>e
<1>19. ASSUME BeginUpgrade, SupUp, UNCHANGED <<proc, toW, said, sup, run, activePID>> PROVE Going'
  <2>1. CASE upg' = upg  BY <2>1, <1>19, <1>1
  <2>2. CASE upg' = [pc |-> "spawn", old |-> activePID, new |-> None] /\ upg.pc = "idle"
    <3> USE <1>19, <2>2
    <3>1. upg'.pc = "spawn" /\ upg'.old = activePID  OBVIOUS
    <3>2. Life  BY <3>1, <1>g, <1>h, <1>i DEF Life, TriesNew, InTrial
    <3>3. Adopts /\ Running' /\ DownBlank'  BY DEF Adopts, Running, DownBlank, Going, SupUp
    <3>4. TrialApart'  BY <3>1, <1>a, <1>b, <1>j, <1>k DEF TrialApart, Going, SaidStarted, TypeOK, MemTypes
    <3> QED  BY <3>2, <3>3, <3>4, <1>e
  <2> QED  BY <1>19, <2>1, <2>2 DEF BeginUpgrade
<1>20. ASSUME NEW p \in Pids, HandleCrash(p) PROVE Going'
  <2> USE <1>20 DEF HandleCrash, procVars, chanVars
  <2>1. Life  BY <1>g, <1>h, <1>i DEF Life, TriesNew, InTrial
  <2>2. Adopts /\ Running' /\ DownBlank'  BY DEF Adopts, Running, DownBlank, Going, SupUp
  <2>3. TrialApart'  BY <1>a, <1>b, <1>j, <1>k, NoneNotPid DEF TrialApart, Going, TypeOK, GoroutineTypes
  <2> QED  BY <2>1, <2>2, <2>3, <1>e
<1>21. ASSUME NEW p \in Pids, Respawn(p) PROVE Going'
  <2> USE <1>21 DEF Respawn, procVars, chanVars
  <2>1. ASSUME NEW q \in Pids, Spawn(q, FALSE, [mon EXCEPT ![p] = "none"]) PROVE Going'
    <3>1. Life  BY <2>1, <1>a, <1>i, SpawnLives DEF Life, TriesNew, InTrial
    <3>2. Adopts /\ Running' /\ DownBlank'  BY DEF Adopts, Running, DownBlank, Going, SupUp
    <3>3. activePID' = activePID  BY <2>1, <1>a, SpawnLives
    <3>5. TrialApart'  BY <3>3, <1>a, <1>b, <1>j, <1>k DEF TrialApart, Going, TypeOK, GoroutineTypes
    <3> QED  BY <3>1, <3>2, <3>5, <1>e
  <2>2. ASSUME UNCHANGED <<procVars, chanVars, reg, activePID>> PROVE Going'  BY <2>2, <1>1
  <2> QED  BY <2>1, <2>2
<1>22. ASSUME NEW p \in Pids, UNCHANGED <<upg, run, activePID, sup, said>>, TellsNobody, Lives(p),
              \A q \in Pids \ {p} : Lives(q)
       PROVE  Going'
  BY <1>22, <1>e, <1>f, <1>i DEF Life
<1>23. ASSUME NEW p \in Pids, Probe(p) PROVE Going'
  BY <1>23, <1>22, <1>h, <1>a DEF Probe, memVars, chanVars, Lives, TypeOK, ProcTypes
<1>24. ASSUME NEW p \in Pids, ProbeFail(p) PROVE Going'
  BY <1>24, <1>22, <1>a, DieLives DEF ProbeFail, memVars, Lives
<1>25. ASSUME NEW p \in Pids, Boot(p) PROVE Going'
  BY <1>25, <1>22, <1>h, <1>a DEF Boot, memVars, chanVars, Lives, TypeOK, ProcTypes
<1>26. ASSUME NEW p \in Pids, SendReady(p) PROVE Going'
  <2> USE <1>26 DEF SendReady, memVars, procVars
  <2>1. proc[p] = "serving"  BY <1>c DEF EndsOr, Spend
  <2>2. SpeaksUp  BY <2>1 DEF SpeaksUp
  <2> QED  BY <2>2, <1>e, <1>f, <1>g, <1>h DEF Life
<1>27. ASSUME NEW p \in Pids, OnDrain(p) PROVE Going'
  <2> USE <1>27 DEF OnDrain, memVars
  <2>1. Told(p)
    <3>1. toW[p] \in Seq(ToWMsgs)  BY <1>a DEF TypeOK, ChanTypes
    <3> QED  BY <3>1, HoldsQueue DEF Told
  <2>2. TellsNobody  BY <1>a, ToldShrinks DEF TypeOK, ChanTypes
  <2> QED  BY <2>1, <2>2, <1>22, <1>a DEF Lives, TypeOK, ProcTypes
<1>28. ASSUME NEW p \in Pids, OnActivate(p) PROVE Going'
  <2> USE <1>28 DEF OnActivate, memVars
  <2>1. TellsNobody
    <3>1. toW[p] \in Seq(ToWMsgs) /\ toW' = [toW EXCEPT ![p] = Tail(@)]  BY <1>a DEF TypeOK, ChanTypes
    <3>2. \A x : Holds(Tail(toW[p]), x) => Holds(toW[p], x)  BY <3>1, HoldsQueue
    <3> QED  BY <3>1, <3>2, <1>a DEF TellsNobody, Told, TypeOK, ChanTypes
  <2> QED  BY <2>1, <1>22, <1>g
<1>29. ASSUME NEW p \in Pids, Exit(p) PROVE Going'
  BY <1>29, <1>22, <1>a, DieLives DEF Exit, memVars, Lives
<1>30. ASSUME NEW p \in Pids, BootFail(p) PROVE Going'
  BY <1>30, <1>22, <1>a, DieLives DEF BootFail, memVars, Lives
<1>31. ASSUME NEW p \in Pids, Cut(p) PROVE Going'
  <2> USE <1>31 DEF Cut, memVars, procVars
  <2>1. TellsNobody  BY <1>a, ToldShrinks DEF TypeOK, ChanTypes
  <2> QED  BY <2>1, <1>22, <1>g
<1>32. ~Shutdown /\ ~ShutdownDone /\ ~ServiceStart /\ \A p \in Pids : ~Crash(p)
  <2>1. ~Shutdown  BY <1>a, <1>b DEF Shutdown, Spend, Unstopped, TypeOK
  <2>2. ~ShutdownDone /\ ~ServiceStart  BY DEF ShutdownDone, ServiceStart, Going, Running
  <2>3. \A p \in Pids : ~Crash(p)  BY <1>c DEF Crash, Spend
  <2> QED  BY <2>1, <2>2, <2>3
<1>33. ASSUME HandoffExec \/ SupCrash PROVE Going'
  BY <1>33, <1>18 DEF HandoffExec, SupCrash, procVars
<1>34. ASSUME OnTriggerUpgrade \/ \E p \in Pids : OnRequestUpgrade(p) PROVE Going'
  BY <1>34, <1>19 DEF OnTriggerUpgrade, OnRequestUpgrade, procVars, chanVars
<1>35. ASSUME UpgRollback PROVE Going'
  <2> USE <1>35 DEF UpgRollback, procVars, chanVars
  <2>1. upg'.pc = "idle"  BY DEF NoUpgrade
  <2>2. Life  BY <2>1, <1>g, <1>h, <1>i DEF Life, TriesNew, InTrial
  <2>3. Adopts /\ Running' /\ DownBlank'  BY DEF Adopts, Running, DownBlank, Going, SupUp
  <2>4. TrialApart'  BY <2>1, <1>a, <1>b, <1>j, <1>k DEF TrialApart, Going
  <2> QED  BY <2>2, <2>3, <2>4, <1>e
<1>36. ASSUME NEW p \in Pids, Register(p) PROVE Going'
  <2> USE <1>36 DEF Register, procVars
  <2>1. Life  BY <1>g, <1>h, <1>i DEF Life, TriesNew, InTrial
  <2>2. Adopts /\ Running' /\ DownBlank'  BY DEF Adopts, Running, DownBlank, Going, SupUp
  <2>3. activePID' = activePID \/ (activePID' = p /\ ~tko[p])  BY DEF NewActive
  <2>4. TrialApart'  BY <2>3, <1>a, <1>b, <1>j, <1>k DEF TrialApart, Going, TypeOK, GoroutineTypes
  <2> QED  BY <2>1, <2>2, <2>4, <1>e
<1>37. \A p \in Pids : ~RejectHello(p)  BY <1>a, NoReject
<1> QED
  BY <1>1, <1>2, <1>3, <1>4, <1>5, <1>6, <1>7, <1>8, <1>9, <1>10, <1>11, <1>12, <1>13, <1>14, <1>15,
     <1>16, <1>17, <1>20, <1>21, <1>23, <1>24, <1>25, <1>26, <1>27, <1>28, <1>29, <1>30, <1>31, <1>32,
     <1>33, <1>34, <1>35, <1>36, <1>37 DEF Next, RunStep, UpgStep, ConnStep, MonStep, WorkStep, EnvStep, vars, procVars,
     chanVars, memVars, HandleHello, OnReady, ConnLost, Reap, ReapAdopted, PollStops, CrashRollback,
     RespawnCheck, Dial, CrashExpires, ProbationExpires, Install

(* At the start. *)
LEMMA ServeInit == Init => ServeInv
<1> SUFFICES ASSUME Init PROVE ServeInv  OBVIOUS
<1>1. DrainInv  BY DrainInit
<1>2. LeftBound
  <2>1. left = Budget /\ \A e \in Events : Budget[e] \in Nat  BY DEF Init
  <2> QED  BY <2>1 DEF LeftBound
<1>3. \A p \in Pids : ~Told(p) /\ ~InTrial(p)  BY DEF Init, Told, Holds, InTrial, NoUpgrade, NoRun
<1>4. Running /\ SaidServes /\ Unborn /\ DownBlank /\ Trials
  BY <1>3 DEF Init, Running, SaidServes, Unborn, DownBlank, Trials
<1>5. TrialApart /\ KeptAdopt  BY DEF Init, TrialApart, KeptAdopt, NoUpgrade, NoRun
<1>6. Kept  BY <1>3 DEF Init, Kept
<1> QED  BY <1>1, <1>2, <1>4, <1>5, <1>6 DEF ServeInv, Going

(* Every step keeps ServeInv. *)
LEMMA ServeStep ==
  ASSUME OneProtocol, Budget["crash"] = 0, Budget["earlyReady"] = 0
  PROVE  ServeInv /\ [Next]_vars => ServeInv'
<1> SUFFICES ASSUME ServeInv, [Next]_vars PROVE ServeInv'  OBVIOUS
<1>1. DrainInv' /\ TypeOK /\ TypeOK'  BY DrainStep DEF ServeInv, DrainInv
<1>2. \A e \in Events : left'[e] <= left[e] /\ left[e] \in Nat /\ left'[e] \in Nat
  BY <1>1, LeftStep DEF TypeOK
<1>3. LeftBound'  BY <1>2 DEF ServeInv, LeftBound
<1>4. Unstopped' => Unstopped
  <2>1. "stop" \in Events  BY DEF Events
  <2>2. left["stop"] <= Budget["stop"] /\ Budget["stop"] \in Nat  BY <2>1 DEF ServeInv, LeftBound
  <2>3. left'["stop"] <= left["stop"] /\ left["stop"] \in Nat /\ left'["stop"] \in Nat  BY <1>2, <2>1
  <2> QED  BY <2>2, <2>3 DEF Unstopped
<1> QED  BY <1>1, <1>3, <1>4, GoingStep DEF ServeInv

(* A rolling upgrade, a rolling restart, a failed one included, and the      *)
(* adoption after a crash of the Supervisor never leave the service without *)
(* a Worker that serves, however often they happen and however the timeouts  *)
(* fall and messages are lost, as long as no Worker that serves crashes,     *)
(* READY means what it says and all versions speak one protocol.             *)
THEOREM NeverInterrupted ==
  ASSUME OneProtocol, Budget["crash"] = 0, Budget["earlyReady"] = 0
  PROVE  Spec => []ZeroInterruption
<1>1. Init => ServeInv  BY ServeInit
<1>2. ServeInv /\ [Next]_vars => ServeInv'  BY ServeStep
<1>3. ServeInv => ZeroInterruption
  BY DEF ServeInv, Unstopped, Going, Kept, Keeper, ZeroInterruption
<1> QED  BY <1>1, <1>2, <1>3, PTL DEF Spec

-----------------------------------------------------------------------------
(* The rolling upgrade *)

(* What the theorems leave out: the events under each of which one of them  *)
(* is false, versions that do not understand each other, and an             *)
(* installation together with a rolling restart, which can begin an upgrade *)
(* while the new Supervisor adopts.  Workers that fail to start, upgrades   *)
(* that time out, rollbacks and spawns that fail, and installations without *)
(* a backup may happen any number of times.                                 *)
CalmEvents == {"crash", "cut", "supCrash", "late", "earlyReady", "goneTimeout", "stop", "overtake"}
CalmBudget == /\ \A e \in CalmEvents : Budget[e] = 0
              /\ Budget["install"] = 0 \/ Budget["trigger"] = 0
              /\ OneProtocol /\ Offers \subseteq {Latest}

(* The versions that can be met. *)
Known == IF Budget["trigger"] = 0 THEN {1, Latest} ELSE {1}
KnownVersions == /\ bin \in Known /\ supVer \in Known /\ backups \in Seq(Known)
                 /\ \A p \in Pids : ver[p] \in Known

(* Who is alive, who asks for an upgrade, and whose monitor restarts a Worker. *)
NoneAlive == \A q \in Pids : ~Alive(q)
Only(p)   == \A q \in Pids : Alive(q) => q = p
NoAsk     == \A p \in Pids : ~Holds(toS[p], "REQUEST_UPGRADE")
Healing(p) == mon[p] \in {"crash", "rollback", "backoff", "spawn"}
Coming(p)  == Healing(p) \/ (mon[p] = "new" /\ ~tko[p])

(* A process that is not there, or not any more, has no messages and no     *)
(* singletons.                                                              *)
Ghosts == \A p \in Pids :
  /\ link[p] # "stray" /\ (proc[p] = "none" => link[p] = "off")
  /\ ~Alive(p) => toW[p] = <<>>
  /\ singles[p] => proc[p] \in {"serving", "draining"}
  /\ ~Holds(toW[p], "SHUTDOWN")

(* Every Worker can return: it has the token of the Supervisor, or the one  *)
(* that the state file hands to the next Supervisor.                        *)
TokensAgree ==
  /\ sup = "up" => token # 0
  /\ \A p \in Pids : Alive(p) => tok[p] = token /\ (sup = "down" => stFile.token = token /\ token # 0)

(* The Worker a new Supervisor finds. *)
Heir(n) == proc[n] = "serving" /\ ver[n] = Latest /\ Latest # 1 /\ Only(n) /\ ~Told(n)

(* Between two Supervisors: nothing has started yet, or the Worker of the   *)
(* upgrade serves alone and the state file names it.                        *)
HandedOver == sup = "down" =>
  /\ upg = NoUpgrade /\ run = NoRun /\ activePID = None /\ NoAsk
  /\ \A p \in Pids : mon[p] = "none" /\ link[p] = "off"
  /\ \/ bin = 1 /\ \A p \in Pids : proc[p] = "none"
     \/ bin = Latest /\ \E n \in Pids : Heir(n) /\ n \in stFile.pids

(* Run starts a Worker where there is none, or adopts the one left to it.   *)
Starts ==
  /\ run.pc \in {"none", "first", "wait1"}
  /\ run.pc # "none" => /\ activePID = None /\ upg.pc = "idle" /\ NoAsk
                        /\ \A p \in Pids : mon[p] = "none"
  /\ run.pc = "first" => \A p \in Pids : proc[p] = "none"
  /\ run.pc = "wait1" => \E n \in Pids : Heir(n) /\ run.cands = {n} /\ supVer = Latest

(* After the handoff nothing is left to upgrade. *)
Settles == sup = "up" /\ supVer # 1 =>
  /\ Budget["trigger"] = 0 /\ upg.pc = "idle" /\ NoAsk
  /\ \E n \in Pids : Heir(n)

(* The Supervisor knows every Worker or is about to register it, and hears  *)
(* every one that serves.                                                   *)
Registered == sup = "up" => \A p \in Pids : Alive(p) => reg[p] # "none" \/ mon[p] = "new"
Linked     == sup = "up" /\ run.pc # "wait1" => \A p \in Pids : proc[p] = "serving" => link[p] = "up"

(* The Workers there are: the active one, or the one that will be, and, in  *)
(* an upgrade, the other one.                                               *)
Members == sup = "up" /\ run.pc = "none" => \A p \in Pids : Alive(p) =>
  \/ p = activePID
  \/ mon[p] = "new" /\ ~tko[p]
  \/ upg.pc = "ready" /\ p = upg.new
  \/ upg.pc = "gone" /\ p = upg.old

(* A Worker is restarted only where none is left and no upgrade is on.      *)
Heals == \A p \in Pids : Healing(p) =>
  /\ activePID = (IF mon[p] = "crash" THEN p ELSE None)
  /\ NoneAlive /\ upg.pc = "idle" /\ NoAsk
  /\ \A q \in Pids : Coming(q) => q = p

(* A Worker that spawn has still to register has not dialled in; it is the  *)
(* new one of an upgrade, or alone.                                         *)
Newborn == \A p \in Pids : mon[p] = "new" =>
  /\ proc[p] \in {"probing", "booting", "crashed"} /\ link[p] \in {"off", "dialed"}
  /\ tko[p] => upg.pc = "ready" /\ p = upg.new
  /\ ~tko[p] => /\ activePID = None /\ Only(p) /\ upg.pc = "idle" /\ NoAsk
                /\ \A q \in Pids : Coming(q) => q = p

(* An upgrade, asked for or under way, has a Worker that goes on serving.   *)
Asked == upg.pc # "idle" \/ ~NoAsk =>
  activePID \in Pids /\ proc[activePID] = "serving" /\ ~Told(activePID)

(* Where doUpgrade stands: the new Worker has no singletons and no message  *)
(* before ACTIVATE, which waits for the old one to have drained.            *)
Phases ==
  /\ upg.pc \in {"spawn", "ready"} => upg.old = activePID
  /\ upg.pc = "ready" => tko[upg.new]
  /\ upg.pc \in {"ready", "gone", "activate"} =>
       upg.new \in Pids /\ ~singles[upg.new] /\ toW[upg.new] = <<>>
  /\ upg.pc \in {"gone", "activate", "handoff"} => activePID = upg.new
  /\ upg.pc = "gone" => /\ upg.old \in Pids /\ upg.old # upg.new
                        /\ proc[upg.old] = "serving" => Holds(toW[upg.old], "DRAIN")
                        /\ proc[upg.old] \notin {"probing", "booting"}
  /\ upg.pc \in {"ready", "gone", "activate", "handoff"} => bin \in {ver[upg.new], Latest}

(* Only the old Worker of an upgrade is told to drain.                      *)
Drains == \A p \in Pids : Holds(toW[p], "DRAIN") \/ proc[p] = "draining" => upg.pc = "gone" /\ p = upg.old

Calm    == /\ KnownVersions /\ Ghosts /\ TokensAgree /\ HandedOver /\ Starts /\ Settles /\ Registered
           /\ Linked /\ Members /\ Heals /\ Newborn /\ Asked /\ Phases /\ Drains
CalmInv == ServeInv /\ Calm

-----------------------------------------------------------------------------
(* What CalmInv says of a Worker at each stage of its life. *)
LEMMA Basics ==
  ASSUME CalmInv, CalmBudget
  PROVE  /\ TypeOK /\ SaidServes /\ ReadySaid /\ SaidStarted /\ UpgApart /\ TrialApart /\ Trials
         /\ Going /\ Unstopped
         /\ sup \in {"down", "up"} /\ (SupUp <=> sup = "up")
         /\ \A e \in CalmEvents : left[e] = 0
         /\ left["install"] > 0 => Budget["trigger"] = 0
         /\ left["trigger"] > 0 => Budget["trigger"] # 0
<1>1. TypeOK /\ LeftBound /\ CalmEvents \subseteq Events
  BY DEF CalmInv, ServeInv, DrainInv, CalmEvents, Events
<1>2. \A e \in Events : left[e] \in Nat /\ left[e] <= Budget[e]  BY <1>1 DEF TypeOK, LeftBound
<1>3. \A e \in CalmEvents : left[e] = 0 /\ Budget[e] = 0  BY <1>1, <1>2 DEF CalmBudget
<1>4. Unstopped  BY <1>3 DEF Unstopped, CalmEvents
<1>5. Going  BY <1>4 DEF CalmInv, ServeInv
<1>6. sup \in {"down", "up"}  BY <1>1, <1>5 DEF TypeOK, MemTypes, Going, Running
<1>7. "install" \in Events /\ "trigger" \in Events  BY DEF Events
<1>8. /\ left["install"] > 0 => Budget["trigger"] = 0
      /\ left["trigger"] > 0 => Budget["trigger"] # 0
  BY <1>2, <1>7 DEF CalmBudget
<1> QED  BY <1>1, <1>3, <1>4, <1>5, <1>6, <1>8 DEF CalmInv, ServeInv, DrainInv, Going, SupUp

(* A Worker that has not served yet is alone, or the new one of an upgrade. *)
LEMMA Young ==
  ASSUME CalmInv, CalmBudget, NEW p \in Pids, proc[p] \in {"probing", "booting"}
  PROVE  /\ sup = "up" /\ run.pc = "none" /\ supVer = 1
         /\ \A q \in Pids : ~Healing(q)
         /\ \/ upg.pc = "idle" /\ NoAsk /\ activePID \in {p, None} /\ Only(p)
            \/ upg.pc = "ready" /\ p = upg.new /\ p # activePID
<1> USE DEF CalmInv, Calm
<1>1. Alive(p) /\ ~(\E n \in Pids : Heir(n))  BY DEF Alive, Heir, Only
<1>2. sup = "up"  BY <1>1, Basics DEF HandedOver
<1>3. run.pc = "none"  BY <1>1 DEF Starts
<1>4. supVer = 1  BY <1>1, <1>2 DEF Settles
<1>5. \A q \in Pids : ~Healing(q)  BY <1>1 DEF Heals, NoneAlive
<1>6. CASE p = activePID
  <2>1. upg.pc = "idle" /\ NoAsk  BY <1>6 DEF Asked
  <2>2. \A q \in Pids : ~(mon[q] = "new" /\ ~tko[q])  BY <1>6, NoneNotPid DEF Newborn
  <2>3. Only(p)  BY <1>2, <1>3, <1>6, <2>1, <2>2 DEF Members, Only
  <2> QED  BY <1>2, <1>3, <1>4, <1>5, <1>6, <2>1, <2>3
<1>7. CASE upg.pc = "ready" /\ p = upg.new
  BY <1>2, <1>3, <1>4, <1>5, <1>7, Basics DEF UpgApart, Phases
<1>8. ~(upg.pc = "gone" /\ p = upg.old)  BY DEF Phases
<1>9. CASE mon[p] = "new" /\ ~tko[p]
  BY <1>2, <1>3, <1>4, <1>5, <1>9 DEF Newborn
<1> QED  BY <1>1, <1>2, <1>3, <1>6, <1>7, <1>8, <1>9 DEF Members

(* Where an upgrade stands. *)
LEMMA Upgrading ==
  ASSUME CalmInv, CalmBudget, upg.pc # "idle"
  PROVE  /\ sup = "up" /\ run.pc = "none" /\ supVer = 1
         /\ \A q \in Pids : ~Healing(q)
         /\ activePID \in Pids /\ proc[activePID] = "serving" /\ ~Told(activePID) /\ Alive(activePID)
         /\ link[activePID] = "up" /\ reg[activePID] # "none"
         /\ \A q \in Pids : mon[q] = "new" => tko[q] /\ upg.pc = "ready" /\ q = upg.new
<1> USE DEF CalmInv, Calm
<1>1. activePID \in Pids /\ proc[activePID] = "serving" /\ ~Told(activePID)  BY DEF Asked
<1>2. sup = "up"  BY Basics DEF HandedOver, NoUpgrade
<1>3. run.pc = "none" /\ supVer = 1  BY <1>2 DEF Starts, Settles
<1>4. \A q \in Pids : mon[q] = "new" => tko[q] /\ upg.pc = "ready" /\ q = upg.new  BY DEF Newborn
<1>5. mon[activePID] # "new" /\ Alive(activePID)  BY <1>1 DEF Newborn, Alive
<1>6. reg[activePID] # "none" /\ link[activePID] = "up"
  BY <1>1, <1>2, <1>3, <1>5 DEF Registered, Linked
<1>7. \A q \in Pids : ~Healing(q)  BY DEF Heals
<1> QED  BY <1>1, <1>2, <1>3, <1>4, <1>5, <1>6, <1>7

(* Two Workers are alive only in an upgrade: its old one and its new one. *)
LEMMA TwoAlive ==
  ASSUME CalmInv, CalmBudget, NEW p \in Pids, NEW q \in Pids, Alive(p), Alive(q), p # q
  PROVE  /\ sup = "up" /\ run.pc = "none"
         /\ upg.pc \in {"ready", "gone"} /\ upg.old # upg.new /\ {p, q} = {upg.old, upg.new}
<1> USE DEF CalmInv, Calm
<1>1. ~(\E n \in Pids : Heir(n))  BY DEF Heir, Only
<1>2. sup = "up"  BY <1>1, Basics DEF HandedOver, Alive
<1>3. run.pc = "none"  BY <1>1 DEF Starts, Alive
<1>4. \A r \in {p, q} : ~(mon[r] = "new" /\ ~tko[r])  BY DEF Newborn, Only
<1> QED  BY <1>2, <1>3, <1>4, Basics DEF Members, Phases, UpgApart

(* The singletons run in one Worker. *)
LEMMA OneOwner == CalmInv /\ CalmBudget => SingletonExclusion
<1> SUFFICES ASSUME CalmInv, CalmBudget, NEW p \in Pids, NEW q \in Pids, singles[p], singles[q], p # q
             PROVE  FALSE
  BY DEF SingletonExclusion
<1>1. Alive(p) /\ Alive(q)  BY DEF CalmInv, Calm, Ghosts, Alive
<1>2. upg.pc \in {"ready", "gone"} /\ {p, q} = {upg.old, upg.new}  BY <1>1, TwoAlive
<1>3. ~singles[upg.new]  BY <1>2 DEF CalmInv, Calm, Phases
<1> QED  BY <1>2, <1>3

(* A new Supervisor finds the Worker that is left to it. *)
LEMMA Found == CalmInv /\ CalmBudget => NoStrayWorker
<1> SUFFICES ASSUME CalmInv, CalmBudget, sup \in {"down", "stopped"}, NEW p \in Pids, Alive(p)
             PROVE  p \in stFile.pids
  BY DEF NoStrayWorker
<1>1. sup = "down"  BY Basics
<1> QED  BY <1>1 DEF CalmInv, Calm, HandedOver, Heir, Only, Alive

(* A step of the Supervisor's bookkeeping. *)
LEMMA Bookkeeping ==
  ASSUME CalmInv, CalmBudget, TypeOK', sup = "up",
         UNCHANGED <<proc, ver, tko, tok, singles, toW, bin, backups, sup, supVer, token, upg, run,
                     activePID>>,
         \A p \in Pids : reg'[p] = "none" => reg[p] = "none" \/ ~Alive(p),
         \A p \in Pids : proc[p] = "serving" /\ link[p] = "up" => link'[p] = "up",
         \A p \in Pids : proc[p] = "none" => link'[p] = link[p],
         \A p \in Pids : link'[p] \in {link[p], "off", "dialed", "up"},
         \A p \in Pids : mon'[p] = mon[p] \/ mon'[p] = "none",
         \A p \in Pids : mon[p] = "new" => mon'[p] = "new" /\ link'[p] \in {link[p], "off", "dialed"},
         \A p \in Pids : Holds(toS'[p], "REQUEST_UPGRADE") => Holds(toS[p], "REQUEST_UPGRADE")
  PROVE  Calm'
<1> USE DEF CalmInv, Calm
<1>1. \A p \in Pids : /\ Alive(p)' <=> Alive(p)
                      /\ Told(p)' <=> Told(p)
                      /\ Heir(p)' <=> Heir(p)
                      /\ Healing(p)' => Healing(p) /\ mon'[p] = mon[p]
                      /\ Coming(p)' => Coming(p)
  BY DEF Alive, Told, Heir, Only, Healing, Coming
<1>2. NoAsk => NoAsk'  BY DEF NoAsk
<1>3. NoneAlive <=> NoneAlive'  BY <1>1 DEF NoneAlive
<1>4. KnownVersions' /\ TokensAgree' /\ HandedOver'  BY <1>1 DEF KnownVersions, TokensAgree, HandedOver
<1>5. Ghosts'  BY <1>1 DEF Ghosts
<1>6. Starts'  BY <1>1, <1>2 DEF Starts
<1>7. Settles'  BY <1>1, <1>2 DEF Settles
<1>8. Registered' /\ Linked' /\ Members'  BY <1>1 DEF Registered, Linked, Members
<1>9. Heals'  BY <1>1, <1>2, <1>3 DEF Heals
<1>10. Asked'  BY <1>1, <1>2, Basics DEF Asked
<1>11. Phases'  BY DEF Phases
<1>12. Drains'  BY DEF Drains
<1>13. Newborn'  BY <1>1, <1>2 DEF Newborn, Only
<1> QED  BY <1>4, <1>5, <1>6, <1>7, <1>8, <1>9, <1>10, <1>11, <1>12, <1>13

(* A Worker that has not served yet goes on, begins to serve or dies. *)
LEMMA YoungStep ==
  ASSUME CalmInv, CalmBudget, TypeOK',
         NEW p \in Pids, proc[p] \in {"probing", "booting"},
         NEW x \in {"booting", "serving", "crashed"}, proc' = [proc EXCEPT ![p] = x],
         x = "serving" => link[p] = "up",
         \A q \in Pids \ {p} : singles'[q] = singles[q] /\ toW'[q] = toW[q],
         singles'[p] => x = "serving" /\ ~tko[p],
         toW'[p] = IF x = "crashed" THEN <<>> ELSE toW[p],
         UNCHANGED <<ver, tko, tok, link, toS, bin, backups, stFile, sup, supVer, token, reg, mon, upg,
                     run, activePID>>
  PROVE  Calm'
<1> USE DEF CalmInv, Calm
<1>a. TypeOK /\ UpgApart  BY Basics
<1>0. /\ proc'[p] = x /\ \A q \in Pids \ {p} : proc'[q] = proc[q]
      /\ Alive(p) /\ p # None
  BY <1>a, NoneNotPid DEF TypeOK, ProcTypes, Alive
<1>1. /\ sup = "up" /\ run.pc = "none" /\ supVer = 1
      /\ \A q \in Pids : ~Healing(q)
      /\ \/ upg.pc = "idle" /\ NoAsk /\ activePID \in {p, None} /\ Only(p)
         \/ upg.pc = "ready" /\ p = upg.new /\ p # activePID
  BY Young
<1>2. \A q \in Pids : /\ Alive(q)' => Alive(q)
                      /\ toW'[q] = toW[q] \/ (toW'[q] = <<>> /\ q = p)
                      /\ \A m : Holds(toW'[q], m) => Holds(toW[q], m)
  BY <1>0 DEF Alive, Holds
<1>3. ~Holds(toW[p], "DRAIN")  BY <1>1 DEF Drains
<1>4. KnownVersions'  BY DEF KnownVersions
<1>5. Ghosts'
  <2> SUFFICES ASSUME NEW q \in Pids
               PROVE  /\ link'[q] # "stray" /\ (proc'[q] = "none" => link'[q] = "off")
                      /\ ~Alive(q)' => toW'[q] = <<>>
                      /\ singles'[q] => proc'[q] \in {"serving", "draining"}
                      /\ ~Holds(toW'[q], "SHUTDOWN")
    BY DEF Ghosts
  <2>1. CASE q = p  BY <1>0, <1>2, <2>1 DEF Ghosts, Alive
  <2>2. CASE q # p  BY <1>0, <1>2, <2>2 DEF Ghosts, Alive
  <2> QED  BY <2>1, <2>2
<1>6. TokensAgree' /\ HandedOver' /\ Starts' /\ Settles'
  BY <1>1, <1>2 DEF TokensAgree, HandedOver, Starts, Settles
<1>7. Registered' /\ Members'  BY <1>1, <1>2 DEF Registered, Members
<1>8. Linked'  BY <1>0, <1>1 DEF Linked
<1>9. Heals'  BY <1>1 DEF Heals, Healing
<1>10. Asked'
  <2>1. CASE upg.pc = "idle" /\ NoAsk  BY <2>1 DEF Asked, NoAsk
  <2>2. CASE upg.pc = "ready" /\ p # activePID
    BY <1>0, <1>2, <2>2 DEF Asked, Told
  <2> QED  BY <1>1, <2>1, <2>2
<1>11. Phases'
  <2>1. CASE upg.pc = "idle"  BY <2>1 DEF Phases
  <2>2. CASE upg.pc = "ready" /\ p = upg.new
    BY <1>0, <1>2, <2>2 DEF Phases
  <2> QED  BY <1>1, <2>1, <2>2
<1>12. Drains'  BY <1>0, <1>2 DEF Drains
<1>13. Newborn'
  <2>1. \A q \in Pids : mon[q] = "new" => proc'[q] \in {"probing", "booting", "crashed"}
    BY <1>0 DEF Newborn
  <2>2. NoAsk' <=> NoAsk  BY DEF NoAsk
  <2>3. \A q \in Pids : (Only(q) => Only(q)') /\ (Coming(q)' <=> Coming(q))
    BY <1>2 DEF Only, Coming, Healing
  <2> QED  BY <2>1, <2>2, <2>3 DEF Newborn
<1> QED  BY <1>4, <1>5, <1>6, <1>7, <1>8, <1>9, <1>10, <1>11, <1>12, <1>13

(* spawn of a Worker that is to be the active one, where nobody is alive. *)
LEMMA SpawnStep ==
  ASSUME CalmInv, CalmBudget, TypeOK', sup = "up", NoneAlive, activePID = None, upg.pc = "idle", NoAsk,
         NEW p \in Pids, NEW m, Spawn(p, FALSE, m),
         \A q \in Pids \ {p} : ~Healing(q)' /\ mon'[q] # "new",
         run'.pc = "none",
         UNCHANGED <<bin, backups, sup, supVer, token, upg>>
  PROVE  Calm'
<1> USE DEF CalmInv, Calm
<1>a. TypeOK /\ TypeOK' /\ TrialApart  BY Basics
<1>1. /\ proc[p] = "none" /\ proc'[p] = "probing" /\ \A q \in Pids \ {p} : proc'[q] = proc[q]
      /\ ver'[p] = bin /\ \A q \in Pids \ {p} : ver'[q] = ver[q] /\ tok'[q] = tok[q]
      /\ tok'[p] = token /\ ~tko'[p] /\ activePID' = None
      /\ UNCHANGED <<singles, toW, toS, link>>
  BY <1>a, SpawnFresh DEF Spawn, TypeOK, ProcTypes, MemTypes, chanVars, Started
<1>b. mon'[p] = "new"
  <2>1. DOMAIN mon' = Pids /\ mon' = [m EXCEPT ![p] = "new"]  BY <1>a DEF Spawn, TypeOK, GoroutineTypes
  <2> QED  BY <2>1
<1>c. \A q \in Pids : ~Healing(q)' /\ (Coming(q)' => q = p)  BY <1>b DEF Coming, Healing
<1>2. \A q \in Pids : Alive(q)' <=> q = p  BY <1>1 DEF NoneAlive, Alive
<1>3. supVer = 1  BY DEF Settles, NoneAlive, Heir, Alive
<1>4. KnownVersions'  BY <1>1 DEF KnownVersions
<1>5. Ghosts'  BY <1>1, <1>2 DEF Ghosts, NoneAlive, Alive
<1>6. TokensAgree' /\ HandedOver'  BY <1>1, <1>2 DEF TokensAgree, HandedOver
<1>7. Starts' /\ Settles'  BY <1>3 DEF Starts, Settles
<1>8. Registered' /\ Members'  BY <1>1, <1>2, <1>b DEF Registered, Members
<1>9. Linked'  BY <1>1, <1>2 DEF Linked, Alive
<1>10. Heals'  BY <1>c DEF Heals
<1>11. Asked'  BY <1>1 DEF Asked, NoAsk
<1>12. Phases'  BY DEF Phases
<1>13. Drains'  BY <1>1 DEF Drains
<1>14. Newborn'
  <2>1. link'[p] = "off" /\ NoAsk' /\ Only(p)'  BY <1>1, <1>2 DEF Ghosts, NoAsk, Only
  <2> QED  BY <1>1, <1>c, <2>1 DEF Newborn
<1> QED  BY <1>4, <1>5, <1>6, <1>7, <1>8, <1>9, <1>10, <1>11, <1>12, <1>13, <1>14

(* What a step of an upgrade leaves alone, when its new Worker has been *)
(* registered.                                                          *)
LEMMA UpgFrame ==
  ASSUME CalmInv, CalmBudget, upg.pc # "idle", upg.pc = "ready" => Spawned(upg.new),
         \A q \in Pids : Alive(q)' => Alive(q),
         \A q \in Pids : proc'[q] = "serving" => proc[q] = "serving" /\ link'[q] = link[q],
         UNCHANGED <<ver, tok, backups, sup, supVer, token, run, mon>>
  PROVE  /\ TokensAgree' /\ HandedOver' /\ Starts' /\ Settles' /\ Linked' /\ Heals' /\ Newborn'
         /\ UNCHANGED bin => KnownVersions'
         /\ \A q \in Pids : mon[q] # "new"
<1> USE DEF CalmInv, Calm
<1>1. sup = "up" /\ run.pc = "none" /\ supVer = 1 /\ \A q \in Pids : ~Healing(q)  BY Upgrading
<1>2. TokensAgree' /\ HandedOver'  BY <1>1 DEF TokensAgree, HandedOver
<1>3. Starts' /\ Settles'  BY <1>1 DEF Starts, Settles
<1>4. Linked'  BY <1>1 DEF Linked
<1>5. Heals'  BY <1>1 DEF Heals, Healing
<1>6. UNCHANGED bin => KnownVersions'  BY DEF KnownVersions
<1>7. \A q \in Pids : mon[q] # "new"  BY Upgrading DEF Spawned
<1>8. Newborn'  BY <1>7 DEF Newborn
<1> QED  BY <1>2, <1>3, <1>4, <1>5, <1>6, <1>7, <1>8

(* doUpgrade starts the new Worker, or fails to. *)
LEMMA UpgSpawnStep ==
  ASSUME CalmInv, CalmBudget, TypeOK', UpgSpawn
  PROVE  Calm'
<1> USE DEF CalmInv, Calm, UpgSpawn
<1>a. TypeOK /\ UpgApart  BY Basics
<1>b. /\ sup = "up" /\ run.pc = "none" /\ supVer = 1
      /\ \A q \in Pids : ~Healing(q)
      /\ activePID \in Pids /\ proc[activePID] = "serving" /\ ~Told(activePID)
      /\ upg.old = activePID
  BY Upgrading DEF Phases
<1>c. \A q \in Pids : Alive(q) => q = activePID  BY <1>b, Upgrading DEF Members
<1>1. ASSUME NEW p \in Pids, Spawn(p, TRUE, mon), upg' = [upg EXCEPT !.pc = "ready", !.new = p]
      PROVE  Calm'
  <2>a. /\ proc[p] = "none" /\ proc'[p] = "booting" /\ \A q \in Pids \ {p} : proc'[q] = proc[q]
        /\ activePID' = activePID
    BY <1>1, <1>a, SpawnLives, SpawnFresh
  <2>b. /\ ver'[p] = bin /\ \A q \in Pids \ {p} : ver'[q] = ver[q] /\ tok'[q] = tok[q]
        /\ tok'[p] = token /\ tko'[p]
    BY <1>1, <1>a DEF Spawn, TypeOK, ProcTypes
  <2>c. mon'[p] = "new" /\ \A q \in Pids \ {p} : mon'[q] = mon[q]
    <3>1. mon' = [mon EXCEPT ![p] = "new"]  BY <1>1 DEF Spawn
    <3>2. mon \in [Pids -> MonStates]  BY <1>a DEF TypeOK, GoroutineTypes
    <3> HIDE DEF UpgSpawn
    <3> QED  BY <3>1, <3>2
  <2>d. UNCHANGED <<singles, toW, toS, link, bin, backups, sup, supVer, token, run, reg>>
    BY <1>1 DEF Spawn, chanVars
  <2>1. /\ proc[p] = "none" /\ proc'[p] = "booting" /\ \A q \in Pids \ {p} : proc'[q] = proc[q]
        /\ ver'[p] = bin /\ \A q \in Pids \ {p} : ver'[q] = ver[q] /\ tok'[q] = tok[q]
        /\ tok'[p] = token /\ tko'[p] /\ activePID' = activePID
        /\ mon'[p] = "new" /\ \A q \in Pids \ {p} : mon'[q] = mon[q] /\ mon[q] # "new"
        /\ UNCHANGED <<singles, toW, toS, link, bin, backups, sup, supVer, token, run, reg>>
    BY <2>a, <2>b, <2>c, <2>d, Upgrading
  <2>2. upg'.pc = "ready" /\ upg'.new = p /\ upg'.old = upg.old  BY <1>1, <1>a DEF TypeOK, GoroutineTypes
  <2> HIDE DEF UpgSpawn
  <2>3. \A q \in Pids : Alive(q)' <=> (Alive(q) \/ q = p)  BY <2>1 DEF Alive
  <2>4. \A q \in Pids : ~Healing(q)'  BY <2>1, <1>b DEF Healing
  <2>5. KnownVersions'  BY <2>1 DEF KnownVersions
  <2>6. Ghosts'  BY <2>1, <2>3 DEF Ghosts, Alive
  <2>7. TokensAgree' /\ HandedOver'  BY <1>b, <2>1, <2>3 DEF TokensAgree, HandedOver
  <2>8. Starts' /\ Settles'  BY <1>b, <2>1 DEF Starts, Settles
  <2>9. Registered'  BY <2>1, <2>3 DEF Registered
  <2>10. Members'  BY <1>c, <2>1, <2>2, <2>3 DEF Members
  <2>11. Linked'  BY <1>b, <2>1 DEF Linked
  <2>12. Heals'  BY <2>4 DEF Heals
  <2>13. p # activePID  BY <1>b, <2>1
  <2>14. Asked'  BY <1>b, <2>1, <2>13 DEF Asked, Told
  <2>15. ~Alive(p) /\ toW[p] = <<>> /\ ~singles[p]  BY <2>1 DEF Ghosts, Alive
  <2>16. Phases'  BY <1>b, <2>1, <2>2, <2>15 DEF Phases
  <2>17. Drains'
    <3>1. ASSUME NEW q \in Pids, Holds(toW[q], "DRAIN") \/ proc[q] = "draining" PROVE FALSE
      BY <3>1 DEF Drains, UpgSpawn
    <3> QED  BY <2>1, <3>1 DEF Drains
  <2>18. Newborn'  BY <2>1, <2>2 DEF Newborn, Ghosts
  <2> QED  BY <2>5, <2>6, <2>7, <2>8, <2>9, <2>10, <2>11, <2>12, <2>14, <2>16, <2>17, <2>18
<1>2. ASSUME UNCHANGED <<procVars, chanVars, reg, mon, activePID>>, upg' = NoUpgrade PROVE Calm'
  <2> USE <1>2 DEF procVars, chanVars
  <2>1. upg'.pc = "idle" /\ \A q \in Pids : (Alive(q)' <=> Alive(q)) /\ (Told(q)' <=> Told(q))
    BY DEF NoUpgrade, Alive, Told
  <2>2. /\ TokensAgree' /\ HandedOver' /\ Starts' /\ Settles' /\ Linked' /\ Heals' /\ Newborn'
        /\ KnownVersions'
    BY <2>1, UpgFrame
  <2>3. Ghosts' /\ Registered'  BY <2>1 DEF Ghosts, Registered
  <2>4. Members'  BY <2>1 DEF Members
  <2>5. Asked'  BY <1>b, <2>1 DEF Asked
  <2>6. Phases' /\ Drains'  BY <2>1 DEF Phases, Drains
  <2> QED  BY <2>2, <2>3, <2>4, <2>5, <2>6
<1> QED  BY <1>1, <1>2

(* rollbackBinary restores a version that can be met. *)
LEMMA RollbackKnown ==
  ASSUME KnownVersions, RollbackBinary PROVE bin' \in Known
  BY QueueType DEF KnownVersions, RollbackBinary

(* The new Worker is not READY in time: it is killed. *)
LEMMA UpgTimeoutStep ==
  ASSUME CalmInv, CalmBudget, TypeOK', UpgTimeout
  PROVE  Calm'
<1> USE DEF CalmInv, Calm, UpgTimeout
<1>a. TypeOK /\ UpgApart  BY Basics
<1>b. /\ sup = "up" /\ run.pc = "none"
      /\ activePID \in Pids /\ proc[activePID] = "serving" /\ ~Told(activePID)
      /\ upg.old = activePID /\ upg.new # activePID /\ upg.new \in Pids
  BY <1>a, Upgrading DEF Phases, UpgApart
<1>1. upg'.pc = "rollback" /\ UNCHANGED <<ver, tok, link, toS, reg, bin, backups, sup, supVer, token, run,
                                          mon, activePID>>
  BY <1>a DEF TypeOK, GoroutineTypes, procVars, Die
<1> PICK n \in Pids : n = upg.new  BY <1>b
<1>c. /\ upg.pc = "ready" /\ Spawned(n) /\ toW[n] = <<>>
      /\ proc[n] \in {"booting", "serving", "crashed"}
  BY <1>b, Basics DEF Phases, Trials, InTrial
<1>2. /\ \A q \in Pids \ {n} : proc'[q] = proc[q] /\ toW'[q] = toW[q] /\ singles'[q] = singles[q]
      /\ proc'[n] = "crashed" /\ toW'[n] = <<>> /\ ~singles'[n]
  <2>1. CASE Alive(n)
    <3>1. Die(n, "crashed")  BY <1>b, <1>c, <2>1 DEF Registered, Spawned
    <3> HIDE DEF UpgTimeout, CalmInv, Calm
    <3>2. proc \in [Pids -> ProcStates] /\ singles \in [Pids -> BOOLEAN] /\ DOMAIN toW = Pids
      BY <1>a DEF TypeOK, ProcTypes, ChanTypes
    <3> QED  BY <3>1, <3>2 DEF Die
  <2>2. CASE ~Alive(n)
    <3>1. UNCHANGED <<proc, toW, singles>>  BY <2>2 DEF procVars
    <3> HIDE DEF UpgTimeout
    <3> QED  BY <1>c, <2>2, <3>1 DEF Alive, Ghosts
  <2> QED  BY <2>1, <2>2
<1> HIDE DEF UpgTimeout
<1>3. \A q \in Pids : /\ Alive(q)' => Alive(q) /\ q # n
                      /\ proc'[q] = "serving" => proc[q] = "serving"
                      /\ \A m : Holds(toW'[q], m) => Holds(toW[q], m)
  <2> TAKE q \in Pids
  <2>1. CASE q = n  BY <1>2, <2>1 DEF Alive, Holds
  <2>2. CASE q # n  BY <1>2, <2>2 DEF Alive
  <2> QED  BY <2>1, <2>2
<1>4. /\ TokensAgree' /\ HandedOver' /\ Starts' /\ Settles' /\ Linked' /\ Heals' /\ Newborn'
      /\ KnownVersions' /\ \A q \in Pids : mon[q] # "new"
  BY <1>1, <1>3, <1>c, UpgFrame
<1>6. Ghosts'
  <2> SUFFICES ASSUME NEW q \in Pids
               PROVE  /\ link'[q] # "stray" /\ (proc'[q] = "none" => link'[q] = "off")
                      /\ ~Alive(q)' => toW'[q] = <<>>
                      /\ singles'[q] => proc'[q] \in {"serving", "draining"}
                      /\ ~Holds(toW'[q], "SHUTDOWN")
    BY DEF Ghosts
  <2>1. CASE q = n  BY <1>1, <1>2, <1>3, <1>c, <2>1 DEF Ghosts, Alive, Phases
  <2>2. CASE q # n  BY <1>1, <1>2, <1>3, <2>2 DEF Ghosts, Alive
  <2> QED  BY <2>1, <2>2
<1>7. Registered'  BY <1>1, <1>3 DEF Registered
<1>8. Members'  BY <1>b, <1>1, <1>3, <1>4, <1>c DEF Members
<1>9. Asked'  BY <1>b, <1>1, <1>2, <1>c DEF Asked, Told
<1>10. Phases'  BY <1>1 DEF Phases
<1>11. Drains'
  <2>1. ASSUME NEW q \in Pids, Holds(toW[q], "DRAIN") \/ proc[q] = "draining" PROVE FALSE
    BY <1>c, <2>1 DEF Drains
  <2> QED  BY <1>2, <1>3, <2>1 DEF Drains
<1> QED  BY <1>4, <1>6, <1>7, <1>8, <1>9, <1>10, <1>11

(* The failed upgrade ends: the last backup is put back, or the rollback *)
(* fails.                                                                *)
LEMMA UpgRollbackStep ==
  ASSUME CalmInv, CalmBudget, TypeOK', UpgRollback
  PROVE  Calm'
<1> USE DEF CalmInv, Calm
<1>b. upg.pc = "rollback" /\ RollbackBinary  BY DEF UpgRollback
<1>1. /\ upg'.pc = "idle"
      /\ UNCHANGED <<proc, ver, tko, tok, singles, link, toS, toW, backups, sup, supVer, token, run, mon,
                     reg, activePID>>
  BY DEF UpgRollback, procVars, chanVars, NoUpgrade
<1>3. \A q \in Pids : (Alive(q)' <=> Alive(q)) /\ (Told(q)' <=> Told(q))  BY <1>1 DEF Alive, Told
<1>4. TokensAgree' /\ HandedOver' /\ Starts' /\ Settles' /\ Linked' /\ Heals' /\ Newborn'
  BY <1>1, <1>3, <1>b, UpgFrame
<1>5. KnownVersions'  BY <1>1, <1>b, RollbackKnown DEF KnownVersions
<1>6. Ghosts' /\ Registered'  BY <1>1, <1>3 DEF Ghosts, Registered
<1>7. Members'  BY <1>b, <1>1, <1>3 DEF Members
<1>8. Asked'  BY <1>b, <1>1, <1>3 DEF Asked
<1>9. Phases' /\ Drains'  BY <1>b, <1>1 DEF Phases, Drains
<1> QED  BY <1>4, <1>5, <1>6, <1>7, <1>8, <1>9

(* The new Worker is READY: it is the active one, the old one is drained. *)
LEMMA UpgSwitchStep ==
  ASSUME CalmInv, CalmBudget, TypeOK', UpgSwitch
  PROVE  Calm'
<1> USE DEF CalmInv, Calm
<1>a. TypeOK /\ UpgApart /\ Trials /\ ReadySaid  BY Basics
<1>b. upg.pc = "ready" /\ upg.new \in ready /\ Spawned(upg.new)  BY DEF UpgSwitch, IsReady
<1>c. /\ sup = "up" /\ run.pc = "none"
      /\ activePID \in Pids /\ proc[activePID] = "serving" /\ ~Told(activePID) /\ Alive(activePID)
      /\ link[activePID] = "up" /\ reg[activePID] # "none"
      /\ upg.old = activePID /\ upg.new # activePID /\ upg.new \in Pids
  BY <1>a, <1>b, Upgrading DEF Phases, UpgApart
<1>d. proc[upg.new] = "serving" /\ Alive(upg.new)
  BY <1>a, <1>b, <1>c DEF Trials, InTrial, ReadySaid, Alive
<1>1. /\ upg'.pc = "gone" /\ upg'.new = upg.new /\ upg'.old = upg.old /\ activePID' = upg.new
      /\ UNCHANGED <<proc, ver, tko, tok, singles, link, toS, bin, backups, sup, supVer, token, run, mon>>
      /\ \A q \in Pids : reg'[q] = "none" => reg[q] = "none"
      /\ toW' = Sent({p \in Pids : p = upg.old /\ reg[p] # "none"}, "DRAIN")
  BY <1>a, <1>c DEF UpgSwitch, procVars, TypeOK, GoroutineTypes
<1>2. /\ toW'[upg.old] = Append(toW[upg.old], "DRAIN")
      /\ \A q \in Pids : q # upg.old => toW'[q] = toW[q]
  BY <1>c, <1>1 DEF Sent
<1>3. /\ Holds(toW'[upg.old], "DRAIN")
      /\ \A m : Holds(toW'[upg.old], m) => Holds(toW[upg.old], m) \/ m = "DRAIN"
  <2>1. toW[upg.old] \in Seq(ToWMsgs) /\ "DRAIN" \in ToWMsgs  BY <1>a, <1>c DEF TypeOK, ChanTypes, ToWMsgs
  <2>2. Holds(toW'[upg.old], "DRAIN")  BY <1>2, <2>1, HoldsSent
  <2> QED  BY <1>2, <2>1, <2>2, HoldsQueue
<1>4. \A q \in Pids : Alive(q)' <=> Alive(q)  BY <1>1 DEF Alive
<1>5. /\ TokensAgree' /\ HandedOver' /\ Starts' /\ Settles' /\ Linked' /\ Heals' /\ Newborn'
      /\ KnownVersions'
  BY <1>1, <1>4, <1>b, UpgFrame
<1>6. Ghosts'
  <2> SUFFICES ASSUME NEW q \in Pids
               PROVE  /\ link'[q] # "stray" /\ (proc'[q] = "none" => link'[q] = "off")
                      /\ ~Alive(q)' => toW'[q] = <<>>
                      /\ singles'[q] => proc'[q] \in {"serving", "draining"}
                      /\ ~Holds(toW'[q], "SHUTDOWN")
    BY DEF Ghosts
  <2>1. CASE q = upg.old  BY <1>1, <1>3, <1>4, <1>c, <2>1 DEF Ghosts
  <2>2. CASE q # upg.old  BY <1>1, <1>2, <1>4, <2>2 DEF Ghosts
  <2> QED  BY <2>1, <2>2
<1>7. Registered'  BY <1>1, <1>4 DEF Registered
<1>8. Members'  BY <1>b, <1>c, <1>1, <1>4 DEF Members
<1>9. toW[upg.new] = <<>> /\ ~singles[upg.new] /\ bin \in {ver[upg.new], Latest}  BY <1>b DEF Phases
<1>10. Asked'
  <2>1. \A m : ~Holds(toW'[upg.new], m)  BY <1>2, <1>9, <1>c DEF Holds
  <2> QED  BY <1>1, <1>c, <1>d, <2>1 DEF Asked, Told
<1>11. Phases'  BY <1>1, <1>2, <1>3, <1>9, <1>c DEF Phases
<1>12. Drains'
  <2>1. ASSUME NEW q \in Pids, Holds(toW[q], "DRAIN") \/ proc[q] = "draining" PROVE FALSE
    BY <1>b, <2>1 DEF Drains
  <2>2. ASSUME NEW q \in Pids, Holds(toW'[q], "DRAIN") \/ proc'[q] = "draining" PROVE q = upg.old
    BY <1>1, <1>2, <2>1, <2>2
  <2> QED  BY <1>1, <2>2 DEF Drains
<1> QED  BY <1>5, <1>6, <1>7, <1>8, <1>10, <1>11, <1>12

(* The old Worker is unregistered: as no wait for it ends early, it is *)
(* dead.                                                               *)
LEMMA UpgOldGoneStep ==
  ASSUME CalmInv, CalmBudget, TypeOK', UpgOldGone
  PROVE  Calm'
<1> USE DEF CalmInv, Calm
<1>a. TypeOK /\ UpgApart /\ left["goneTimeout"] = 0  BY Basics DEF CalmEvents
<1>b. /\ sup = "up" /\ upg.pc = "gone" /\ upg.old \in Pids
      /\ reg[upg.old] = "none" \/ Stuck(upg.old, "DRAIN")
  BY <1>a, Upgrading DEF UpgOldGone, EndsOr, Spend, Phases
<1>1. /\ upg'.pc = "activate" /\ upg'.new = upg.new /\ upg'.old = upg.old
      /\ UNCHANGED <<proc, ver, tko, tok, singles, link, toS, toW, bin, backups, sup, supVer, token, run,
                     mon, reg, activePID>>
  BY <1>a DEF UpgOldGone, procVars, chanVars, TypeOK, GoroutineTypes
<1>2. ~Alive(upg.old)
  <2>1. CASE reg[upg.old] = "none"  BY <1>b, <2>1, Upgrading DEF Registered
  <2>2. CASE Stuck(upg.old, "DRAIN")
    BY <1>b, <2>2 DEF Stuck, Dead, Alive, Phases
  <2> QED  BY <1>b, <2>1, <2>2
<1>3. \A q \in Pids : (Alive(q)' <=> Alive(q)) /\ (Told(q)' <=> Told(q))  BY <1>1 DEF Alive, Told
<1>4. /\ TokensAgree' /\ HandedOver' /\ Starts' /\ Settles' /\ Linked' /\ Heals' /\ Newborn'
      /\ KnownVersions'
  BY <1>1, <1>3, <1>b, UpgFrame
<1>5. Ghosts' /\ Registered'  BY <1>1, <1>3 DEF Ghosts, Registered
<1>6. Members'  BY <1>b, <1>1, <1>2, <1>3 DEF Members
<1>7. Asked'  BY <1>b, <1>1, <1>3 DEF Asked
<1>8. Phases'  BY <1>b, <1>1 DEF Phases
<1>9. Drains'
  <2>1. ASSUME NEW q \in Pids, Holds(toW[q], "DRAIN") \/ proc[q] = "draining" PROVE FALSE
    BY <1>2, <2>1 DEF Drains, Ghosts, Alive, Holds
  <2> QED  BY <1>1, <2>1 DEF Drains
<1> QED  BY <1>4, <1>5, <1>6, <1>7, <1>8, <1>9

(* ACTIVATE is sent to the new Worker. *)
LEMMA UpgActivateStep ==
  ASSUME CalmInv, CalmBudget, TypeOK', UpgActivate
  PROVE  Calm'
<1> USE DEF CalmInv, Calm
<1>a. TypeOK /\ toW' \in [Pids -> Seq(ToWMsgs)]  BY Basics DEF TypeOK, ChanTypes
<1>b. upg.pc = "activate" /\ upg.new \in Pids /\ activePID = upg.new /\ Alive(upg.new)
  BY Upgrading DEF UpgActivate, Phases
<1>1. /\ upg'.pc = "handoff" /\ upg'.new = upg.new /\ upg'.old = upg.old
      /\ UNCHANGED <<proc, ver, tko, tok, singles, link, toS, bin, backups, sup, supVer, token, run, mon,
                     reg, activePID>>
      /\ toW' = toW \/ toW' = Sent({upg.new}, "ACTIVATE")
  BY <1>a DEF UpgActivate, procVars, TypeOK, GoroutineTypes
<1>2. \A q \in Pids : /\ ~Alive(q) => toW'[q] = toW[q]
                      /\ \A m \in {"DRAIN", "SHUTDOWN"} : Holds(toW'[q], m) => Holds(toW[q], m)
  <2> TAKE q \in Pids
  <2>1. ~Alive(q) => toW'[q] = toW[q]  BY <1>1 DEF Sent
  <2>2. ASSUME NEW m \in {"DRAIN", "SHUTDOWN"}, Holds(toW'[q], m) PROVE Holds(toW[q], m)
    <3>1. CASE toW' = toW  BY <2>2, <3>1
    <3>2. CASE toW' = Sent({upg.new}, "ACTIVATE")
      <4>1. "ACTIVATE" \in ToWMsgs /\ Holds(Sent({upg.new}, "ACTIVATE")[q], m)  BY <2>2, <3>2 DEF ToWMsgs
      <4> HIDE DEF CalmInv, Calm
      <4>2. m # "ACTIVATE"  OBVIOUS
      <4> QED  BY <1>a, <4>1, <4>2, SentHolds
    <3> QED  BY <1>1, <3>1, <3>2
  <2> QED  BY <2>1, <2>2
<1>3. \A q \in Pids : (Alive(q)' <=> Alive(q)) /\ (Told(q)' => Told(q))  BY <1>1, <1>2 DEF Alive, Told
<1>4. /\ TokensAgree' /\ HandedOver' /\ Starts' /\ Settles' /\ Linked' /\ Heals' /\ Newborn'
      /\ KnownVersions'
  BY <1>1, <1>3, <1>b, UpgFrame
<1>5. Ghosts'  BY <1>1, <1>2, <1>3 DEF Ghosts
<1>6. Registered' /\ Members'  BY <1>b, <1>1, <1>3 DEF Registered, Members
<1>7. Asked'  BY <1>b, <1>1, <1>3 DEF Asked
<1>8. Phases'  BY <1>b, <1>1 DEF Phases
<1>9. Drains'
  <2>1. ASSUME NEW q \in Pids, Holds(toW[q], "DRAIN") \/ proc[q] = "draining" PROVE FALSE
    BY <1>b, <2>1 DEF Drains
  <2> QED  BY <1>1, <1>2, <2>1 DEF Drains
<1> QED  BY <1>4, <1>5, <1>6, <1>7, <1>8, <1>9

(* The Supervisor has no reason to give way to a new binary, or cannot. *)
LEMMA HandoffSkipStep ==
  ASSUME CalmInv, CalmBudget, TypeOK', HandoffSkip
  PROVE  Calm'
<1> USE DEF CalmInv, Calm
<1>b. upg.pc = "handoff"  BY DEF HandoffSkip
<1>1. /\ upg'.pc = "idle"
      /\ UNCHANGED <<proc, ver, tko, tok, singles, link, toS, toW, bin, backups, sup, supVer, token, run,
                     mon, reg, activePID>>
  BY DEF HandoffSkip, procVars, chanVars, NoUpgrade
<1>3. \A q \in Pids : (Alive(q)' <=> Alive(q)) /\ (Told(q)' <=> Told(q))  BY <1>1 DEF Alive, Told
<1>4. /\ TokensAgree' /\ HandedOver' /\ Starts' /\ Settles' /\ Linked' /\ Heals' /\ Newborn'
      /\ KnownVersions'
  BY <1>1, <1>3, <1>b, UpgFrame
<1>5. Ghosts' /\ Registered'  BY <1>1, <1>3 DEF Ghosts, Registered
<1>6. Members'  BY <1>b, <1>1, <1>3 DEF Members
<1>7. Asked'  BY <1>b, <1>1, <1>3 DEF Asked
<1>8. Phases' /\ Drains'  BY <1>b, <1>1 DEF Phases, Drains
<1> QED  BY <1>4, <1>5, <1>6, <1>7, <1>8

(* Only a Worker of the version installed makes the Supervisor give way. *)
LEMMA HandoffExecStep ==
  ASSUME CalmInv, CalmBudget, TypeOK', HandoffExec
  PROVE  Calm'
<1> USE DEF CalmInv, Calm
<1>a. TypeOK /\ TypeOK'  BY Basics
<1>b. /\ upg.pc = "handoff" /\ sup = "up" /\ run.pc = "none" /\ supVer = 1
      /\ activePID \in Pids /\ proc[activePID] = "serving" /\ ~Told(activePID) /\ Alive(activePID)
      /\ activePID = upg.new /\ reg[activePID] # "none" /\ ver[activePID] # supVer
      /\ bin \in {ver[activePID], Latest}
  BY Upgrading DEF HandoffExec, HandoffNeeded, Phases
<1>1. /\ UNCHANGED <<proc, ver, tko, tok, singles, toW, bin, backups, token, supVer>>
      /\ sup' = "down" /\ upg' = NoUpgrade /\ run' = NoRun /\ activePID' = None
      /\ \A p \in Pids : link'[p] = "off" /\ toS'[p] = <<>> /\ mon'[p] = "none"
      /\ stFile'.token = token /\ stFile'.pids = {p \in Pids : reg[p] # "none"}
  BY DEF HandoffExec, LoseSupervisor, procVars, SavedState
<1>2. \A q \in Pids : (Alive(q)' <=> Alive(q)) /\ (Told(q)' <=> Told(q))  BY <1>1 DEF Alive, Told
<1>3. ver[activePID] = Latest /\ Latest # 1 /\ bin = Latest
  BY <1>b DEF KnownVersions, Known
<1>4. \A q \in Pids : Alive(q) => q = activePID  BY <1>b, Upgrading DEF Members
<1>5. PICK n \in Pids : n = activePID  BY <1>b
<1>6. Heir(n)' /\ n \in stFile'.pids
  BY <1>b, <1>1, <1>2, <1>3, <1>4, <1>5 DEF Heir, Only
<1>7. NoAsk'  BY <1>1 DEF NoAsk, Holds
<1>8. KnownVersions'  BY <1>1 DEF KnownVersions
<1>9. Ghosts'  BY <1>1, <1>2 DEF Ghosts
<1>10. TokensAgree'  BY <1>b, <1>1, <1>2 DEF TokensAgree
<1>11. HandedOver'  BY <1>1, <1>3, <1>6, <1>7 DEF HandedOver
<1>12. Starts' /\ Settles' /\ Registered' /\ Linked' /\ Members'
  BY <1>1 DEF Starts, Settles, Registered, Linked, Members, NoRun
<1>13. Heals' /\ Newborn'  BY <1>1 DEF Heals, Healing, Newborn
<1>14. Asked' /\ Phases'  BY <1>1, <1>7 DEF Asked, Phases, NoUpgrade
<1>15. Drains'
  <2>1. ASSUME NEW q \in Pids, Holds(toW[q], "DRAIN") \/ proc[q] = "draining" PROVE FALSE
    BY <1>b, <2>1 DEF Drains
  <2> QED  BY <1>1, <2>1 DEF Drains
<1> QED  BY <1>8, <1>9, <1>10, <1>11, <1>12, <1>13, <1>14, <1>15

(* Run: the first start, or the new Supervisor that finds the Worker left *)
(* to it.                                                                 *)
LEMMA SupStartStep ==
  ASSUME CalmInv, CalmBudget, TypeOK', SupStart
  PROVE  Calm'
<1> USE DEF CalmInv, Calm
<1>a. TypeOK  BY Basics
<1>b. /\ sup = "down" /\ upg.pc = "idle" /\ activePID = None /\ NoAsk
      /\ \A p \in Pids : mon[p] = "none" /\ link[p] = "off"
  BY DEF SupStart, HandedOver, NoUpgrade
<1>1. /\ sup' = "up" /\ supVer' = bin /\ run'.cands = Orphans
      /\ run'.pc = IF Orphans = {} THEN "first" ELSE "wait1"
      /\ token' = IF stFile.token # 0 THEN stFile.token ELSE token + 1
      /\ \A p \in Pids : p \in Orphans => reg'[p] = "orphan"
      /\ UNCHANGED <<proc, ver, tko, tok, singles, link, toS, toW, bin, backups, upg, mon, activePID>>
  BY DEF SupStart, procVars, chanVars
<1>2. \A q \in Pids : (Alive(q)' <=> Alive(q)) /\ (Heir(q)' <=> Heir(q))
  BY <1>1 DEF Alive, Told, Heir, Only
<1>3. NoAsk'  BY <1>b, <1>1 DEF NoAsk
<1>4. KnownVersions'  BY <1>1 DEF KnownVersions
<1>5. Ghosts'  BY <1>1, <1>2 DEF Ghosts
<1>6. TokensAgree'
  <2>1. stFile.token \in Nat /\ token \in Nat  BY <1>a DEF TypeOK, DiskTypes, MemTypes
  <2>2. token' # 0  BY <1>1, <2>1
  <2>3. \A q \in Pids : Alive(q) => token' = token /\ tok[q] = token  BY <1>b, <1>1 DEF TokensAgree
  <2> QED  BY <1>1, <1>2, <2>2, <2>3 DEF TokensAgree
<1>7. HandedOver'  BY <1>1 DEF HandedOver
<1>8. /\ \/ bin = 1 /\ Orphans = {} /\ \A p \in Pids : proc[p] = "none"
         \/ bin = Latest /\ \E n \in Pids : Heir(n) /\ Orphans = {n}
  <2>1. stFile.pids \subseteq Pids  BY <1>a DEF TypeOK, DiskTypes
  <2>2. CASE bin = 1 /\ \A p \in Pids : proc[p] = "none"  BY <2>1, <2>2 DEF Orphans, Alive
  <2>3. ASSUME bin = Latest, NEW n \in Pids, Heir(n), n \in stFile.pids
        PROVE  Heir(n) /\ Orphans = {n}
    <3>1. Alive(n) /\ \A q \in Pids : Alive(q) => q = n  BY <2>3 DEF Heir, Only, Alive
    <3> QED  BY <2>1, <2>3, <3>1 DEF Orphans
  <2> QED  BY <1>b, <2>2, <2>3 DEF HandedOver
<1>9. Starts'
  <2>1. CASE Orphans = {} /\ \A p \in Pids : proc[p] = "none"
    BY <1>b, <1>1, <1>3, <2>1 DEF Starts
  <2>2. ASSUME bin = Latest, NEW n \in Pids, Heir(n), Orphans = {n} PROVE Starts'
    <3>1. Heir(n)' /\ run'.cands = {n} /\ supVer' = Latest /\ run'.pc = "wait1"  BY <1>1, <1>2, <2>2
    <3> QED  BY <1>b, <1>1, <1>3, <3>1 DEF Starts
  <2> QED  BY <1>8, <2>1, <2>2
<1>10. Settles'
  <2> SUFFICES ASSUME supVer' # 1
               PROVE  Budget["trigger"] = 0 /\ upg'.pc = "idle" /\ NoAsk' /\ \E n \in Pids : Heir(n)'
    BY DEF Settles
  <2>1. Budget["trigger"] = 0  BY <1>1 DEF KnownVersions, Known
  <2> QED  BY <1>b, <1>1, <1>2, <1>3, <1>8, <2>1
<1>11. Registered'  BY <1>1, <1>2, <1>8 DEF Registered, Heir, Only, Alive
<1>12. Linked' /\ Members'  BY <1>1, <1>8 DEF Linked, Members
<1>13. Heals' /\ Newborn'  BY <1>b, <1>1 DEF Heals, Healing, Newborn
<1>14. Asked' /\ Phases'  BY <1>b, <1>1, <1>3 DEF Asked, Phases
<1>15. Drains'  BY <1>1 DEF Drains
<1> QED  BY <1>4, <1>5, <1>6, <1>7, <1>9, <1>10, <1>11, <1>12, <1>13, <1>14, <1>15

(* adoptOrphans takes the Worker that is of its own version. *)
LEMMA AdoptClaimStep ==
  ASSUME CalmInv, CalmBudget, TypeOK', NEW p \in Pids, AdoptClaim(p)
  PROVE  Calm'
<1> USE DEF CalmInv, Calm
<1>a. TypeOK /\ sup = "up"  BY Basics DEF AdoptClaim
<1>b. /\ upg.pc = "idle" /\ NoAsk /\ \A q \in Pids : mon[q] = "none"
      /\ Heir(p) /\ link[p] = "up" /\ supVer = Latest
  BY DEF AdoptClaim, Starts, Claimable
<1>1. /\ UNCHANGED <<proc, ver, tko, tok, singles, link, toS, bin, backups, sup, supVer, token, upg>>
      /\ activePID' = p /\ run'.pc = "none" /\ toW' = Sent({p}, "ACTIVATE")
  BY DEF AdoptClaim, procVars, NoRun
<1>c. reg \in [Pids -> RegStates] /\ mon \in [Pids -> MonStates]
  BY <1>a DEF TypeOK, MemTypes, GoroutineTypes
<1>d. reg' = [reg EXCEPT ![p] = "active"] /\ mon' = [mon EXCEPT ![p] = "poll"]  BY DEF AdoptClaim
<1>2. /\ \A q \in Pids : mon'[q] \in {"none", "poll"} /\ (reg'[q] = "none" => reg[q] = "none")
  BY <1>b, <1>c, <1>d
<1>3. \A q \in Pids : /\ ~Alive(q) => toW'[q] = toW[q]
                      /\ \A m \in {"DRAIN", "SHUTDOWN"} : Holds(toW'[q], m) => Holds(toW[q], m)
  <2> TAKE q \in Pids
  <2>1. ~Alive(q) => toW'[q] = toW[q]  BY <1>1 DEF Sent
  <2>2. ASSUME NEW m \in {"DRAIN", "SHUTDOWN"}, Holds(toW'[q], m) PROVE Holds(toW[q], m)
    <3>1. "ACTIVATE" \in ToWMsgs /\ Holds(Sent({p}, "ACTIVATE")[q], m)  BY <2>2, <1>1 DEF ToWMsgs
    <3>2. Holds(toW[q], m) \/ "ACTIVATE" = m  BY <1>a, <3>1, SentHolds
    <3> QED  BY <2>2, <3>2
  <2> QED  BY <2>1, <2>2
<1>4. \A q \in Pids : (Alive(q)' <=> Alive(q)) /\ (Told(q)' => Told(q))  BY <1>1, <1>3 DEF Alive, Told
<1>5. Heir(p)'  BY <1>b, <1>1, <1>4 DEF Heir, Only
<1>6. NoAsk' /\ \A q \in Pids : Alive(q) => q = p  BY <1>b, <1>1 DEF NoAsk, Heir, Only
<1>7. KnownVersions' /\ TokensAgree' /\ HandedOver'
  BY <1>a, <1>1, <1>4 DEF KnownVersions, TokensAgree, HandedOver
<1>8. Ghosts'  BY <1>1, <1>3, <1>4 DEF Ghosts
<1>9. Starts' /\ Members'  BY <1>1, <1>4, <1>6 DEF Starts, Members
<1>10. Settles'  BY <1>a, <1>b, <1>1, <1>5, <1>6 DEF Settles
<1>11. Registered'  BY <1>a, <1>b, <1>1, <1>2, <1>4 DEF Registered
<1>12. Linked'  BY <1>b, <1>1, <1>6 DEF Linked, Alive
<1>13. Heals' /\ Newborn'  BY <1>2 DEF Heals, Healing, Newborn
<1>14. Asked' /\ Phases'  BY <1>b, <1>1, <1>6 DEF Asked, Phases
<1>15. Drains'  BY <1>1, <1>3 DEF Drains
<1> QED  BY <1>7, <1>8, <1>9, <1>10, <1>11, <1>12, <1>13, <1>14, <1>15

(* Run starts the first Worker, or returns the error. *)
LEMMA FirstSpawnStep ==
  ASSUME CalmInv, CalmBudget, TypeOK', FirstSpawn
  PROVE  Calm'
<1> USE DEF CalmInv, Calm
<1>a. TypeOK /\ sup = "up"  BY Basics DEF FirstSpawn
<1>b. /\ upg.pc = "idle" /\ NoAsk /\ activePID = None /\ NoneAlive
      /\ \A q \in Pids : mon[q] = "none" /\ proc[q] = "none"
  BY DEF FirstSpawn, Starts, NoneAlive, Alive
<1>c. run'.pc = "none" /\ UNCHANGED <<bin, backups, sup, supVer, token, upg>>  BY DEF FirstSpawn, NoRun
<1>1. ASSUME NEW p \in Pids, Spawn(p, FALSE, mon) PROVE Calm'
  <2>1. mon \in [Pids -> MonStates] /\ mon' = [mon EXCEPT ![p] = "new"]
    BY <1>1, <1>a DEF TypeOK, GoroutineTypes, Spawn
  <2>2. \A q \in Pids \ {p} : ~Healing(q)' /\ mon'[q] # "new"  BY <2>1, <1>b DEF Healing
  <2> QED  BY <1>a, <1>b, <1>c, <1>1, <2>2, SpawnStep
<1>2. ASSUME UNCHANGED <<procVars, chanVars, reg, mon, activePID>> PROVE Calm'
  <2> USE <1>c, <1>2 DEF procVars, chanVars
  <2>1. \A q \in Pids : ~Alive(q)' /\ proc'[q] = "none"  BY <1>b DEF NoneAlive, Alive
  <2>2. NoAsk'  BY <1>b DEF NoAsk
  <2>3. supVer = 1  BY <1>a, <1>b DEF Settles, NoneAlive, Heir, Alive
  <2>4. KnownVersions' /\ TokensAgree' /\ HandedOver'
    BY <1>a, <2>1 DEF KnownVersions, TokensAgree, HandedOver
  <2>5. Ghosts'  BY <1>b, <2>1 DEF Ghosts, NoneAlive
  <2>6. Starts' /\ Settles' /\ Registered' /\ Members'
    BY <2>1, <2>3 DEF Starts, Settles, Registered, Members
  <2>7. Linked'  BY <2>1 DEF Linked
  <2>8. Heals' /\ Newborn' /\ Asked' /\ Phases' /\ Drains'
    BY <1>b, <2>1, <2>2 DEF Heals, Healing, Newborn, Asked, Phases, Drains
  <2> QED  BY <2>4, <2>5, <2>6, <2>7, <2>8
<1> QED  BY <1>1, <1>2 DEF FirstSpawn

(* doUpgrade begins, where the active Worker serves. *)
LEMMA BeginStep ==
  ASSUME CalmInv, CalmBudget, TypeOK', sup = "up", run.pc = "none", supVer = 1, upg.pc = "idle",
         activePID \in Pids, proc[activePID] = "serving", ~Told(activePID),
         upg' = [pc |-> "spawn", old |-> activePID, new |-> None],
         UNCHANGED <<proc, ver, tko, tok, singles, link, toW, bin, backups, sup, supVer, token, reg, mon,
                     run, activePID>>
  PROVE  Calm'
<1> USE DEF CalmInv, Calm
<1>1. upg'.pc = "spawn" /\ upg'.old = activePID  OBVIOUS
<1>2. \A q \in Pids : (Alive(q)' <=> Alive(q)) /\ (Told(q)' <=> Told(q))  BY DEF Alive, Told
<1>3. \A q \in Pids : ~Healing(q)  BY DEF Heals, NoneAlive, Alive
<1>4. KnownVersions' /\ TokensAgree' /\ HandedOver'  BY <1>2 DEF KnownVersions, TokensAgree, HandedOver
<1>5. Ghosts' /\ Registered' /\ Linked'  BY <1>2 DEF Ghosts, Registered, Linked
<1>6. Starts' /\ Settles'  BY DEF Starts, Settles
<1>7. Members'  BY <1>2 DEF Members
<1>8. Heals' /\ Newborn'  BY <1>3, NoneNotPid DEF Heals, Healing, Newborn
<1>9. Asked' /\ Phases'  BY <1>1, <1>2 DEF Asked, Phases
<1>10. Drains'  BY DEF Drains
<1> QED  BY <1>4, <1>5, <1>6, <1>7, <1>8, <1>9, <1>10

(* REQUEST_UPGRADE from a Worker. *)
LEMMA RequestStep ==
  ASSUME CalmInv, CalmBudget, TypeOK', NEW p \in Pids, OnRequestUpgrade(p)
  PROVE  Calm'
<1> USE DEF CalmInv, Calm
<1>a. TypeOK /\ sup = "up"  BY Basics DEF OnRequestUpgrade
<1>b. toS[p] \in Seq(ToSMsgs) /\ toS \in [Pids -> Seq(ToSMsgs)]  BY <1>a DEF TypeOK, ChanTypes
<1>c. ~NoAsk  BY <1>b, HoldsQueue DEF OnRequestUpgrade, NoAsk
<1>d. run.pc = "none" /\ supVer = 1 /\ activePID \in Pids /\ proc[activePID] = "serving"
      /\ ~Told(activePID)
  BY <1>a, <1>c DEF Starts, Settles, Asked
<1>e. /\ UNCHANGED <<proc, ver, tko, tok, singles, link, toW, bin, backups, sup, supVer, token, reg, mon,
                     run, activePID>>
      /\ BeginUpgrade /\ toS' = [toS EXCEPT ![p] = Tail(@)] /\ toS[p] # <<>>
  BY DEF OnRequestUpgrade, procVars
<1>1. CASE upg.pc = "idle"  BY <1>a, <1>d, <1>e, <1>1, BeginStep DEF BeginUpgrade
<1>2. CASE upg.pc # "idle"
  <2>1. \A q \in Pids : Holds(toS'[q], "REQUEST_UPGRADE") => Holds(toS[q], "REQUEST_UPGRADE")
    BY <1>b, <1>e, HoldsQueue
  <2>2. UNCHANGED upg  BY <1>e, <1>2 DEF BeginUpgrade
  <2> QED  BY <1>a, <1>e, <2>1, <2>2, Bookkeeping
<1> QED  BY <1>1, <1>2

(* TRIGGER_UPGRADE from the command line. *)
LEMMA TriggerStep ==
  ASSUME CalmInv, CalmBudget, TypeOK', OnTriggerUpgrade
  PROVE  Calm'
<1> USE DEF CalmInv, Calm
<1>a. TypeOK /\ sup = "up"  BY Basics DEF OnTriggerUpgrade
<1>b. Budget["trigger"] # 0 /\ \E p \in Pids : proc[p] = "serving"
  BY Basics DEF OnTriggerUpgrade, Spend
<1>c. supVer = 1 /\ run.pc = "none"
  <2>1. supVer = 1  BY <1>a, <1>b DEF Settles
  <2> QED  BY <1>b, <2>1 DEF Starts, Heir
<1>e. /\ UNCHANGED <<proc, ver, tko, tok, singles, link, toS, toW, bin, backups, sup, supVer, token, reg,
                     mon, run, activePID>>
      /\ BeginUpgrade
  BY DEF OnTriggerUpgrade, procVars, chanVars
<1>1. CASE upg.pc = "idle"
  <2>1. activePID \in Pids /\ proc[activePID] = "serving"
    BY <1>a, <1>b, <1>c, <1>1 DEF Members, Newborn, Alive
  <2>2. ~Told(activePID)  BY <1>1, <2>1 DEF Drains, Ghosts, Told
  <2> QED  BY <1>a, <1>c, <1>e, <1>1, <2>1, <2>2, BeginStep DEF BeginUpgrade
<1>2. CASE upg.pc # "idle"
  <2>2. UNCHANGED upg  BY <1>e, <1>2 DEF BeginUpgrade
  <2> QED  BY <1>a, <1>e, <2>2, Bookkeeping
<1> QED  BY <1>1, <1>2

(* monitor: the active Worker has died before it served. *)
LEMMA CrashedStep ==
  ASSUME CalmInv, CalmBudget, TypeOK', sup = "up", NEW p \in Pids, Dead(p), p = activePID,
         mon' = [mon EXCEPT ![p] = "crash"], reg' = [reg EXCEPT ![p] = "none"],
         UNCHANGED <<proc, ver, tko, tok, singles, link, toS, toW, bin, backups, sup, supVer, token, upg,
                     run, activePID>>
  PROVE  Calm'
<1> USE DEF CalmInv, Calm
<1>a. TypeOK /\ p # None /\ ~Alive(p)  BY Basics, NoneNotPid DEF Alive, Dead
<1>b. mon \in [Pids -> MonStates] /\ reg \in [Pids -> RegStates]
  BY <1>a DEF TypeOK, GoroutineTypes, MemTypes
<1>1. upg.pc = "idle" /\ NoAsk /\ run.pc = "none"  BY <1>a DEF Asked, Alive, Starts
<1>c. \A q \in Pids : mon[q] # "new"  BY <1>a, <1>1 DEF Newborn
<1>2. NoneAlive  BY <1>a, <1>1, <1>c DEF Members, NoneAlive
<1>3. supVer = 1  BY <1>2 DEF Settles, NoneAlive, Heir, Alive
<1>4. /\ mon'[p] = "crash"
      /\ \A q \in Pids : mon'[q] # "new" /\ (Healing(q)' => q = p) /\ (Coming(q)' => q = p)
  <2>1. mon'[p] = "crash"  BY <1>b
  <2>2. ASSUME NEW q \in Pids, q # p PROVE ~Healing(q)' /\ mon'[q] # "new"
    <3>1. mon'[q] = mon[q]  BY <1>b, <2>2
    <3> QED  BY <1>a, <1>c, <2>2, <3>1 DEF Heals, Healing
  <2> QED  BY <2>1, <2>2 DEF Coming
<1>5. NoneAlive' /\ NoAsk' /\ \A q \in Pids : ~Alive(q)'  BY <1>1, <1>2 DEF NoneAlive, Alive, NoAsk
<1>6. KnownVersions' /\ TokensAgree' /\ HandedOver'  BY <1>5 DEF KnownVersions, TokensAgree, HandedOver
<1>7. Ghosts'  BY <1>2 DEF Ghosts, NoneAlive, Alive
<1>8. Starts' /\ Settles' /\ Registered' /\ Members'
  BY <1>1, <1>3, <1>5 DEF Starts, Settles, Registered, Members
<1>9. Linked'  BY DEF Linked
<1>10. Heals' /\ Newborn'  BY <1>1, <1>4, <1>5 DEF Heals, Newborn
<1>11. Asked' /\ Phases' /\ Drains'  BY <1>1, <1>5 DEF Asked, Phases, Drains
<1> QED  BY <1>6, <1>7, <1>8, <1>9, <1>10, <1>11

(* A monitor notices that its Worker is dead. *)
LEMMA ReapStep ==
  ASSUME CalmInv, CalmBudget, TypeOK', NEW p \in Pids, Reap(p) \/ ReapAdopted(p)
  PROVE  Calm'
<1> USE DEF CalmInv, Calm
<1>a. TypeOK /\ sup = "up"  BY Basics DEF Reap, ReapAdopted
<1>b. mon \in [Pids -> MonStates] /\ reg \in [Pids -> RegStates]
  BY <1>a DEF TypeOK, GoroutineTypes, MemTypes
<1>c. /\ UNCHANGED <<proc, ver, tko, tok, singles, link, toS, toW, bin, backups, sup, supVer, token, upg,
                     run, activePID>>
      /\ reg' = [reg EXCEPT ![p] = "none"] /\ Dead(p)
  BY DEF Reap, ReapAdopted, procVars, chanVars
<1>d. mon' = [mon EXCEPT ![p] = "none"] \/ (p = activePID /\ mon' = [mon EXCEPT ![p] = "crash"])
  BY <1>a DEF Reap, ReapAdopted
<1>e. mon[p] # "new"  BY DEF Reap, ReapAdopted
<1>1. CASE p = activePID /\ mon' = [mon EXCEPT ![p] = "crash"]  BY <1>a, <1>c, <1>1, CrashedStep
<1>2. CASE mon' = [mon EXCEPT ![p] = "none"]
  <2>1. \A q \in Pids : /\ reg'[q] = "none" => reg[q] = "none" \/ ~Alive(q)
                        /\ mon'[q] = mon[q] \/ mon'[q] = "none"
                        /\ mon[q] = "new" => mon'[q] = "new"
    BY <1>b, <1>c, <1>2, <1>e DEF Dead, Alive
  <2> QED  BY <1>a, <1>c, <2>1, Bookkeeping
<1> QED  BY <1>d, <1>1, <1>2

(* The recovery of a crash goes on by one step. *)
LEMMA HealingStep ==
  ASSUME CalmInv, CalmBudget, TypeOK', sup = "up", NEW p \in Pids, Healing(p),
         NEW x \in {"rollback", "backoff", "spawn"}, mon' = [mon EXCEPT ![p] = x],
         activePID' = None, RollbackBinary \/ UNCHANGED bin,
         UNCHANGED <<proc, ver, tko, tok, singles, link, toS, toW, backups, sup, supVer, token, reg, upg,
                     run>>
  PROVE  Calm'
<1> USE DEF CalmInv, Calm
<1>a. mon \in [Pids -> MonStates]  BY Basics DEF TypeOK, GoroutineTypes
<1>1. /\ NoneAlive /\ upg.pc = "idle" /\ NoAsk
      /\ \A q \in Pids : Coming(q) => q = p
  BY DEF Heals
<1>2. run.pc = "none"  BY DEF Starts, Healing
<1>3. supVer = 1  BY <1>1 DEF Settles, NoneAlive, Heir, Alive
<1>4. /\ mon'[p] = x
      /\ \A q \in Pids : mon'[q] # "new" /\ (Healing(q)' => q = p) /\ (Coming(q)' => q = p)
  <2>1. mon'[p] = x  BY <1>a
  <2>2. ASSUME NEW q \in Pids, q # p PROVE ~Healing(q)' /\ mon'[q] # "new"
    <3>1. mon'[q] = mon[q] /\ ~Coming(q)  BY <1>a, <1>1, <2>2
    <3>2. mon[q] # "new"  BY <1>1, <3>1 DEF Newborn, Coming
    <3> QED  BY <3>1, <3>2 DEF Healing, Coming
  <2> QED  BY <2>1, <2>2 DEF Coming
<1>5. NoneAlive' /\ NoAsk' /\ \A q \in Pids : ~Alive(q)'  BY <1>1 DEF NoneAlive, Alive, NoAsk
<1>6. KnownVersions'  BY RollbackKnown DEF KnownVersions
<1>7. TokensAgree' /\ HandedOver'  BY <1>5 DEF TokensAgree, HandedOver
<1>8. Ghosts'  BY <1>1 DEF Ghosts, NoneAlive, Alive
<1>9. Starts' /\ Settles' /\ Registered' /\ Members'
  BY <1>2, <1>3, <1>5 DEF Starts, Settles, Registered, Members
<1>10. Linked'  BY DEF Linked
<1>11. Heals' /\ Newborn'  BY <1>1, <1>4, <1>5 DEF Heals, Newborn
<1>12. Asked' /\ Phases' /\ Drains'  BY <1>1, <1>5 DEF Asked, Phases, Drains
<1> QED  BY <1>6, <1>7, <1>8, <1>9, <1>10, <1>11, <1>12

(* handleCrashRespawn, up to its call of spawn. *)
LEMMA HandleCrashStep ==
  ASSUME CalmInv, CalmBudget, TypeOK', NEW p \in Pids,
         HandleCrash(p) \/ CrashRollback(p) \/ RespawnCheck(p)
  PROVE  Calm'
<1>a. sup = "up"  BY Basics DEF HandleCrash, CrashRollback, RespawnCheck
<1>b. Healing(p) /\ (mon[p] # "crash" => activePID = None)
  BY DEF HandleCrash, CrashRollback, RespawnCheck, Healing, CalmInv, Calm, Heals
<1>c. UNCHANGED <<proc, ver, tko, tok, singles, link, toS, toW, backups, sup, supVer, token, reg, upg, run>>
  BY DEF HandleCrash, CrashRollback, RespawnCheck, procVars, chanVars
<1>1. ASSUME HandleCrash(p) PROVE Calm'
  <2>1. PICK x \in {"rollback", "backoff", "spawn"} : mon' = [mon EXCEPT ![p] = x]
    BY <1>1, <1>a DEF HandleCrash
  <2>2. activePID' = None /\ UNCHANGED bin  BY <1>1 DEF HandleCrash
  <2> QED  BY <1>a, <1>b, <1>c, <2>1, <2>2, HealingStep
<1>2. ASSUME CrashRollback(p) PROVE Calm'
  <2>1. mon' = [mon EXCEPT ![p] = "backoff"] /\ activePID' = None /\ RollbackBinary
    BY <1>2, <1>b DEF CrashRollback
  <2> QED  BY <1>a, <1>b, <1>c, <2>1, HealingStep
<1>3. ASSUME RespawnCheck(p) PROVE Calm'
  <2>1. mon' = [mon EXCEPT ![p] = "spawn"] /\ activePID' = None /\ UNCHANGED bin
    BY <1>3, <1>a, <1>b DEF RespawnCheck
  <2> QED  BY <1>a, <1>b, <1>c, <2>1, HealingStep
<1> QED  BY <1>1, <1>2, <1>3

(* handleCrashRespawn starts the Worker, or fails to. *)
LEMMA RespawnStep ==
  ASSUME CalmInv, CalmBudget, TypeOK', NEW p \in Pids, Respawn(p)
  PROVE  Calm'
<1> USE DEF CalmInv, Calm
<1>a. TypeOK /\ sup = "up"  BY Basics DEF Respawn
<1>b. mon \in [Pids -> MonStates] /\ mon[p] = "spawn"  BY <1>a DEF TypeOK, GoroutineTypes, Respawn
<1>c. UNCHANGED <<bin, backups, sup, supVer, token, upg, run>>  BY DEF Respawn
<1>1. /\ NoneAlive /\ upg.pc = "idle" /\ NoAsk /\ activePID = None
      /\ \A q \in Pids : Coming(q) => q = p
  BY <1>b DEF Heals, Healing
<1>2. run.pc = "none"  BY <1>b DEF Starts
<1>3. ASSUME NEW q \in Pids, Spawn(q, FALSE, [mon EXCEPT ![p] = "none"]) PROVE Calm'
  <2>1. mon' = [[mon EXCEPT ![p] = "none"] EXCEPT ![q] = "new"]  BY <1>3 DEF Spawn
  <2>2. ASSUME NEW r \in Pids, r # q PROVE ~Healing(r)' /\ mon'[r] # "new"
    <3>1. CASE r = p
      <4>1. mon'[r] = "none"  BY <1>b, <2>1, <2>2, <3>1
      <4> QED  BY <4>1 DEF Healing
    <3>2. CASE r # p
      <4>1. mon'[r] = mon[r] /\ ~Coming(r)  BY <1>b, <1>1, <2>1, <2>2, <3>2
      <4>2. mon[r] # "new"  BY <1>1, <4>1 DEF Newborn, Coming
      <4> QED  BY <4>1, <4>2 DEF Healing, Coming
    <3> QED  BY <3>1, <3>2
  <2> QED  BY <1>a, <1>c, <1>1, <1>2, <1>3, <2>2, SpawnStep
<1>4. ASSUME mon' = [mon EXCEPT ![p] = "none"], UNCHANGED <<procVars, chanVars, reg,
                                                            activePID>> PROVE Calm'
  BY <1>a, <1>b, <1>c, <1>4, Bookkeeping DEF procVars, chanVars
<1> QED  BY <1>3, <1>4 DEF Respawn

(* spawn registers the Worker it has started: the active one, or the new *)
(* one of an upgrade.                                                    *)
LEMMA RegisterStep ==
  ASSUME CalmInv, CalmBudget, TypeOK', NEW p \in Pids, Register(p)
  PROVE  Calm'
<1> USE DEF CalmInv, Calm
<1>a. TypeOK /\ sup = "up" /\ mon[p] = "new"  BY Basics DEF Register
<1>b. /\ mon \in [Pids -> MonStates] /\ reg \in [Pids -> RegStates] /\ p # None
      /\ link \in [Pids -> {"off", "dialed", "up", "stray"}]
  BY <1>a, NoneNotPid DEF TypeOK, GoroutineTypes, MemTypes, ChanTypes
<1>c. /\ UNCHANGED <<proc, ver, tko, tok, singles, toS, toW, bin, backups, sup, supVer, token, upg, run>>
      /\ reg' = [reg EXCEPT ![p] = "starting"] /\ mon' = [mon EXCEPT ![p] = "wait"]
      /\ activePID' = NewActive(p, tko[p])
      /\ link' = [link EXCEPT ![p] = IF @ = "up" THEN "stray" ELSE @]
  BY DEF Register, procVars
<1>1. /\ UNCHANGED link
      /\ \A q \in Pids : reg'[q] = "none" => reg[q] = "none"
      /\ reg'[p] = "starting" /\ mon'[p] = "wait" /\ \A q \in Pids \ {p} : mon'[q] = mon[q]
  BY <1>a, <1>b, <1>c DEF Newborn
<1>2. \/ tko[p] /\ upg.pc = "ready" /\ p = upg.new /\ activePID' = activePID
      \/ ~tko[p] /\ Only(p) /\ upg.pc = "idle" /\ NoAsk /\ activePID' = p
  BY <1>a, <1>c DEF Newborn, NewActive
<1>3. \A q \in Pids : ~Healing(q)' /\ mon'[q] # "new"
  <2> SUFFICES ASSUME NEW q \in Pids, q # p PROVE ~Healing(q) /\ mon[q] # "new"
    BY <1>1 DEF Healing
  <2>1. mon[q] # "new"  BY <1>a, <1>2 DEF Newborn, Coming
  <2>2. ~Healing(q)  BY <1>a, <1>2 DEF Heals, Coming
  <2> QED  BY <2>1, <2>2
<1>4. \A q \in Pids : (Alive(q)' <=> Alive(q)) /\ (Told(q)' <=> Told(q)) /\ (Heir(q)' <=> Heir(q))
  BY <1>c DEF Alive, Told, Heir, Only
<1>5. (NoAsk' <=> NoAsk) /\ run.pc = "none"  BY <1>a, <1>c DEF NoAsk, Starts
<1>6. KnownVersions' /\ TokensAgree' /\ HandedOver'
  BY <1>a, <1>c, <1>4 DEF KnownVersions, TokensAgree, HandedOver
<1>7. Ghosts'  BY <1>c, <1>1, <1>4 DEF Ghosts
<1>8. Starts' /\ Settles'  BY <1>c, <1>4, <1>5 DEF Starts, Settles
<1>9. Registered' /\ Linked'  BY <1>c, <1>1, <1>4 DEF Registered, Linked
<1>10. Members'
  <2>1. CASE upg.pc = "ready" /\ p = upg.new /\ activePID' = activePID
    BY <1>a, <1>c, <1>1, <1>4, <1>5, <2>1 DEF Members
  <2>2. CASE Only(p) /\ activePID' = p  BY <1>4, <2>2 DEF Members, Only
  <2> QED  BY <1>2, <2>1, <2>2
<1>11. Heals' /\ Newborn'  BY <1>3 DEF Heals, Newborn
<1>12. Asked' /\ Phases'  BY <1>c, <1>2, <1>4, <1>5 DEF Asked, Phases
<1>13. Drains'  BY <1>c DEF Drains
<1> QED  BY <1>6, <1>7, <1>8, <1>9, <1>10, <1>11, <1>12, <1>13

(* Reading a message leaves the others where they are. *)
LEMMA HoldsBehind ==
  ASSUME NEW S, NEW q \in Seq(S), q # <<>>, NEW x, Holds(q, x), Head(q) # x
  PROVE  Holds(Tail(q), x)
<1>1. PICK i \in 1 .. Len(q) : q[i] = x  BY DEF Holds
<1>2. i # 1  BY <1>1
<1>3. i - 1 \in 1 .. Len(Tail(q)) /\ Tail(q)[i - 1] = x  BY <1>1, <1>2
<1> QED  BY <1>3 DEF Holds

(* A Worker takes ACTIVATE. *)
LEMMA OnActivateStep ==
  ASSUME CalmInv, CalmBudget, TypeOK', NEW p \in Pids, OnActivate(p)
  PROVE  Calm'
<1> USE DEF CalmInv, Calm
<1>a. TypeOK  BY Basics
<1>b. /\ toW \in [Pids -> Seq(ToWMsgs)] /\ singles \in [Pids -> BOOLEAN] /\ toW[p] \in Seq(ToWMsgs)
      /\ toW[p] # <<>> /\ Head(toW[p]) = "ACTIVATE" /\ Alive(p)
  BY <1>a DEF TypeOK, ChanTypes, ProcTypes, OnActivate, Alive
<1>c. /\ UNCHANGED <<proc, ver, tko, tok, link, toS, bin, backups, stFile, sup, supVer, token, reg, mon,
                     upg, run, activePID>>
      /\ toW' = [toW EXCEPT ![p] = Tail(@)] /\ singles' = [singles EXCEPT ![p] = @ \/ Activates(p)]
  BY DEF OnActivate, memVars
<1>1. \A q \in Pids : /\ q # p => toW'[q] = toW[q] /\ singles'[q] = singles[q]
                      /\ \A m \in {"DRAIN", "SHUTDOWN"} : Holds(toW'[q], m) <=> Holds(toW[q], m)
                      /\ Alive(q)' <=> Alive(q)
                      /\ singles'[q] => singles[q] \/ proc[q] = "serving"
  <2> TAKE q \in Pids
  <2>1. CASE q = p
    <3>1. toW'[p] = Tail(toW[p]) /\ (singles'[p] => singles[p] \/ proc[p] = "serving")
      BY <1>b, <1>c DEF Activates
    <3>2. \A m \in {"DRAIN", "SHUTDOWN"} : Holds(Tail(toW[p]), m) <=> Holds(toW[p], m)
      BY <1>b, HoldsQueue, HoldsBehind
    <3> QED  BY <1>c, <2>1, <3>1, <3>2 DEF Alive
  <2>2. CASE q # p  BY <1>b, <1>c, <2>2 DEF Alive
  <2> QED  BY <2>1, <2>2
<1>2. \A q \in Pids : /\ Told(q)' <=> Told(q)
                      /\ (Healing(q)' <=> Healing(q)) /\ (Coming(q)' <=> Coming(q))
                      /\ Only(q)' <=> Only(q)
  BY <1>c, <1>1 DEF Told, Healing, Coming, Only
<1>3. \A q \in Pids : Heir(q)' <=> Heir(q)  BY <1>c, <1>1, <1>2 DEF Heir, Only
<1>4. NoAsk' <=> NoAsk  BY <1>c DEF NoAsk
<1>5. upg.pc \in {"ready", "gone", "activate"} => p # upg.new  BY <1>b DEF Phases
<1>6. KnownVersions' /\ TokensAgree'  BY <1>c, <1>1 DEF KnownVersions, TokensAgree
<1>7. Ghosts'  BY <1>b, <1>c, <1>1 DEF Ghosts
<1>8. HandedOver'  BY <1>c, <1>3, <1>4 DEF HandedOver
<1>9. Starts' /\ Settles'  BY <1>c, <1>3, <1>4 DEF Starts, Settles
<1>10. Registered' /\ Linked' /\ Members'  BY <1>c, <1>1 DEF Registered, Linked, Members
<1>11. Heals'
  <2>1. NoneAlive' <=> NoneAlive  BY <1>1 DEF NoneAlive
  <2> QED  BY <1>c, <1>2, <1>4, <2>1 DEF Heals
<1>12. Asked'  BY <1>c, <1>2, <1>4 DEF Asked
<1>13. Phases'  BY <1>c, <1>1, <1>5 DEF Phases
<1>14. Drains'  BY <1>c, <1>1 DEF Drains
<1>15. Newborn'  BY <1>c, <1>2, <1>4 DEF Newborn
<1> QED  BY <1>6, <1>7, <1>8, <1>9, <1>10, <1>11, <1>12, <1>13, <1>14, <1>15

(* The old Worker of an upgrade leaves, and ends. *)
LEMMA LeaveStep ==
  ASSUME CalmInv, CalmBudget, TypeOK', NEW p \in Pids, upg.pc = "gone", p = upg.old,
         NEW x \in {"draining", "exit0"}, proc' = [proc EXCEPT ![p] = x],
         toW' = [toW EXCEPT ![p] = <<>>],
         \A q \in Pids : q # p => link'[q] = link[q] /\ singles'[q] = singles[q],
         singles'[p] => singles[p] /\ x = "draining", proc[p] # "none", link'[p] # "stray",
         Alive(p),
         UNCHANGED <<ver, tko, tok, toS, bin, backups, stFile, sup, supVer, token, reg, mon, upg, run,
                     activePID>>
  PROVE  Calm'
<1> USE DEF CalmInv, Calm
<1>a. TypeOK  BY Basics
<1>b. proc \in [Pids -> ProcStates] /\ toW \in [Pids -> Seq(ToWMsgs)]
  BY <1>a DEF TypeOK, ProcTypes, ChanTypes
<1>c. /\ sup = "up" /\ run.pc = "none"
      /\ activePID \in Pids /\ proc[activePID] = "serving" /\ ~Told(activePID)
      /\ activePID = upg.new /\ p # upg.new
  BY Upgrading DEF Phases
<1>1. /\ proc'[p] = x /\ toW'[p] = <<>>
      /\ \A q \in Pids : q # p => proc'[q] = proc[q] /\ toW'[q] = toW[q]
  BY <1>b
<1>2. \A q \in Pids : /\ Alive(q)' => Alive(q)
                      /\ proc'[q] = "serving" => proc[q] = "serving" /\ link'[q] = link[q]
                      /\ \A m : Holds(toW'[q], m) => Holds(toW[q], m)
  <2> TAKE q \in Pids
  <2>1. CASE q = p  BY <1>1, <2>1 DEF Holds
  <2>2. CASE q # p  BY <1>1, <2>2 DEF Alive
  <2> QED  BY <2>1, <2>2
<1>3. /\ TokensAgree' /\ HandedOver' /\ Starts' /\ Settles' /\ Linked' /\ Heals' /\ Newborn'
      /\ KnownVersions'
  BY <1>2, UpgFrame
<1>4. Ghosts'
  <2> SUFFICES ASSUME NEW q \in Pids
               PROVE  /\ link'[q] # "stray" /\ (proc'[q] = "none" => link'[q] = "off")
                      /\ ~Alive(q)' => toW'[q] = <<>>
                      /\ singles'[q] => proc'[q] \in {"serving", "draining"}
                      /\ ~Holds(toW'[q], "SHUTDOWN")
    BY DEF Ghosts
  <2>1. CASE q = p  BY <1>1, <2>1 DEF Holds
  <2>2. CASE q # p  BY <1>1, <2>2 DEF Ghosts, Alive
  <2> QED  BY <2>1, <2>2
<1>5. Registered' /\ Members'  BY <1>2 DEF Registered, Members
<1>6. Asked'  BY <1>c, <1>1 DEF Asked, Told
<1>7. Phases'  BY <1>c, <1>1 DEF Phases
<1>8. Drains'  BY <1>1, <1>2 DEF Drains
<1> QED  BY <1>3, <1>4, <1>5, <1>6, <1>7, <1>8

(* DRAIN and the end of a Worker that drains: it is the old one of an *)
(* upgrade.                                                           *)
LEMMA OnDrainStep ==
  ASSUME CalmInv, CalmBudget, TypeOK', NEW p \in Pids, OnDrain(p) \/ Exit(p)
  PROVE  upg.pc = "gone" /\ p = upg.old /\ Alive(p) /\ Calm'
<1> USE DEF CalmInv, Calm
<1>a. TypeOK  BY Basics
<1>b. toW[p] \in Seq(ToWMsgs) /\ link \in [Pids -> {"off", "dialed", "up", "stray"}]
      /\ singles \in [Pids -> BOOLEAN]
  BY <1>a DEF TypeOK, ChanTypes, ProcTypes
<1>1. ASSUME OnDrain(p) PROVE upg.pc = "gone" /\ p = upg.old /\ Alive(p) /\ Calm'
  <2>1. Holds(toW[p], "DRAIN") \/ Holds(toW[p], "SHUTDOWN")  BY <1>b, <1>1, HoldsQueue DEF OnDrain
  <2>2. upg.pc = "gone" /\ p = upg.old  BY <2>1 DEF Drains, Ghosts
  <2>3. /\ proc' = [proc EXCEPT ![p] = "draining"] /\ toW' = [toW EXCEPT ![p] = <<>>] /\ Alive(p)
        /\ proc[p] # "none"
        /\ UNCHANGED <<ver, tko, tok, toS, bin, backups, stFile, sup, supVer, token, reg, mon, upg, run,
                       activePID, singles>>
        /\ link'[p] # "stray" /\ \A q \in Pids : q # p => link'[q] = link[q]
    BY <1>1, <1>b DEF OnDrain, memVars, Alive
  <2> QED  BY <2>2, <2>3, LeaveStep
<1>2. ASSUME Exit(p) PROVE upg.pc = "gone" /\ p = upg.old /\ Alive(p) /\ Calm'
  <2>1. proc[p] = "draining" /\ Alive(p)  BY <1>2 DEF Exit, Alive
  <2>2. upg.pc = "gone" /\ p = upg.old  BY <2>1 DEF Drains
  <2>3. /\ proc' = [proc EXCEPT ![p] = "exit0"] /\ toW' = [toW EXCEPT ![p] = <<>>]
        /\ UNCHANGED <<ver, tko, tok, link, toS, bin, backups, stFile, sup, supVer, token, reg, mon, upg,
                       run, activePID>>
        /\ singles' = [singles EXCEPT ![p] = FALSE]
    BY <1>2 DEF Exit, Die, memVars
  <2>4. ~singles'[p] /\ link[p] # "stray" /\ \A q \in Pids : q # p => singles'[q] = singles[q]
    BY <1>b, <2>3 DEF Ghosts
  <2> QED  BY <2>1, <2>2, <2>3, <2>4, LeaveStep
<1> QED  BY <1>1, <1>2

(* A new version is installed, and the Supervisor asked for the upgrade. *)
LEMMA InstallStep ==
  ASSUME CalmInv, CalmBudget, TypeOK', NEW p \in Pids, Install(p)
  PROVE  Calm'
<1> USE DEF CalmInv, Calm
<1>a. TypeOK /\ Budget["trigger"] = 0  BY Basics DEF Install, Spend
<1>b. /\ proc[p] = "serving" /\ ver[p] < Latest /\ bin' = Latest
      /\ backups' \in {BackedUp(Latest), backups}
      /\ UNCHANGED <<proc, ver, tko, tok, singles, link, toW, sup, supVer, token, reg, mon, upg, run,
                     activePID>>
  BY DEF Install, CalmBudget, procVars, memVars
<1>c. ~(\E n \in Pids : Heir(n))  BY <1>b DEF Heir, Only, Alive
<1>1. sup = "up"  BY <1>b, <1>c, Basics DEF HandedOver
<1>2. run.pc = "none" /\ supVer = 1  BY <1>1, <1>b, <1>c DEF Starts, Settles
<1>3. \A q \in Pids : (Alive(q)' <=> Alive(q)) /\ (Told(q)' <=> Told(q))  BY <1>b DEF Alive, Told
<1>4. activePID \in Pids /\ proc[activePID] = "serving" /\ ~Told(activePID)
  <2>1. CASE upg.pc = "idle"
    <3>1. p = activePID  BY <1>b, <1>1, <1>2, <2>1 DEF Members, Newborn, Alive
    <3> QED  BY <1>b, <2>1, <3>1 DEF Drains, Ghosts, Told
  <2>2. CASE upg.pc # "idle"  BY <2>2 DEF Asked
  <2> QED  BY <2>1, <2>2
<1>5. \A q \in Pids : ~Healing(q)  BY <1>b DEF Heals, NoneAlive, Alive
<1>6. KnownVersions'
  <2>1. Latest \in Known  BY <1>a DEF Known
  <2>2. bin \in Known /\ backups \in Seq(Known)  BY DEF KnownVersions
  <2>3. BackedUp(Latest) \in Seq(Known)  BY <2>2, QueueType DEF BackedUp
  <2> QED  BY <1>b, <2>1, <2>2, <2>3 DEF KnownVersions
<1>7. TokensAgree' /\ HandedOver'  BY <1>1, <1>b, <1>3 DEF TokensAgree, HandedOver
<1>8. Ghosts' /\ Registered' /\ Linked' /\ Members'  BY <1>b, <1>3 DEF Ghosts, Registered, Linked, Members
<1>9. Starts' /\ Settles'  BY <1>b, <1>2 DEF Starts, Settles
<1>d. \A q \in Pids : mon[q] = "new" => tko[q]  BY <1>4, NoneNotPid DEF Newborn
<1>10. Heals' /\ Newborn'  BY <1>b, <1>5, <1>d DEF Heals, Healing, Newborn
<1>11. Asked'  BY <1>b, <1>3, <1>4 DEF Asked
<1>12. Phases' /\ Drains'  BY <1>b DEF Phases, Drains
<1> QED  BY <1>6, <1>7, <1>8, <1>9, <1>10, <1>11, <1>12

(* A Worker probes the port, opens its ports, or fails to. *)
LEMMA StartingStep ==
  ASSUME CalmInv, CalmBudget, TypeOK', NEW p \in Pids, Probe(p) \/ ProbeFail(p) \/ Boot(p) \/ BootFail(p)
  PROVE  Calm'
<1>a. TypeOK /\ proc[p] \in {"probing", "booting"}  BY Basics DEF Probe, ProbeFail, Boot, BootFail
<1>b. /\ toW \in [Pids -> Seq(ToWMsgs)] /\ singles \in [Pids -> BOOLEAN] /\ ~singles[p]
      /\ tko[p] \in BOOLEAN
  BY <1>a DEF TypeOK, ChanTypes, ProcTypes, CalmInv, Calm, Ghosts
<1>c. UNCHANGED <<ver, tko, tok, link, toS, bin, backups, stFile, sup, supVer, token, reg, mon, upg, run,
                  activePID>>
  BY DEF Probe, ProbeFail, Boot, BootFail, Die, memVars, chanVars
<1>1. ASSUME Probe(p) PROVE Calm'
  <2>1. proc' = [proc EXCEPT ![p] = "booting"] /\ UNCHANGED <<singles, toW>>  BY <1>1 DEF Probe, chanVars
  <2> QED  BY <1>a, <1>b, <1>c, <2>1, YoungStep
<1>2. ASSUME Die(p, "crashed") PROVE Calm'
  <2>1. proc' = [proc EXCEPT ![p] = "crashed"] /\ singles' = [singles EXCEPT ![p] = FALSE]
        /\ toW' = [toW EXCEPT ![p] = <<>>]
    BY <1>2 DEF Die
  <2>2. /\ \A q \in Pids \ {p} : singles'[q] = singles[q] /\ toW'[q] = toW[q]
        /\ ~singles'[p] /\ toW'[p] = <<>>
    BY <1>b, <2>1
  <2> QED  BY <1>a, <1>c, <2>1, <2>2, YoungStep
<1>3. ASSUME Boot(p) PROVE Calm'
  <2>1. /\ proc' = [proc EXCEPT ![p] = "serving"] /\ singles' = [singles EXCEPT ![p] = @ \/ ~tko[p]]
        /\ UNCHANGED toW
    BY <1>3 DEF Boot, chanVars
  <2>2. /\ \A q \in Pids \ {p} : singles'[q] = singles[q]
        /\ singles'[p] => ~tko[p]
    BY <1>b, <2>1
  <2>3. link[p] = "up"
    <3>1. left["late"] = 0  BY Basics DEF CalmEvents
    <3>2. sup = "up" /\ SupUp /\ tok[p] = token
      BY <1>a, Young DEF SupUp, CalmInv, Calm, TokensAgree, Alive
    <3>3. link[p] # "stray"  BY DEF CalmInv, Calm, Ghosts
    <3> QED  BY <1>3, <3>1, <3>2, <3>3 DEF Boot, EndsOr, Spend, Online
  <2> QED  BY <1>a, <1>c, <2>1, <2>2, <2>3, YoungStep
<1> QED  BY <1>1, <1>2, <1>3 DEF ProbeFail, BootFail

(* READY is no request. *)
LEMMA ReadyNoAsk ==
  ASSUME NEW q \in Seq(ToSMsgs), Holds(Append(q, "READY"), "REQUEST_UPGRADE")
  PROVE  Holds(q, "REQUEST_UPGRADE")
<1>1. "READY" \in ToSMsgs /\ "READY" # "REQUEST_UPGRADE"  BY DEF ToSMsgs
<1> QED  BY <1>1, HoldsQueue

(* HELLO, READY, a lost connection, a monitor that stops polling: *)
(* bookkeeping.                                                   *)
LEMMA BookStep ==
  ASSUME CalmInv, CalmBudget, TypeOK', NEW p \in Pids,
         HandleHello(p) \/ OnReady(p) \/ ConnLost(p) \/ PollStops(p) \/ Dial(p) \/ SendReady(p)
  PROVE  Calm'
<1> USE DEF CalmInv, Calm
<1>a. TypeOK  BY Basics
<1>b. /\ reg \in [Pids -> RegStates] /\ mon \in [Pids -> MonStates]
      /\ link \in [Pids -> {"off", "dialed", "up", "stray"}] /\ toS \in [Pids -> Seq(ToSMsgs)]
      /\ toS[p] \in Seq(ToSMsgs)
  BY <1>a DEF TypeOK, MemTypes, GoroutineTypes, ChanTypes
<1>c. /\ sup = "up"
      /\ UNCHANGED <<proc, ver, tko, tok, singles, toW, bin, backups, sup, supVer, token, upg, run,
                     activePID>>
  <2>1. SupUp \/ link[p] # "off"
    BY DEF HandleHello, OnReady, ConnLost, PollStops, Dial, SendReady
  <2>2. sup = "up"  BY <2>1, Basics DEF HandedOver
  <2> DEFINE Same == UNCHANGED <<proc, ver, tko, tok, singles, toW, bin, backups, sup, supVer, token,
                                 upg, run, activePID>>
  <2>3. HandleHello(p) \/ OnReady(p) => Same  BY DEF HandleHello, OnReady, procVars
  <2>4. ConnLost(p) \/ PollStops(p) => Same  BY DEF ConnLost, PollStops, procVars, chanVars, memVars
  <2>5. Dial(p) \/ SendReady(p) => Same  BY DEF Dial, SendReady, procVars, memVars
  <2> QED  BY <2>2, <2>3, <2>4, <2>5
<1>d. left["overtake"] = 0  BY Basics DEF CalmEvents
<1>1. ASSUME HandleHello(p) PROVE Calm'
  <2>1. /\ link' = [link EXCEPT ![p] = "up"]
        /\ reg' = [reg EXCEPT ![p] = IF @ = "none" THEN "starting" ELSE @]
        /\ UNCHANGED <<mon, toS>> /\ link[p] = "dialed" /\ proc[p] # "none" /\ mon[p] # "new"
    BY <1>1, <1>d DEF HandleHello, Ghosts, EndsOr, Spend, Spawned
  <2>2. \A q \in Pids : /\ reg'[q] = "none" => reg[q] = "none"
                        /\ link[q] = "up" => link'[q] = "up"
                        /\ proc[q] = "none" => link'[q] = link[q]
                        /\ link'[q] \in {link[q], "up"} /\ (mon[q] = "new" => link'[q] = link[q])
    BY <1>b, <2>1
  <2> QED  BY <1>a, <1>c, <2>1, <2>2, Bookkeeping
<1>2. ASSUME OnReady(p) PROVE Calm'
  <2>1. /\ toS' = [toS EXCEPT ![p] = Tail(@)]
        /\ reg' = [reg EXCEPT ![p] = IF @ = "none" \/ link[p] = "stray" THEN @ ELSE "candidate"]
        /\ UNCHANGED <<mon, link>> /\ toS[p] # <<>>
    BY <1>2 DEF OnReady
  <2>2. \A q \in Pids : reg'[q] = "none" => reg[q] = "none"  BY <1>b, <2>1
  <2>3. \A q \in Pids : Holds(toS'[q], "REQUEST_UPGRADE") => Holds(toS[q], "REQUEST_UPGRADE")
    BY <1>b, <2>1, HoldsQueue
  <2> QED  BY <1>a, <1>c, <2>1, <2>2, <2>3, Bookkeeping
<1>3. ASSUME ConnLost(p) PROVE Calm'
  <2>1. link' = [link EXCEPT ![p] = "off"] /\ Dead(p) /\ UNCHANGED <<mon, toS, reg>>
    BY <1>3 DEF ConnLost, memVars
  <2>2. \A q \in Pids : /\ proc[q] = "serving" /\ link[q] = "up" => link'[q] = "up"
                        /\ proc[q] = "none" => link'[q] = link[q]
                        /\ link'[q] \in {link[q], "off"}
    BY <1>b, <2>1 DEF Dead
  <2> QED  BY <1>a, <1>c, <2>1, <2>2, Bookkeeping
<1>4. ASSUME PollStops(p) PROVE Calm'
  <2>1. mon' = [mon EXCEPT ![p] = "none"] /\ mon[p] = "poll" /\ UNCHANGED <<link, toS, reg>>
    BY <1>4 DEF PollStops, chanVars
  <2>2. \A q \in Pids : (mon'[q] = mon[q] \/ mon'[q] = "none") /\ (mon[q] = "new" => mon'[q] = "new")
    BY <1>b, <2>1
  <2> QED  BY <1>a, <1>c, <2>1, <2>2, Bookkeeping
<1>5. ASSUME Dial(p) PROVE Calm'
  <2>1. link' = [link EXCEPT ![p] = "dialed"] /\ link[p] = "off" /\ proc[p] # "none"
        /\ UNCHANGED <<mon, toS, reg>>
    BY <1>5 DEF Dial, memVars
  <2>2. \A q \in Pids : /\ link[q] = "up" => link'[q] = "up"
                        /\ proc[q] = "none" => link'[q] = link[q]
                        /\ link'[q] \in {link[q], "dialed"}
    BY <1>b, <2>1
  <2> QED  BY <1>a, <1>c, <2>1, <2>2, Bookkeeping
<1>6. ASSUME SendReady(p) PROVE Calm'
  <2>1. toS' = [toS EXCEPT ![p] = Append(@, "READY")] /\ UNCHANGED <<mon, link, reg>>
    BY <1>6 DEF SendReady, memVars
  <2>2. \A q \in Pids : Holds(toS'[q], "REQUEST_UPGRADE") => Holds(toS[q], "REQUEST_UPGRADE")
    <3>1. Append(toS[p], "READY") = toS'[p]  BY <1>b, <2>1
    <3>2. Holds(toS'[p], "REQUEST_UPGRADE") => Holds(toS[p], "REQUEST_UPGRADE")  BY <1>b, <3>1, ReadyNoAsk
    <3> QED  BY <1>b, <2>1, <3>2
  <2> QED  BY <1>a, <1>c, <2>1, <2>2, Bookkeeping
<1> QED  BY <1>1, <1>2, <1>3, <1>4, <1>5, <1>6

(* The steps that such a run does not have. *)
LEMMA Absent ==
  ASSUME CalmInv, CalmBudget
  PROVE  /\ ~AdoptWaited /\ ~AdoptSpawn /\ ~AdoptReady /\ ~AdoptReadyTimeout /\ ~AdoptDrain
         /\ ~AdoptGone /\ ~AdoptActivate
         /\ ~Shutdown /\ ~ShutdownDone /\ ~ServiceStart /\ ~SupCrash
         /\ \A p \in Pids : ~Crash(p) /\ ~Cut(p)
<1>1. ~AdoptWaited
  <2> SUFFICES ASSUME AdoptWaited PROVE FALSE  OBVIOUS
  <2>1. PICK n \in Pids : Heir(n) /\ run.cands = {n} /\ supVer = Latest
    BY DEF AdoptWaited, CalmInv, Calm, Starts
  <2>2. left["late"] = 0  BY Basics DEF CalmEvents
  <2>3. Settled  BY <2>2 DEF AdoptWaited, EndsOr, Spend
  <2>4. Claimable(n)  BY <2>1, <2>3 DEF Settled, Claimable, Heir
  <2> QED  BY <2>1, <2>4 DEF AdoptWaited
<1>2. ~AdoptSpawn /\ ~AdoptReady /\ ~AdoptReadyTimeout /\ ~AdoptDrain /\ ~AdoptGone /\ ~AdoptActivate
  BY DEF CalmInv, Calm, Starts, AdoptSpawn, AdoptReady, AdoptReadyTimeout, AdoptDrain, AdoptGone,
     AdoptActivate
<1>3. left["stop"] = 0 /\ left["supCrash"] = 0 /\ left["crash"] = 0 /\ left["cut"] = 0
  BY Basics DEF CalmEvents
<1>4. ~Shutdown /\ ~SupCrash /\ \A p \in Pids : ~Crash(p) /\ ~Cut(p)
  BY <1>3 DEF Shutdown, SupCrash, Crash, Cut, Spend
<1>5. ~ShutdownDone /\ ~ServiceStart  BY Basics DEF ShutdownDone, ServiceStart
<1> QED  BY <1>1, <1>2, <1>4, <1>5

(* Time passes. *)
LEMMA TickStep ==
  ASSUME CalmInv, CalmBudget, TypeOK', CrashExpires \/ ProbationExpires
  PROVE  Calm'
<1>1. TypeOK /\ sup = "up"  BY Basics DEF CrashExpires, ProbationExpires
<1> QED  BY <1>1, Bookkeeping DEF CrashExpires, ProbationExpires, procVars, chanVars

(* Every step keeps CalmInv. *)
LEMMA CalmStep == CalmInv /\ CalmBudget /\ [Next]_vars => CalmInv'
<1> SUFFICES ASSUME CalmInv, CalmBudget, [Next]_vars PROVE CalmInv'  OBVIOUS
<1>1. ServeInv'  BY ServeStep DEF CalmInv, CalmBudget, CalmEvents
<1>2. TypeOK'  BY <1>1 DEF ServeInv, DrainInv
<1>3. ASSUME UNCHANGED vars PROVE Calm'
  <2> USE <1>3 DEF vars, procVars, chanVars, memVars
  <2>1. \A q \in Pids : (Alive(q)' <=> Alive(q)) /\ (Told(q)' <=> Told(q)) /\ (Healing(q)' <=> Healing(q))
                        /\ (Heir(q)' <=> Heir(q)) /\ (Coming(q)' <=> Coming(q)) /\ (Only(q)' <=> Only(q))
    BY DEF Alive, Told, Healing, Heir, Only, Coming
  <2>2. (NoAsk' <=> NoAsk) /\ (NoneAlive' <=> NoneAlive)  BY <2>1 DEF NoAsk, NoneAlive
  <2>3. KnownVersions' /\ Ghosts' /\ TokensAgree'
    BY <2>1 DEF CalmInv, Calm, KnownVersions, Ghosts, TokensAgree
  <2>4. HandedOver' /\ Starts' /\ Settles'  BY <2>1, <2>2 DEF CalmInv, Calm, HandedOver, Starts, Settles
  <2>5. Registered' /\ Linked' /\ Members'  BY <2>1 DEF CalmInv, Calm, Registered, Linked, Members
  <2>6. Heals' /\ Newborn' /\ Asked'  BY <2>1, <2>2 DEF CalmInv, Calm, Heals, Newborn, Asked
  <2>7. Phases' /\ Drains'  BY DEF CalmInv, Calm, Phases, Drains
  <2> QED  BY <2>3, <2>4, <2>5, <2>6, <2>7 DEF Calm
<1>4. ASSUME RunStep PROVE Calm'
  BY <1>2, <1>4, SupStartStep, AdoptClaimStep, FirstSpawnStep, Absent DEF RunStep
<1>5. ASSUME UpgStep PROVE Calm'
  BY <1>2, <1>5, UpgSpawnStep, UpgTimeoutStep, UpgRollbackStep, UpgSwitchStep, UpgOldGoneStep, UpgActivateStep,
     HandoffSkipStep, HandoffExecStep DEF UpgStep
<1>6. ASSUME ShutdownDone \/ EnvStep PROVE Calm'
  BY <1>2, <1>6, TriggerStep, TickStep, StartingStep, InstallStep, Absent DEF EnvStep
<1>7. ASSUME NEW p \in Pids, ConnStep(p) PROVE Calm'
  <2>1. ~RejectHello(p)  BY Basics, NoReject DEF CalmBudget
  <2> QED  BY <1>2, <1>7, <2>1, BookStep, RequestStep DEF ConnStep
<1>8. ASSUME NEW p \in Pids, MonStep(p) PROVE Calm'
  BY <1>2, <1>8, RegisterStep, ReapStep, BookStep, HandleCrashStep, RespawnStep DEF MonStep
<1>9. ASSUME NEW p \in Pids, WorkStep(p) PROVE Calm'
  BY <1>2, <1>9, StartingStep, BookStep, OnDrainStep, OnActivateStep DEF WorkStep
<1> QED  BY <1>1, <1>3, <1>4, <1>5, <1>6, <1>7, <1>8, <1>9 DEF CalmInv, Next

(* CalmInv holds at the start. *)
LEMMA CalmInit == Init => CalmInv
<1> SUFFICES ASSUME Init PROVE CalmInv  OBVIOUS
<1> USE DEF Init
<1>1. ServeInv  BY ServeInit
<1>2. \A q \in Pids : ~Alive(q) /\ ~Healing(q) /\ toW[q] = <<>> /\ toS[q] = <<>> /\ ~Holds(<<>>, "DRAIN")
      /\ ~Holds(<<>>, "SHUTDOWN") /\ ~Holds(<<>>, "REQUEST_UPGRADE")
  BY DEF Alive, Healing, Holds
<1>3. KnownVersions  BY QueueType DEF KnownVersions, Known
<1>4. NoAsk /\ Ghosts /\ TokensAgree  BY <1>2 DEF NoAsk, Ghosts, TokensAgree
<1>5. HandedOver /\ Starts /\ Settles  BY <1>4 DEF HandedOver, Starts, Settles, NoRun
<1>6. Registered /\ Linked /\ Members  BY DEF Registered, Linked, Members
<1>7. Heals /\ Newborn /\ Asked /\ Phases /\ Drains
  BY <1>2, <1>4 DEF Heals, Newborn, Asked, Phases, Drains, NoUpgrade
<1> QED  BY <1>1, <1>3, <1>4, <1>5, <1>6, <1>7 DEF CalmInv, Calm

(* The tunnels, the applications and the cron jobs never run in two Workers,*)
(* however many upgrades, rolling restarts and failed upgrades there are:   *)
(* ACTIVATE is sent only after the old process has ended.                   *)
THEOREM OneSingletonOwner == ASSUME CalmBudget PROVE Spec => []SingletonExclusion
<1>1. Init => CalmInv  BY CalmInit
<1>2. CalmInv /\ [Next]_vars => CalmInv'  BY CalmStep
<1>3. CalmInv => SingletonExclusion  BY OneOwner
<1> QED  BY <1>1, <1>2, <1>3, PTL DEF Spec

(* The new Supervisor that takes over after an upgrade finds every Worker   *)
(* that is alive in supervisor.state.                                       *)
THEOREM WorkersFound == ASSUME CalmBudget PROVE Spec => []NoStrayWorker
<1>1. Init => CalmInv  BY CalmInit
<1>2. CalmInv /\ [Next]_vars => CalmInv'  BY CalmStep
<1>3. CalmInv => NoStrayWorker  BY Found
<1> QED  BY <1>1, <1>2, <1>3, PTL DEF Spec

-----------------------------------------------------------------------------
(* The refinement mapping, as functions of the two variables it reads. *)
StageOf     == [p \in Pids |-> Stage(p)]
OwnerIn(s)  == IF {p \in Pids : s[p]} = {} THEN None ELSE CHOOSE p \in {q \in Pids : s[q]} : TRUE

(* The owner that the mapping gives, when at most one Worker has the *)
(* singletons.                                                       *)
LEMMA OwnerIs ==
  ASSUME NEW s, \A p, q \in Pids : s[p] /\ s[q] => p = q
  PROVE  /\ \A p \in Pids : s[p] => OwnerIn(s) = p
         /\ (\A p \in Pids : ~s[p]) => OwnerIn(s) = None
<1>1. ASSUME NEW p \in Pids, s[p] PROVE OwnerIn(s) = p
  <2>1. {q \in Pids : s[q]} = {p}  BY <1>1
  <2> QED  BY <2>1 DEF OwnerIn
<1>2. ASSUME \A p \in Pids : ~s[p] PROVE OwnerIn(s) = None
  BY <1>2 DEF OwnerIn
<1> QED  BY <1>1, <1>2

(* A Worker without the singletons is not the owner. *)
LEMMA OwnerPid == \A p \in Pids : ~singles[p] => OwnerIn(singles) # p
<1> SUFFICES ASSUME NEW p \in Pids, OwnerIn(singles) = p PROVE singles[p]  OBVIOUS
<1>1. p # None  BY NoneNotPid
<1>2. {q \in Pids : singles[q]} # {}  BY <1>1 DEF OwnerIn
<1>3. p \in {q \in Pids : singles[q]}  BY <1>2 DEF OwnerIn
<1> QED  BY <1>3

(* One Worker changes its stage. *)
LEMMA Moves ==
  ASSUME NEW w \in Pids, NEW x, Stage(w)' = x, \A q \in Pids \ {w} : Stage(q)' = Stage(q)
  PROVE  StageOf' = [StageOf EXCEPT ![w] = x]
  BY DEF StageOf

(* A Worker begins to serve: Join. *)
LEMMA JoinStep ==
  ASSUME NEW w \in Pids, Stage(w) = "new", StageOf' = [StageOf EXCEPT ![w] = "up"],
         OwnerIn(singles') \in IF OwnerIn(singles) = None THEN {None, w} ELSE {OwnerIn(singles)}
  PROVE  Rolling!Next
<1>1. Rolling!Join(w)  BY DEF Rolling!Join, StageOf, OwnerIn, Owners
<1> QED  BY <1>1 DEF Rolling!Next

(* The singletons go to a Worker that serves: Own. *)
LEMMA OwnStep ==
  ASSUME NEW w \in Pids, Stage(w) = "up", UNCHANGED StageOf,
         OwnerIn(singles) = None, OwnerIn(singles') = w
  PROVE  Rolling!Next
<1>1. Rolling!Own(w)  BY DEF Rolling!Own, StageOf, OwnerIn, Owners
<1> QED  BY <1>1 DEF Rolling!Next

(* A Worker stops serving beside another one: Leave. *)
LEMMA LeavingStep ==
  ASSUME NEW w \in Pids, Stage(w) = "up", StageOf' = [StageOf EXCEPT ![w] = "leaving"],
         NEW v \in Pids \ {w}, Stage(v) = "up", OwnerIn(singles') = OwnerIn(singles)
  PROVE  Rolling!Next
<1>1. Rolling!Leave(w)  BY DEF Rolling!Leave, StageOf, OwnerIn, Owners
<1> QED  BY <1>1 DEF Rolling!Next

(* A Worker that has left ends: End. *)
LEMMA EndStep ==
  ASSUME NEW w \in Pids, Stage(w) = "leaving", StageOf' = [StageOf EXCEPT ![w] = "gone"],
         OwnerIn(singles') = IF OwnerIn(singles) = w THEN None ELSE OwnerIn(singles)
  PROVE  Rolling!Next
<1>1. Rolling!End(w)  BY DEF Rolling!End, StageOf, OwnerIn, Owners
<1> QED  BY <1>1 DEF Rolling!Next

(* A Worker is given up that nobody depends on: Abandon. *)
LEMMA AbandonStep ==
  ASSUME NEW w \in Pids, StageOf' = [StageOf EXCEPT ![w] = "gone"], OwnerIn(singles') = OwnerIn(singles),
         \/ Stage(w) = "new"
         \/ Stage(w) = "up" /\ OwnerIn(singles) # w /\ \E v \in Pids \ {w} : Stage(v) = "up"
  PROVE  Rolling!Next
<1>1. Rolling!Abandon(w)  BY DEF Rolling!Abandon, StageOf, OwnerIn, Owners
<1> QED  BY <1>1 DEF Rolling!Next

(* Neither the stages nor the singletons change. *)
LEMMA StutterStep ==
  ASSUME UNCHANGED singles, \A p \in Pids : Stage(p)' = Stage(p)
  PROVE  UNCHANGED Rolling!vars
<1>1. UNCHANGED StageOf  BY DEF StageOf
<1> QED  BY <1>1 DEF Rolling!vars, StageOf, Owners

(* The owner in both states, from what a step does to the singletons. *)
LEMMA OwnersMove ==
  ASSUME CalmInv, CalmInv', CalmBudget
  PROVE  /\ \A p \in Pids : singles[p] => OwnerIn(singles) = p
         /\ (\A p \in Pids : ~singles[p]) => OwnerIn(singles) = None
         /\ \A p \in Pids : singles'[p] => OwnerIn(singles') = p
         /\ (\A p \in Pids : ~singles'[p]) => OwnerIn(singles') = None
         /\ (\A p \in Pids : singles'[p] <=> singles[p]) => OwnerIn(singles') = OwnerIn(singles)
<1>1. SingletonExclusion  BY OneOwner
<1>2. SingletonExclusion'  BY OneOwner, PTL
<1>3. /\ \A p \in Pids : singles[p] => OwnerIn(singles) = p
      /\ (\A p \in Pids : ~singles[p]) => OwnerIn(singles) = None
  BY <1>1, OwnerIs DEF SingletonExclusion
<1>4. /\ \A p \in Pids : singles'[p] => OwnerIn(singles') = p
      /\ (\A p \in Pids : ~singles'[p]) => OwnerIn(singles') = None
  BY <1>2, OwnerIs DEF SingletonExclusion
<1> QED  BY <1>3, <1>4

(* A Worker begins to serve: the first one with the singletons, the new one *)
(* of an upgrade without them.                                              *)
LEMMA BootRolls ==
  ASSUME CalmInv, CalmInv', CalmBudget, NEW p \in Pids, Boot(p)
  PROVE  Rolling!Next
<1>a. TypeOK /\ proc[p] = "booting" /\ Stage(p) = "new"  BY Basics DEF Boot, Stage
<1>b. proc \in [Pids -> ProcStates] /\ singles \in [Pids -> BOOLEAN] /\ tko[p] \in BOOLEAN
  BY <1>a DEF TypeOK, ProcTypes
<1>c. proc' = [proc EXCEPT ![p] = "serving"] /\ singles' = [singles EXCEPT ![p] = @ \/ ~tko[p]]
  BY DEF Boot
<1>d. ~singles[p]  BY <1>a DEF CalmInv, Calm, Ghosts
<1>1. /\ proc'[p] = "serving" /\ (singles'[p] <=> ~tko[p])
      /\ \A q \in Pids \ {p} : proc'[q] = proc[q] /\ singles'[q] = singles[q]
  BY <1>b, <1>c, <1>d
<1>2. StageOf' = [StageOf EXCEPT ![p] = "up"]  BY <1>1, Moves DEF Stage
<1>3. OwnerIn(singles') \in IF OwnerIn(singles) = None THEN {None, p} ELSE {OwnerIn(singles)}
  <2>1. CASE tko[p]
    <3>1. \A q \in Pids : singles'[q] <=> singles[q]  BY <1>1, <1>d, <2>1
    <3> QED  BY <3>1, OwnersMove
  <2>2. CASE ~tko[p]
    <3>1. Only(p)  BY <1>a, <2>2, Young DEF CalmInv, Calm, Phases
    <3>2. \A q \in Pids : ~singles[q]  BY <1>d, <3>1 DEF CalmInv, Calm, Ghosts, Only, Alive
    <3>3. singles'[p]  BY <1>1, <2>2
    <3> QED  BY <3>2, <3>3, OwnersMove
  <2> QED  BY <2>1, <2>2
<1> QED  BY <1>a, <1>2, <1>3, JoinStep

(* ACTIVATE gives the singletons to a Worker when nobody has them. *)
LEMMA ActivateRolls ==
  ASSUME CalmInv, CalmInv', CalmBudget, NEW p \in Pids, OnActivate(p)
  PROVE  Rolling!Next \/ UNCHANGED Rolling!vars
<1>a. TypeOK /\ UNCHANGED proc /\ toW[p] # <<>> /\ Alive(p)  BY Basics DEF OnActivate, Alive
<1>b. /\ singles \in [Pids -> BOOLEAN] /\ singles' = [singles EXCEPT ![p] = @ \/ Activates(p)]
  BY <1>a DEF TypeOK, ProcTypes, OnActivate
<1>c. \A q \in Pids : Stage(q)' = Stage(q)  BY <1>a DEF Stage
<1>1. CASE singles[p] \/ ~Activates(p)
  <2>1. singles' = singles  BY <1>b, <1>1
  <2> QED  BY <1>c, <2>1, StutterStep
<1>2. CASE ~singles[p] /\ Activates(p)
  <2>1. singles'[p] /\ Stage(p) = "up"  BY <1>b, <1>2 DEF Activates, Stage
  <2>2. ASSUME NEW q \in Pids, singles[q] PROVE FALSE
    <3>1. Alive(q) /\ q # p  BY <1>2, <2>2 DEF CalmInv, Calm, Ghosts, Alive
    <3>2. upg.pc \in {"ready", "gone"} /\ {p, q} = {upg.old, upg.new}  BY <1>a, <3>1, TwoAlive
    <3>3. toW[upg.new] = <<>> /\ ~singles[upg.new]  BY <3>2 DEF CalmInv, Calm, Phases
    <3> QED  BY <1>a, <2>2, <3>2, <3>3
  <2>3. OwnerIn(singles) = None /\ OwnerIn(singles') = p  BY <2>1, <2>2, OwnersMove
  <2>4. UNCHANGED StageOf  BY <1>c DEF StageOf
  <2> QED  BY <2>1, <2>3, <2>4, OwnStep
<1> QED  BY <1>1, <1>2

(* The old Worker stops serving, while the new one serves, and ends. *)
LEMMA DrainRolls ==
  ASSUME CalmInv, CalmInv', CalmBudget, NEW p \in Pids, OnDrain(p)
  PROVE  Rolling!Next
<1>a. TypeOK /\ TypeOK'  BY Basics DEF CalmInv, ServeInv, DrainInv
<1>b. upg.pc = "gone" /\ p = upg.old  BY <1>a, OnDrainStep
<1>c. /\ activePID \in Pids /\ proc[activePID] = "serving" /\ activePID # p /\ proc[p] = "serving"
  BY <1>b, Upgrading DEF CalmInv, Calm, Phases, OnDrain
<1>d. proc \in [Pids -> ProcStates] /\ proc' = [proc EXCEPT ![p] = "draining"] /\ UNCHANGED singles
  BY <1>a DEF TypeOK, ProcTypes, OnDrain
<1>1. proc'[p] = "draining" /\ \A q \in Pids \ {p} : proc'[q] = proc[q]  BY <1>d
<1>2. StageOf' = [StageOf EXCEPT ![p] = "leaving"]  BY <1>1, Moves DEF Stage
<1>3. Stage(p) = "up" /\ Stage(activePID) = "up"  BY <1>c DEF Stage
<1> QED  BY <1>c, <1>d, <1>2, <1>3, LeavingStep

(* Its process ends, and with it the singletons it had. *)
LEMMA ExitRolls ==
  ASSUME CalmInv, CalmInv', CalmBudget, NEW p \in Pids, Exit(p)
  PROVE  Rolling!Next
<1>a. TypeOK /\ proc[p] = "draining" /\ Stage(p) = "leaving"  BY Basics DEF Exit, Stage
<1>b. /\ proc \in [Pids -> ProcStates] /\ proc' = [proc EXCEPT ![p] = "exit0"]
      /\ singles \in [Pids -> BOOLEAN] /\ singles' = [singles EXCEPT ![p] = FALSE]
  BY <1>a DEF TypeOK, ProcTypes, Exit, Die
<1>1. /\ proc'[p] = "exit0" /\ ~singles'[p]
      /\ \A q \in Pids \ {p} : proc'[q] = proc[q] /\ singles'[q] = singles[q]
  BY <1>b
<1>2. StageOf' = [StageOf EXCEPT ![p] = "gone"]  BY <1>1, Moves DEF Stage
<1>3. OwnerIn(singles') = IF OwnerIn(singles) = p THEN None ELSE OwnerIn(singles)
  <2>1. CASE singles[p]
    <3>1. \A q \in Pids : ~singles'[q]  BY <1>1, <2>1, OneOwner DEF SingletonExclusion
    <3> QED  BY <2>1, <3>1, OwnersMove
  <2>2. CASE ~singles[p]
    <3>1. \A q \in Pids : singles'[q] <=> singles[q]  BY <1>1, <2>2
    <3>2. OwnerIn(singles) # p  BY <2>2, OwnerPid
    <3> QED  BY <3>1, <3>2, OwnersMove
  <2> QED  BY <2>1, <2>2
<1> QED  BY <1>a, <1>2, <1>3, EndStep

(* A Worker that does not come up is given up. *)
LEMMA FailRolls ==
  ASSUME CalmInv, CalmInv', CalmBudget, NEW p \in Pids, ProbeFail(p) \/ BootFail(p)
  PROVE  Rolling!Next
<1>a. TypeOK /\ proc[p] \in {"probing", "booting"} /\ Stage(p) = "new"
  BY Basics DEF ProbeFail, BootFail, Stage
<1>b. /\ proc \in [Pids -> ProcStates] /\ proc' = [proc EXCEPT ![p] = "crashed"]
      /\ singles \in [Pids -> BOOLEAN] /\ singles' = [singles EXCEPT ![p] = FALSE]
  BY <1>a DEF TypeOK, ProcTypes, ProbeFail, BootFail, Die
<1>c. ~singles[p]  BY <1>a DEF CalmInv, Calm, Ghosts
<1>1. /\ proc'[p] = "crashed" /\ \A q \in Pids : singles'[q] <=> singles[q]
      /\ \A q \in Pids \ {p} : proc'[q] = proc[q]
  BY <1>b, <1>c
<1>2. StageOf' = [StageOf EXCEPT ![p] = "gone"]  BY <1>1, Moves DEF Stage
<1> QED  BY <1>a, <1>1, <1>2, OwnersMove, AbandonStep

(* The new Worker of an upgrade that was not READY in time is given up *)
(* while the old one serves.                                           *)
LEMMA TimeoutRolls ==
  ASSUME CalmInv, CalmInv', CalmBudget, UpgTimeout
  PROVE  Rolling!Next \/ UNCHANGED Rolling!vars
<1>a. TypeOK /\ Trials /\ UpgApart /\ upg.pc = "ready"  BY Basics DEF UpgTimeout
<1>b. /\ activePID \in Pids /\ proc[activePID] = "serving"
      /\ upg.new \in Pids /\ upg.new # activePID /\ ~singles[upg.new]
  BY <1>a, Upgrading DEF CalmInv, Calm, Phases, UpgApart
<1> PICK n \in Pids : n = upg.new  BY <1>b
<1>c. proc[n] \in {"booting", "serving", "crashed"}  BY <1>a DEF Trials, InTrial
<1>1. CASE reg[n] # "none" /\ Alive(n)
  <2>1. Die(n, "crashed")  BY <1>1 DEF UpgTimeout
  <2>2. /\ proc \in [Pids -> ProcStates] /\ proc' = [proc EXCEPT ![n] = "crashed"]
        /\ singles \in [Pids -> BOOLEAN] /\ singles' = [singles EXCEPT ![n] = FALSE]
    BY <1>a, <2>1 DEF TypeOK, ProcTypes, Die
  <2>3. /\ proc'[n] = "crashed" /\ \A q \in Pids : singles'[q] <=> singles[q]
        /\ \A q \in Pids \ {n} : proc'[q] = proc[q]
    BY <1>b, <2>2
  <2>4. StageOf' = [StageOf EXCEPT ![n] = "gone"]  BY <2>3, Moves DEF Stage
  <2>5. OwnerIn(singles) # n  BY <1>b, OwnerPid
  <2>6. Stage(activePID) = "up" /\ Stage(n) \in {"new", "up"}  BY <1>1, <1>b, <1>c DEF Stage, Alive
  <2> QED  BY <1>b, <2>3, <2>4, <2>5, <2>6, OwnersMove, AbandonStep
<1>2. CASE ~(reg[n] # "none" /\ Alive(n))
  BY <1>2, StutterStep DEF UpgTimeout, procVars, Stage
<1> QED  BY <1>1, <1>2

(* Every step is one of RollingService, or changes nothing of it. *)
LEMMA RollStep == CalmInv /\ CalmInv' /\ CalmBudget /\ [Next]_vars => [Rolling!Next]_Rolling!vars
<1> SUFFICES ASSUME CalmInv, CalmInv', CalmBudget, [Next]_vars
             PROVE  Rolling!Next \/ UNCHANGED Rolling!vars
  OBVIOUS
<1>a. TypeOK  BY Basics
<1>1. ASSUME UNCHANGED <<proc, singles>> PROVE UNCHANGED Rolling!vars
  BY <1>1, StutterStep DEF Stage
<1>2. ASSUME NEW p \in Pids, NEW t \in BOOLEAN, NEW m, Spawn(p, t, m) PROVE UNCHANGED Rolling!vars
  <2>1. /\ proc[p] = "none" /\ \A q \in Pids \ {p} : proc'[q] = proc[q]
    BY <1>a, <1>2, SpawnFresh DEF Started
  <2>2. proc'[p] \in {"probing", "booting"} /\ UNCHANGED singles
    BY <1>2, <1>a DEF Spawn, TypeOK, ProcTypes
  <2> QED  BY <2>1, <2>2, StutterStep DEF Stage
<1>3. ASSUME NEW p \in Pids, Probe(p) PROVE UNCHANGED Rolling!vars
  <2>1. /\ proc[p] = "probing" /\ proc'[p] = "booting" /\ UNCHANGED singles
        /\ \A q \in Pids \ {p} : proc'[q] = proc[q]
    BY <1>3, <1>a DEF Probe, TypeOK, ProcTypes
  <2> QED  BY <2>1, StutterStep DEF Stage
<1>4. ASSUME RunStep PROVE UNCHANGED Rolling!vars
  BY <1>4, <1>1, <1>2, Absent DEF RunStep, SupStart, FirstSpawn, AdoptClaim, procVars
<1>5. ASSUME UpgStep PROVE Rolling!Next \/ UNCHANGED Rolling!vars
  BY <1>5, <1>1, <1>2, TimeoutRolls DEF UpgStep, UpgSpawn, UpgRollback, UpgSwitch, UpgOldGone,
     UpgActivate, HandoffSkip, HandoffExec, procVars
<1>6. ASSUME ShutdownDone \/ EnvStep PROVE Rolling!Next \/ UNCHANGED Rolling!vars
  BY <1>6, <1>1, FailRolls, Absent DEF EnvStep, OnTriggerUpgrade, CrashExpires, ProbationExpires,
     Install, procVars
<1>7. ASSUME NEW p \in Pids, ConnStep(p) PROVE UNCHANGED Rolling!vars
  BY <1>7, <1>1 DEF ConnStep, HandleHello, RejectHello, OnReady, OnRequestUpgrade, ConnLost, procVars
<1>8. ASSUME NEW p \in Pids, MonStep(p) PROVE UNCHANGED Rolling!vars
  BY <1>8, <1>1, <1>2 DEF MonStep, Register, Reap, ReapAdopted, PollStops, HandleCrash, CrashRollback,
     RespawnCheck, Respawn, procVars
<1>9. ASSUME NEW p \in Pids, WorkStep(p) PROVE Rolling!Next \/ UNCHANGED Rolling!vars
  BY <1>9, <1>1, <1>3, FailRolls, BootRolls, DrainRolls, ActivateRolls, ExitRolls
     DEF WorkStep, Dial, SendReady, procVars
<1>10. ASSUME UNCHANGED vars PROVE UNCHANGED Rolling!vars  BY <1>10, <1>1 DEF vars, procVars
<1> QED  BY <1>4, <1>5, <1>6, <1>7, <1>8, <1>9, <1>10 DEF Next

(* The initial states are those of RollingService. *)
LEMMA RollInit == Init => Rolling!Init
<1> SUFFICES ASSUME Init PROVE Rolling!Init  OBVIOUS
<1>1. \A p \in Pids : Stage(p) = "new"  BY DEF Init, Stage
<1>2. Owners = {}  BY DEF Init, Owners
<1> QED  BY <1>1, <1>2 DEF Rolling!Init

(* Seen from outside, upgrades, failed ones included, and the handoff to    *)
(* the new Supervisor are Workers that join before others leave, and        *)
(* singletons that change hands when their owner's process has ended: every *)
(* behaviour is one of RollingService.                                      *)
THEOREM RollingUpgrade == ASSUME CalmBudget PROVE Spec => ImplementsRollingService
<1>1. Init => CalmInv /\ Rolling!Init  BY CalmInit, RollInit
<1>2. CalmInv /\ [Next]_vars => CalmInv'  BY CalmStep
<1>3. CalmInv /\ CalmInv' /\ [Next]_vars => [Rolling!Next]_Rolling!vars  BY RollStep
<1> QED  BY <1>1, <1>2, <1>3, PTL DEF Spec, ImplementsRollingService, Rolling!Spec
==============================================================================

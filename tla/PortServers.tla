---------------------------- MODULE PortServers ----------------------------
(***************************************************************************)
(* The listeners of the proxy engine (wafenginecore/wafworker.go and       *)
(* wafengine.go): ServerOnline says which ports are wanted and by which    *)
(* server each is served; the main loop enters, starts and removes ports,  *)
(* every start is a goroutine that looks its entry up, puts its server in  *)
(* and listens, and the shutdown of the process drains what ServerOnline   *)
(* names.  Listeners have SO_REUSEPORT: one port may have several.         *)
(*                                                                         *)
(* A site is the set of the ports its row listens on, none while it is     *)
(* stopped.  Writing a row and notifying the loop is one step here;        *)
(* HostRouting has the interleavings of the two.                           *)
(***************************************************************************)
EXTENDS Integers, Sequences, FiniteSets, SequencesExt

CONSTANTS
  Ports,     (* TCP ports                                                   *)
  Sites,     (* sites                                                       *)
  Rows,      (* the sets of ports each site's row may name                  *)
  Existing,  (* the rows when the engine starts                             *)
  MaxSvr,    (* bound: servers ever started                                 *)
  Budget     (* bound: changes of rows and reloads, failures, the shutdown  *)

Kinds == {"row", "fail", "stop"}

ASSUME PortAssumption ==
  /\ Rows \in [Sites -> SUBSET SUBSET Ports] /\ Existing \in [Sites -> SUBSET Ports]
  /\ MaxSvr \in Nat /\ Budget \in [Kinds -> Nat] /\ Ports # {}

Servers == 1..MaxSvr
Nil     == 0                                             \* no http.Server
NoEntry == [here |-> FALSE, known |-> FALSE, new |-> FALSE, svr |-> Nil]
Entry   == [here : BOOLEAN, known : BOOLEAN, new : BOOLEAN, svr : Servers \cup {Nil}]

VARIABLES
  db,       \* the ports of each site's row
  life,     \* whether each site has a row: "unborn", "row" or "deleted"
  ch,       \* GWAF_CHAN_MSG and GWAF_CHAN_ENGINE: rows to load, and reloads
  loaded,   \* the rows the engine has loaded
  online,   \* ServerOnline: known has a ServerType, new is Status 1
  eng,      \* what the main loop is doing
  go,       \* the goroutine of each server
  stopping, \* StopAllProxyServer: the servers still to be drained, and the phase
  left      \* what is left of Budget

vars == <<db, life, ch, loaded, online, eng, go, stopping, left>>

Spend(k)   == left[k] > 0 /\ left' = [left EXCEPT ![k] = @ - 1]
Loop       == [pc |-> "loop", rows |-> <<>>, start |-> {}, copy |-> <<>>, port |-> {}, gone |-> {}]
WantedTwice(p) == Cardinality({c \in Sites : p \in db[c]}) > 1    \* mutant: one site is not enough
Wanted(p)  == \E c \in Sites : p \in db[c]                  \* CheckAvailablePortExistApi
Serving(p) == \E i \in Servers : go[i].pc = "serving" /\ go[i].port = p
Unused     == {i \in Servers : go[i].pc = "unused"}

-----------------------------------------------------------------------------
(* The management API *)

Post(c, P, o) ==
  /\ Spend("row") /\ db' = [db EXCEPT ![c] = P]
  /\ ch' = Append(ch, [op |-> o, site |-> {c}, row |-> P])
  /\ UNCHANGED <<loaded, online, eng, go, stopping>>

AddHost(c, P)  == life[c] = "unborn" /\ life' = [life EXCEPT ![c] = "row"] /\ Post(c, P, "new")
EditHost(c, P) == life[c] = "row" /\ P # db[c] /\ UNCHANGED life /\ Post(c, P, "edit")
DelHost(c)     == life[c] = "row" /\ life' = [life EXCEPT ![c] = "deleted"] /\ Post(c, {}, "del")

ReloadApi ==
  /\ Spend("row") /\ ch' = Append(ch, [op |-> "reload", site |-> {}, row |-> {}])
  /\ UNCHANGED <<db, life, loaded, online, eng, go, stopping>>

-----------------------------------------------------------------------------
(* The main loop: the ports of the rows are entered, the ones not started  *)
(* are started, and the ones no row wants are closed.  A new site starts   *)
(* its own ports and closes none, a deleted one starts none.               *)

TakeRow ==
  LET m == Head(ch) IN
  /\ eng.pc = "loop" /\ ch # <<>> /\ ch' = Tail(ch)
  /\ eng' = [Loop EXCEPT !.pc = "load",
               !.rows = IF m.op = "reload" THEN db ELSE [c \in m.site |-> m.row],
               !.start = CASE m.op = "new" -> m.row [] m.op = "del" -> {} [] OTHER -> Ports,
               !.gone = IF m.op = "new" THEN {} ELSE Ports]
  /\ UNCHANGED <<db, life, loaded, online, go, stopping, left>>

NotNew  == [here |-> TRUE, known |-> TRUE, new |-> FALSE, svr |-> Nil]  \* mutant: Status left at 0
ToStart == [here |-> TRUE, known |-> TRUE, new |-> TRUE, svr |-> Nil]
LoadHost ==
  LET P == UNION Range(eng.rows) IN
  /\ eng.pc = "load"
  /\ online' = [p \in Ports |-> IF p \in P /\ ~online[p].here
                                THEN ToStart ELSE online[p]]
  /\ loaded' = [c \in Sites |-> IF c \in DOMAIN eng.rows THEN eng.rows[c] ELSE loaded[c]]
  /\ eng' = [eng EXCEPT !.pc = "start"]
  /\ UNCHANGED <<db, life, ch, go, stopping, left>>

(* StartProxyServer: one goroutine for every entry that is new and has a   *)
(* type.  MaxSvr bounds the goroutines.                                    *)
IsNew(e) == e.here /\ e.known /\ e.new
StartAllProxyServer ==
  LET P == {p \in eng.start : IsNew(online[p])}
      f == CHOOSE f \in Injection(P, Unused) : TRUE
  IN  /\ eng.pc = "start" /\ Injection(P, Unused) # {}
      /\ go' = [i \in Servers |-> IF \E p \in P : f[p] = i
                                  THEN [pc |-> "spawned", port |-> CHOOSE p \in P : f[p] = i,
                                        known |-> FALSE, shut |-> FALSE] ELSE go[i]]
      /\ eng' = IF eng.gone = {} THEN Loop ELSE [eng EXCEPT !.pc = "remove"]
      /\ UNCHANGED <<db, life, ch, loaded, online, stopping, left>>

(* RemovePortServer goes through a copy of ServerOnline: the rows are asked *)
(* for each port, the server the copy has is shut down, and at the end the *)
(* entries are deleted.  The goroutines just started run before the copy   *)
(* is taken as well as after.                                              *)
RemovePortServer ==
  /\ eng.pc = "remove"
  /\ eng' = [eng EXCEPT !.pc = "check", !.gone = {},
                        !.copy = [p \in {p \in Ports : online[p].here} |-> online[p].svr]]
  /\ UNCHANGED <<db, life, ch, loaded, online, go, stopping, left>>

Check(p) ==
  /\ eng.pc = "check" /\ p \in DOMAIN eng.copy
  /\ eng' = IF Wanted(p) THEN [eng EXCEPT !.copy = Restrict(@, DOMAIN @ \ {p})]
            ELSE [eng EXCEPT !.pc = "shut", !.port = {p}]
  /\ UNCHANGED <<db, life, ch, loaded, online, go, stopping, left>>

(* http.Server.Shutdown: the listener is closed at once, and one that is   *)
(* not open yet is never served; connections are waited for.               *)
Shut(i) == [go EXCEPT ![i].shut = TRUE, ![i].pc = IF @ = "serving" THEN "closed" ELSE @]

ShutPort ==
  LET p == CHOOSE p \in eng.port : TRUE
      i == eng.copy[p]
  IN  /\ eng.pc = "shut"
      /\ go' = IF i = Nil THEN go ELSE Shut(i)
      /\ eng' = [eng EXCEPT !.pc = "check", !.port = {}, !.gone = @ \cup {p},
                            !.copy = Restrict(@, DOMAIN @ \ {p})]
      /\ UNCHANGED <<db, life, ch, loaded, online, stopping, left>>

KeepEntries ==          \* mutant: the entries of the closed ports stay
  /\ eng.pc = "check" /\ DOMAIN eng.copy = {} /\ eng' = Loop
  /\ UNCHANGED <<db, life, ch, loaded, online, go, stopping, left>>
DeletePorts ==
  /\ eng.pc = "check" /\ DOMAIN eng.copy = {}
  /\ online' = [p \in Ports |-> IF p \in eng.gone THEN NoEntry ELSE online[p]]
  /\ eng' = Loop
  /\ UNCHANGED <<db, life, ch, loaded, go, stopping, left>>

-----------------------------------------------------------------------------
(* The goroutine of server i *)

(* Get: a missing entry is the zero value, without a type. *)
GetEntry(i) ==
  /\ go[i].pc = "spawned"
  /\ go' = [go EXCEPT ![i].pc = "got", ![i].known = online[go[i].port].known]
  /\ UNCHANGED <<db, life, ch, loaded, online, eng, stopping, left>>

SetEntry(i) ==
  /\ go[i].pc = "got"
  /\ online' = [online EXCEPT ![go[i].port] = [here |-> TRUE, known |-> go[i].known, new |-> FALSE, svr |-> i]]
  /\ go' = [go EXCEPT ![i].pc = "set"]
  /\ UNCHANGED <<db, life, ch, loaded, eng, stopping, left>>

Listen(i) ==
  /\ go[i].pc = "set"
  /\ go' = [go EXCEPT ![i].pc = IF go[i].shut THEN "closed" ELSE "serving"]
  /\ UNCHANGED <<db, life, ch, loaded, online, eng, stopping, left>>

ListenFails(i) ==
  /\ go[i].pc = "set" /\ Spend("fail")
  /\ go' = [go EXCEPT ![i].pc = "failed"]
  /\ UNCHANGED <<db, life, ch, loaded, online, eng, stopping>>

-----------------------------------------------------------------------------
(* The shutdown of the process, in a goroutine of its own: the servers of  *)
(* a copy of ServerOnline are shut down, each at its own pace; a server's  *)
(* clients have finished then, or have been cut off by Close.              *)

StopAllProxyServer ==
  /\ stopping.pc = "no" /\ Spend("stop")
  /\ stopping' = [pc |-> "drain", todo |-> {online[p].svr : p \in Ports} \ {Nil}]
  /\ UNCHANGED <<db, life, ch, loaded, online, eng, go>>

GracefulStop(i) ==
  /\ stopping.pc = "drain" /\ i \in stopping.todo
  /\ go' = Shut(i) /\ stopping' = [stopping EXCEPT !.todo = @ \ {i}]
  /\ UNCHANGED <<db, life, ch, loaded, online, eng, left>>

CloseWaf ==
  /\ stopping.pc = "drain" /\ stopping.todo = {}
  /\ stopping' = [pc |-> "stopped", todo |-> {}]
  /\ online' = [p \in Ports |-> NoEntry]
  /\ UNCHANGED <<db, life, ch, loaded, eng, go, left>>

-----------------------------------------------------------------------------
Init ==
  /\ db = Existing /\ life = [c \in Sites |-> IF Existing[c] = {} THEN "unborn" ELSE "row"]
  /\ ch = <<>> /\ loaded = [c \in Sites |-> {}]
  /\ online = [p \in Ports |-> NoEntry]
  /\ eng = [Loop EXCEPT !.pc = "load", !.rows = Existing, !.start = Ports]    \* StartWaf
  /\ go = [i \in Servers |-> [pc |-> "unused", port |-> CHOOSE p \in Ports : TRUE,
                              known |-> FALSE, shut |-> FALSE]]
  /\ stopping = [pc |-> "no", todo |-> {}] /\ left = Budget

MainLoop == \/ TakeRow \/ LoadHost \/ StartAllProxyServer \/ RemovePortServer
            \/ (\E p \in Ports : Check(p)) \/ ShutPort \/ DeletePorts
Serve(i) == GetEntry(i) \/ SetEntry(i) \/ Listen(i) \/ ListenFails(i)
Stop     == (\E i \in Servers : GracefulStop(i)) \/ CloseWaf

Next ==
  \/ \E c \in Sites : DelHost(c) \/ \E P \in Rows[c] : AddHost(c, P) \/ EditHost(c, P)
  \/ ReloadApi \/ MainLoop \/ StopAllProxyServer \/ Stop
  \/ \E i \in Servers : Serve(i)

Spec == Init /\ [][Next]_vars
FairSpec == Spec /\ WF_vars(MainLoop) /\ \A i \in Servers : WF_vars(Serve(i))

-----------------------------------------------------------------------------
GoType == [pc : {"unused", "spawned", "got", "set", "serving", "closed", "failed"},
           port : Ports, known : BOOLEAN, shut : BOOLEAN]

(* The state is well typed, and an entry of ServerOnline waits to be       *)
(* started exactly as long as no server has been put into it.              *)
TypeOK ==
  /\ db \in [Sites -> SUBSET Ports] /\ loaded \in [Sites -> SUBSET Ports]
  /\ online \in [Ports -> Entry] /\ life \in [Sites -> {"unborn", "row", "deleted"}]
  /\ \A p \in Ports : online[p].here => online[p].new = (online[p].svr = Nil)
  /\ eng.pc \in {"loop", "load", "start", "remove", "check", "shut"} /\ eng.gone \subseteq Ports
  /\ go \in [Servers -> GoType]
  /\ stopping.pc \in {"no", "drain", "stopped"} /\ stopping.todo \subseteq Servers

(* A port that is served is not closed while a row the engine has loaded   *)
(* still names it in the database and is not being changed:                *)
(* RemovePortServer only closes ports no started site uses, whatever is    *)
(* written between its question and the shutdown.                          *)
InUse(p) == \E c \in Sites : p \in loaded[c] /\ p \in db[c] /\ \A m \in Range(ch) : c \notin m.site
PortKept == [][\A p \in Ports :
  Serving(p) /\ InUse(p) /\ InUse(p)' /\ stopping.pc = "no" => Serving(p)']_vars

(* A port of a row the engine has loaded is served in the end, unless the  *)
(* row changes, the process stops or the system refuses the port: neither  *)
(* a goroutine overtaken by RemovePortServer nor an entry another start    *)
(* has left behind loses it.                                               *)
Refused(p) == \E i \in Servers : go[i].port = p /\ go[i].pc = "failed"
PortServed == \A p \in Ports :
  InUse(p) ~> (Serving(p) \/ ~InUse(p) \/ Refused(p) \/ stopping.pc # "no")

(* When StopAllProxyServer returns, nothing the engine has opened accepts  *)
(* or serves clients any more: the drain has reached every server.         *)
StopDrains ==
  [][stopping.pc = "drain" /\ stopping'.pc = "stopped" => ~ \E p \in Ports : Serving(p)]_vars
=============================================================================

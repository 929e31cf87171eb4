-------------------------- MODULE PortServersProofs --------------------------
(* Theorems about PortServers: for any ports, sites, rows, servers and      *)
(* budget of events.                                                        *)
EXTENDS PortServers, TLAPS

USE PortAssumption

MsgType == [op : {"new", "edit", "del", "reload"}, site : SUBSET Sites, row : SUBSET Ports]

(* The parts of the state TypeOK says nothing about: the messages and the   *)
(* main loop's rows, ports to start and copy of ServerOnline.               *)
EngInv ==
  /\ ch \in Seq(MsgType) /\ left \in [Kinds -> Nat]
  /\ eng = [pc |-> eng.pc, rows |-> eng.rows, start |-> eng.start, copy |-> eng.copy,
            port |-> eng.port, gone |-> eng.gone]
  /\ stopping = [pc |-> stopping.pc, todo |-> stopping.todo]
  /\ DOMAIN eng.rows \subseteq Sites /\ \A c \in DOMAIN eng.rows : eng.rows[c] \subseteq Ports
  /\ eng.start \subseteq Ports
  /\ DOMAIN eng.copy \subseteq Ports /\ \A p \in DOMAIN eng.copy : eng.copy[p] \in Servers \cup {Nil}

(* Server i was started for port p, or there is none. *)
ServerOf(i, p) == i # Nil => go[i].pc # "unused" /\ go[i].port = p

(* An entry of ServerOnline, and of RemovePortServer's copy, names a server *)
(* of its own port.                                                         *)
EntryInv ==
  /\ \A p \in Ports : ServerOf(online[p].svr, p)
  /\ \A p \in DOMAIN eng.copy : ServerOf(eng.copy[p], p)

(* The port about to be closed is one of the copy; a site that has come to  *)
(* want it since RemovePortServer asked has a message waiting.              *)
ShutInv == eng.pc = "shut" =>
  \E p \in DOMAIN eng.copy :
    /\ eng.port = {p}
    /\ \A c \in Sites : p \in db[c] => \E m \in Range(ch) : c \in m.site

PortInv == TypeOK /\ EngInv /\ EntryInv /\ ShutInv

-----------------------------------------------------------------------------
(* The goroutines *)

(* No step gives a server that has been started another port.               *)
GoKeeps == \A i \in Servers : go[i].pc # "unused" => go'[i].pc # "unused" /\ go'[i].port = go[i].port

LEMMA ShutGo ==
  ASSUME TypeOK, NEW i \in Servers, go' = Shut(i)
  PROVE  /\ go' \in [Servers -> GoType] /\ GoKeeps
         /\ go[i].pc = "unused" => go'[i].pc = "unused"
         /\ \A j \in Servers \ {i} : go'[j] = go[j]
<1> DEFINE x == [go[i] EXCEPT !.shut = TRUE, !.pc = IF @ = "serving" THEN "closed" ELSE @]
<1>1. go[i] \in GoType  BY DEF TypeOK
<1>2. /\ x \in GoType /\ x.port = go[i].port
      /\ x.pc = IF go[i].pc = "serving" THEN "closed" ELSE go[i].pc
  <2>1. CASE go[i].pc = "serving"  BY <1>1, <2>1 DEF GoType
  <2>2. CASE go[i].pc # "serving"  BY <1>1, <2>2 DEF GoType
  <2> QED  BY <2>1, <2>2
<1>3. go' = [go EXCEPT ![i] = x]  BY DEF Shut
<1> HIDE DEF x
<1> QED  BY <1>2, <1>3 DEF TypeOK, GoKeeps

(* The goroutine of a server leaves the others alone. *)
LEMMA ServeGo ==
  ASSUME TypeOK, NEW i \in Servers, Serve(i)
  PROVE  go' \in [Servers -> GoType] /\ GoKeeps /\ go[i].pc # "unused"
         /\ go[i].pc # "serving" /\ \A j \in Servers \ {i} : go'[j] = go[j]
<1>1. go[i] \in GoType  BY DEF TypeOK
<1>2. ASSUME NEW x \in GoType, x.port = go[i].port, x.pc # "unused", go' = [go EXCEPT ![i] = x]
      PROVE  go' \in [Servers -> GoType] /\ GoKeeps /\ \A j \in Servers \ {i} : go'[j] = go[j]
  BY <1>2 DEF TypeOK, GoKeeps
<1>3. CASE GetEntry(i)
  <2> DEFINE x == [go[i] EXCEPT !.pc = "got", !.known = online[go[i].port].known]
  <2>1. go[i].port \in Ports /\ online[go[i].port].known \in BOOLEAN  BY <1>1 DEF TypeOK, GoType, Entry
  <2>2. x \in GoType /\ x.port = go[i].port /\ x.pc = "got"  BY <1>1, <2>1 DEF GoType
  <2>3. go' = [go EXCEPT ![i] = x] /\ go[i].pc = "spawned"  BY <1>3 DEF GetEntry
  <2> HIDE DEF x
  <2> QED  BY <1>2, <2>2, <2>3
<1>4. ASSUME NEW l \in {"set", "closed", "serving", "failed"}, go' = [go EXCEPT ![i].pc = l]
      PROVE  go' \in [Servers -> GoType] /\ GoKeeps /\ \A j \in Servers \ {i} : go'[j] = go[j]
  <2> DEFINE x == [go[i] EXCEPT !.pc = l]
  <2>1. x \in GoType /\ x.port = go[i].port /\ x.pc = l  BY <1>1 DEF GoType
  <2>2. go' = [go EXCEPT ![i] = x]  BY <1>4
  <2> HIDE DEF x
  <2> QED  BY <1>2, <2>1, <2>2
<1>5. CASE SetEntry(i)  BY <1>4, <1>5 DEF SetEntry
<1>6. CASE Listen(i)  BY <1>4, <1>6 DEF Listen
<1>7. CASE ListenFails(i)  BY <1>4, <1>7 DEF ListenFails
<1> QED  BY <1>3, <1>5, <1>6, <1>7 DEF Serve

(* StartAllProxyServer takes servers that were never started. *)
LEMMA StartGo ==
  ASSUME TypeOK, EngInv, StartAllProxyServer
  PROVE  go' \in [Servers -> GoType] /\ \A i \in Servers : go[i].pc # "unused" => go'[i] = go[i]
<1> DEFINE P == {p \in eng.start : IsNew(online[p])}
           f == CHOOSE f \in Injection(P, Unused) : TRUE
<1>1. f \in [P -> Unused]
  <2>1. f \in Injection(P, Unused)  BY DEF StartAllProxyServer
  <2> QED  BY <2>1 DEF Injection
<1>2. P \subseteq Ports  BY DEF EngInv
<1> HIDE DEF f
<1>3. go' = [i \in Servers |-> IF \E p \in P : f[p] = i
                               THEN [pc |-> "spawned", port |-> CHOOSE p \in P : f[p] = i,
                                     known |-> FALSE, shut |-> FALSE] ELSE go[i]]
  BY DEF StartAllProxyServer, f
<1> HIDE DEF P
<1>4. ASSUME NEW i \in Servers
      PROVE  go'[i] \in GoType /\ (go[i].pc # "unused" => go'[i] = go[i])
  <2>1. CASE \E p \in P : f[p] = i
    <3>1. i \in Unused  BY <1>1, <2>1
    <3>2. (CHOOSE p \in P : f[p] = i) \in Ports  BY <1>2, <2>1
    <3>3. go'[i] = [pc |-> "spawned", port |-> CHOOSE p \in P : f[p] = i, known |-> FALSE, shut |-> FALSE]
      BY <1>3, <2>1
    <3>4. go'[i] \in GoType  BY <3>2, <3>3 DEF GoType
    <3> QED  BY <3>1, <3>4 DEF Unused
  <2>2. CASE ~ \E p \in P : f[p] = i
    <3>1. go'[i] = go[i]  BY <1>3, <2>2
    <3> QED  BY <3>1 DEF TypeOK
  <2> QED  BY <2>1, <2>2
<1> QED  BY <1>3, <1>4

-----------------------------------------------------------------------------
(* The invariant, action by action *)

LEMMA SpendType == ASSUME left \in [Kinds -> Nat], NEW k \in Kinds, Spend(k) PROVE left' \in [Kinds -> Nat]
  BY DEF Spend

LEMMA AppendMsg ==
  ASSUME ch \in Seq(MsgType), NEW m \in MsgType
  PROVE  /\ Append(ch, m) \in Seq(MsgType)
         /\ m \in Range(Append(ch, m)) /\ \A n \in Range(ch) : n \in Range(Append(ch, m))
<1>1. Append(ch, m) \in Seq(MsgType) /\ DOMAIN Append(ch, m) = 1..(Len(ch) + 1)
      /\ DOMAIN ch = 1..Len(ch) /\ Len(ch) \in Nat
  OBVIOUS
<1>2. Append(ch, m)[Len(ch) + 1] = m /\ \A i \in 1..Len(ch) : Append(ch, m)[i] = ch[i]  OBVIOUS
<1> QED  BY <1>1, <1>2 DEF Range

(* A server keeps its port when a step is one of GoKeeps. *)
LEMMA EntriesKept ==
  ASSUME GoKeeps, NEW i \in Servers \cup {Nil}, NEW p, ServerOf(i, p)
  PROVE  i # Nil => go'[i].pc # "unused" /\ go'[i].port = p
  BY DEF GoKeeps, ServerOf

LEMMA PostKeeps ==
  ASSUME PortInv, NEW c \in Sites, NEW P \in SUBSET Ports, NEW o \in {"new", "edit", "del"},
         Post(c, P, o), life' \in [Sites -> {"unborn", "row", "deleted"}]
  PROVE  PortInv'
<1> USE DEF PortInv
<1> DEFINE m == [op |-> o, site |-> {c}, row |-> P]
<1>1. m \in MsgType  BY DEF MsgType
<1>2. ch' = Append(ch, m) /\ db' = [db EXCEPT ![c] = P] /\ UNCHANGED <<loaded, online, eng, go, stopping>>
  BY DEF Post
<1>3. left' \in [Kinds -> Nat]  BY SpendType DEF Post, EngInv, Kinds
<1>4. TypeOK'  BY <1>2 DEF TypeOK
<1>5. ch' \in Seq(MsgType) /\ m \in Range(ch') /\ \A n \in Range(ch) : n \in Range(ch')
  BY <1>1, <1>2, AppendMsg DEF EngInv
<1>6. EngInv'  BY <1>2, <1>3, <1>5 DEF EngInv
<1>7. EntryInv'  BY <1>2 DEF EntryInv, ServerOf
<1>8. ShutInv'
  <2> SUFFICES ASSUME eng.pc = "shut"
               PROVE  \E p \in DOMAIN eng.copy : eng.port = {p} /\
                        \A d \in Sites : p \in db'[d] => \E n \in Range(ch') : d \in n.site
    BY <1>2 DEF ShutInv
  <2>1. PICK p \in DOMAIN eng.copy : eng.port = {p} /\
               \A d \in Sites : p \in db[d] => \E n \in Range(ch) : d \in n.site
    BY DEF ShutInv
  <2>2. ASSUME NEW d \in Sites, p \in db'[d] PROVE \E n \in Range(ch') : d \in n.site
    <3>1. CASE d = c
      <4>1. c \in m.site  OBVIOUS
      <4> QED  BY <1>5, <3>1, <4>1
    <3>2. CASE d # c  BY <1>2, <1>5, <2>1, <2>2, <3>2 DEF TypeOK
    <3> QED  BY <3>1, <3>2
  <2> QED  BY <2>1, <2>2
<1> QED  BY <1>4, <1>6, <1>7, <1>8

LEMMA ReloadKeeps == ASSUME PortInv, ReloadApi PROVE PortInv'
<1> USE DEF PortInv
<1> DEFINE m == [op |-> "reload", site |-> {}, row |-> {}]
<1>1. m \in MsgType  BY DEF MsgType
<1>2. ch' = Append(ch, m) /\ UNCHANGED <<db, life, loaded, online, eng, go, stopping>>  BY DEF ReloadApi
<1>3. left' \in [Kinds -> Nat]  BY SpendType DEF ReloadApi, EngInv, Kinds
<1>4. TypeOK'  BY <1>2 DEF TypeOK
<1>5. ch' \in Seq(MsgType) /\ \A n \in Range(ch) : n \in Range(ch')
  BY <1>1, <1>2, AppendMsg DEF EngInv
<1>6. EngInv'  BY <1>2, <1>3, <1>5 DEF EngInv
<1>7. EntryInv'  BY <1>2 DEF EntryInv, ServerOf
<1>8. ShutInv'  BY <1>2, <1>5 DEF ShutInv
<1> QED  BY <1>4, <1>6, <1>7, <1>8

LEMMA NoRows == DOMAIN << >> = {}
  OBVIOUS

LEMMA TakeRowKeeps == ASSUME PortInv, TakeRow PROVE PortInv'
<1> USE DEF PortInv
<1> DEFINE m == Head(ch)
           r == IF m.op = "reload" THEN db ELSE [c \in m.site |-> m.row]
           s == CASE m.op = "new" -> m.row [] m.op = "del" -> {} [] OTHER -> Ports
           g == IF m.op = "new" THEN {} ELSE Ports
<1>1. m \in MsgType /\ ch' = Tail(ch) /\ ch' \in Seq(MsgType)  BY DEF TakeRow, EngInv
<1>2. eng' = [pc |-> "load", rows |-> r, start |-> s, copy |-> <<>>, port |-> {}, gone |-> g]
  BY DEF TakeRow, Loop
<1>3. UNCHANGED <<db, life, loaded, online, go, stopping, left>>  BY DEF TakeRow
<1>4. DOMAIN r \subseteq Sites /\ \A c \in DOMAIN r : r[c] \subseteq Ports
  <2>1. CASE m.op = "reload"  BY <2>1 DEF TypeOK
  <2>2. CASE m.op # "reload"  BY <1>1, <2>2 DEF MsgType
  <2> QED  BY <2>1, <2>2
<1>5. s \subseteq Ports /\ g \subseteq Ports  BY <1>1 DEF MsgType
<1> HIDE DEF m, r, s, g
<1>6. TypeOK'  BY <1>2, <1>3, <1>5 DEF TypeOK
<1>7. EngInv'  BY <1>1, <1>2, <1>3, <1>4, <1>5, NoRows DEF EngInv
<1>8. EntryInv'  BY <1>2, <1>3, NoRows DEF EntryInv, ServerOf
<1>9. ShutInv'  BY <1>2 DEF ShutInv
<1> QED  BY <1>6, <1>7, <1>8, <1>9

LEMMA LoadHostKeeps == ASSUME PortInv, LoadHost PROVE PortInv'
<1> USE DEF PortInv
<1>1. eng' = [pc |-> "start", rows |-> eng.rows, start |-> eng.start, copy |-> eng.copy,
              port |-> eng.port, gone |-> eng.gone]
  BY DEF LoadHost, EngInv
<1>2. UNCHANGED <<db, life, ch, go, stopping, left>>  BY DEF LoadHost
<1>3. \A p \in Ports : online'[p] = ToStart \/ online'[p] = online[p]  BY DEF LoadHost
<1>4. ToStart \in Entry /\ ToStart.new = TRUE /\ ToStart.svr = Nil  BY DEF ToStart, Entry
<1>5. online' \in [Ports -> Entry]
  <2>1. online' = [p \in Ports |-> online'[p]]  BY DEF LoadHost
  <2> QED  BY <2>1, <1>3, <1>4 DEF TypeOK
<1>6. loaded' \in [Sites -> SUBSET Ports]  BY DEF LoadHost, TypeOK, EngInv
<1>7. TypeOK'
  <2>1. \A p \in Ports : online'[p].here => online'[p].new = (online'[p].svr = Nil)
    BY <1>3, <1>4 DEF TypeOK
  <2> QED  BY <1>1, <1>2, <1>5, <1>6, <2>1 DEF TypeOK
<1>8. EngInv'  BY <1>1, <1>2 DEF EngInv
<1>9. EntryInv'  BY <1>1, <1>2, <1>3, <1>4 DEF EntryInv, ServerOf
<1>10. ShutInv'  BY <1>1 DEF ShutInv
<1> QED  BY <1>7, <1>8, <1>9, <1>10

LEMMA StartAllKeeps == ASSUME PortInv, StartAllProxyServer PROVE PortInv'
<1> USE DEF PortInv
<1>1. UNCHANGED <<db, life, ch, loaded, online, stopping, left>>  BY DEF StartAllProxyServer
<1>2. go' \in [Servers -> GoType] /\ \A i \in Servers : go[i].pc # "unused" => go'[i] = go[i]
  BY StartGo
<1>3. GoKeeps  BY <1>2 DEF GoKeeps
<1>4. \/ eng' = [pc |-> "loop", rows |-> <<>>, start |-> {}, copy |-> <<>>, port |-> {}, gone |-> {}]
      \/ eng' = [pc |-> "remove", rows |-> eng.rows, start |-> eng.start, copy |-> eng.copy,
                 port |-> eng.port, gone |-> eng.gone]
  BY DEF StartAllProxyServer, Loop, EngInv
<1>5. TypeOK'  BY <1>1, <1>2, <1>4 DEF TypeOK
<1>6. EngInv'  BY <1>1, <1>4, NoRows DEF EngInv
<1>7. EntryInv'
  <2>1. \A p \in Ports : online[p].svr \in Servers \cup {Nil}  BY DEF TypeOK, Entry
  <2>2. \A p \in Ports : online[p].svr # Nil => go'[online[p].svr].pc # "unused" /\ go'[online[p].svr].port = p
    BY <1>3, <2>1, EntriesKept DEF EntryInv
  <2>3. \A p \in DOMAIN eng.copy : eng.copy[p] # Nil =>
          go'[eng.copy[p]].pc # "unused" /\ go'[eng.copy[p]].port = p
    BY <1>3, EntriesKept DEF EntryInv, EngInv
  <2>4. DOMAIN eng'.copy = {} \/ eng'.copy = eng.copy  BY <1>4, NoRows
  <2> QED  BY <1>1, <2>2, <2>3, <2>4 DEF EntryInv, ServerOf
<1>8. ShutInv'  BY <1>4 DEF ShutInv
<1> QED  BY <1>5, <1>6, <1>7, <1>8

LEMMA RemoveKeeps == ASSUME PortInv, RemovePortServer PROVE PortInv'
<1> USE DEF PortInv
<1> DEFINE H == {p \in Ports : online[p].here}
           k == [p \in H |-> online[p].svr]
<1>1. UNCHANGED <<db, life, ch, loaded, online, go, stopping, left>>  BY DEF RemovePortServer
<1>2. eng' = [pc |-> "check", rows |-> eng.rows, start |-> eng.start, copy |-> k,
              port |-> eng.port, gone |-> {}]
  BY DEF RemovePortServer, EngInv
<1>3. DOMAIN k \subseteq Ports /\ \A p \in DOMAIN k : k[p] \in Servers \cup {Nil}  BY DEF TypeOK, Entry
<1>4. \A p \in DOMAIN k : p \in Ports /\ k[p] = online[p].svr  OBVIOUS
<1> HIDE DEF k
<1>5. TypeOK'  BY <1>1, <1>2 DEF TypeOK
<1>6. EngInv'  BY <1>1, <1>2, <1>3 DEF EngInv
<1>7. EntryInv'  BY <1>1, <1>2, <1>4 DEF EntryInv, ServerOf
<1>8. ShutInv'  BY <1>2 DEF ShutInv
<1> QED  BY <1>5, <1>6, <1>7, <1>8

(* RemovePortServer finds a port no row wants: no site has it. *)
LEMMA CheckKeeps == ASSUME PortInv, NEW p \in Ports, Check(p) PROVE PortInv'
<1> USE DEF PortInv
<1> DEFINE k == Restrict(eng.copy, DOMAIN eng.copy \ {p})
<1>1. UNCHANGED <<db, life, ch, loaded, online, go, stopping, left>>  BY DEF Check
<1>2. p \in DOMAIN eng.copy /\ eng.pc = "check"  BY DEF Check
<1>3. DOMAIN k \subseteq DOMAIN eng.copy /\ \A q \in DOMAIN k : k[q] = eng.copy[q]  BY DEF Restrict
<1>4. CASE Wanted(p)
  <2>1. eng' = [pc |-> eng.pc, rows |-> eng.rows, start |-> eng.start, copy |-> k,
                port |-> eng.port, gone |-> eng.gone]
    BY <1>4 DEF Check, EngInv
  <2> HIDE DEF k
  <2>2. TypeOK'  BY <1>1, <2>1 DEF TypeOK
  <2>3. EngInv'  BY <1>1, <1>3, <2>1 DEF EngInv
  <2>4. EntryInv'  BY <1>1, <1>3, <2>1 DEF EntryInv, ServerOf
  <2>5. ShutInv'  BY <1>2, <2>1 DEF ShutInv
  <2> QED  BY <2>2, <2>3, <2>4, <2>5
<1>5. CASE ~ Wanted(p)
  <2>1. eng' = [pc |-> "shut", rows |-> eng.rows, start |-> eng.start, copy |-> eng.copy,
                port |-> {p}, gone |-> eng.gone]
    BY <1>5 DEF Check, EngInv
  <2>2. TypeOK'  BY <1>1, <2>1 DEF TypeOK
  <2>3. EngInv'  BY <1>1, <2>1 DEF EngInv
  <2>4. EntryInv'  BY <1>1, <2>1 DEF EntryInv, ServerOf
  <2>5. ShutInv'  BY <1>1, <1>2, <1>5, <2>1 DEF ShutInv, Wanted
  <2> QED  BY <2>2, <2>3, <2>4, <2>5
<1> QED  BY <1>4, <1>5

(* The port that is shut, and its server. *)
LEMMA ShutPortDoes ==
  ASSUME PortInv, ShutPort
  PROVE  \E p \in DOMAIN eng.copy :
         /\ p \in Ports /\ eng.copy[p] \in Servers \cup {Nil}
         /\ \A c \in Sites : p \in db[c] => \E m \in Range(ch) : c \in m.site
         /\ go' = IF eng.copy[p] = Nil THEN go ELSE Shut(eng.copy[p])
         /\ eng' = [pc |-> "check", rows |-> eng.rows, start |-> eng.start,
                    copy |-> Restrict(eng.copy, DOMAIN eng.copy \ {p}), port |-> {},
                    gone |-> eng.gone \cup {p}]
<1>1. PICK p \in DOMAIN eng.copy :
        eng.port = {p} /\ \A c \in Sites : p \in db[c] => \E m \in Range(ch) : c \in m.site
  BY DEF PortInv, ShutInv, ShutPort
<1>2. (CHOOSE q \in eng.port : TRUE) = p  BY <1>1
<1>3. p \in Ports /\ eng.copy[p] \in Servers \cup {Nil}  BY DEF PortInv, EngInv
<1>4. go' = IF eng.copy[p] = Nil THEN go ELSE Shut(eng.copy[p])
  <2> DEFINE q == CHOOSE q \in eng.port : TRUE
  <2>1. go' = IF eng.copy[q] = Nil THEN go ELSE Shut(eng.copy[q])  BY DEF ShutPort
  <2>2. q = p  BY <1>2
  <2> HIDE DEF q
  <2> QED  BY <2>1, <2>2
<1>5. eng' = [eng EXCEPT !.pc = "check", !.port = {}, !.gone = @ \cup {p},
                         !.copy = Restrict(@, DOMAIN @ \ {p})]
  BY <1>2 DEF ShutPort
<1>6. eng' = [pc |-> "check", rows |-> eng.rows, start |-> eng.start,
              copy |-> Restrict(eng.copy, DOMAIN eng.copy \ {p}), port |-> {},
              gone |-> eng.gone \cup {p}]
  BY <1>5 DEF PortInv, EngInv
<1> QED  BY <1>1, <1>3, <1>4, <1>6

LEMMA ShutPortKeeps == ASSUME PortInv, ShutPort PROVE PortInv'
<1> USE DEF PortInv
<1>1. PICK p \in DOMAIN eng.copy :
         /\ p \in Ports /\ eng.copy[p] \in Servers \cup {Nil}
         /\ go' = IF eng.copy[p] = Nil THEN go ELSE Shut(eng.copy[p])
         /\ eng' = [pc |-> "check", rows |-> eng.rows, start |-> eng.start,
                    copy |-> Restrict(eng.copy, DOMAIN eng.copy \ {p}), port |-> {},
                    gone |-> eng.gone \cup {p}]
  BY ShutPortDoes
<1> DEFINE k == Restrict(eng.copy, DOMAIN eng.copy \ {p})
<1>2. UNCHANGED <<db, life, ch, loaded, online, stopping, left>>  BY DEF ShutPort
<1>3. DOMAIN k \subseteq DOMAIN eng.copy /\ \A q \in DOMAIN k : k[q] = eng.copy[q]  BY DEF Restrict
<1>4. go' \in [Servers -> GoType] /\ GoKeeps
  <2>1. CASE eng.copy[p] = Nil  BY <1>1, <2>1 DEF TypeOK, GoKeeps
  <2>2. CASE eng.copy[p] # Nil  BY <1>1, <2>2, ShutGo
  <2> QED  BY <2>1, <2>2
<1> HIDE DEF k
<1>5. TypeOK'  BY <1>1, <1>2, <1>4 DEF TypeOK
<1>6. EngInv'  BY <1>1, <1>2, <1>3 DEF EngInv, k
<1>7. EntryInv'
  <2>1. \A q \in Ports : online[q].svr \in Servers \cup {Nil}  BY DEF TypeOK, Entry
  <2>2. \A q \in Ports : online[q].svr # Nil => go'[online[q].svr].pc # "unused" /\ go'[online[q].svr].port = q
    BY <1>4, <2>1, EntriesKept DEF EntryInv
  <2>3. \A q \in DOMAIN k : k[q] # Nil => go'[k[q]].pc # "unused" /\ go'[k[q]].port = q
    BY <1>3, <1>4, EntriesKept DEF EntryInv, EngInv
  <2>4. eng'.copy = k  BY <1>1 DEF k
  <2> QED  BY <1>2, <2>2, <2>3, <2>4 DEF EntryInv, ServerOf
<1>8. ShutInv'  BY <1>1 DEF ShutInv
<1> QED  BY <1>5, <1>6, <1>7, <1>8

LEMMA DeletePortsKeeps == ASSUME PortInv, DeletePorts PROVE PortInv'
<1> USE DEF PortInv
<1>1. eng' = [pc |-> "loop", rows |-> <<>>, start |-> {}, copy |-> <<>>, port |-> {}, gone |-> {}]
  BY DEF DeletePorts, Loop
<1>2. UNCHANGED <<db, life, ch, loaded, go, stopping, left>>  BY DEF DeletePorts
<1>3. \A p \in Ports : online'[p] = NoEntry \/ online'[p] = online[p]  BY DEF DeletePorts
<1>4. NoEntry \in Entry /\ NoEntry.here = FALSE /\ NoEntry.svr = Nil  BY DEF NoEntry, Entry
<1>5. online' \in [Ports -> Entry]
  <2>1. online' = [p \in Ports |-> online'[p]]  BY DEF DeletePorts
  <2> QED  BY <2>1, <1>3, <1>4 DEF TypeOK
<1>6. TypeOK'
  <2>1. \A p \in Ports : online'[p].here => online'[p].new = (online'[p].svr = Nil)
    BY <1>3, <1>4 DEF TypeOK
  <2> QED  BY <1>1, <1>2, <1>5, <2>1 DEF TypeOK
<1>7. EngInv'  BY <1>1, <1>2, NoRows DEF EngInv
<1>8. EntryInv'  BY <1>1, <1>2, <1>3, <1>4, NoRows DEF EntryInv, ServerOf
<1>9. ShutInv'  BY <1>1 DEF ShutInv
<1> QED  BY <1>6, <1>7, <1>8, <1>9

LEMMA ServeKeeps == ASSUME PortInv, NEW i \in Servers, Serve(i) PROVE PortInv'
<1> USE DEF PortInv
<1>1. go' \in [Servers -> GoType] /\ GoKeeps /\ go[i].pc # "unused"  BY ServeGo
<1>2. UNCHANGED <<db, life, ch, loaded, eng, stopping>>
  BY DEF Serve, GetEntry, SetEntry, Listen, ListenFails
<1>3. left' \in [Kinds -> Nat]
  BY SpendType DEF Serve, GetEntry, SetEntry, Listen, ListenFails, EngInv, Kinds
<1>4. /\ online' \in [Ports -> Entry]
      /\ \A p \in Ports : \/ online'[p] = online[p]
                          \/ p = go[i].port /\ online'[p].new = FALSE /\ online'[p].svr = i
  <2>1. CASE SetEntry(i)
    <3> DEFINE e == [here |-> TRUE, known |-> go[i].known, new |-> FALSE, svr |-> i]
    <3>1. go[i] \in GoType  BY DEF TypeOK
    <3>2. e \in Entry /\ e.new = FALSE /\ e.svr = i  BY <3>1 DEF GoType, Entry
    <3>3. online' = [online EXCEPT ![go[i].port] = e]  BY <2>1 DEF SetEntry
    <3> HIDE DEF e
    <3> QED  BY <3>2, <3>3 DEF TypeOK
  <2>2. CASE ~ SetEntry(i)  BY <2>2 DEF Serve, GetEntry, Listen, ListenFails, TypeOK
  <2> QED  BY <2>1, <2>2
<1>5. TypeOK'
  <2>1. i # Nil  BY DEF Servers, Nil
  <2>2. \A p \in Ports : online'[p].here => online'[p].new = (online'[p].svr = Nil)
    BY <1>4, <2>1 DEF TypeOK
  <2> QED  BY <1>1, <1>2, <1>4, <2>2 DEF TypeOK
<1>6. EngInv'  BY <1>2, <1>3 DEF EngInv
<1>7. EntryInv'
  <2>1. \A q \in Ports : online[q].svr \in Servers \cup {Nil}  BY DEF TypeOK, Entry
  <2>2. \A q \in Ports : online[q].svr # Nil => go'[online[q].svr].pc # "unused" /\ go'[online[q].svr].port = q
    BY <1>1, <2>1, EntriesKept DEF EntryInv
  <2>3. \A q \in Ports : online'[q].svr # Nil => go'[online'[q].svr].pc # "unused" /\ go'[online'[q].svr].port = q
    BY <1>1, <1>4, <2>2 DEF GoKeeps
  <2>4. \A q \in DOMAIN eng.copy : eng.copy[q] # Nil =>
          go'[eng.copy[q]].pc # "unused" /\ go'[eng.copy[q]].port = q
    BY <1>1, EntriesKept DEF EntryInv, EngInv
  <2> QED  BY <1>2, <2>3, <2>4 DEF EntryInv, ServerOf
<1>8. ShutInv'  BY <1>2 DEF ShutInv
<1> QED  BY <1>5, <1>6, <1>7, <1>8

LEMMA StopKeeps == ASSUME PortInv, StopAllProxyServer \/ Stop PROVE PortInv'
<1> USE DEF PortInv
<1>1. CASE StopAllProxyServer
  <2>1. UNCHANGED <<db, life, ch, loaded, online, eng, go>>  BY <1>1 DEF StopAllProxyServer
  <2>2. left' \in [Kinds -> Nat]  BY <1>1, SpendType DEF StopAllProxyServer, EngInv, Kinds
  <2>3. stopping' = [pc |-> "drain", todo |-> {online[p].svr : p \in Ports} \ {Nil}]
    BY <1>1 DEF StopAllProxyServer
  <2>4. {online[p].svr : p \in Ports} \ {Nil} \subseteq Servers  BY DEF TypeOK, Entry
  <2>5. TypeOK'  BY <2>1, <2>3, <2>4 DEF TypeOK
  <2>6. EngInv'  BY <2>1, <2>2, <2>3 DEF EngInv
  <2>7. EntryInv' /\ ShutInv'  BY <2>1 DEF EntryInv, ServerOf, ShutInv
  <2> QED  BY <2>5, <2>6, <2>7
<1>2. ASSUME NEW i \in Servers, GracefulStop(i) PROVE PortInv'
  <2>1. UNCHANGED <<db, life, ch, loaded, online, eng, left>>  BY <1>2 DEF GracefulStop
  <2>2. go' \in [Servers -> GoType] /\ GoKeeps  BY <1>2, ShutGo DEF GracefulStop
  <2>3. stopping' = [pc |-> stopping.pc, todo |-> stopping.todo \ {i}]
    BY <1>2 DEF GracefulStop, EngInv
  <2>4. TypeOK'  BY <2>1, <2>2, <2>3 DEF TypeOK
  <2>5. EngInv'  BY <2>1, <2>3 DEF EngInv
  <2>6. EntryInv'
    <3>1. \A q \in Ports : online[q].svr \in Servers \cup {Nil}  BY DEF TypeOK, Entry
    <3>2. \A q \in Ports : online[q].svr # Nil => go'[online[q].svr].pc # "unused" /\ go'[online[q].svr].port = q
      BY <2>2, <3>1, EntriesKept DEF EntryInv
    <3>3. \A q \in DOMAIN eng.copy : eng.copy[q] # Nil =>
            go'[eng.copy[q]].pc # "unused" /\ go'[eng.copy[q]].port = q
      BY <2>2, EntriesKept DEF EntryInv, EngInv
    <3> QED  BY <2>1, <3>2, <3>3 DEF EntryInv, ServerOf
  <2>7. ShutInv'  BY <2>1 DEF ShutInv
  <2> QED  BY <2>4, <2>5, <2>6, <2>7
<1>3. CASE CloseWaf
  <2>1. UNCHANGED <<db, life, ch, loaded, eng, go, left>>  BY <1>3 DEF CloseWaf
  <2>2. stopping' = [pc |-> "stopped", todo |-> {}] /\ online' = [p \in Ports |-> NoEntry]
    BY <1>3 DEF CloseWaf
  <2>3. NoEntry \in Entry /\ NoEntry.here = FALSE /\ NoEntry.svr = Nil  BY DEF NoEntry, Entry
  <2>4. TypeOK'  BY <2>1, <2>2, <2>3 DEF TypeOK
  <2>5. EngInv'  BY <2>1, <2>2 DEF EngInv
  <2>6. EntryInv' /\ ShutInv'  BY <2>1, <2>2, <2>3 DEF EntryInv, ServerOf, ShutInv
  <2> QED  BY <2>4, <2>5, <2>6
<1> QED  BY <1>1, <1>2, <1>3 DEF Stop

(* Every step keeps the invariant. *)
LEMMA PortStep == ASSUME PortInv, [Next]_vars PROVE PortInv'
<1>1. ASSUME NEW c \in Sites, NEW P \in Rows[c], AddHost(c, P) \/ EditHost(c, P) PROVE PortInv'
  <2>1. P \in SUBSET Ports  OBVIOUS
  <2>2. life' \in [Sites -> {"unborn", "row", "deleted"}]
    BY <1>1 DEF AddHost, EditHost, PortInv, TypeOK
  <2> QED  BY <1>1, <2>1, <2>2, PostKeeps DEF AddHost, EditHost
<1>2. ASSUME NEW c \in Sites, DelHost(c) PROVE PortInv'
  <2>1. life' \in [Sites -> {"unborn", "row", "deleted"}]  BY <1>2 DEF DelHost, PortInv, TypeOK
  <2> QED  BY <1>2, <2>1, PostKeeps DEF DelHost
<1>3. CASE MainLoop
  BY <1>3, TakeRowKeeps, LoadHostKeeps, StartAllKeeps, RemoveKeeps, CheckKeeps, ShutPortKeeps,
     DeletePortsKeeps DEF MainLoop
<1>4. CASE UNCHANGED vars
  BY <1>4 DEF vars, PortInv, TypeOK, EngInv, EntryInv, ServerOf, ShutInv
<1> QED  BY <1>1, <1>2, <1>3, <1>4, ReloadKeeps, StopKeeps, ServeKeeps DEF Next

LEMMA PortInit == Init => PortInv
<1> SUFFICES ASSUME Init PROVE PortInv  OBVIOUS
<1>1. NoEntry \in Entry /\ NoEntry.here = FALSE /\ NoEntry.svr = Nil  BY DEF NoEntry, Entry
<1>2. eng = [pc |-> "load", rows |-> Existing, start |-> Ports, copy |-> <<>>, port |-> {}, gone |-> {}]
  BY DEF Init, Loop
<1>3. (CHOOSE p \in Ports : TRUE) \in Ports  OBVIOUS
<1>4. [pc |-> "unused", port |-> CHOOSE p \in Ports : TRUE, known |-> FALSE, shut |-> FALSE] \in GoType
  BY <1>3 DEF GoType
<1>5. /\ db = Existing /\ ch = <<>> /\ loaded = [c \in Sites |-> {}] /\ left = Budget
      /\ online = [p \in Ports |-> NoEntry] /\ stopping = [pc |-> "no", todo |-> {}]
  BY DEF Init
<1>6. TypeOK
  <2>1. go \in [Servers -> GoType]  BY <1>4 DEF Init
  <2>2. life \in [Sites -> {"unborn", "row", "deleted"}]  BY DEF Init
  <2> QED  BY <1>1, <1>2, <1>5, <2>1, <2>2 DEF TypeOK
<1>7. EngInv  BY <1>2, <1>5, NoRows DEF EngInv
<1>8. EntryInv /\ ShutInv  BY <1>1, <1>2, <1>5, NoRows DEF EntryInv, ServerOf, ShutInv
<1> QED  BY <1>6, <1>7, <1>8 DEF PortInv

LEMMA PortInvariant == Spec => []PortInv
  BY PortInit, PortStep, PTL DEF Spec

-----------------------------------------------------------------------------
(* ServerOnline stays well typed, and an entry waits to be started exactly  *)
(* as long as no goroutine has put a server into it.                        *)
THEOREM PortTypeCorrect == Spec => []TypeOK
  BY PortInvariant, PTL DEF PortInv

(* A port a loaded row uses is not closed.  RemovePortServer asks the rows  *)
(* and shuts the port's server down in two steps: a site that takes the     *)
(* port in between has announced it, so no row that is loaded and left      *)
(* alone loses its listener, and the server shut down is one of that port.  *)
LEMMA PortKeptStep ==
  ASSUME PortInv, [Next]_vars, NEW p \in Ports, Serving(p), InUse(p), InUse(p)', stopping.pc = "no"
  PROVE  Serving(p)'
<1>1. PICK j \in Servers : go[j].pc = "serving" /\ go[j].port = p  BY DEF Serving
<1>2. SUFFICES go'[j] = go[j]  BY <1>1 DEF Serving
<1>3. CASE ShutPort
  <2>1. PICK q \in DOMAIN eng.copy :
         /\ q \in Ports /\ eng.copy[q] \in Servers \cup {Nil}
         /\ \A c \in Sites : q \in db[c] => \E m \in Range(ch) : c \in m.site
         /\ go' = IF eng.copy[q] = Nil THEN go ELSE Shut(eng.copy[q])
    BY <1>3, ShutPortDoes
  <2>2. q # p  BY <2>1 DEF InUse
  <2>3. eng.copy[q] # j  BY <1>1, <2>1, <2>2 DEF PortInv, EntryInv, ServerOf, Servers, Nil
  <2>4. CASE eng.copy[q] = Nil  BY <2>1, <2>4
  <2>5. CASE eng.copy[q] # Nil  BY <2>1, <2>3, <2>5, ShutGo DEF PortInv
  <2> QED  BY <2>4, <2>5
<1>4. CASE StartAllProxyServer  BY <1>1, <1>4, StartGo DEF PortInv
<1>5. ASSUME NEW i \in Servers, Serve(i) PROVE go'[j] = go[j]  BY <1>1, <1>5, ServeGo DEF PortInv
<1>6. CASE UNCHANGED go  BY <1>6
<1>7. ~ \E i \in Servers : GracefulStop(i)  BY DEF GracefulStop
<1> QED
  BY <1>3, <1>4, <1>5, <1>6, <1>7
     DEF Next, vars, AddHost, EditHost, DelHost, Post, ReloadApi, MainLoop, TakeRow, LoadHost, Check,
         RemovePortServer, DeletePorts, StopAllProxyServer, Stop, CloseWaf

(* RemovePortServer never closes a port that a row uses which is loaded and *)
(* has no message on its way.                                               *)
THEOREM PortKeptTheorem == Spec => PortKept
<1>1. PortInv /\ [Next]_vars =>
        [\A p \in Ports : Serving(p) /\ InUse(p) /\ InUse(p)' /\ stopping.pc = "no" => Serving(p)']_vars
  BY PortKeptStep
<1> QED  BY PortInvariant, <1>1, PTL DEF Spec, PortKept
=============================================================================

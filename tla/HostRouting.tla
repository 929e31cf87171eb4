---------------------------- MODULE HostRouting ----------------------------
(***************************************************************************)
(* The sites of the proxy: the rows the management API writes, the         *)
(* channels on which it tells the engine, the main loop that takes them    *)
(* (cmd/samwaf/main.go) and the immutable routing table each step of the   *)
(* loop publishes and the requests read without a lock (wafenginecore/     *)
(* routing_table.go, wafworker.go, website_diagnostic_route.go).           *)
(*                                                                         *)
(* A site's settings are reduced to what routes to it (cfg), the switch of *)
(* its protection (guard), its certificate (cert) and its rules, which     *)
(* stand for every list that a message of its own type replaces.           *)
(***************************************************************************)
EXTENDS Integers, Sequences, FiniteSets, SequencesExt

CONSTANTS
  Codes,     (* sites                                                       *)
  Names,     (* domain names, "*" among them                                *)
  Mask,      (* MaskSubdomain on Names                                      *)
  Offers,    (* the settings each site may be given                         *)
  Existing,  (* the rows in the database when the engine starts             *)
  Shared,    (* the sites bound to the certificate that is renewed          *)
  Requests,  (* the <<name, port>> pairs clients ask for                    *)
  Handlers,  (* API requests served at the same time                        *)
  Cap,       (* capacity of a channel: 10 in the code                       *)
  Budget     (* bound: how often each operation, and all, are done          *)

Ops == {"add", "edit", "del", "guard", "guardAll", "rules", "reload", "renew"}
Cfgs == UNION {Offers[c] : c \in Codes}
Row  == [cfg : Cfgs, guard : BOOLEAN, cert : 0..Budget["renew"]]

ASSUME RoutingAssumption ==
  /\ IsFiniteSet(Codes) /\ Codes # {} /\ Mask \in [Names -> Names] /\ "*" \in Names
  /\ Existing \in [DOMAIN Existing -> Row] /\ DOMAIN Existing \subseteq Codes
  /\ \A c \in DOMAIN Existing : Existing[c].cfg \in Offers[c]
  /\ Cfgs \subseteq [host : Names, port : Nat, extra : SUBSET Nat, more : SUBSET Names,
                     jump : BOOLEAN, loose : BOOLEAN]
  /\ \A s \in Cfgs : IsFiniteSet(s.extra)
  /\ Shared \subseteq Codes /\ Requests \subseteq Names \X Nat /\ "loop" \notin Handlers
  /\ Cap \in Nat \ {0} /\ Budget \in [Ops \cup {"all"} -> Nat]

VARIABLES
  db,        \* the rows of the sites: a function on the codes that exist
  rules,     \* the rule list of each site, by its number
  unborn,    \* codes not given out yet
  chMsg, chHost, chEngine, chSSL,   \* the channels of the main loop
  rt,        \* the routing table published last
  eng,       \* what the main loop is doing
  hand,      \* what each API request is doing
  req,       \* a client's request on its way through ServeHTTP
  blur,      \* history: sites whose notifications may have overtaken one another
  calm,      \* history: nothing has moved the site of req since it was resolved
  left       \* what is left of Budget

dbVars == <<db, rules, unborn>>
chans  == <<chMsg, chHost, chEngine, chSSL>>
vars   == <<dbVars, chans, rt, eng, hand, req, blur, calm, left>>

-----------------------------------------------------------------------------
(* The routing table *)

Without(f, S) == Restrict(f, DOMAIN f \ S)
Put(f, S, v)  == [x \in DOMAIN f \cup S |-> IF x \in S THEN v ELSE f[x]]

Key(s)     == <<s.host, s.port>>
CodeKey(s) == IF s.jump THEN <<s.host, 80>> ELSE Key(s)
Extra(s)   == s.extra \ {s.port}             \* routed beside the main port
Listens(s) == {s.port} \cup s.extra \cup (IF s.jump THEN {80} ELSE {})
Domains(s) == {s.host} \cup s.more
KeysOf(s)  == {<<s.host, p>> : p \in Listens(s)}
The(S)     == CHOOSE x \in S : TRUE          \* the row of a message that has one
NewTable   == [target |-> <<>>, code |-> <<>>, noPort |-> <<>>, more |-> <<>>]

(* A HostSafe is an object, told apart from one with the same content by   *)
(* its id: the first that no object of the table has.                      *)
Objects(t)   == {t.target[k] : k \in DOMAIN t.target}
NewId(t)     == Min(1..(Cardinality(Objects(t)) + 1) \ {o.id : o \in Objects(t)})
Has(t, c)    == c \in DOMAIN t.code /\ t.code[c] \in DOMAIN t.target   \* GetHostByCode
HostOf(t, c) == t.target[t.code[c]]

(* The keys of the object the site has now. *)
NoneOwned(t, c) == {}   \* mutant: the old keys stay
Owned(t, c) == {k \in DOMAIN t.target : Has(t, c) /\ t.target[k].id = HostOf(t, c).id}

(* The table LoadHost publishes: the keys of the site's old object and the *)
(* further domains go, the new ones come, all in one step.                 *)
LoadHost(t, c, r, list) ==
  LET s    == r.cfg
      hs   == [id |-> NewId(t), code |-> c, row |-> r, rules |-> list]
      old  == {k \in DOMAIN t.more : t.more[k] = c}
  IN  [target |-> Put(Without(t.target, Owned(t, c)), KeysOf(s), hs),
       code   |-> Put(t.code, {c}, CodeKey(s)),
       noPort |-> IF s.loose THEN Put(t.noPort, Domains(s), Key(s))
                             ELSE Without(t.noPort, Domains(s)),
       more   |-> Put(Without(t.more, old), s.more \X ({s.port} \cup Extra(s)), c)]

(* The keys of the row's ports, not those of the object. *)
MainOnly(s) == {Key(s)}   \* mutant: the further ports are forgotten
Cleared(s)  == KeysOf(s)
RemoveHost(t, c, s) ==
  [target |-> Without(t.target, Cleared(s)),
   code   |-> Without(t.code, {c}),
   noPort |-> Without(t.noPort, Domains(s)),
   more   |-> Without(t.more, {k \in DOMAIN t.more : t.more[k] = c})]

(* applyHostUpdateLocked: every key of the object at key k gets the copy.  *)
Repoint(t, k, o) ==
  [t EXCEPT !.target = [x \in DOMAIN @ |-> IF @[x].id = @[k].id THEN o ELSE @[x]]]

UpdateHostByKey(t, k, g) ==
  IF k \in DOMAIN t.target
  THEN Repoint(t, k, [t.target[k] EXCEPT !.id = NewId(t), !.row.guard = g]) ELSE t

UpdateHost(t, c, list) ==
  IF Has(t, c)
  THEN Repoint(t, t.code[c], [HostOf(t, c) EXCEPT !.id = NewId(t), !.rules = list]) ELSE t

(* resolveRequestHost: the codes a request for name n at port p resolves   *)
(* to, none or one.  A site named * takes every request at its port, those *)
(* another site answers too.                                               *)
Resolve(t, n, p) ==
  LET k     == IF n \in DOMAIN t.noPort THEN t.noPort[n] ELSE <<n, p>>
      m     == <<Mask[k[1]], k[2]>>
      star  == IF "*" \in DOMAIN t.noPort THEN t.noPort["*"] ELSE <<"*", p>>
      named == CASE k \in DOMAIN t.target -> {t.target[k].code}
                 [] k \notin DOMAIN t.target /\ m \in DOMAIN t.target -> {t.target[m].code}
                 [] {k, m} \cap DOMAIN t.target = {} /\ k \in DOMAIN t.more -> {t.more[k]}
                 [] OTHER -> IF m \in DOMAIN t.more THEN {t.more[m]} ELSE {}
  IN  IF star \in DOMAIN t.target THEN {t.target[star].code} ELSE named

-----------------------------------------------------------------------------
(* Histories *)

(* Who is about to notify the engine of c, and the messages on their way.  *)
Of(S, c)   == {m \in S : m.code = c}
Busy(c)    == {h \in Handlers : hand[h].pc # "idle" /\ (c \in hand[h].codes \/ hand[h].op = "guardAll")}
              \cup {"loop" : m \in Of(Range(eng.out), c)}
OnMsg(c)   == Of(Range(chMsg), c)
OnHost(c)  == Of(Range(chHost), c)
Overlap(c) == (\E g, h \in Busy(c) : g # h) \/ (OnMsg(c) # {} /\ OnHost(c) # {})
Pending(c) == Busy(c) # {} \/ OnMsg(c) # {} \/ OnHost(c) # {}

(* Every copy of the row of c that is or may come into the table has it at *)
(* the same place.                                                         *)
Settled(c) ==
  LET out  == OnMsg(c) \cup Of(Range(eng.out), c) \cup UNION {Of(Range(hand[h].out), c) : h \in Handlers}
      rows == (UNION {m.row : m \in out}) \cup {o.row : o \in Of(Objects(rt), c)}
              \cup {eng.rows[d] : d \in {c} \cap DOMAIN eng.rows}
  IN  c \in DOMAIN db /\ \A r \in rows : CodeKey(r.cfg) = CodeKey(db[c].cfg)

(* Notifications of a site overlap: the engine may keep the older one, or  *)
(* keys of the site once it is deleted.  A reload of the engine with none  *)
(* pending repairs the first, not the second.                              *)
History ==
  /\ blur' = (IF eng.pc = "loop" /\ eng'.pc = "load" THEN {c \in blur : Pending(c) \/ c \notin DOMAIN db} ELSE blur)
             \cup {c \in Codes : Overlap(c)'}
  /\ calm' = /\ req'.pc # "idle"
             /\ calm \/ (req.pc # "found" /\ req'.pc = "found")
             /\ Settled(req.code)'

-----------------------------------------------------------------------------
(* API requests *)

Idle == [pc |-> "idle", op |-> "add", codes |-> {}, arg |-> 0, old |-> <<>>, out |-> <<>>]
NoMsg == [type |-> "host", code |-> CHOOSE c \in Codes : TRUE, row |-> {}, old |-> {}, rules |-> 0]

Spend(o)  == left[o] > 0 /\ left["all"] > 0 /\ left' = [left EXCEPT ![o] = @ - 1, !["all"] = @ - 1]
Number(o) == Budget[o] - left[o] + 1
Free(s, c) == \A d \in DOMAIN db \ {c} : Key(db[d].cfg) # Key(s)

(* A handler's reads: the row before the change, and whether another site  *)
(* has the same name and main port.                                        *)
Begin(h, o, C, a) ==
  /\ hand[h].pc = "idle" /\ Spend(o)
  /\ hand' = [hand EXCEPT ![h] =
       [pc |-> "write", op |-> o, codes |-> C, arg |-> a, old |-> Restrict(db, C \cap DOMAIN db), out |-> <<>>]]
  /\ UNCHANGED <<db, rules, chans, rt, eng, req>> /\ History

AddTwice(h, c, s) ==    \* mutant: the new code is not a fresh one
  /\ c \in unborn /\ s \in Offers[c] /\ Begin(h, "add", {c}, s) /\ UNCHANGED unborn
AddApi(h, c, s) ==
  /\ c \in unborn /\ s \in Offers[c] /\ Free(s, c)
  /\ Begin(h, "add", {c}, s) /\ unborn' = unborn \ {c}
ModifyHostApi(h, c, s) ==
  /\ c \in DOMAIN db /\ s \in Offers[c] /\ Free(s, c)
  /\ Begin(h, "edit", {c}, s) /\ UNCHANGED unborn
DelHostApi(h, c) == c \in DOMAIN db /\ Begin(h, "del", {c}, 0) /\ UNCHANGED unborn
ModifyGuardStatusApi(h, c, g) ==
  c \in DOMAIN db /\ Begin(h, "guard", {c}, g) /\ UNCHANGED unborn
ModifyAllGuardStatusApi(h, g) ==
  LET C == {c \in DOMAIN db : db[c].guard # g}
  IN  C # {} /\ Begin(h, "guardAll", C, g) /\ UNCHANGED unborn
SaveRules(h, c) ==
  c \in DOMAIN db /\ Begin(h, "rules", {c}, Number("rules")) /\ UNCHANGED unborn

(* The database change. *)
Write(h) ==
  LET j == hand[h]
      Change(c, r) == CASE j.op = "edit"  -> [r EXCEPT !.cfg = j.arg]
                        [] j.op = "guard" -> [r EXCEPT !.guard = j.arg]
                        [] OTHER          -> r
  IN  /\ j.pc = "write"
      /\ db' = CASE j.op = "add" -> Put(db, j.codes, [cfg |-> j.arg, guard |-> TRUE, cert |-> 0])
                 [] j.op = "del" -> Without(db, j.codes)
                 [] j.op = "guardAll" -> [c \in DOMAIN db |-> [db[c] EXCEPT !.guard = j.arg]]
                 [] OTHER -> [c \in DOMAIN db |-> IF c \in j.codes THEN Change(c, db[c]) ELSE db[c]]
      /\ rules' = [c \in Codes |-> IF c \notin j.codes THEN rules[c]
                                   ELSE IF j.op = "rules" THEN j.arg
                                   ELSE IF j.op = "del" THEN 0 ELSE rules[c]]
      /\ hand' = [hand EXCEPT ![h].pc = "read"]
      /\ UNCHANGED <<unborn, chans, rt, eng, req, left>> /\ History

(* What the handler tells the engine: the row or the list read back, the   *)
(* row deleted, or the rows read before the change with the new switch.    *)
Notice(j, c) ==
  LET now == IF c \in DOMAIN db THEN {db[c]} ELSE {}
      old == IF c \in DOMAIN j.old THEN {j.old[c]} ELSE {}
      m   == [NoMsg EXCEPT !.code = c, !.row = now]
  IN  CASE j.op \in {"add", "edit"} -> [m EXCEPT !.old = old]
        [] j.op = "del"      -> [m EXCEPT !.type = "del", !.row = old]
        [] j.op = "rules"    -> [m EXCEPT !.type = "rules", !.row = {}, !.rules = rules[c]]
        [] j.op = "guard"    -> m
        [] j.op = "guardAll" -> [m EXCEPT !.row = {[r EXCEPT !.guard = j.arg] : r \in old}]

Notify(h) ==
  LET j == hand[h] IN
  /\ j.pc = "read"
  /\ hand' = [hand EXCEPT ![h].pc = "send",
                          ![h].out = [i \in 1..Cardinality(j.codes) |-> Notice(j, SetToSeq(j.codes)[i])]]
  /\ UNCHANGED <<dbVars, chans, rt, eng, req, left>> /\ History

(* One send; the handler waits while the channel is full. *)
Send(h) ==
  LET j == hand[h] IN
  /\ j.pc = "send"
  /\ IF j.op \in {"guard", "guardAll"}
     THEN Len(chHost) < Cap /\ chHost' = Append(chHost, Head(j.out)) /\ UNCHANGED chMsg
     ELSE Len(chMsg) < Cap /\ chMsg' = Append(chMsg, Head(j.out)) /\ UNCHANGED chHost
  /\ hand' = [hand EXCEPT ![h] = IF Len(j.out) = 1 THEN Idle
                                 ELSE [j EXCEPT !.out = Tail(@), !.codes = @ \ {Head(j.out).code}]]
  /\ UNCHANGED <<dbVars, chEngine, chSSL, rt, eng, req, left>> /\ History

(* The orders that carry no row: restart of the engine, a certificate. *)
ReloadApi == Spend("reload") /\ chEngine < Cap /\ chEngine' = chEngine + 1
             /\ UNCHANGED <<dbVars, chMsg, chHost, chSSL, rt, eng, hand, req>> /\ History
SslOrderApi == Spend("renew") /\ Len(chSSL) < Cap /\ chSSL' = Append(chSSL, Number("renew"))
               /\ UNCHANGED <<dbVars, chMsg, chHost, chEngine, rt, eng, hand, req>> /\ History

-----------------------------------------------------------------------------
(* The main loop *)

Loop == [pc |-> "loop", rows |-> <<>>, gone |-> <<>>, todo |-> {}, cert |-> 0, out |-> <<>>]

(* A message on GWAF_CHAN_MSG.  Only a row with the old name and a row of  *)
(* an unknown site are loaded.                                             *)
Apply(t, m) ==
  LET Load == LoadHost(t, m.code, The(m.row), rules[m.code])
  IN  CASE m.type = "host" /\ m.row # {} /\ ~Has(t, m.code) -> Load
        [] m.type = "host" /\ m.row # {} /\ Has(t, m.code)
             /\ (\A n \in m.row, o \in m.old : n.cfg.host = o.cfg.host) -> Load
        [] m.type = "ssl" /\ Has(t, m.code) -> Load
        [] m.type = "del" /\ Has(t, m.code) -> RemoveHost(t, m.code, The(m.row).cfg)
        [] m.type = "rules" -> UpdateHost(t, m.code, m.rules)
        [] OTHER -> t

TakeMsg ==
  /\ eng.pc = "loop" /\ chMsg # <<>>
  /\ rt' = Apply(rt, Head(chMsg)) /\ chMsg' = Tail(chMsg)
  /\ UNCHANGED <<dbVars, chHost, chEngine, chSSL, eng, hand, req, left>> /\ History

(* GWAF_CHAN_HOST: only the switch is taken over, found by name and port.  *)
TakeHost ==
  LET m == Head(chHost) IN
  /\ eng.pc = "loop" /\ chHost # <<>> /\ chHost' = Tail(chHost)
  /\ rt' = IF m.row = {} THEN rt
           ELSE LET r == The(m.row) IN UpdateHostByKey(rt, Key(r.cfg), r.guard)
  /\ UNCHANGED <<dbVars, chMsg, chEngine, chSSL, eng, hand, req, left>> /\ History

(* ReloadAllHostZeroGap: the rows and the sites known are read once; each  *)
(* row is loaded, then the sites that have none are removed, one by one.   *)
CloseThenLoad ==        \* mutant: CloseWaf, then every row is loaded
  /\ eng.pc = "loop" /\ chEngine > 0 /\ chEngine' = chEngine - 1
  /\ rt' = NewTable /\ eng' = [Loop EXCEPT !.pc = "load", !.rows = db]
  /\ UNCHANGED <<dbVars, chMsg, chHost, chSSL, hand, req, left>> /\ History
TakeEngine ==
  LET known == {c \in DOMAIN rt.code : Has(rt, c) /\ c \notin DOMAIN db} IN
  /\ eng.pc = "loop" /\ chEngine > 0 /\ chEngine' = chEngine - 1
  /\ eng' = [Loop EXCEPT !.pc = "load", !.rows = db, !.gone = [c \in known |-> HostOf(rt, c).row.cfg]]
  /\ UNCHANGED <<dbVars, chMsg, chHost, chSSL, rt, hand, req, left>> /\ History

ReloadOne ==
  /\ eng.pc = "load"
  /\ \/ \E c \in DOMAIN eng.rows :
          /\ rt' = LoadHost(rt, c, eng.rows[c], rules[c])
          /\ eng' = [eng EXCEPT !.rows = Without(@, {c})]
     \/ \E c \in DOMAIN eng.gone :
          /\ eng.rows = <<>>
          /\ rt' = RemoveHost(rt, c, eng.gone[c])
          /\ eng' = [eng EXCEPT !.gone = Without(@, {c})]
     \/ eng.rows = <<>> /\ eng.gone = <<>> /\ eng' = Loop /\ UNCHANGED rt
  /\ UNCHANGED <<dbVars, chans, hand, req, left>> /\ History

(* ApplySSLOrder runs in the loop: for every site of the certificate it    *)
(* writes the row, reads it back and sends it to the loop's own channel.   *)
TakeSSL ==
  /\ eng.pc = "loop" /\ chSSL # <<>> /\ chSSL' = Tail(chSSL)
  /\ eng' = [Loop EXCEPT !.pc = "renew", !.todo = Shared \cap DOMAIN db, !.cert = Head(chSSL)]
  /\ UNCHANGED <<dbVars, chMsg, chHost, chEngine, rt, hand, req, left>> /\ History

UpdateSSLInfo(c) ==
  /\ eng.pc = "renew" /\ eng.out = <<>> /\ c \in eng.todo
  /\ db' = IF c \in DOMAIN db THEN [db EXCEPT ![c].cert = eng.cert] ELSE db
  /\ eng' = [eng EXCEPT !.todo = @ \ {c},
               !.out = IF c \in DOMAIN db
                       THEN <<[NoMsg EXCEPT !.type = "ssl", !.code = c, !.row = {db'[c]}]>> ELSE <<>>]
  /\ UNCHANGED <<rules, unborn, chans, rt, hand, req, left>> /\ History

SendSSL ==
  /\ eng.pc = "renew" /\ eng.out # <<>> /\ Len(chMsg) < Cap
  /\ chMsg' = chMsg \o eng.out /\ eng' = [eng EXCEPT !.out = <<>>]
  /\ UNCHANGED <<dbVars, chHost, chEngine, chSSL, rt, hand, req, left>> /\ History

RenewDone == eng.pc = "renew" /\ eng.out = <<>> /\ eng.todo = {} /\ eng' = Loop
             /\ UNCHANGED <<dbVars, chans, rt, hand, req, left>> /\ History

-----------------------------------------------------------------------------
(* A client's request: it is resolved in one table, and its site is looked *)
(* up with two more loads of the published table, HostTarget of the first, *)
(* HostCode of the second.                                                 *)

NoReq == [pc |-> "idle", code |-> CHOOSE c \in Codes : TRUE, keys |-> {}]

ResolveHost(n, p) ==
  /\ req.pc \in {"idle", "aborted"}
  /\ \E c \in Resolve(rt, n, p) : req' = [NoReq EXCEPT !.pc = "found", !.code = c]
  /\ UNCHANGED <<dbVars, chans, rt, eng, hand, left>> /\ History

ReadTarget ==
  /\ req.pc = "found"
  /\ req' = [req EXCEPT !.pc = "table", !.keys = DOMAIN rt.target]
  /\ UNCHANGED <<dbVars, chans, rt, eng, hand, left>> /\ History

(* Without an object the handler panics: ServeHTTP recovers, and the       *)
(* client gets no answer.                                                  *)
ReadCode ==
  /\ req.pc = "table"
  /\ req' = IF req.code \in DOMAIN rt.code /\ rt.code[req.code] \in req.keys
            THEN NoReq ELSE [req EXCEPT !.pc = "aborted", !.keys = {}]
  /\ UNCHANGED <<dbVars, chans, rt, eng, hand, left>> /\ History

-----------------------------------------------------------------------------
Init ==
  /\ db = Existing /\ rules = [c \in Codes |-> 0] /\ unborn = Codes \ DOMAIN Existing
  /\ chMsg = <<>> /\ chHost = <<>> /\ chEngine = 0 /\ chSSL = <<>>
  /\ rt = NewTable /\ eng = [Loop EXCEPT !.pc = "load", !.rows = Existing]   \* LoadAllHost
  /\ hand = [h \in Handlers |-> Idle] /\ req = NoReq
  /\ blur = {} /\ calm = FALSE /\ left = Budget

Handle(h) == Write(h) \/ Notify(h) \/ Send(h)

EngineStep ==
  \/ TakeMsg \/ TakeHost \/ TakeEngine \/ ReloadOne \/ TakeSSL \/ SendSSL \/ RenewDone
  \/ \E c \in Codes : UpdateSSLInfo(c)

Next ==
  \/ \E h \in Handlers, c \in Codes :
       \/ DelHostApi(h, c) \/ SaveRules(h, c)
       \/ \E s \in Offers[c] : AddApi(h, c, s) \/ ModifyHostApi(h, c, s)
       \/ \E g \in BOOLEAN : ModifyGuardStatusApi(h, c, g)
  \/ \E h \in Handlers : Handle(h) \/ \E g \in BOOLEAN : ModifyAllGuardStatusApi(h, g)
  \/ ReloadApi \/ SslOrderApi \/ EngineStep
  \/ \E r \in Requests : ResolveHost(r[1], r[2])
  \/ ReadTarget \/ ReadCode

Spec == Init /\ [][Next]_vars

(* The loop and the handlers are goroutines that run whenever they can. *)
FairSpec == Spec /\ WF_vars(EngineStep) /\ \A h \in Handlers : WF_vars(Handle(h))
-----------------------------------------------------------------------------
(* Properties *)

Msg == [type : {"host", "del", "rules", "ssl"}, code : Codes, row : SUBSET Row, old : SUBSET Row,
        rules : 0..Budget["rules"]]
Safe == [id : Nat, code : Codes, row : Row, rules : 0..Budget["rules"]]

(* The state is well typed; in particular no code is given out twice, and  *)
(* no channel holds more than its capacity.                                *)
TypeOK ==
  /\ DOMAIN db \subseteq Codes /\ Range(db) \subseteq Row
  /\ rules \in [Codes -> 0..Budget["rules"]] /\ unborn \subseteq Codes \ DOMAIN db
  /\ Range(chMsg) \cup Range(chHost) \subseteq Msg /\ Len(chMsg) <= Cap /\ Len(chHost) <= Cap
  /\ chEngine \in 0..Cap /\ Range(chSSL) \subseteq 1..Budget["renew"]
  /\ Objects(rt) \subseteq Safe /\ Range(rt.more) \cup DOMAIN rt.code \subseteq Codes
  /\ eng.pc \in {"loop", "load", "renew"} /\ Range(eng.out) \subseteq Msg
  /\ \A h \in Handlers : hand[h].pc \in {"idle", "write", "read", "send"} /\ hand[h].op \in Ops
  /\ req.pc \in {"idle", "found", "table", "aborted"} /\ req.code \in Codes
  /\ blur \subseteq Codes /\ calm \in BOOLEAN

(* In every table published, a request that resolves to a site finds that  *)
(* site's object by its code: no key, further domain or port-free name of  *)
(* a removed or moved site is left behind, unless changes of that site     *)
(* overlapped.                                                             *)
TableSound ==
  \A r \in Requests : \A c \in Resolve(rt, r[1], r[2]) \ blur :
    Has(rt, c) /\ HostOf(rt, c).code = c

(* A request whose site stays at its place is answered, however often the  *)
(* site is edited, its certificate renewed or the whole engine reloaded    *)
(* between the three reads of the table ("main port key never missing").   *)
ServedDuringReload == req.pc = "aborted" => ~calm

(* The table a restart would build from the database. *)
Rebuilt == FoldSet(LAMBDA c, t : LoadHost(t, c, db[c], rules[c]), NewTable, DOMAIN db)
Answer(t, r) == {[HostOf(t, c) EXCEPT !.id = 0] : c \in Resolve(t, r[1], r[2])}
Quiet == /\ \A h \in Handlers : hand[h].pc = "idle"
         /\ chMsg = <<>> /\ chHost = <<>> /\ chEngine = 0 /\ chSSL = <<>> /\ eng.pc = "loop"

(* Once every notification has been taken, each request gets the site, the *)
(* settings and the rules a restart of the program would give it, unless   *)
(* notifications of a site concerned overlapped.                           *)
EngineFollowsDB ==
  Quiet => \A r \in Requests :
    (Resolve(rt, r[1], r[2]) \cup Resolve(Rebuilt, r[1], r[2])) \cap blur = {}
      => Answer(rt, r) = Answer(Rebuilt, r)

(* The main loop comes back to its channels after every order. *)
LoopReturns == eng.pc # "loop" ~> eng.pc = "loop"
=============================================================================

------------------------- MODULE HostRoutingProofs -------------------------
(* Theorems about HostRouting: for any sites, settings, API requests,       *)
(* channel capacity and number of changes.                                  *)
EXTENDS HostRouting, TLAPS, FiniteSetTheorems, SequenceTheorems, WellFoundedInduction

ApiOps == Ops \ {"reload", "renew"}

(* Types finer than TypeOK: the settings of a row are some its site may be  *)
(* given, and every record has its fields.                                  *)
RowOf(c)  == {r \in Row : r.cfg \in Offers[c]}
OkMsg     == {m \in Msg : m.row \cup m.old \subseteq RowOf(m.code)
                          /\ (m.type \in {"del", "ssl"} => m.row # {})}
RowsOk(f) == DOMAIN f \subseteq Codes /\ \A c \in DOMAIN f : f[c] \in RowOf(c)

TabOk(t) ==
  /\ DOMAIN t = {"target", "code", "noPort", "more"}
  /\ IsFiniteSet(DOMAIN t.target)
  /\ \A k \in DOMAIN t.target : t.target[k] \in Safe /\ t.target[k].row \in RowOf(t.target[k].code)
  /\ DOMAIN t.code \subseteq Codes /\ \A k \in DOMAIN t.more : t.more[k] \in Codes

HandOk(j) ==
  /\ DOMAIN j = {"pc", "op", "codes", "arg", "old", "out"}
  /\ j.pc \in {"idle", "write", "read", "send"} /\ j.op \in ApiOps
  /\ j.codes \in SUBSET Codes /\ RowsOk(j.old) /\ j.out \in Seq(OkMsg)
  /\ j.pc \in {"write", "read"} => j.codes # {}
  /\ j.pc = "send" => j.out # <<>>
  /\ j.op \in {"add", "edit"} => \A c \in j.codes : j.arg \in Offers[c]
  /\ j.op \in {"guard", "guardAll"} => j.arg \in BOOLEAN
  /\ j.op = "rules" => j.arg \in 0..Budget["rules"]
  /\ j.op = "del" /\ j.pc \in {"write", "read"} => j.codes \subseteq DOMAIN j.old

EngOk(e) ==
  /\ DOMAIN e = {"pc", "rows", "gone", "todo", "cert", "out"}
  /\ e.pc \in {"loop", "load", "renew"} /\ RowsOk(e.rows) /\ DOMAIN e.gone \subseteq Codes
  /\ e.todo \subseteq Codes /\ e.cert \in 0..Budget["renew"] /\ e.out \in Seq(OkMsg) /\ Len(e.out) <= 1

ReqOk(q) ==
  /\ DOMAIN q = {"pc", "code", "keys"}
  /\ q.pc \in {"idle", "found", "table", "aborted"} /\ q.code \in Codes

Adding(h) == hand[h].pc = "write" /\ hand[h].op = "add"

DbOk   == /\ RowsOk(db) /\ rules \in [Codes -> 0..Budget["rules"]] /\ unborn \subseteq Codes \ DOMAIN db
ChanOk == /\ chMsg \in Seq(OkMsg) /\ Len(chMsg) <= Cap /\ chHost \in Seq(OkMsg) /\ Len(chHost) <= Cap
          /\ chEngine \in 0..Cap /\ chSSL \in Seq(1..Budget["renew"])
HandsOk == /\ hand = [h \in Handlers |-> hand[h]] /\ \A h \in Handlers : HandOk(hand[h])
           /\ \A h \in Handlers : Adding(h) => hand[h].codes \cap unborn = {}
LeftOk == left \in [Ops \cup {"all"} -> Nat] /\ \A o \in Ops \cup {"all"} : left[o] <= Budget[o]
PastOk == blur \subseteq Codes /\ calm \in BOOLEAN

TypeInv == DbOk /\ ChanOk /\ HandsOk /\ TabOk(rt) /\ EngOk(eng) /\ ReqOk(req) /\ LeftOk /\ PastOk

-----------------------------------------------------------------------------
(* Functions and finite sets *)

LEMMA Least == ASSUME NEW T \in SUBSET Nat, T # {} PROVE \E i \in T : \A j \in T : i <= j
<1>1. IsWellFoundedOn(OpToRel(<, Nat), Nat)  BY NatLessThanWellFounded
<1>2. PICK i \in T : \A j \in T : ~ (<<j, i>> \in OpToRel(<, Nat))  BY <1>1, WFMin
<1>3. \A j \in T : ~ (j < i)  BY <1>2 DEF OpToRel
<1> QED  BY <1>3

(* The values a function takes on a finite set. *)
LEMMA ImageFinite ==
  ASSUME NEW S, IsFiniteSet(S), NEW f
  PROVE  IsFiniteSet({f[x] : x \in S}) /\ Cardinality({f[x] : x \in S}) <= Cardinality(S)
<1> DEFINE T == {f[x] : x \in S}
           g == [x \in S |-> f[x]]
<1>1. g \in Surjection(S, T)  BY DEF Surjection
<1> QED  BY <1>1, FS_Surjection

(* An object made by LoadHost or an update is told apart from those of the  *)
(* table.                                                                   *)
LEMMA NewIdFresh ==
  ASSUME NEW t, IsFiniteSet(DOMAIN t.target)
  PROVE  NewId(t) \in Nat /\ \A k \in DOMAIN t.target : t.target[k].id # NewId(t)
<1> DEFINE O   == Objects(t)
           n   == Cardinality(O)
           f   == [o \in O |-> o.id]
           ids == {o.id : o \in O}
           T   == 1..(n + 1) \ ids
<1>1. IsFiniteSet(O)  BY ImageFinite DEF Objects
<1>2. n \in Nat  BY <1>1, FS_CardinalityType
<1>3. ids = {f[o] : o \in O}  OBVIOUS
<1>4. IsFiniteSet(ids) /\ Cardinality(ids) <= n
  <2> HIDE DEF O, f, ids
  <2> QED  BY <1>1, <1>3, ImageFinite
<1>5. Cardinality(ids) \in Nat  BY <1>4, FS_CardinalityType
<1>6. T # {}
  <2> HIDE DEF n, ids
  <2>1. SUFFICES ASSUME 1..(n + 1) \in SUBSET ids PROVE FALSE  OBVIOUS
  <2>2. Cardinality(1..(n + 1)) <= Cardinality(ids)  BY <1>4, <2>1, FS_Subset
  <2>3. n + 1 \in Int /\ 1 \in Int  BY <1>2
  <2>4. Cardinality(1..(n + 1)) = IF 1 > n + 1 THEN 0 ELSE (n + 1) - 1 + 1  BY <2>3, FS_Interval
  <2> QED  BY <1>2, <1>4, <1>5, <2>2, <2>4
<1>7. T \in SUBSET Nat  BY <1>2
<1>8. Min(T) \in T
  <2> HIDE DEF T
  <2> QED  BY <1>6, <1>7, Least DEF Min
<1>9. NewId(t) = Min(T)  BY DEF NewId
<1>10. \A k \in DOMAIN t.target : t.target[k].id \in ids  BY DEF Objects
<1> QED  BY <1>7, <1>8, <1>9, <1>10

LEMMA SetToSeqIs ==
  ASSUME NEW S, IsFiniteSet(S)
  PROVE  Cardinality(S) \in Nat /\ SetToSeq(S) \in [1..Cardinality(S) -> S]
<1>1. Cardinality(S) \in Nat /\ ExistsBijection(1..Cardinality(S), S)  BY FS_CardinalityType
<1>2. PICK g : g \in Bijection(1..Cardinality(S), S)  BY <1>1 DEF ExistsBijection
<1>3. g \in [1..Cardinality(S) -> S] /\ IsInjective(g)
  BY <1>2 DEF Bijection, Injection, IsInjective
<1> QED  BY <1>1, <1>3 DEF SetToSeq

(* The keys of a site's row are finitely many. *)
LEMMA KeysFinite == ASSUME NEW s \in Cfgs PROVE IsFiniteSet(KeysOf(s))
<1> DEFINE L == Listens(s)
           f == [p \in L |-> <<s.host, p>>]
<1>1. IsFiniteSet(s.extra)  BY RoutingAssumption
<1>2. IsFiniteSet({s.port}) /\ IsFiniteSet({80}) /\ IsFiniteSet({})  BY FS_Singleton, FS_EmptySet
<1>3. IsFiniteSet({s.port} \cup s.extra)  BY <1>1, <1>2, FS_Union
<1>4. IsFiniteSet(L)  BY <1>2, <1>3, FS_Union DEF Listens
<1>5. KeysOf(s) = {f[p] : p \in L}  BY DEF KeysOf
<1> HIDE DEF L, f
<1> QED  BY <1>4, <1>5, ImageFinite

-----------------------------------------------------------------------------
(* What the operations on the table keep of its types *)

LEMMA RowIs == ASSUME NEW c \in Codes, NEW r \in RowOf(c) PROVE r \in Row /\ r.cfg \in Cfgs /\ r.cfg \in Offers[c]
  BY DEF RowOf, Cfgs

LEMMA LoadHostType ==
  ASSUME NEW t, TabOk(t), NEW c \in Codes, NEW r \in RowOf(c), NEW list \in 0..Budget["rules"]
  PROVE  TabOk(LoadHost(t, c, r, list))
<1> DEFINE s  == r.cfg
           hs == [id |-> NewId(t), code |-> c, row |-> r, rules |-> list]
           u  == LoadHost(t, c, r, list)
           old == {k \in DOMAIN t.more : t.more[k] = c}
           A  == Without(t.target, Owned(t, c))
           B  == Without(t.more, old)
<1>1. r \in Row /\ s \in Cfgs  BY RowIs
<1>2. hs \in Safe /\ hs.row \in RowOf(hs.code)  BY <1>1, NewIdFresh DEF TabOk, Safe
<1>3. /\ DOMAIN u = {"target", "code", "noPort", "more"}
      /\ u.target = Put(A, KeysOf(s), hs) /\ u.code = Put(t.code, {c}, CodeKey(s))
      /\ u.more = Put(B, s.more \X ({s.port} \cup Extra(s)), c)
  BY DEF LoadHost
<1> HIDE DEF hs, u, s
<1>4. DOMAIN A \subseteq DOMAIN t.target /\ \A k \in DOMAIN A : A[k] = t.target[k]
  BY DEF Without, Restrict
<1>5. DOMAIN B \subseteq DOMAIN t.more /\ \A k \in DOMAIN B : B[k] = t.more[k]
  BY DEF Without, Restrict
<1> HIDE DEF A, B
<1>6. IsFiniteSet(DOMAIN u.target)
  <2>1. IsFiniteSet(DOMAIN A)  BY <1>4, FS_Subset DEF TabOk
  <2>2. IsFiniteSet(DOMAIN A \cup KeysOf(s))  BY <1>1, <2>1, KeysFinite, FS_Union
  <2> QED  BY <1>3, <2>2 DEF Put
<1>7. ASSUME NEW k \in DOMAIN u.target
      PROVE  u.target[k] \in Safe /\ u.target[k].row \in RowOf(u.target[k].code)
  <2>1. u.target[k] = hs \/ (k \in DOMAIN A /\ u.target[k] = A[k])  BY <1>3 DEF Put
  <2> QED  BY <1>2, <1>4, <2>1 DEF TabOk
<1>8. DOMAIN u.code \subseteq Codes  BY <1>3 DEF TabOk, Put
<1>9. ASSUME NEW k \in DOMAIN u.more PROVE u.more[k] \in Codes
  <2>1. u.more[k] = c \/ (k \in DOMAIN B /\ u.more[k] = B[k])  BY <1>3 DEF Put
  <2> QED  BY <1>5, <2>1 DEF TabOk
<1>10. TabOk(u)  BY <1>3, <1>6, <1>7, <1>8, <1>9 DEF TabOk
<1> QED  BY <1>10 DEF u

LEMMA RemoveHostType == ASSUME NEW t, TabOk(t), NEW c, NEW s PROVE TabOk(RemoveHost(t, c, s))
<1> DEFINE u == RemoveHost(t, c, s)
           old == {k \in DOMAIN t.more : t.more[k] = c}
<1>1. /\ DOMAIN u = {"target", "code", "noPort", "more"}
      /\ u.target = Without(t.target, Cleared(s)) /\ u.code = Without(t.code, {c})
      /\ u.more = Without(t.more, old)
  BY DEF RemoveHost
<1> HIDE DEF u, old
<1>2. /\ DOMAIN u.target \subseteq DOMAIN t.target /\ \A k \in DOMAIN u.target : u.target[k] = t.target[k]
      /\ DOMAIN u.more \subseteq DOMAIN t.more /\ \A k \in DOMAIN u.more : u.more[k] = t.more[k]
      /\ DOMAIN u.code \subseteq DOMAIN t.code
  BY <1>1 DEF Without, Restrict
<1>3. IsFiniteSet(DOMAIN u.target)  BY <1>2, FS_Subset DEF TabOk
<1>4. TabOk(u)  BY <1>1, <1>2, <1>3 DEF TabOk
<1> QED  BY <1>4 DEF u

(* A copy of the object at k with another switch or other rules.            *)
LEMMA RepointIs ==
  ASSUME NEW t, TabOk(t), NEW k, NEW o
  PROVE  LET u == Repoint(t, k, o) IN
         /\ DOMAIN u = DOMAIN t /\ u.code = t.code /\ u.noPort = t.noPort /\ u.more = t.more
         /\ DOMAIN u.target = DOMAIN t.target
         /\ \A x \in DOMAIN t.target :
              u.target[x] = IF t.target[x].id = t.target[k].id THEN o ELSE t.target[x]
  BY DEF Repoint, TabOk

LEMMA RepointType ==
  ASSUME NEW t, TabOk(t), NEW k, NEW o \in Safe, o.row \in RowOf(o.code)
  PROVE  TabOk(Repoint(t, k, o))
<1> DEFINE u == Repoint(t, k, o)
<1>1. /\ DOMAIN u = DOMAIN t /\ u.code = t.code /\ u.noPort = t.noPort /\ u.more = t.more
      /\ DOMAIN u.target = DOMAIN t.target
      /\ \A x \in DOMAIN t.target :
           u.target[x] = IF t.target[x].id = t.target[k].id THEN o ELSE t.target[x]
  BY RepointIs
<1> HIDE DEF u
<1>2. TabOk(u)  BY <1>1 DEF TabOk
<1> QED  BY <1>2 DEF u

LEMMA SwitchIs ==
  ASSUME NEW t, TabOk(t), NEW k \in DOMAIN t.target, NEW g \in BOOLEAN
  PROVE  LET x == t.target[k]
             o == [x EXCEPT !.id = NewId(t), !.row.guard = g]
         IN  o \in Safe /\ o.id = NewId(t) /\ o.code = x.code /\ o.row.cfg = x.row.cfg
             /\ o.row \in RowOf(o.code)
<1> DEFINE x == t.target[k]
           o == [x EXCEPT !.id = NewId(t), !.row.guard = g]
<1>1. x \in Safe /\ x.row \in RowOf(x.code) /\ x.row \in Row /\ NewId(t) \in Nat
  BY NewIdFresh DEF TabOk, RowOf
<1> HIDE DEF x
<1>2. o.row = [x.row EXCEPT !.guard = g] /\ o.id = NewId(t) /\ o.code = x.code /\ o.rules = x.rules
  BY <1>1 DEF Safe
<1>3. [x.row EXCEPT !.guard = g] \in Row /\ [x.row EXCEPT !.guard = g].cfg = x.row.cfg  BY <1>1 DEF Row
<1>4. o \in Safe  BY <1>1, <1>2, <1>3 DEF Safe
<1> QED  BY <1>1, <1>2, <1>3, <1>4 DEF x, RowOf

LEMMA RulesAre ==
  ASSUME NEW t, TabOk(t), NEW k \in DOMAIN t.target, NEW list \in 0..Budget["rules"]
  PROVE  LET x == t.target[k]
             o == [x EXCEPT !.id = NewId(t), !.rules = list]
         IN  o \in Safe /\ o.id = NewId(t) /\ o.code = x.code /\ o.row.cfg = x.row.cfg
             /\ o.row \in RowOf(o.code)
<1>1. t.target[k] \in Safe /\ t.target[k].row \in RowOf(t.target[k].code) /\ NewId(t) \in Nat
  BY NewIdFresh DEF TabOk
<1> QED  BY <1>1 DEF Safe

LEMMA UpdateHostByKeyType ==
  ASSUME NEW t, TabOk(t), NEW k, NEW g \in BOOLEAN
  PROVE  TabOk(UpdateHostByKey(t, k, g))
  BY SwitchIs, RepointType DEF UpdateHostByKey

LEMMA UpdateHostType ==
  ASSUME NEW t, TabOk(t), NEW c, NEW list \in 0..Budget["rules"]
  PROVE  TabOk(UpdateHost(t, c, list))
  BY RulesAre, RepointType DEF UpdateHost, Has, HostOf

(* A message with a row has one of its site. *)
LEMMA RowOfMsg ==
  ASSUME NEW m \in OkMsg
  PROVE  /\ m.code \in Codes /\ m.rules \in 0..Budget["rules"]
         /\ m.row # {} => The(m.row) \in RowOf(m.code) /\ The(m.row) \in m.row
         /\ m.type \in {"del", "ssl"} => m.row # {}
  BY DEF OkMsg, Msg, The

LEMMA ApplyType ==
  ASSUME NEW t, TabOk(t), NEW m \in OkMsg, rules \in [Codes -> 0..Budget["rules"]]
  PROVE  TabOk(Apply(t, m))
<1>1. m.row # {} => TabOk(LoadHost(t, m.code, The(m.row), rules[m.code]))  BY RowOfMsg, LoadHostType
<1>2. TabOk(RemoveHost(t, m.code, The(m.row).cfg))  BY RemoveHostType
<1>3. TabOk(UpdateHost(t, m.code, m.rules))  BY RowOfMsg, UpdateHostType
<1> QED  BY <1>1, <1>2, <1>3, RowOfMsg DEF Apply

-----------------------------------------------------------------------------
(* Every step keeps the types *)

LEMMA HistoryType == ASSUME PastOk, History PROVE PastOk'
  BY DEF History, PastOk

LEMMA SpendType ==
  ASSUME LeftOk, NEW o \in Ops, Spend(o)
  PROVE  LeftOk' /\ Number(o) \in 1..Budget[o]
<1>1. left[o] \in Nat /\ Budget[o] \in Nat /\ left[o] > 0 /\ left[o] <= Budget[o]
  BY RoutingAssumption DEF LeftOk, Spend
<1>2. Number(o) \in 1..Budget[o]  BY <1>1 DEF Number
<1>3. LeftOk'  BY RoutingAssumption DEF LeftOk, Spend, Ops
<1> QED  BY <1>2, <1>3

LEMMA RestrictRows == ASSUME RowsOk(db), NEW C PROVE RowsOk(Restrict(db, C \cap DOMAIN db))
  BY DEF RowsOk, Restrict

LEMMA IdleOk == HandOk(Idle)
<1>1. RowsOk(<<>>) /\ <<>> \in Seq(OkMsg)  BY DEF RowsOk
<1> QED  BY <1>1 DEF Idle, HandOk, ApiOps, Ops

(* The start of an API request. *)
LEMMA BeginType ==
  ASSUME TypeInv, NEW h \in Handlers, NEW o \in ApiOps, NEW C \in SUBSET Codes, C # {}, NEW a,
         Begin(h, o, C, a), unborn' \subseteq unborn,
         o = "add" => C \cap unborn' = {},
         o \in {"add", "edit"} => \A c \in C : a \in Offers[c],
         o \in {"guard", "guardAll"} => a \in BOOLEAN,
         o = "rules" => a \in 0..Budget["rules"],
         o = "del" => C \subseteq DOMAIN db
  PROVE  TypeInv'
<1> DEFINE j == [pc |-> "write", op |-> o, codes |-> C, arg |-> a,
                 old |-> Restrict(db, C \cap DOMAIN db), out |-> <<>>]
<1> USE DEF TypeInv
<1>1. RowsOk(j.old) /\ (o = "del" => C \subseteq DOMAIN j.old)
  <2>1. RowsOk(Restrict(db, C \cap DOMAIN db))  BY RestrictRows DEF DbOk
  <2> QED  BY <2>1 DEF Restrict
<1>2. j.out \in Seq(OkMsg)  OBVIOUS
<1>3. HandOk(j)  BY <1>1, <1>2 DEF HandOk
<1>4. j.codes = C /\ j.op = o /\ hand' = [hand EXCEPT ![h] = j]  BY DEF Begin
<1> HIDE DEF j
<1>5. HandsOk'
  <2>1. hand' = [g \in Handlers |-> hand'[g]]  BY <1>4 DEF HandsOk
  <2>2. \A g \in Handlers : hand'[g] = IF g = h THEN j ELSE hand[g]  BY <1>4 DEF HandsOk
  <2> QED  BY <1>3, <1>4, <2>1, <2>2 DEF HandsOk, Adding
<1>6. UNCHANGED <<db, rules, chans, rt, eng, req>> /\ History /\ Spend(o)  BY DEF Begin
<1>7. LeftOk' /\ PastOk'  BY <1>6, SpendType, HistoryType DEF ApiOps
<1>8. DbOk' /\ ChanOk' /\ TabOk(rt)' /\ EngOk(eng)' /\ ReqOk(req)'
  BY <1>6 DEF DbOk, ChanOk, chans
<1> QED  BY <1>5, <1>7, <1>8

LEMMA ApiType ==
  ASSUME TypeInv, NEW h \in Handlers, NEW c \in Codes, NEW g \in BOOLEAN, NEW s,
         \/ DelHostApi(h, c) \/ SaveRules(h, c) \/ AddApi(h, c, s) \/ ModifyHostApi(h, c, s)
         \/ ModifyGuardStatusApi(h, c, g) \/ ModifyAllGuardStatusApi(h, g)
  PROVE  TypeInv'
<1> USE DEF ApiOps, Ops
<1>1. {c} \in SUBSET Codes /\ {c} # {}  OBVIOUS
<1>2. CASE DelHostApi(h, c)  BY <1>1, <1>2, BeginType DEF DelHostApi
<1>3. CASE SaveRules(h, c)
  <2>1. Spend("rules")  BY <1>3 DEF SaveRules, Begin
  <2>2. Number("rules") \in 0..Budget["rules"]  BY <2>1, SpendType, RoutingAssumption DEF TypeInv
  <2> QED  BY <1>1, <1>3, <2>2, BeginType DEF SaveRules
<1>4. CASE AddApi(h, c, s)
  <2>1. {c} \cap unborn' = {} /\ unborn' \subseteq unborn  BY <1>4 DEF AddApi
  <2> QED  BY <1>1, <1>4, <2>1, BeginType DEF AddApi
<1>5. CASE ModifyHostApi(h, c, s)  BY <1>1, <1>5, BeginType DEF ModifyHostApi
<1>6. CASE ModifyGuardStatusApi(h, c, g)  BY <1>1, <1>6, BeginType DEF ModifyGuardStatusApi
<1>7. CASE ModifyAllGuardStatusApi(h, g)
  <2> DEFINE C == {d \in DOMAIN db : db[d].guard # g}
  <2>1. C \in SUBSET Codes /\ C # {}  BY <1>7 DEF ModifyAllGuardStatusApi, TypeInv, DbOk, RowsOk
  <2>2. Begin(h, "guardAll", C, g) /\ UNCHANGED unborn  BY <1>7 DEF ModifyAllGuardStatusApi
  <2> HIDE DEF C
  <2> QED  BY <2>1, <2>2, BeginType
<1> QED  BY <1>2, <1>3, <1>4, <1>5, <1>6, <1>7

(* The database after a handler's change. *)
LEMMA ChangeRow ==
  ASSUME NEW c \in Codes, NEW r \in RowOf(c)
  PROVE  /\ \A s \in Offers[c] : [r EXCEPT !.cfg = s] \in RowOf(c)
         /\ \A g \in BOOLEAN : [r EXCEPT !.guard = g] \in RowOf(c)
         /\ \A n \in 0..Budget["renew"] : [r EXCEPT !.cert = n] \in RowOf(c)
<1>1. \A s \in Offers[c] : s \in Cfgs  BY DEF Cfgs
<1> QED  BY <1>1 DEF RowOf, Row

LEMMA NewRow ==
  ASSUME NEW c \in Codes, NEW s \in Offers[c]
  PROVE  [cfg |-> s, guard |-> TRUE, cert |-> 0] \in RowOf(c)
<1>1. s \in Cfgs  BY DEF Cfgs
<1>2. 0 \in 0..Budget["renew"]  BY RoutingAssumption DEF Ops
<1> QED  BY <1>1, <1>2 DEF RowOf, Row

LEMMA WriteDb ==
  ASSUME TypeInv, NEW h \in Handlers, Write(h)
  PROVE  /\ RowsOk(db')
         /\ DOMAIN db' = CASE hand[h].op = "add" -> DOMAIN db \cup hand[h].codes
                           [] hand[h].op = "del" -> DOMAIN db \ hand[h].codes
                           [] OTHER -> DOMAIN db
<1> DEFINE j == hand[h]
<1>1. RowsOk(db) /\ HandOk(j)  BY DEF TypeInv, DbOk, HandsOk
<1> HIDE DEF j
<1>2. CASE j.op = "add"
  <2>1. db' = Put(db, j.codes, [cfg |-> j.arg, guard |-> TRUE, cert |-> 0])  BY <1>2 DEF Write, j
  <2>2. \A c \in j.codes : [cfg |-> j.arg, guard |-> TRUE, cert |-> 0] \in RowOf(c)
    BY <1>1, <1>2, NewRow DEF HandOk
  <2>3. DOMAIN db' = DOMAIN db \cup j.codes  BY <2>1 DEF Put
  <2>4. \A c \in DOMAIN db' : db'[c] = IF c \in j.codes THEN [cfg |-> j.arg, guard |-> TRUE, cert |-> 0] ELSE db[c]
    BY <2>1 DEF Put
  <2> HIDE <2>1
  <2> QED  BY <1>1, <1>2, <2>2, <2>3, <2>4 DEF RowsOk, HandOk, j
<1>3. CASE j.op = "del"
  <2>1. db' = Without(db, j.codes)  BY <1>3 DEF Write, j
  <2> QED  BY <1>1, <1>3, <2>1 DEF RowsOk, j, Without, Restrict
<1>4. CASE j.op = "guardAll"
  <2>1. db' = [c \in DOMAIN db |-> [db[c] EXCEPT !.guard = j.arg]]  BY <1>4 DEF Write, j
  <2>2. j.arg \in BOOLEAN  BY <1>1, <1>4 DEF HandOk
  <2>3. \A c \in DOMAIN db : [db[c] EXCEPT !.guard = j.arg] \in RowOf(c)
    BY <1>1, <2>2, ChangeRow DEF RowsOk
  <2> QED  BY <1>1, <1>4, <2>1, <2>3 DEF RowsOk, j
<1>5. CASE j.op \notin {"add", "del", "guardAll"}
  <2> DEFINE v(c) == CASE j.op = "edit"  -> [db[c] EXCEPT !.cfg = j.arg]
                       [] j.op = "guard" -> [db[c] EXCEPT !.guard = j.arg]
                       [] OTHER          -> db[c]
  <2>1. db' = [c \in DOMAIN db |-> IF c \in j.codes THEN v(c) ELSE db[c]]  BY <1>5 DEF Write, j
  <2>2. ASSUME NEW c \in DOMAIN db, c \in j.codes PROVE v(c) \in RowOf(c)
    <3>1. c \in Codes /\ db[c] \in RowOf(c)  BY <1>1, <2>2 DEF RowsOk
    <3>2. j.op = "edit" => j.arg \in Offers[c]  BY <1>1, <2>2 DEF HandOk
    <3>3. j.op = "guard" => j.arg \in BOOLEAN  BY <1>1 DEF HandOk
    <3> QED  BY <3>1, <3>2, <3>3, ChangeRow
  <2> HIDE DEF v
  <2>3. DOMAIN db' = DOMAIN db /\ \A c \in DOMAIN db : db'[c] = IF c \in j.codes THEN v(c) ELSE db[c]  BY <2>1
  <2> QED  BY <1>1, <1>5, <2>2, <2>3 DEF RowsOk, j
<1> QED  BY <1>2, <1>3, <1>4, <1>5

LEMMA WriteType == ASSUME TypeInv, NEW h \in Handlers, Write(h) PROVE TypeInv'
<1> DEFINE j == hand[h]
<1>1. HandOk(j) /\ j.pc = "write" /\ History
      /\ UNCHANGED <<unborn, chans, rt, eng, req, left>> /\ hand' = [hand EXCEPT ![h].pc = "read"]
  BY DEF TypeInv, HandsOk, Write
<1>2. DbOk'
  <2>1. j.op = "add" => j.codes \cap unborn = {}  BY <1>1 DEF TypeInv, HandsOk, Adding
  <2>2. unborn' \subseteq Codes \ DOMAIN db'  BY <1>1, <2>1, WriteDb DEF TypeInv, DbOk
  <2>3. rules' \in [Codes -> 0..Budget["rules"]]
    <3>1. j.op = "rules" => j.arg \in 0..Budget["rules"]  BY <1>1 DEF HandOk
    <3>2. rules' = [c \in Codes |-> IF c \notin j.codes THEN rules[c]
                                   ELSE IF j.op = "rules" THEN j.arg
                                   ELSE IF j.op = "del" THEN 0 ELSE rules[c]]  BY DEF Write
    <3>3. 0 \in 0..Budget["rules"]  BY RoutingAssumption DEF Ops
    <3>4. rules \in [Codes -> 0..Budget["rules"]]  BY DEF TypeInv, DbOk
    <3> HIDE DEF j
    <3> QED  BY <3>1, <3>2, <3>3, <3>4
  <2> QED  BY <2>2, <2>3, WriteDb DEF DbOk
<1>3. HandsOk'
  <2> DEFINE u == [j EXCEPT !.pc = "read"]
  <2>1. HandOk(u)
    <3>1. /\ DOMAIN u = DOMAIN j
          /\ u.pc = "read" /\ u.op = j.op /\ u.codes = j.codes /\ u.arg = j.arg /\ u.old = j.old /\ u.out = j.out
      BY <1>1 DEF HandOk
    <3> HIDE DEF u, j
    <3> QED  BY <1>1, <3>1 DEF HandOk
  <2>2. hand' = [hand EXCEPT ![h] = u]  BY <1>1
  <2>3. u.pc = "read"  BY <1>1 DEF HandOk
  <2> HIDE DEF u, j
  <2>4. \A g \in Handlers : hand'[g] = IF g = h THEN u ELSE hand[g]  BY <2>2 DEF TypeInv, HandsOk
  <2>5. hand' = [g \in Handlers |-> hand'[g]]  BY <2>2 DEF TypeInv, HandsOk
  <2> QED  BY <1>1, <2>1, <2>3, <2>4, <2>5 DEF TypeInv, HandsOk, Adding
<1> QED  BY <1>1, <1>2, <1>3, HistoryType DEF TypeInv, ChanOk, chans, LeftOk

(* A handler moves on. *)
LEMMA HandSet ==
  ASSUME HandsOk, NEW h \in Handlers, NEW u, HandOk(u), u.pc # "write",
         hand' = [hand EXCEPT ![h] = u], UNCHANGED unborn
  PROVE  HandsOk' /\ \A g \in Handlers : hand'[g] = IF g = h THEN u ELSE hand[g]
<1>1. \A g \in Handlers : hand'[g] = IF g = h THEN u ELSE hand[g]  BY DEF HandsOk
<1>2. hand' = [g \in Handlers |-> hand'[g]]  BY DEF HandsOk
<1> QED  BY <1>1, <1>2 DEF HandsOk, Adding

(* Messages and the fields that make one of another. *)
Mess(y, c, r, o, l) == [type |-> y, code |-> c, row |-> r, old |-> o, rules |-> l]

LEMMA MessOk ==
  ASSUME NEW y \in {"host", "del", "rules", "ssl"}, NEW c \in Codes, NEW r \in SUBSET RowOf(c),
         NEW o \in SUBSET RowOf(c), NEW l \in 0..Budget["rules"], y \in {"del", "ssl"} => r # {}
  PROVE  Mess(y, c, r, o, l) \in OkMsg /\ Mess(y, c, r, o, l).code = c /\ Mess(y, c, r, o, l).type = y
         /\ Mess(y, c, r, o, l).row = r
<1>1. RowOf(c) \subseteq Row  BY DEF RowOf
<1> QED  BY <1>1 DEF OkMsg, Msg, Mess

LEMMA NoMsgWith ==
  ASSUME NEW y, NEW c, NEW r
  PROVE  /\ [NoMsg EXCEPT !.code = c, !.row = r] = Mess("host", c, r, {}, 0)
         /\ [NoMsg EXCEPT !.type = y, !.code = c, !.row = r] = Mess(y, c, r, {}, 0)
<1> DEFINE d == CHOOSE e \in Codes : TRUE
           a == [NoMsg EXCEPT !.code = c]
           b == [NoMsg EXCEPT !.type = y]
           e == [b EXCEPT !.code = c]
<1>1. NoMsg = Mess("host", d, {}, {}, 0)  BY DEF NoMsg, Mess
<1>2. [NoMsg EXCEPT !.code = c, !.row = r] = [a EXCEPT !.row = r]  OBVIOUS
<1>3. [NoMsg EXCEPT !.type = y, !.code = c, !.row = r] = [e EXCEPT !.row = r]  OBVIOUS
<1> HIDE DEF d
<1>4. a = Mess("host", c, {}, {}, 0)  BY <1>1 DEF Mess
<1>5. b = Mess(y, d, {}, {}, 0)  BY <1>1 DEF Mess
<1> HIDE DEF a, b
<1>6. e = Mess(y, c, {}, {}, 0)  BY <1>5 DEF Mess
<1> HIDE DEF e
<1>7. [a EXCEPT !.row = r] = Mess("host", c, r, {}, 0)  BY <1>4 DEF Mess
<1>8. [e EXCEPT !.row = r] = Mess(y, c, r, {}, 0)  BY <1>6 DEF Mess
<1> QED  BY <1>2, <1>3, <1>7, <1>8

(* What a handler tells the engine is of the site it changed. *)
LEMMA NoticeOk ==
  ASSUME TypeInv, NEW j, HandOk(j), j.pc = "read", NEW c \in j.codes
  PROVE  /\ Notice(j, c) \in OkMsg /\ Notice(j, c).code = c
         /\ Notice(j, c).type = "del" => j.op = "del"
         /\ j.op = "del" => Notice(j, c).row = {j.old[c]}
         /\ j.op = "rules" => Notice(j, c).type = "rules"
         /\ j.op \in {"add", "edit"} =>
              Notice(j, c).type = "host" /\ (c \in DOMAIN db => Notice(j, c).row = {db[c]})
<1> DEFINE now == IF c \in DOMAIN db THEN {db[c]} ELSE {}
           old == IF c \in DOMAIN j.old THEN {j.old[c]} ELSE {}
           m   == [NoMsg EXCEPT !.code = c, !.row = now]
           new == {[r EXCEPT !.guard = j.arg] : r \in old}
<1>1. c \in Codes /\ now \subseteq RowOf(c) /\ old \subseteq RowOf(c)  BY DEF TypeInv, DbOk, RowsOk, HandOk
<1>2. j.op = "del" => old # {} /\ old = {j.old[c]}  BY DEF HandOk
<1>3. j.op = "guardAll" => new \subseteq RowOf(c)
  <2>1. j.op = "guardAll" => j.arg \in BOOLEAN  BY DEF HandOk
  <2> HIDE DEF old
  <2> QED  BY <1>1, <2>1, ChangeRow
<1>4. rules[c] \in 0..Budget["rules"] /\ 0 \in 0..Budget["rules"]  BY <1>1, RoutingAssumption DEF TypeInv, DbOk, Ops
<1>5. m = Mess("host", c, now, {}, 0)  BY NoMsgWith
<1>6. Notice(j, c) =
        CASE j.op \in {"add", "edit"} -> [m EXCEPT !.old = old]
          [] j.op = "del" -> [m EXCEPT !.type = "del", !.row = old]
          [] j.op = "rules" -> [m EXCEPT !.type = "rules", !.row = {}, !.rules = rules[c]]
          [] j.op = "guard" -> m
          [] j.op = "guardAll" -> [m EXCEPT !.row = new]  BY DEF Notice
<1> HIDE DEF m, now, old, new
<1>7. [m EXCEPT !.old = old] = Mess("host", c, now, old, 0)  BY <1>5 DEF Mess
<1>8. [m EXCEPT !.type = "del", !.row = old] = Mess("del", c, old, {}, 0)
  <2> DEFINE a == [m EXCEPT !.type = "del"]
  <2>1. [m EXCEPT !.type = "del", !.row = old] = [a EXCEPT !.row = old]  OBVIOUS
  <2>2. a = Mess("del", c, now, {}, 0)  BY <1>5 DEF Mess
  <2> HIDE DEF a
  <2>3. [a EXCEPT !.row = old] = Mess("del", c, old, {}, 0)  BY <2>2 DEF Mess
  <2> QED  BY <2>1, <2>3
<1>9. [m EXCEPT !.type = "rules", !.row = {}, !.rules = rules[c]] = Mess("rules", c, {}, {}, rules[c])
  <2> DEFINE l == rules[c]
             a == [m EXCEPT !.type = "rules"]
             b == [a EXCEPT !.row = {}]
  <2>1. [m EXCEPT !.type = "rules", !.row = {}, !.rules = l] = [b EXCEPT !.rules = l]  OBVIOUS
  <2> HIDE DEF l
  <2>2. a = Mess("rules", c, now, {}, 0)  BY <1>5 DEF Mess
  <2> HIDE DEF a
  <2>3. b = Mess("rules", c, {}, {}, 0)  BY <2>2 DEF Mess
  <2> HIDE DEF b
  <2>4. [b EXCEPT !.rules = l] = Mess("rules", c, {}, {}, l)  BY <2>3 DEF Mess
  <2> QED  BY <2>1, <2>4 DEF l
<1>10. [m EXCEPT !.row = new] = Mess("host", c, new, {}, 0)  BY <1>5 DEF Mess
<1>11. CASE j.op \in {"add", "edit"}
  <2>1. Notice(j, c) = Mess("host", c, now, old, 0)  BY <1>6, <1>7, <1>11
  <2>2. c \in DOMAIN db => now = {db[c]}  BY DEF now
  <2> QED  BY <1>1, <1>4, <1>11, <2>1, <2>2, MessOk
<1>12. CASE j.op = "del"
  <2>1. Notice(j, c) = Mess("del", c, old, {}, 0)  BY <1>6, <1>8, <1>12
  <2> QED  BY <1>1, <1>2, <1>4, <1>12, <2>1, MessOk
<1>13. CASE j.op = "rules"
  <2>1. Notice(j, c) = Mess("rules", c, {}, {}, rules[c])  BY <1>6, <1>9, <1>13
  <2> QED  BY <1>1, <1>4, <1>13, <2>1, MessOk
<1>14. CASE j.op = "guard"
  <2>1. Notice(j, c) = Mess("host", c, now, {}, 0)  BY <1>5, <1>6, <1>14
  <2> QED  BY <1>1, <1>4, <1>14, <2>1, MessOk
<1>15. CASE j.op = "guardAll"
  <2>1. Notice(j, c) = Mess("host", c, new, {}, 0)  BY <1>6, <1>10, <1>15
  <2> QED  BY <1>1, <1>3, <1>4, <1>15, <2>1, MessOk
<1>16. j.op \in {"add", "edit", "del", "rules", "guard", "guardAll"}  BY DEF HandOk, ApiOps, Ops
<1> QED  BY <1>11, <1>12, <1>13, <1>14, <1>15, <1>16

(* The messages of a handler, one for each of its sites. *)
LEMMA NotifyIs ==
  ASSUME TypeInv, NEW h \in Handlers, Notify(h)
  PROVE  \E q \in Seq(OkMsg) :
           /\ q # <<>> /\ hand' = [hand EXCEPT ![h] = [hand[h] EXCEPT !.pc = "send", !.out = q]]
           /\ Len(q) = Cardinality(hand[h].codes)
           /\ \A i \in DOMAIN q : q[i].code \in hand[h].codes /\ (q[i].type = "del" => hand[h].op = "del")
           /\ \A i \in DOMAIN q : \E c \in hand[h].codes : q[i] = Notice(hand[h], c)
<1> DEFINE j == hand[h]
           n == Cardinality(j.codes)
           q == [i \in 1..n |-> Notice(j, SetToSeq(j.codes)[i])]
<1>1. HandOk(j) /\ j.pc = "read"  BY DEF TypeInv, HandsOk, Notify
<1>2. IsFiniteSet(j.codes) /\ j.codes # {}  BY <1>1, RoutingAssumption, FS_Subset DEF HandOk
<1>3. n \in Nat /\ SetToSeq(j.codes) \in [1..n -> j.codes]  BY <1>2, SetToSeqIs
<1>4. n # 0  BY <1>2, FS_EmptySet
<1>5. hand' = [hand EXCEPT ![h] = [hand[h] EXCEPT !.pc = "send", !.out = q]]  BY DEF Notify
<1> HIDE DEF j, n
<1>6. \A i \in 1..n : /\ q[i] \in OkMsg /\ q[i].code \in j.codes /\ (q[i].type = "del" => j.op = "del")
                      /\ \E c \in j.codes : q[i] = Notice(j, c)
  <2> SUFFICES ASSUME NEW i \in 1..n
               PROVE  /\ q[i] \in OkMsg /\ q[i].code \in j.codes /\ (q[i].type = "del" => j.op = "del")
                      /\ \E c \in j.codes : q[i] = Notice(j, c)
    OBVIOUS
  <2>1. SetToSeq(j.codes)[i] \in j.codes /\ q[i] = Notice(j, SetToSeq(j.codes)[i])  BY <1>3
  <2> HIDE DEF q
  <2> QED  BY <1>1, <2>1, NoticeOk
<1>7. DOMAIN q = 1..n  OBVIOUS
<1>8. q \in Seq(OkMsg) /\ q # <<>> /\ Len(q) = n
  <2>1. q \in [1..n -> OkMsg]  BY <1>6
  <2>2. q \in Seq(OkMsg) /\ Len(q) = n
    <3> HIDE DEF q
    <3> QED  BY <1>3, <2>1
  <2> HIDE DEF q
  <2> QED  BY <1>4, <2>2
<1> HIDE DEF q
<1> QED  BY <1>5, <1>6, <1>7, <1>8 DEF j, n

LEMMA NotifyType == ASSUME TypeInv, NEW h \in Handlers, Notify(h) PROVE TypeInv'
<1> DEFINE j == hand[h]
<1>1. HandOk(j) /\ j.pc = "read" /\ History /\ UNCHANGED <<dbVars, chans, rt, eng, req, left>>
  BY DEF TypeInv, HandsOk, Notify
<1>2. PICK q \in Seq(OkMsg) : q # <<>> /\ hand' = [hand EXCEPT ![h] = [hand[h] EXCEPT !.pc = "send", !.out = q]]
  BY NotifyIs
<1> DEFINE u == [j EXCEPT !.pc = "send", !.out = q]
<1>3. /\ DOMAIN u = DOMAIN j /\ u.pc = "send" /\ u.op = j.op /\ u.codes = j.codes
      /\ u.arg = j.arg /\ u.old = j.old /\ u.out = q
  BY <1>1 DEF HandOk
<1>4. hand' = [hand EXCEPT ![h] = u]  BY <1>2
<1> HIDE DEF u, j
<1>5. HandOk(u)  BY <1>1, <1>2, <1>3 DEF HandOk
<1>6. HandsOk'  BY <1>1, <1>3, <1>4, <1>5, HandSet DEF TypeInv, dbVars
<1> QED  BY <1>1, <1>6, HistoryType DEF TypeInv, DbOk, ChanOk, chans, dbVars, LeftOk

LEMMA QueueIs ==
  ASSUME NEW S, NEW q \in Seq(S), q # <<>>
  PROVE  Head(q) \in S /\ Tail(q) \in Seq(S) /\ Len(Tail(q)) = Len(q) - 1
         /\ (Len(q) # 1 => Tail(q) # <<>>)
<1>1. Head(q) \in S /\ Tail(q) \in Seq(S) /\ Len(Tail(q)) = Len(q) - 1  OBVIOUS
<1>2. Len(<<>>) = 0  OBVIOUS
<1> QED  BY <1>1, <1>2

LEMMA SendIs ==
  ASSUME TypeInv, NEW h \in Handlers, Send(h)
  PROVE  LET j == hand[h]
             u == IF Len(j.out) = 1 THEN Idle
                  ELSE [j EXCEPT !.out = Tail(@), !.codes = @ \ {Head(j.out).code}]
         IN  /\ hand' = [hand EXCEPT ![h] = u] /\ HandOk(u) /\ u.pc # "write"
             /\ Head(j.out) \in OkMsg /\ j.pc = "send"
             /\ u = Idle \/ (u.pc = "send" /\ u.op = j.op /\ u.codes \subseteq j.codes /\ u.out = Tail(j.out))
<1> DEFINE j == hand[h]
           v == [j EXCEPT !.out = Tail(@), !.codes = @ \ {Head(j.out).code}]
           u == IF Len(j.out) = 1 THEN Idle ELSE v
<1>1. HandOk(j) /\ j.pc = "send" /\ hand' = [hand EXCEPT ![h] = u]  BY DEF TypeInv, HandsOk, Send
<1>2. Head(j.out) \in OkMsg /\ Tail(j.out) \in Seq(OkMsg) /\ (Len(j.out) # 1 => Tail(j.out) # <<>>)
  BY <1>1, QueueIs DEF HandOk
<1>3. /\ DOMAIN v = DOMAIN j /\ v.pc = "send" /\ v.op = j.op /\ v.codes = j.codes \ {Head(j.out).code}
      /\ v.arg = j.arg /\ v.old = j.old /\ v.out = Tail(j.out)
  BY <1>1 DEF HandOk
<1> HIDE DEF v
<1>4. Len(j.out) # 1 => HandOk(v)
  <2> HIDE DEF j
  <2> QED  BY <1>1, <1>2, <1>3 DEF HandOk
<1>5. HandOk(u)  BY <1>4, IdleOk
<1>6. Idle.pc = "idle"  BY DEF Idle
<1>7. u.pc # "write" /\ (u = Idle \/ (u.pc = "send" /\ u.op = j.op /\ u.codes \subseteq j.codes /\ u.out = Tail(j.out)))
  BY <1>3, <1>6
<1> QED  BY <1>1, <1>2, <1>5, <1>7 DEF v

LEMMA SendType == ASSUME TypeInv, NEW h \in Handlers, Send(h) PROVE TypeInv'
<1>1. UNCHANGED <<dbVars, chEngine, chSSL, rt, eng, req, left>> /\ History  BY DEF Send
<1>2. HandsOk'  BY <1>1, SendIs, HandSet DEF TypeInv, dbVars
<1>3. ChanOk'
  <2>1. Head(hand[h].out) \in OkMsg  BY SendIs
  <2>2. \A q \in Seq(OkMsg) : Len(q) < Cap =>
          Append(q, Head(hand[h].out)) \in Seq(OkMsg) /\ Len(Append(q, Head(hand[h].out))) <= Cap
    BY <2>1, RoutingAssumption
  <2> QED  BY <1>1, <2>2 DEF Send, TypeInv, ChanOk
<1> QED  BY <1>1, <1>2, <1>3, HistoryType DEF TypeInv, DbOk, dbVars, LeftOk

LEMMA OrderType == ASSUME TypeInv, ReloadApi \/ SslOrderApi PROVE TypeInv'
<1> USE DEF Ops
<1>1. CASE ReloadApi
  <2>1. UNCHANGED <<dbVars, chMsg, chHost, chSSL, rt, eng, hand, req>> /\ History  BY <1>1 DEF ReloadApi
  <2>2. LeftOk'  BY <1>1, SpendType DEF ReloadApi, TypeInv
  <2>3. chEngine' \in 0..Cap
    <3>1. chEngine \in 0..Cap /\ chEngine < Cap /\ chEngine' = chEngine + 1  BY <1>1 DEF ReloadApi, TypeInv, ChanOk
    <3>2. Cap \in Nat  BY RoutingAssumption
    <3> QED  BY <3>1, <3>2
  <2>4. ChanOk'  BY <2>1, <2>3 DEF TypeInv, ChanOk
  <2> QED  BY <2>1, <2>2, <2>4, HistoryType DEF TypeInv, DbOk, HandsOk, Adding, dbVars
<1>2. CASE SslOrderApi
  <2>1. UNCHANGED <<dbVars, chMsg, chHost, chEngine, rt, eng, hand, req>> /\ History  BY <1>2 DEF SslOrderApi
  <2>2. LeftOk' /\ Number("renew") \in 1..Budget["renew"]  BY <1>2, SpendType DEF SslOrderApi, TypeInv
  <2>3. chSSL' \in Seq(1..Budget["renew"])
    <3> DEFINE S == 1..Budget["renew"]
    <3>1. chSSL \in Seq(S) /\ chSSL' = Append(chSSL, Number("renew"))  BY <1>2 DEF SslOrderApi, TypeInv, ChanOk
    <3> HIDE DEF S
    <3> QED  BY <2>2, <3>1 DEF S
  <2>4. ChanOk'  BY <2>1, <2>3 DEF TypeInv, ChanOk
  <2> QED  BY <2>1, <2>2, <2>4, HistoryType DEF TypeInv, DbOk, HandsOk, Adding, dbVars
<1> QED  BY <1>1, <1>2

(* The main loop between two messages. *)
LEMMA LoopOk ==
  /\ Loop.pc = "loop" /\ Loop.rows = <<>> /\ Loop.gone = <<>> /\ Loop.todo = {} /\ Loop.cert = 0 /\ Loop.out = <<>>
  /\ EngOk(Loop)
<1>1. 0 \in 0..Budget["renew"] /\ <<>> \in Seq(OkMsg) /\ RowsOk(<<>>)  BY RoutingAssumption DEF Ops, RowsOk
<1> QED  BY <1>1 DEF Loop, EngOk

(* The orders the loop begins. *)
LEMMA OrderStarts ==
  ASSUME NEW x, NEW y
  PROVE  /\ LET e == [Loop EXCEPT !.pc = "load", !.rows = x, !.gone = y] IN
            /\ DOMAIN e = DOMAIN Loop /\ e.pc = "load" /\ e.rows = x /\ e.gone = y
            /\ e.todo = {} /\ e.cert = 0 /\ e.out = <<>>
         /\ LET e == [Loop EXCEPT !.pc = "load", !.rows = x] IN
            /\ DOMAIN e = DOMAIN Loop /\ e.pc = "load" /\ e.rows = x /\ e.gone = <<>>
            /\ e.todo = {} /\ e.cert = 0 /\ e.out = <<>>
         /\ LET e == [Loop EXCEPT !.pc = "renew", !.todo = x, !.cert = y] IN
            /\ DOMAIN e = DOMAIN Loop /\ e.pc = "renew" /\ e.rows = <<>> /\ e.gone = <<>>
            /\ e.todo = x /\ e.cert = y /\ e.out = <<>>
  BY DEF Loop

LEMMA TakeMsgType == ASSUME TypeInv, TakeMsg PROVE TypeInv'
<1>1. UNCHANGED <<dbVars, chHost, chEngine, chSSL, eng, hand, req, left>> /\ History
      /\ rt' = Apply(rt, Head(chMsg)) /\ chMsg' = Tail(chMsg)  BY DEF TakeMsg
<1>2. Head(chMsg) \in OkMsg /\ chMsg' \in Seq(OkMsg) /\ Len(chMsg') <= Cap
  <2>1. chMsg \in Seq(OkMsg) /\ chMsg # <<>> /\ Len(chMsg) <= Cap  BY DEF TakeMsg, TypeInv, ChanOk
  <2>2. Len(chMsg) \in Nat  BY <2>1
  <2> QED  BY <1>1, <2>1, <2>2, QueueIs, RoutingAssumption
<1>3. TabOk(rt')  BY <1>1, <1>2, ApplyType DEF TypeInv, DbOk
<1> QED  BY <1>1, <1>2, <1>3, HistoryType DEF TypeInv, DbOk, ChanOk, HandsOk, Adding, LeftOk, dbVars

LEMMA TakeHostType == ASSUME TypeInv, TakeHost PROVE TypeInv'
<1> DEFINE m == Head(chHost)
<1>1. UNCHANGED <<dbVars, chMsg, chEngine, chSSL, eng, hand, req, left>> /\ History /\ chHost' = Tail(chHost)
      /\ rt' = IF m.row = {} THEN rt ELSE UpdateHostByKey(rt, Key(The(m.row).cfg), The(m.row).guard)
  BY DEF TakeHost
<1>2. m \in OkMsg /\ chHost' \in Seq(OkMsg) /\ Len(chHost') <= Cap
  <2>1. chHost \in Seq(OkMsg) /\ chHost # <<>> /\ Len(chHost) <= Cap  BY DEF TakeHost, TypeInv, ChanOk
  <2>2. Len(chHost) \in Nat  BY <2>1
  <2> QED  BY <1>1, <2>1, <2>2, QueueIs, RoutingAssumption
<1> HIDE DEF m
<1>3. m.row # {} => The(m.row).guard \in BOOLEAN  BY <1>2, RowOfMsg DEF RowOf, Row
<1>4. TabOk(rt')  BY <1>1, <1>3, UpdateHostByKeyType DEF TypeInv
<1> QED  BY <1>1, <1>2, <1>4, HistoryType DEF TypeInv, DbOk, ChanOk, HandsOk, Adding, LeftOk, dbVars

LEMMA TakeEngineType == ASSUME TypeInv, TakeEngine PROVE TypeInv'
<1> DEFINE known == {c \in DOMAIN rt.code : Has(rt, c) /\ c \notin DOMAIN db}
           gone  == [c \in known |-> HostOf(rt, c).row.cfg]
<1>1. UNCHANGED <<dbVars, chMsg, chHost, chSSL, rt, hand, req, left>> /\ History
      /\ eng' = [Loop EXCEPT !.pc = "load", !.rows = db, !.gone = gone] /\ chEngine > 0 /\ chEngine' = chEngine - 1
  BY DEF TakeEngine
<1>2. DOMAIN gone \subseteq Codes  BY DEF TypeInv, TabOk
<1> HIDE DEF gone
<1>3. EngOk(eng')  BY <1>1, <1>2, LoopOk, OrderStarts DEF TypeInv, DbOk, EngOk
<1>4. chEngine' \in 0..Cap  BY <1>1, RoutingAssumption DEF TypeInv, ChanOk
<1> QED  BY <1>1, <1>3, <1>4, HistoryType DEF TypeInv, DbOk, ChanOk, HandsOk, Adding, LeftOk, dbVars

(* A row or a site to be removed is taken from the list. *)
LEMMA RowsLess == ASSUME NEW f, NEW S, RowsOk(f) PROVE RowsOk(Without(f, S))
  BY DEF RowsOk, Without, Restrict

LEMMA ReloadOneType == ASSUME TypeInv, ReloadOne PROVE TypeInv'
<1>1. UNCHANGED <<dbVars, chans, hand, req, left>> /\ History  BY DEF ReloadOne
<1>2. TabOk(rt') /\ EngOk(eng')
  <2>1. ASSUME NEW c \in DOMAIN eng.rows, rt' = LoadHost(rt, c, eng.rows[c], rules[c]),
               eng' = [eng EXCEPT !.rows = Without(@, {c})]
        PROVE  TabOk(rt') /\ EngOk(eng')
    <3>1. c \in Codes /\ eng.rows[c] \in RowOf(c) /\ rules[c] \in 0..Budget["rules"]
      BY DEF TypeInv, EngOk, DbOk, RowsOk
    <3>2. RowsOk(Without(eng.rows, {c}))  BY RowsLess DEF TypeInv, EngOk
    <3> QED  BY <2>1, <3>1, <3>2, LoadHostType DEF TypeInv, EngOk
  <2>2. ASSUME NEW c \in DOMAIN eng.gone, rt' = RemoveHost(rt, c, eng.gone[c]),
               eng' = [eng EXCEPT !.gone = Without(@, {c})]
        PROVE  TabOk(rt') /\ EngOk(eng')
    <3>1. DOMAIN Without(eng.gone, {c}) \subseteq DOMAIN eng.gone  BY DEF Without, Restrict
    <3> QED  BY <2>2, <3>1, RemoveHostType DEF TypeInv, EngOk
  <2>3. CASE eng' = Loop /\ UNCHANGED rt  BY <2>3, LoopOk DEF TypeInv
  <2> QED  BY <2>1, <2>2, <2>3 DEF ReloadOne
<1> QED  BY <1>1, <1>2, HistoryType DEF TypeInv, DbOk, ChanOk, HandsOk, Adding, LeftOk, dbVars, chans

LEMMA TakeSSLType == ASSUME TypeInv, TakeSSL PROVE TypeInv'
<1> DEFINE S == 1..Budget["renew"]
<1>1. UNCHANGED <<dbVars, chMsg, chHost, chEngine, rt, hand, req, left>> /\ History
      /\ eng' = [Loop EXCEPT !.pc = "renew", !.todo = Shared \cap DOMAIN db, !.cert = Head(chSSL)]
      /\ chSSL # <<>> /\ chSSL' = Tail(chSSL)
  BY DEF TakeSSL
<1>2. Head(chSSL) \in S /\ chSSL' \in Seq(S)
  <2>1. chSSL \in Seq(S)  BY DEF TypeInv, ChanOk
  <2> HIDE DEF S
  <2> QED  BY <1>1, <2>1, QueueIs
<1>3. Head(chSSL) \in 0..Budget["renew"]  BY <1>2, RoutingAssumption DEF Ops
<1>4. EngOk(eng')  BY <1>1, <1>3, LoopOk, OrderStarts, RoutingAssumption DEF EngOk
<1>5. ChanOk'  BY <1>1, <1>2 DEF TypeInv, ChanOk
<1> QED  BY <1>1, <1>4, <1>5, HistoryType DEF TypeInv, DbOk, HandsOk, Adding, LeftOk, dbVars

LEMMA UpdateSSLIs ==
  ASSUME TypeInv, NEW c \in Codes, UpdateSSLInfo(c)
  PROVE  /\ RowsOk(db') /\ DOMAIN db' = DOMAIN db /\ (\A d \in DOMAIN db : db'[d].cfg = db[d].cfg)
         /\ eng'.pc = eng.pc /\ eng'.rows = eng.rows /\ eng'.gone = eng.gone /\ EngOk(eng')
         /\ \A i \in DOMAIN eng'.out : /\ eng'.out[i].code = c /\ c \in DOMAIN db
                                      /\ eng'.out[i].type = "ssl" /\ eng'.out[i].row = {db'[c]}
<1>1. eng.pc = "renew" /\ eng.cert \in 0..Budget["renew"] /\ RowsOk(db)  BY DEF UpdateSSLInfo, TypeInv, EngOk, DbOk
<1>2. db' = IF c \in DOMAIN db THEN [db EXCEPT ![c].cert = eng.cert] ELSE db  BY DEF UpdateSSLInfo
<1>3. c \in DOMAIN db => db' = [db EXCEPT ![c] = [db[c] EXCEPT !.cert = eng.cert]]  BY <1>2
<1>4. c \in DOMAIN db => [db[c] EXCEPT !.cert = eng.cert] \in RowOf(c) /\ [db[c] EXCEPT !.cert = eng.cert].cfg = db[c].cfg
  <2>1. c \in DOMAIN db => db[c] \in RowOf(c) /\ db[c] \in Row  BY <1>1 DEF RowsOk, RowOf
  <2>2. c \in DOMAIN db => [db[c] EXCEPT !.cert = eng.cert] \in RowOf(c)  BY <1>1, <2>1, ChangeRow
  <2> QED  BY <2>1, <2>2 DEF Row
<1> DEFINE v == [db[c] EXCEPT !.cert = eng.cert]
<1> HIDE DEF v
<1>5. RowsOk(db') /\ DOMAIN db' = DOMAIN db /\ (\A d \in DOMAIN db : db'[d].cfg = db[d].cfg)
  <2>1. CASE c \in DOMAIN db
    <3>1. db' = [db EXCEPT ![c] = v] /\ v \in RowOf(c) /\ v.cfg = db[c].cfg  BY <1>3, <1>4, <2>1 DEF v
    <3>2. DOMAIN db' = DOMAIN db /\ \A d \in DOMAIN db : db'[d] = IF d = c THEN v ELSE db[d]  BY <3>1
    <3> QED  BY <1>1, <3>1, <3>2 DEF RowsOk
  <2>2. CASE c \notin DOMAIN db  BY <1>1, <1>2, <2>2
  <2> QED  BY <2>1, <2>2
<1> DEFINE m == [NoMsg EXCEPT !.type = "ssl", !.code = c, !.row = {db'[c]}]
           q == IF c \in DOMAIN db THEN <<m>> ELSE <<>>
<1>6. c \in DOMAIN db => m \in OkMsg /\ m.code = c /\ m.type = "ssl" /\ m.row = {db'[c]}
  <2>1. m = Mess("ssl", c, {db'[c]}, {}, 0)  BY NoMsgWith
  <2>2. c \in DOMAIN db => {db'[c]} \in SUBSET RowOf(c)  BY <1>5 DEF RowsOk
  <2>3. 0 \in 0..Budget["rules"]  BY RoutingAssumption DEF Ops
  <2> HIDE DEF m
  <2> QED  BY <2>1, <2>2, <2>3, MessOk
<1>7. eng' = [eng EXCEPT !.todo = @ \ {c}, !.out = q]  BY DEF UpdateSSLInfo
<1> HIDE DEF m
<1>8. /\ q \in Seq(OkMsg) /\ Len(q) <= 1
      /\ \A i \in DOMAIN q : q[i].code = c /\ c \in DOMAIN db /\ q[i].type = "ssl" /\ q[i].row = {db'[c]}
  <2>1. CASE c \in DOMAIN db  BY <1>6, <2>1
  <2>2. CASE c \notin DOMAIN db  BY <2>2
  <2> QED  BY <2>1, <2>2
<1> HIDE DEF q
<1>9. DOMAIN eng' = DOMAIN eng /\ eng'.pc = eng.pc /\ eng'.rows = eng.rows /\ eng'.gone = eng.gone
      /\ eng'.todo = eng.todo \ {c} /\ eng'.cert = eng.cert /\ eng'.out = q
  BY <1>7 DEF TypeInv, EngOk
<1>10. EngOk(eng')  BY <1>8, <1>9 DEF TypeInv, EngOk
<1> QED  BY <1>5, <1>8, <1>9, <1>10

LEMMA UpdateSSLInfoType == ASSUME TypeInv, NEW c \in Codes, UpdateSSLInfo(c) PROVE TypeInv'
<1>1. UNCHANGED <<rules, unborn, chans, rt, hand, req, left>> /\ History  BY DEF UpdateSSLInfo
<1> QED  BY <1>1, UpdateSSLIs, HistoryType DEF TypeInv, DbOk, ChanOk, HandsOk, Adding, LeftOk, chans

LEMMA SendSSLType ==
  ASSUME TypeInv, SendSSL
  PROVE  TypeInv' /\ eng'.rows = eng.rows /\ eng'.gone = eng.gone /\ eng'.out = <<>>
<1>1. UNCHANGED <<dbVars, chHost, chEngine, chSSL, rt, hand, req, left>> /\ History
      /\ chMsg' = chMsg \o eng.out /\ eng' = [eng EXCEPT !.out = <<>>] /\ Len(chMsg) < Cap
  BY DEF SendSSL
<1>2. DOMAIN eng' = DOMAIN eng /\ eng'.pc = eng.pc /\ eng'.rows = eng.rows /\ eng'.gone = eng.gone
      /\ eng'.todo = eng.todo /\ eng'.cert = eng.cert /\ eng'.out = <<>>
  BY <1>1 DEF TypeInv, EngOk
<1>3. EngOk(eng')  BY <1>2 DEF TypeInv, EngOk
<1>4. chMsg' \in Seq(OkMsg) /\ Len(chMsg') <= Cap
  <2>1. chMsg \in Seq(OkMsg) /\ eng.out \in Seq(OkMsg) /\ Len(eng.out) <= 1  BY DEF TypeInv, EngOk, ChanOk
  <2>2. chMsg' \in Seq(OkMsg) /\ Len(chMsg') = Len(chMsg) + Len(eng.out)  BY <1>1, <2>1
  <2>3. Len(chMsg) \in Nat /\ Len(eng.out) \in Nat /\ Cap \in Nat  BY <2>1, RoutingAssumption
  <2> QED  BY <1>1, <2>1, <2>2, <2>3
<1> QED  BY <1>1, <1>2, <1>3, <1>4, HistoryType DEF TypeInv, DbOk, ChanOk, HandsOk, Adding, LeftOk, dbVars

LEMMA RenewDoneType == ASSUME TypeInv, RenewDone PROVE TypeInv'
<1>1. UNCHANGED <<dbVars, chans, rt, hand, req, left>> /\ History /\ eng' = Loop  BY DEF RenewDone
<1> QED  BY <1>1, LoopOk, HistoryType DEF TypeInv, DbOk, ChanOk, HandsOk, Adding, LeftOk, dbVars, chans

(* A request resolves to a site that is in the table. *)
SitesOf(t) == {t.target[k].code : k \in DOMAIN t.target} \cup {t.more[k] : k \in DOMAIN t.more}

LEMMA ResolveIs == ASSUME NEW t, NEW n, NEW p PROVE Resolve(t, n, p) \subseteq SitesOf(t)
  BY DEF Resolve, SitesOf

LEMMA SitesAre == ASSUME NEW t, TabOk(t) PROVE SitesOf(t) \subseteq Codes
  BY DEF SitesOf, TabOk, Safe

LEMMA NoReqOk == ReqOk(NoReq) /\ NoReq.pc = "idle"
<1>1. (CHOOSE c \in Codes : TRUE) \in Codes  BY RoutingAssumption
<1> QED  BY <1>1 DEF ReqOk, NoReq

LEMMA RequestIs ==
  ASSUME TypeInv, NEW n, NEW p, ResolveHost(n, p) \/ ReadTarget \/ ReadCode
  PROVE  UNCHANGED <<dbVars, chans, rt, eng, hand, left>> /\ History /\ ReqOk(req')
<1>1. CASE ResolveHost(n, p)
  <2>1. PICK c \in Resolve(rt, n, p) : req' = [NoReq EXCEPT !.pc = "found", !.code = c]  BY <1>1 DEF ResolveHost
  <2>2. c \in Codes  BY ResolveIs, SitesAre DEF TypeInv
  <2>3. ReqOk(req')  BY <2>1, <2>2, NoReqOk DEF ReqOk
  <2> QED  BY <1>1, <2>3 DEF ResolveHost
<1>2. CASE ReadTarget  BY <1>2 DEF ReadTarget, TypeInv, ReqOk
<1>3. CASE ReadCode
  <2>1. req' = NoReq \/ req' = [req EXCEPT !.pc = "aborted", !.keys = {}]  BY <1>3 DEF ReadCode
  <2>2. ReqOk(req')  BY <2>1, NoReqOk DEF TypeInv, ReqOk
  <2> QED  BY <1>3, <2>2 DEF ReadCode
<1> QED  BY <1>1, <1>2, <1>3

LEMMA RequestType ==
  ASSUME TypeInv, NEW n, NEW p, ResolveHost(n, p) \/ ReadTarget \/ ReadCode PROVE TypeInv'
<1>1. UNCHANGED <<dbVars, chans, rt, eng, hand, left>> /\ History /\ ReqOk(req')  BY RequestIs
<1> QED  BY <1>1, HistoryType DEF TypeInv, DbOk, ChanOk, HandsOk, Adding, LeftOk, dbVars, chans

LEMMA TypeStep == ASSUME TypeInv, [Next]_vars PROVE TypeInv'
<1>1. CASE UNCHANGED vars
  BY <1>1 DEF vars, dbVars, chans, TypeInv, DbOk, ChanOk, HandsOk, Adding, LeftOk, PastOk
<1>2. CASE Next
  <2>1. ASSUME NEW h \in Handlers, NEW c \in Codes,
               \/ DelHostApi(h, c) \/ SaveRules(h, c)
               \/ \E s \in Offers[c] : AddApi(h, c, s) \/ ModifyHostApi(h, c, s)
               \/ \E g \in BOOLEAN : ModifyGuardStatusApi(h, c, g)
        PROVE  TypeInv'
    BY <2>1, ApiType
  <2>2. ASSUME NEW h \in Handlers, Handle(h) PROVE TypeInv'  BY <2>2, WriteType, NotifyType, SendType DEF Handle
  <2>3. ASSUME NEW h \in Handlers, NEW g \in BOOLEAN, ModifyAllGuardStatusApi(h, g) PROVE TypeInv'
    BY <2>3, ApiType, RoutingAssumption
  <2>4. CASE ReloadApi \/ SslOrderApi  BY <2>4, OrderType
  <2>5. CASE EngineStep
    BY <2>5, TakeMsgType, TakeHostType, TakeEngineType, ReloadOneType, TakeSSLType, SendSSLType,
       RenewDoneType, UpdateSSLInfoType DEF EngineStep
  <2>6. ASSUME NEW r \in Requests, ResolveHost(r[1], r[2]) PROVE TypeInv'  BY <2>6, RequestType
  <2>7. CASE ReadTarget \/ ReadCode  BY <2>7, RequestType
  <2> QED  BY <1>2, <2>1, <2>2, <2>3, <2>4, <2>5, <2>6, <2>7 DEF Next
<1> QED  BY <1>1, <1>2

LEMMA InitType == Init => TypeInv
<1> SUFFICES ASSUME Init PROVE TypeInv  OBVIOUS
<1>1. RowsOk(Existing)  BY RoutingAssumption DEF RowsOk, RowOf
<1>2. 0 \in 0..Budget["rules"] /\ 0 \in 0..Cap  BY RoutingAssumption DEF Ops
<1>3. DbOk  BY <1>1, <1>2 DEF Init, DbOk
<1>4. ChanOk  BY <1>2, RoutingAssumption DEF Init, ChanOk
<1>5. HandsOk  BY IdleOk DEF Init, HandsOk, Adding, Idle
<1>6. TabOk(rt)  BY FS_EmptySet DEF Init, NewTable, TabOk
<1>7. EngOk(eng)  BY <1>1, LoopOk, OrderStarts DEF Init, EngOk
<1>8. LeftOk  BY RoutingAssumption DEF Init, LeftOk
<1> QED  BY <1>3, <1>4, <1>5, <1>6, <1>7, <1>8, NoReqOk DEF Init, TypeInv, PastOk

LEMMA TypeInvType == TypeInv => TypeOK
<1> SUFFICES ASSUME TypeInv PROVE TypeOK  OBVIOUS
<1> USE DEF TypeInv
<1>1. DOMAIN db \subseteq Codes /\ Range(db) \subseteq Row  BY DEF DbOk, RowsOk, RowOf, Range
<1>2. \A q \in Seq(OkMsg) : Range(q) \subseteq Msg  BY DEF Range, OkMsg
<1>3. Range(chSSL) \subseteq 1..Budget["renew"]
  <2> DEFINE S == 1..Budget["renew"]
  <2>1. chSSL \in Seq(S)  BY DEF ChanOk
  <2> HIDE DEF S
  <2>2. Range(chSSL) \subseteq S  BY <2>1 DEF Range
  <2> QED  BY <2>2 DEF S
<1>4. Objects(rt) \subseteq Safe /\ Range(rt.more) \cup DOMAIN rt.code \subseteq Codes  BY DEF TabOk, Objects, Range
<1>5. Range(chMsg) \cup Range(chHost) \subseteq Msg /\ Range(eng.out) \subseteq Msg  BY <1>2 DEF ChanOk, EngOk
<1>6. \A h \in Handlers : hand[h].pc \in {"idle", "write", "read", "send"} /\ hand[h].op \in Ops
  BY DEF HandsOk, HandOk, ApiOps
<1>7. eng.pc \in {"loop", "load", "renew"} /\ req.pc \in {"idle", "found", "table", "aborted"} /\ req.code \in Codes
  BY DEF EngOk, ReqOk
<1> QED  BY <1>1, <1>3, <1>4, <1>5, <1>6, <1>7 DEF TypeOK, DbOk, ChanOk, PastOk

(* The state is well typed: no code is given out twice, and no channel      *)
(* holds more than its capacity, whatever the API requests and the loop do. *)
THEOREM RouteTypeCorrect == Spec => []TypeOK
<1>1. Init => TypeInv  BY InitType
<1>2. TypeInv /\ [Next]_vars => TypeInv'  BY TypeStep
<1>3. TypeInv => TypeOK  BY TypeInvType
<1> QED  BY <1>1, <1>2, <1>3, PTL DEF Spec

-----------------------------------------------------------------------------
(* Which sites are in the table, and where *)

(* No two sites claim the same name and port. *)
KeysIn(c) == UNION {KeysOf(s) : s \in Offers[c]}
Apart     == \A c, d \in Codes : c # d => KeysIn(c) \cap KeysIn(d) = {}

(* Every key of the table belongs to the site whose object it has, and a    *)
(* code leads to an object of its site, at the place its row says.          *)
TabInv(t) ==
  /\ \A k \in DOMAIN t.target : k \in KeysIn(t.target[k].code)
  /\ \A k, l \in DOMAIN t.target : t.target[k].id = t.target[l].id => t.target[k] = t.target[l]
  /\ \A c \in DOMAIN t.code :
       /\ t.code[c] \in DOMAIN t.target /\ t.target[t.code[c]].code = c
       /\ t.code[c] = CodeKey(t.target[t.code[c]].row.cfg)

LEMMA CodeKeyIs == ASSUME NEW s PROVE CodeKey(s) \in KeysOf(s)
  BY DEF CodeKey, Key, KeysOf, Listens

LEMMA KeysInIs == ASSUME NEW c, NEW s \in Offers[c] PROVE KeysOf(s) \subseteq KeysIn(c)
  BY DEF KeysIn

LEMMA LoadHostKeeps ==
  ASSUME Apart, NEW t, TabOk(t), TabInv(t), NEW c \in Codes, NEW r \in RowOf(c), NEW list
  PROVE  LET u == LoadHost(t, c, r, list) IN
         /\ TabInv(u) /\ DOMAIN u.code = DOMAIN t.code \cup {c} /\ SitesOf(u) \subseteq SitesOf(t) \cup {c}
<1> DEFINE s  == r.cfg
           hs == [id |-> NewId(t), code |-> c, row |-> r, rules |-> list]
           u  == LoadHost(t, c, r, list)
           old == {k \in DOMAIN t.more : t.more[k] = c}
<1>1. s \in Offers[c] /\ hs.id = NewId(t) /\ hs.code = c /\ hs.row = r  BY RowIs
<1>2. /\ u.target = Put(Without(t.target, Owned(t, c)), KeysOf(s), hs) /\ u.code = Put(t.code, {c}, CodeKey(s))
      /\ u.more = Put(Without(t.more, old), s.more \X ({s.port} \cup Extra(s)), c)
  BY DEF LoadHost
<1>3. KeysOf(s) \subseteq KeysIn(c) /\ CodeKey(s) \in KeysOf(s)  BY <1>1, KeysInIs, CodeKeyIs
<1> HIDE DEF hs, u
<1>4. /\ DOMAIN u.target = (DOMAIN t.target \ Owned(t, c)) \cup KeysOf(s)
      /\ \A k \in DOMAIN u.target : u.target[k] = IF k \in KeysOf(s) THEN hs ELSE t.target[k]
  BY <1>2 DEF Put, Without, Restrict
<1>5. DOMAIN u.code = DOMAIN t.code \cup {c} /\ \A d \in DOMAIN u.code : u.code[d] = IF d = c THEN CodeKey(s) ELSE t.code[d]
  BY <1>2 DEF Put
<1>6. \A k \in DOMAIN u.more : u.more[k] = c \/ (k \in DOMAIN t.more /\ u.more[k] = t.more[k])
  BY <1>2 DEF Put, Without, Restrict
<1> HIDE DEF s
<1>7. \A k \in DOMAIN t.target : t.target[k].id # hs.id  BY <1>1, NewIdFresh DEF TabOk
<1>8. \A k \in DOMAIN u.target : k \in KeysIn(u.target[k].code)  BY <1>1, <1>3, <1>4 DEF TabInv
<1>9. \A k, l \in DOMAIN u.target : u.target[k].id = u.target[l].id => u.target[k] = u.target[l]
  BY <1>4, <1>7 DEF TabInv
<1>10. ASSUME NEW d \in DOMAIN u.code
       PROVE  /\ u.code[d] \in DOMAIN u.target /\ u.target[u.code[d]].code = d
              /\ u.code[d] = CodeKey(u.target[u.code[d]].row.cfg)
  <2>1. CASE d = c
    <3>1. u.code[d] = CodeKey(s) /\ u.target[CodeKey(s)] = hs  BY <1>3, <1>4, <1>5, <2>1
    <3> QED  BY <1>1, <1>3, <1>4, <2>1, <3>1 DEF s
  <2>2. CASE d # c
    <3> DEFINE k == t.code[d]
    <3>1. d \in DOMAIN t.code /\ u.code[d] = k  BY <1>5, <2>2
    <3>2. k \in DOMAIN t.target /\ t.target[k].code = d /\ k = CodeKey(t.target[k].row.cfg)  BY <3>1 DEF TabInv
    <3>3. k \notin KeysOf(s)
      <4>1. k \in KeysIn(d) /\ d \in Codes  BY <3>1, <3>2 DEF TabInv, TabOk
      <4> QED  BY <1>3, <2>2, <4>1 DEF Apart
    <3>4. k \notin Owned(t, c)
      <4>1. Has(t, c) => HostOf(t, c).code = c /\ t.code[c] \in DOMAIN t.target /\ HostOf(t, c) = t.target[t.code[c]]
        BY DEF Has, HostOf, TabInv
      <4>2. Has(t, c) /\ t.target[k].id = HostOf(t, c).id => t.target[k] = HostOf(t, c)  BY <3>2, <4>1 DEF TabInv
      <4> QED  BY <2>2, <3>2, <4>1, <4>2 DEF Owned
    <3>5. k \in DOMAIN u.target /\ u.target[k] = t.target[k]  BY <1>4, <3>2, <3>3, <3>4
    <3> QED  BY <3>1, <3>2, <3>5
  <2> QED  BY <2>1, <2>2
<1>11. TabInv(u)  BY <1>8, <1>9, <1>10 DEF TabInv
<1>12. SitesOf(u) \subseteq SitesOf(t) \cup {c}
  <2>1. ASSUME NEW k \in DOMAIN u.target PROVE u.target[k].code \in SitesOf(t) \cup {c}
    BY <1>1, <1>4 DEF SitesOf
  <2>2. ASSUME NEW k \in DOMAIN u.more PROVE u.more[k] \in SitesOf(t) \cup {c}  BY <1>6 DEF SitesOf
  <2> QED  BY <2>1, <2>2 DEF SitesOf
<1> QED  BY <1>5, <1>11, <1>12 DEF u

LEMMA RemoveHostKeeps ==
  ASSUME Apart, NEW t, TabOk(t), TabInv(t), NEW c \in Codes, NEW s \in Offers[c]
  PROVE  LET u == RemoveHost(t, c, s) IN
         /\ TabInv(u) /\ DOMAIN u.code = DOMAIN t.code \ {c} /\ SitesOf(u) \subseteq SitesOf(t)
<1> DEFINE u == RemoveHost(t, c, s)
           old == {k \in DOMAIN t.more : t.more[k] = c}
<1>1. u.target = Without(t.target, KeysOf(s)) /\ u.code = Without(t.code, {c}) /\ u.more = Without(t.more, old)
  BY DEF RemoveHost, Cleared
<1> HIDE DEF u, old
<1>2. /\ DOMAIN u.target = DOMAIN t.target \ KeysOf(s) /\ \A k \in DOMAIN u.target : u.target[k] = t.target[k]
      /\ DOMAIN u.more \subseteq DOMAIN t.more /\ \A k \in DOMAIN u.more : u.more[k] = t.more[k]
      /\ DOMAIN u.code = DOMAIN t.code \ {c} /\ \A d \in DOMAIN u.code : u.code[d] = t.code[d]
  BY <1>1 DEF Without, Restrict
<1>3. ASSUME NEW d \in DOMAIN u.code
      PROVE  /\ u.code[d] \in DOMAIN u.target /\ u.target[u.code[d]].code = d
             /\ u.code[d] = CodeKey(u.target[u.code[d]].row.cfg)
  <2> DEFINE k == t.code[d]
  <2>1. d \in DOMAIN t.code /\ d # c /\ d \in Codes /\ u.code[d] = k  BY <1>2 DEF TabOk
  <2>2. k \in DOMAIN t.target /\ t.target[k].code = d /\ k = CodeKey(t.target[k].row.cfg)  BY <2>1 DEF TabInv
  <2>3. k \in KeysIn(d) /\ KeysOf(s) \subseteq KeysIn(c)  BY <2>2, KeysInIs DEF TabInv
  <2>4. k \notin KeysOf(s)  BY <2>1, <2>3 DEF Apart
  <2>5. k \in DOMAIN u.target /\ u.target[k] = t.target[k]  BY <1>2, <2>2, <2>4
  <2> QED  BY <2>1, <2>2, <2>5
<1>4. TabInv(u)  BY <1>2, <1>3 DEF TabInv
<1>5. SitesOf(u) \subseteq SitesOf(t)  BY <1>2 DEF SitesOf
<1> QED  BY <1>2, <1>4, <1>5 DEF u

LEMMA RepointKeeps ==
  ASSUME NEW t, TabOk(t), TabInv(t), NEW k \in DOMAIN t.target, NEW o,
         o.id = NewId(t), o.code = t.target[k].code, o.row.cfg = t.target[k].row.cfg
  PROVE  LET u == Repoint(t, k, o) IN
         /\ TabInv(u) /\ DOMAIN u.code = DOMAIN t.code /\ SitesOf(u) \subseteq SitesOf(t)
<1> DEFINE u == Repoint(t, k, o)
<1>1. /\ u.code = t.code /\ u.more = t.more /\ DOMAIN u.target = DOMAIN t.target
      /\ \A x \in DOMAIN t.target :
           u.target[x] = IF t.target[x].id = t.target[k].id THEN o ELSE t.target[x]
  BY RepointIs
<1> HIDE DEF u
<1>2. \A x \in DOMAIN t.target : t.target[x].id # o.id  BY NewIdFresh DEF TabOk
<1>3. \A x \in DOMAIN t.target : u.target[x].code = t.target[x].code /\ u.target[x].row.cfg = t.target[x].row.cfg
  BY <1>1 DEF TabInv
<1>4. \A x, l \in DOMAIN u.target : u.target[x].id = u.target[l].id => u.target[x] = u.target[l]
  BY <1>1, <1>2 DEF TabInv
<1>5. TabInv(u)  BY <1>1, <1>3, <1>4 DEF TabInv
<1>6. SitesOf(u) \subseteq SitesOf(t)  BY <1>1, <1>3 DEF SitesOf
<1> QED  BY <1>1, <1>5, <1>6 DEF u

(* A step of the loop loses no site but a deleted one, and a site that      *)
(* comes into the table is found by its code.                               *)
Moved(t, u, K, D) ==
  /\ DOMAIN t.code \ D \subseteq DOMAIN u.code
  /\ SitesOf(u) \ SitesOf(t) \subseteq DOMAIN u.code \cap K

(* The messages about the sites K, of which those in D are deleted. *)
Told(K, D) == {m \in OkMsg : m.code \in K /\ (m.type = "del" => m.code \in D)}

LEMMA ApplyKeeps ==
  ASSUME Apart, NEW t, TabOk(t), TabInv(t), NEW K, NEW D, NEW m \in Told(K, D)
  PROVE  TabInv(Apply(t, m)) /\ Moved(t, Apply(t, m), K, D)
<1> DEFINE c == m.code
           r == The(m.row)
<1>1. m \in OkMsg /\ c \in K /\ c \in Codes /\ (m.type = "del" => c \in D)  BY RowOfMsg DEF Told
<1>2. m.row # {} => r \in RowOf(c) /\ r.cfg \in Offers[c]  BY <1>1, RowOfMsg, RowIs
<1>3. m.type \in {"del", "ssl"} => m.row # {}  BY <1>1, RowOfMsg
<1>4. m.row # {} => LET u == LoadHost(t, c, r, rules[c]) IN TabInv(u) /\ Moved(t, u, K, D)
  BY <1>1, <1>2, LoadHostKeeps DEF Moved
<1>5. m.type = "del" => LET u == RemoveHost(t, c, r.cfg) IN TabInv(u) /\ Moved(t, u, K, D)
  BY <1>1, <1>2, <1>3, RemoveHostKeeps DEF Moved
<1>6. TabInv(t) /\ Moved(t, t, K, D)  BY DEF Moved
<1>7. LET u == UpdateHost(t, c, m.rules) IN TabInv(u) /\ Moved(t, u, K, D)
  <2>1. CASE Has(t, c)
    <3> DEFINE o == [HostOf(t, c) EXCEPT !.id = NewId(t), !.rules = m.rules]
    <3>1. t.code[c] \in DOMAIN t.target /\ HostOf(t, c) = t.target[t.code[c]]  BY <2>1 DEF Has, HostOf
    <3>2. HostOf(t, c) \in Safe  BY <3>1 DEF TabOk
    <3>3. o.id = NewId(t) /\ o.code = t.target[t.code[c]].code /\ o.row.cfg = t.target[t.code[c]].row.cfg
      BY <3>1, <3>2 DEF Safe
    <3>4. UpdateHost(t, c, m.rules) = Repoint(t, t.code[c], o)  BY <2>1 DEF UpdateHost
    <3> HIDE DEF o
    <3> DEFINE u == UpdateHost(t, c, m.rules)
    <3>5. TabInv(u) /\ DOMAIN u.code = DOMAIN t.code /\ SitesOf(u) \subseteq SitesOf(t)
      BY <3>1, <3>3, <3>4, RepointKeeps
    <3> HIDE DEF u
    <3>6. Moved(t, u, K, D)  BY <3>5 DEF Moved
    <3> QED  BY <3>5, <3>6 DEF u
  <2>2. CASE ~ Has(t, c)  BY <1>6, <2>2 DEF UpdateHost
  <2> QED  BY <2>1, <2>2
<1> HIDE DEF c, r
<1>8. \/ Apply(t, m) = t
      \/ m.row # {} /\ Apply(t, m) = LoadHost(t, c, r, rules[c])
      \/ m.type = "del" /\ Apply(t, m) = RemoveHost(t, c, r.cfg)
      \/ Apply(t, m) = UpdateHost(t, c, m.rules)
  BY <1>3 DEF Apply, c, r
<1> QED  BY <1>4, <1>5, <1>6, <1>7, <1>8

LEMMA SwitchKeeps ==
  ASSUME NEW t, TabOk(t), TabInv(t), NEW k, NEW g \in BOOLEAN, NEW K, NEW D
  PROVE  LET u == UpdateHostByKey(t, k, g) IN TabInv(u) /\ Moved(t, u, K, D)
<1>1. CASE k \in DOMAIN t.target
  <2> DEFINE o == [t.target[k] EXCEPT !.id = NewId(t), !.row.guard = g]
  <2>1. o.id = NewId(t) /\ o.code = t.target[k].code /\ o.row.cfg = t.target[k].row.cfg
    <3>1. t.target[k] \in Safe /\ t.target[k].row \in Row  BY <1>1 DEF TabOk, RowOf
    <3> QED  BY <3>1 DEF Safe, Row
  <2>2. UpdateHostByKey(t, k, g) = Repoint(t, k, o)  BY <1>1 DEF UpdateHostByKey
  <2> HIDE DEF o
  <2> QED  BY <1>1, <2>1, <2>2, RepointKeeps DEF Moved
<1>2. CASE k \notin DOMAIN t.target  BY <1>2 DEF UpdateHostByKey, Moved
<1> QED  BY <1>1, <1>2

-----------------------------------------------------------------------------
(* A code that has been given out and whose row is not there is deleted for *)
(* good; only such a site is removed from the table.                        *)

Comers == unborn \cup UNION {hand[h].codes : h \in {g \in Handlers : Adding(g)}}
Known  == Codes \ Comers
Dead   == Known \ DOMAIN db

HandBorn(j, K, D) ==
  /\ j.out \in Seq(Told(K, D))
  /\ j.pc # "idle" /\ ~ (j.pc = "write" /\ j.op = "add") => j.codes \subseteq K
  /\ j.op = "del" /\ j.pc \in {"read", "send"} => j.codes \subseteq D

BornInv ==
  /\ DOMAIN db \subseteq Known /\ SitesOf(rt) \subseteq Known
  /\ chMsg \in Seq(Told(Known, Dead)) /\ eng.out \in Seq(Told(Known, Dead))
  /\ DOMAIN eng.rows \subseteq Known /\ DOMAIN eng.gone \subseteq Dead
  /\ \A h \in Handlers : HandBorn(hand[h], Known, Dead)
  /\ \A g, h \in Handlers : g # h /\ Adding(g) /\ Adding(h) => hand[g].codes \cap hand[h].codes = {}

(* What is removed is a row of the site. *)
GoneInv == \A c \in DOMAIN eng.gone : eng.gone[c] \in Offers[c]

(* A site of the database that is in the table is found by its code. *)
FoundInv == SitesOf(rt) \cap DOMAIN db \subseteq DOMAIN rt.code

(* The request whose site stays at its place. *)
ReqInv ==
  /\ calm => req.pc # "idle" /\ Settled(req.code)
  /\ calm /\ req.pc \in {"found", "table"} => req.code \in DOMAIN rt.code
  /\ calm /\ req.pc = "table" => rt.code[req.code] \in req.keys
  /\ req.pc = "aborted" => ~ calm

SiteInv  == TabInv(rt) /\ BornInv /\ GoneInv /\ FoundInv
ServeInv == TypeInv /\ SiteInv /\ ReqInv

LEMMA SeqMore == ASSUME NEW S, NEW T, S \subseteq T PROVE \A q \in Seq(S) : q \in Seq(T)
<1> SUFFICES ASSUME NEW q \in Seq(S) PROVE q \in Seq(T)  OBVIOUS
<1>1. Len(q) \in Nat /\ q \in [1..Len(q) -> S]  OBVIOUS
<1>2. q \in [1..Len(q) -> T]  BY <1>1
<1> QED  BY <1>1, <1>2

LEMMA ToldMore ==
  ASSUME NEW K, NEW D, NEW L, NEW E, K \subseteq L, D \subseteq E
  PROVE  \A q \in Seq(Told(K, D)) : q \in Seq(Told(L, E))
<1>1. Told(K, D) \subseteq Told(L, E)  BY DEF Told
<1> QED  BY <1>1, SeqMore

LEMMA HandBornMore ==
  ASSUME NEW j, NEW K, NEW D, NEW L, NEW E, K \subseteq L, D \subseteq E, HandBorn(j, K, D)
  PROVE  HandBorn(j, L, E)
  BY ToldMore DEF HandBorn

(* Nothing about the sites changes in a step that leaves the database's     *)
(* codes and the handlers alone.                                            *)
LEMMA KnownSame ==
  ASSUME UNCHANGED <<unborn, hand>>, DOMAIN db' = DOMAIN db
  PROVE  Known' = Known /\ Dead' = Dead
  BY DEF Known, Dead, Comers, Adding

LEMMA CodesInTable == ASSUME TabInv(rt) PROVE DOMAIN rt.code \subseteq SitesOf(rt)
  BY DEF TabInv, SitesOf

-----------------------------------------------------------------------------
(* Every step keeps the sites where they belong *)

(* The part of SiteInv about the loop and the table, when they stay. *)
LEMMA Untouched ==
  ASSUME SiteInv, UNCHANGED <<rt, eng>>, Known \subseteq Known', Dead \subseteq Dead',
         DOMAIN db' \cap Known \subseteq DOMAIN db, DOMAIN db' \subseteq Known',
         chMsg' \in Seq(Told(Known, Dead)'),
         \A h \in Handlers : HandBorn(hand[h], Known, Dead)',
         \A g, h \in Handlers : g # h /\ Adding(g)' /\ Adding(h)' => hand'[g].codes \cap hand'[h].codes = {}
  PROVE  SiteInv'
<1>1. TabInv(rt)' /\ GoneInv'  BY DEF SiteInv, GoneInv
<1>2. FoundInv'  BY DEF SiteInv, FoundInv, BornInv
<1>3. eng'.out \in Seq(Told(Known, Dead)')  BY ToldMore DEF SiteInv, BornInv
<1>4. BornInv'  BY <1>3 DEF SiteInv, BornInv
<1> QED  BY <1>1, <1>2, <1>4 DEF SiteInv

LEMMA BeginSites ==
  ASSUME TypeInv, SiteInv, NEW h \in Handlers, NEW o, NEW C, NEW a, Begin(h, o, C, a),
         \/ o = "add" /\ C \subseteq unborn /\ unborn' = unborn \ C
         \/ o # "add" /\ C \subseteq DOMAIN db /\ unborn' = unborn
  PROVE  SiteInv'
<1> DEFINE j == [pc |-> "write", op |-> o, codes |-> C, arg |-> a,
                 old |-> Restrict(db, C \cap DOMAIN db), out |-> <<>>]
<1>1. hand[h].pc = "idle" /\ hand' = [hand EXCEPT ![h] = j] /\ UNCHANGED <<db, rt, eng, chMsg>>
  BY DEF Begin, chans
<1>2. j.pc = "write" /\ j.op = o /\ j.codes = C /\ j.out = <<>>  OBVIOUS
<1> HIDE DEF j
<1>3. \A g \in Handlers : hand'[g] = IF g = h THEN j ELSE hand[g]  BY <1>1 DEF TypeInv, HandsOk
<1>4. ~ Adding(h) /\ (Adding(h)' <=> o = "add") /\ \A g \in Handlers \ {h} : Adding(g)' <=> Adding(g)
  BY <1>1, <1>2, <1>3 DEF Adding
<1>5. Comers' = Comers
  <2>1. CASE o = "add"
    <3>1. ASSUME NEW x \in Comers PROVE x \in Comers'
      <4>1. CASE x \in unborn  BY <1>2, <1>3, <1>4, <2>1, <4>1 DEF Comers
      <4>2. CASE x \notin unborn
        <5>1. PICK g \in Handlers : Adding(g) /\ x \in hand[g].codes  BY <3>1, <4>2 DEF Comers
        <5> QED  BY <1>3, <1>4, <5>1 DEF Comers
      <4> QED  BY <4>1, <4>2
    <3>2. ASSUME NEW x \in Comers' PROVE x \in Comers
      <4>1. CASE x \in unborn'  BY <2>1, <4>1 DEF Comers
      <4>2. CASE x \notin unborn'
        <5>1. PICK g \in Handlers : Adding(g)' /\ x \in hand'[g].codes  BY <3>2, <4>2 DEF Comers
        <5> QED  BY <1>2, <1>3, <1>4, <2>1, <5>1 DEF Comers
      <4> QED  BY <4>1, <4>2
    <3> QED  BY <3>1, <3>2
  <2>2. CASE o # "add"
    <3>1. unborn' = unborn  BY <2>2
    <3>2. {g \in Handlers : Adding(g)}' = {g \in Handlers : Adding(g)}  BY <1>4, <2>2
    <3>3. \A g \in Handlers : Adding(g) => hand'[g].codes = hand[g].codes  BY <1>3, <1>4
    <3> QED  BY <3>1, <3>2, <3>3 DEF Comers
  <2> QED  BY <2>1, <2>2
<1>6. Known' = Known /\ Dead' = Dead  BY <1>1, <1>5 DEF Known, Dead
<1>7. \A g \in Handlers : HandBorn(hand[g], Known, Dead)'
  <2>1. HandBorn(j, Known, Dead)  BY <1>2 DEF HandBorn, SiteInv, BornInv
  <2> QED  BY <1>3, <1>6, <2>1 DEF SiteInv, BornInv
<1>8. \A f, g \in Handlers : f # g /\ Adding(f)' /\ Adding(g)' => hand'[f].codes \cap hand'[g].codes = {}
  <2>1. \A g \in Handlers \ {h} : o = "add" /\ Adding(g) => hand[g].codes \cap C = {}  BY DEF TypeInv, HandsOk
  <2> QED  BY <1>2, <1>3, <1>4, <2>1 DEF SiteInv, BornInv
<1> QED  BY <1>1, <1>6, <1>7, <1>8, Untouched DEF SiteInv, BornInv

LEMMA ApiSites ==
  ASSUME TypeInv, SiteInv, NEW h \in Handlers, NEW c \in Codes, NEW g \in BOOLEAN, NEW s,
         \/ DelHostApi(h, c) \/ SaveRules(h, c) \/ AddApi(h, c, s) \/ ModifyHostApi(h, c, s)
         \/ ModifyGuardStatusApi(h, c, g) \/ ModifyAllGuardStatusApi(h, g)
  PROVE  SiteInv'
<1>1. CASE DelHostApi(h, c)  BY <1>1, BeginSites DEF DelHostApi
<1>2. CASE SaveRules(h, c)  BY <1>2, BeginSites DEF SaveRules
<1>3. CASE AddApi(h, c, s)  BY <1>3, BeginSites DEF AddApi
<1>4. CASE ModifyHostApi(h, c, s)  BY <1>4, BeginSites DEF ModifyHostApi
<1>5. CASE ModifyGuardStatusApi(h, c, g)  BY <1>5, BeginSites DEF ModifyGuardStatusApi
<1>6. CASE ModifyAllGuardStatusApi(h, g)
  <2> DEFINE C == {d \in DOMAIN db : db[d].guard # g}
  <2>1. Begin(h, "guardAll", C, g) /\ UNCHANGED unborn /\ C \subseteq DOMAIN db  BY <1>6 DEF ModifyAllGuardStatusApi
  <2> HIDE DEF C
  <2> QED  BY <2>1, BeginSites
<1> QED  BY <1>1, <1>2, <1>3, <1>4, <1>5, <1>6

(* A handler moves on without changing the codes that are to come. *)
LEMMA HandMoves ==
  ASSUME TypeInv, NEW h \in Handlers, NEW u, u.pc # "write", UNCHANGED unborn, hand[h].pc # "write",
         \A g \in Handlers : hand'[g] = IF g = h THEN u ELSE hand[g]
  PROVE  Comers' = Comers /\ \A g \in Handlers : Adding(g)' <=> (g # h /\ Adding(g))
<1>1. \A g \in Handlers : Adding(g)' <=> (g # h /\ Adding(g))  BY DEF Adding
<1>2. ~ Adding(h)  BY DEF Adding
<1>3. {g \in Handlers : Adding(g)}' = {g \in Handlers : Adding(g)}  BY <1>1, <1>2
<1>4. \A g \in Handlers : Adding(g) => hand'[g].codes = hand[g].codes  BY <1>2
<1> QED  BY <1>1, <1>3, <1>4 DEF Comers

LEMMA WriteSites == ASSUME TypeInv, SiteInv, NEW h \in Handlers, Write(h) PROVE SiteInv'
<1> DEFINE j == hand[h]
           u == [j EXCEPT !.pc = "read"]
<1>1. HandOk(j) /\ j.pc = "write" /\ hand' = [hand EXCEPT ![h] = u] /\ UNCHANGED <<unborn, chMsg, rt, eng>>
  BY DEF TypeInv, HandsOk, Write, chans
<1>2. u.pc = "read" /\ u.op = j.op /\ u.codes = j.codes /\ u.out = j.out  BY <1>1 DEF HandOk
<1> HIDE DEF u, j
<1>3. \A g \in Handlers : hand'[g] = IF g = h THEN u ELSE hand[g]  BY <1>1 DEF TypeInv, HandsOk
<1>4. (Adding(h) <=> j.op = "add") /\ \A g \in Handlers : Adding(g)' <=> (g # h /\ Adding(g))
  BY <1>1, <1>2, <1>3 DEF Adding, j
<1>5. HandBorn(j, Known, Dead)  BY DEF SiteInv, BornInv, j
<1>6. j.op = "add" => Comers' = Comers \ j.codes /\ j.codes \subseteq Comers
  <2> SUFFICES ASSUME j.op = "add" PROVE Comers' = Comers \ j.codes /\ j.codes \subseteq Comers  OBVIOUS
  <2>1. j.codes \cap unborn = {} /\ \A g \in Handlers \ {h} : Adding(g) => hand[g].codes \cap j.codes = {}
    BY <1>4 DEF TypeInv, HandsOk, SiteInv, BornInv, j
  <2>2. j.codes \subseteq Comers  BY <1>4 DEF Comers, j
  <2>3. ASSUME NEW x \in Comers, x \notin j.codes PROVE x \in Comers'
    <3>1. CASE x \in unborn  BY <1>1, <3>1 DEF Comers
    <3>2. CASE x \notin unborn
      <4>1. PICK g \in Handlers : Adding(g) /\ x \in hand[g].codes  BY <2>3, <3>2 DEF Comers
      <4> QED  BY <1>3, <1>4, <2>3, <4>1 DEF Comers, j
    <3> QED  BY <3>1, <3>2
  <2>4. ASSUME NEW x \in Comers' PROVE x \in Comers /\ x \notin j.codes
    <3>1. CASE x \in unborn'  BY <1>1, <2>1, <3>1 DEF Comers
    <3>2. CASE x \notin unborn'
      <4>1. PICK g \in Handlers : Adding(g)' /\ x \in hand'[g].codes  BY <2>4, <3>2 DEF Comers
      <4> QED  BY <1>3, <1>4, <2>1, <4>1 DEF Comers
    <3> QED  BY <3>1, <3>2
  <2> QED  BY <2>2, <2>3, <2>4
<1>7. j.op # "add" => Comers' = Comers
  <2> SUFFICES ASSUME j.op # "add" PROVE Comers' = Comers  OBVIOUS
  <2>1. {g \in Handlers : Adding(g)}' = {g \in Handlers : Adding(g)}  BY <1>4
  <2>2. \A g \in Handlers : Adding(g) => hand'[g].codes = hand[g].codes  BY <1>3, <1>4
  <2> QED  BY <1>1, <2>1, <2>2 DEF Comers
<1>8. DOMAIN db' = CASE j.op = "add" -> DOMAIN db \cup j.codes
                     [] j.op = "del" -> DOMAIN db \ j.codes
                     [] OTHER -> DOMAIN db
  BY WriteDb DEF j
<1>9. j.codes \subseteq Codes /\ (j.op # "add" => j.codes \subseteq Known)  BY <1>1, <1>5 DEF HandOk, HandBorn
<1>10. DOMAIN db \subseteq Known  BY DEF SiteInv, BornInv
<1>11. /\ Known \subseteq Known' /\ Dead \subseteq Dead' /\ DOMAIN db' \cap Known \subseteq DOMAIN db
       /\ DOMAIN db' \subseteq Known' /\ j.codes \subseteq Known' /\ (j.op = "del" => j.codes \subseteq Dead')
  <2>1. CASE j.op = "add"
    <3>1. Known' = Known \cup j.codes /\ Known \cap j.codes = {}  BY <1>6, <1>9, <2>1 DEF Known
    <3> QED  BY <1>8, <1>10, <2>1, <3>1 DEF Dead
  <2>2. CASE j.op = "del"
    <3>1. Known' = Known  BY <1>7, <2>2 DEF Known
    <3> QED  BY <1>8, <1>9, <1>10, <2>2, <3>1 DEF Dead
  <2>3. CASE j.op \notin {"add", "del"}
    <3>1. Known' = Known  BY <1>7, <2>3 DEF Known
    <3> QED  BY <1>8, <1>9, <1>10, <2>3, <3>1 DEF Dead
  <2> QED  BY <2>1, <2>2, <2>3
<1>12. \A g \in Handlers : HandBorn(hand[g], Known, Dead)'
  <2>1. HandBorn(u, Known', Dead')  BY <1>2, <1>5, <1>11, ToldMore DEF HandBorn
  <2>2. \A g \in Handlers : HandBorn(hand[g], Known', Dead')  BY <1>11, HandBornMore DEF SiteInv, BornInv
  <2> QED  BY <1>3, <2>1, <2>2
<1>13. \A f, g \in Handlers : f # g /\ Adding(f)' /\ Adding(g)' => hand'[f].codes \cap hand'[g].codes = {}
  BY <1>3, <1>4 DEF SiteInv, BornInv
<1>14. chMsg' \in Seq(Told(Known, Dead)')  BY <1>1, <1>11, ToldMore DEF SiteInv, BornInv
<1> QED  BY <1>1, <1>11, <1>12, <1>13, <1>14, Untouched

LEMMA NotifySites == ASSUME TypeInv, SiteInv, NEW h \in Handlers, Notify(h) PROVE SiteInv'
<1> DEFINE j == hand[h]
<1>1. HandOk(j) /\ j.pc = "read" /\ UNCHANGED <<db, unborn, chMsg, rt, eng>>
  BY DEF TypeInv, HandsOk, Notify, dbVars, chans
<1>2. PICK q \in Seq(OkMsg) :
        /\ hand' = [hand EXCEPT ![h] = [hand[h] EXCEPT !.pc = "send", !.out = q]]
        /\ \A i \in DOMAIN q : q[i].code \in hand[h].codes /\ (q[i].type = "del" => hand[h].op = "del")
  BY NotifyIs
<1> DEFINE u == [j EXCEPT !.pc = "send", !.out = q]
<1>3. u.pc = "send" /\ u.op = j.op /\ u.codes = j.codes /\ u.out = q  BY <1>1 DEF HandOk
<1>4. hand' = [hand EXCEPT ![h] = u]  BY <1>2
<1> HIDE DEF u
<1>5. \A g \in Handlers : hand'[g] = IF g = h THEN u ELSE hand[g]  BY <1>4 DEF TypeInv, HandsOk
<1>6. Comers' = Comers /\ \A g \in Handlers : Adding(g)' <=> (g # h /\ Adding(g))  BY <1>1, <1>3, <1>5, HandMoves
<1>7. Known' = Known /\ Dead' = Dead  BY <1>1, <1>6 DEF Known, Dead
<1>8. HandBorn(u, Known, Dead)
  <2>1. j.codes \subseteq Known /\ (j.op = "del" => j.codes \subseteq Dead)
    BY <1>1 DEF SiteInv, BornInv, HandBorn
  <2>2. Len(q) \in Nat /\ q \in [1..Len(q) -> OkMsg]  OBVIOUS
  <2>3. \A i \in 1..Len(q) : q[i] \in Told(Known, Dead)  BY <1>2, <2>1, <2>2 DEF Told
  <2>4. q \in [1..Len(q) -> Told(Known, Dead)]  BY <2>2, <2>3
  <2>5. q \in Seq(Told(Known, Dead))  BY <2>2, <2>4
  <2> QED  BY <1>3, <2>1, <2>5 DEF HandBorn
<1>9. \A g \in Handlers : HandBorn(hand[g], Known, Dead)'  BY <1>5, <1>7, <1>8 DEF SiteInv, BornInv
<1>10. \A f, g \in Handlers : f # g /\ Adding(f)' /\ Adding(g)' => hand'[f].codes \cap hand'[g].codes = {}
  BY <1>5, <1>6 DEF SiteInv, BornInv
<1>11. chMsg' \in Seq(Told(Known, Dead)') /\ DOMAIN db' \subseteq Known'  BY <1>1, <1>7 DEF SiteInv, BornInv
<1> QED  BY <1>1, <1>7, <1>9, <1>10, <1>11, Untouched

LEMMA SendSites == ASSUME TypeInv, SiteInv, NEW h \in Handlers, Send(h) PROVE SiteInv'
<1> DEFINE j == hand[h]
           u == IF Len(j.out) = 1 THEN Idle
                ELSE [j EXCEPT !.out = Tail(@), !.codes = @ \ {Head(j.out).code}]
<1>1. /\ hand' = [hand EXCEPT ![h] = u] /\ u.pc # "write" /\ j.pc = "send"
      /\ u = Idle \/ (u.pc = "send" /\ u.op = j.op /\ u.codes \subseteq j.codes /\ u.out = Tail(j.out))
  BY SendIs
<1>2. HandOk(j) /\ HandBorn(j, Known, Dead)  BY DEF TypeInv, HandsOk, SiteInv, BornInv
<1>3. UNCHANGED <<db, unborn, rt, eng>> /\ (chMsg' = chMsg \/ chMsg' = Append(chMsg, Head(j.out)))
  BY DEF Send, dbVars
<1> HIDE DEF u, j
<1>4. \A g \in Handlers : hand'[g] = IF g = h THEN u ELSE hand[g]  BY <1>1 DEF TypeInv, HandsOk
<1>5. Comers' = Comers /\ \A g \in Handlers : Adding(g)' <=> (g # h /\ Adding(g))
  BY <1>1, <1>3, <1>4, HandMoves DEF j
<1>6. Known' = Known /\ Dead' = Dead  BY <1>3, <1>5 DEF Known, Dead
<1>7. Head(j.out) \in Told(Known, Dead) /\ Tail(j.out) \in Seq(Told(Known, Dead))
  BY <1>1, <1>2, QueueIs DEF HandOk, HandBorn
<1>8. HandBorn(u, Known, Dead)
  <2>1. HandBorn(Idle, Known, Dead)  BY DEF HandBorn, Idle
  <2>2. CASE u.pc = "send" /\ u.op = j.op /\ u.codes \subseteq j.codes /\ u.out = Tail(j.out)
    <3>1. j.codes \subseteq Known /\ (j.op = "del" => j.codes \subseteq Dead)  BY <1>1, <1>2 DEF HandBorn
    <3>2. u.codes \subseteq Known /\ (u.op = "del" => u.codes \subseteq Dead)  BY <2>2, <3>1
    <3> QED  BY <1>7, <2>2, <3>2 DEF HandBorn
  <2> QED  BY <1>1, <2>1, <2>2
<1>9. \A g \in Handlers : HandBorn(hand[g], Known, Dead)'  BY <1>4, <1>6, <1>8 DEF SiteInv, BornInv
<1>10. \A f, g \in Handlers : f # g /\ Adding(f)' /\ Adding(g)' => hand'[f].codes \cap hand'[g].codes = {}
  BY <1>4, <1>5 DEF SiteInv, BornInv
<1>11. chMsg' \in Seq(Told(Known, Dead)') /\ DOMAIN db' \subseteq Known'  BY <1>3, <1>6, <1>7 DEF SiteInv, BornInv
<1> QED  BY <1>3, <1>6, <1>9, <1>10, <1>11, Untouched

(* The steps of the loop that leave the table alone, and the orders. *)
LEMMA LoopSites ==
  ASSUME TypeInv, SiteInv, UNCHANGED <<unborn, hand, rt>>, DOMAIN db' = DOMAIN db,
         chMsg' \in Seq(Told(Known, Dead)), eng'.out \in Seq(Told(Known, Dead)),
         DOMAIN eng'.rows \subseteq Known, DOMAIN eng'.gone \subseteq Dead, GoneInv'
  PROVE  SiteInv'
<1>1. Known' = Known /\ Dead' = Dead  BY KnownSame
<1>2. BornInv'  BY <1>1 DEF SiteInv, BornInv, Adding
<1> QED  BY <1>2 DEF SiteInv, FoundInv

(* The steps of the loop that change the table. *)
LEMMA TableSites ==
  ASSUME TypeInv, SiteInv, UNCHANGED <<db, unborn, hand>>, TabInv(rt'), Moved(rt, rt', Known, Dead),
         chMsg' \in Seq(Told(Known, Dead)), eng'.out \in Seq(Told(Known, Dead)),
         DOMAIN eng'.rows \subseteq Known, DOMAIN eng'.gone \subseteq Dead, GoneInv'
  PROVE  SiteInv' /\ DOMAIN rt.code \cap DOMAIN db \subseteq DOMAIN rt'.code
<1>1. Known' = Known /\ Dead' = Dead  BY KnownSame
<1>2. DOMAIN rt.code \cap DOMAIN db \subseteq DOMAIN rt'.code  BY DEF Moved, Dead
<1>3. FoundInv'  BY <1>2 DEF SiteInv, FoundInv, Moved
<1>4. SitesOf(rt') \subseteq Known  BY DEF Moved, SiteInv, BornInv
<1>5. BornInv'  BY <1>1, <1>4 DEF SiteInv, BornInv, Adding
<1> QED  BY <1>2, <1>3, <1>5 DEF SiteInv

(* What a step does to the place of a site that stays. *)
Placed == rt' = rt \/ (db' = db /\ req' = req /\ DOMAIN rt.code \cap DOMAIN db \subseteq DOMAIN rt'.code)

LEMMA TakeMsgSites == ASSUME Apart, TypeInv, SiteInv, TakeMsg PROVE SiteInv' /\ Placed
<1>1. UNCHANGED <<db, unborn, eng, hand, req>> /\ rt' = Apply(rt, Head(chMsg)) /\ chMsg' = Tail(chMsg) /\ chMsg # <<>>
  BY DEF TakeMsg, dbVars
<1>2. Head(chMsg) \in Told(Known, Dead) /\ chMsg' \in Seq(Told(Known, Dead))
  BY <1>1, QueueIs DEF SiteInv, BornInv
<1>3. TabInv(rt') /\ Moved(rt, rt', Known, Dead)  BY <1>1, <1>2, ApplyKeeps DEF TypeInv, SiteInv
<1>4. eng'.out \in Seq(Told(Known, Dead)) /\ DOMAIN eng'.rows \subseteq Known /\ DOMAIN eng'.gone \subseteq Dead /\ GoneInv'
  BY <1>1 DEF SiteInv, BornInv, GoneInv
<1> QED  BY <1>1, <1>2, <1>3, <1>4, TableSites DEF Placed

LEMMA TakeHostSites == ASSUME TypeInv, SiteInv, TakeHost PROVE SiteInv' /\ Placed
<1> DEFINE m == Head(chHost)
<1>1. UNCHANGED <<db, unborn, eng, hand, req, chMsg>>
      /\ rt' = IF m.row = {} THEN rt ELSE UpdateHostByKey(rt, Key(The(m.row).cfg), The(m.row).guard)
  BY DEF TakeHost, dbVars
<1>2. m \in OkMsg
  <2>1. chHost \in Seq(OkMsg) /\ chHost # <<>>  BY DEF TakeHost, TypeInv, ChanOk
  <2> QED  BY <2>1, QueueIs
<1> HIDE DEF m
<1>3. m.row # {} => The(m.row).guard \in BOOLEAN  BY <1>2, RowOfMsg DEF RowOf, Row
<1>4. TabInv(rt') /\ Moved(rt, rt', Known, Dead)
  <2>1. CASE m.row = {}  BY <1>1, <2>1 DEF SiteInv, Moved
  <2>2. CASE m.row # {}  BY <1>1, <1>3, <2>2, SwitchKeeps DEF TypeInv, SiteInv
  <2> QED  BY <2>1, <2>2
<1>5. /\ chMsg' \in Seq(Told(Known, Dead)) /\ eng'.out \in Seq(Told(Known, Dead))
      /\ DOMAIN eng'.rows \subseteq Known /\ DOMAIN eng'.gone \subseteq Dead /\ GoneInv'
  BY <1>1 DEF SiteInv, BornInv, GoneInv
<1> QED  BY <1>1, <1>4, <1>5, TableSites DEF Placed

LEMMA TakeEngineSites == ASSUME TypeInv, SiteInv, TakeEngine PROVE SiteInv'
<1> DEFINE known == {c \in DOMAIN rt.code : Has(rt, c) /\ c \notin DOMAIN db}
           gone  == [c \in known |-> HostOf(rt, c).row.cfg]
<1>1. UNCHANGED <<db, unborn, chMsg, rt, hand>> /\ eng' = [Loop EXCEPT !.pc = "load", !.rows = db, !.gone = gone]
  BY DEF TakeEngine, dbVars
<1>2. DOMAIN gone \subseteq Dead  BY CodesInTable DEF SiteInv, BornInv, Dead
<1>3. \A c \in DOMAIN gone : gone[c] \in Offers[c]
  <2> SUFFICES ASSUME NEW c \in known PROVE HostOf(rt, c).row.cfg \in Offers[c]  OBVIOUS
  <2>1. HostOf(rt, c).code = c /\ rt.code[c] \in DOMAIN rt.target /\ HostOf(rt, c) = rt.target[rt.code[c]]
    BY DEF SiteInv, TabInv, HostOf
  <2>2. HostOf(rt, c).row \in RowOf(c)  BY <2>1 DEF TypeInv, TabOk
  <2> QED  BY <2>2 DEF RowOf
<1> HIDE DEF gone
<1>4. eng'.rows = db /\ eng'.gone = gone /\ eng'.out = <<>>  BY <1>1, OrderStarts
<1>5. <<>> \in Seq(Told(Known, Dead))  OBVIOUS
<1>6. GoneInv'  BY <1>3, <1>4 DEF GoneInv
<1> QED  BY <1>1, <1>2, <1>4, <1>5, <1>6, LoopSites DEF SiteInv, BornInv

LEMMA ReloadOneSites == ASSUME Apart, TypeInv, SiteInv, ReloadOne PROVE SiteInv' /\ Placed
<1>1. UNCHANGED <<db, unborn, chMsg, hand, req>>  BY DEF ReloadOne, dbVars, chans
<1>2. ASSUME NEW c \in DOMAIN eng.rows, rt' = LoadHost(rt, c, eng.rows[c], rules[c]),
             eng' = [eng EXCEPT !.rows = Without(@, {c})]
      PROVE  SiteInv' /\ Placed
  <2>1. c \in Codes /\ c \in Known /\ eng.rows[c] \in RowOf(c)  BY DEF TypeInv, EngOk, RowsOk, SiteInv, BornInv
  <2>2. TabInv(rt') /\ Moved(rt, rt', Known, Dead)  BY <1>2, <2>1, LoadHostKeeps DEF TypeInv, SiteInv, Moved
  <2>3. DOMAIN eng'.rows \subseteq DOMAIN eng.rows /\ eng'.gone = eng.gone /\ eng'.out = eng.out
    BY <1>2 DEF TypeInv, EngOk, Without, Restrict
  <2>4. GoneInv'  BY <2>3 DEF SiteInv, GoneInv
  <2>5. /\ chMsg' \in Seq(Told(Known, Dead)) /\ eng'.out \in Seq(Told(Known, Dead))
        /\ DOMAIN eng'.rows \subseteq Known /\ DOMAIN eng'.gone \subseteq Dead
    BY <1>1, <2>3 DEF SiteInv, BornInv
  <2> QED  BY <1>1, <2>2, <2>4, <2>5, TableSites DEF Placed
<1>3. ASSUME NEW c \in DOMAIN eng.gone, rt' = RemoveHost(rt, c, eng.gone[c]),
             eng' = [eng EXCEPT !.gone = Without(@, {c})]
      PROVE  SiteInv' /\ Placed
  <2>1. c \in Codes /\ c \in Dead /\ eng.gone[c] \in Offers[c]  BY DEF TypeInv, EngOk, SiteInv, BornInv, GoneInv
  <2>2. TabInv(rt') /\ Moved(rt, rt', Known, Dead)  BY <1>3, <2>1, RemoveHostKeeps DEF TypeInv, SiteInv, Moved
  <2>3. /\ DOMAIN eng'.gone \subseteq DOMAIN eng.gone /\ \A d \in DOMAIN eng'.gone : eng'.gone[d] = eng.gone[d]
        /\ eng'.rows = eng.rows /\ eng'.out = eng.out
    BY <1>3 DEF TypeInv, EngOk, Without, Restrict
  <2>4. GoneInv'  BY <2>3 DEF SiteInv, GoneInv
  <2>5. /\ chMsg' \in Seq(Told(Known, Dead)) /\ eng'.out \in Seq(Told(Known, Dead))
        /\ DOMAIN eng'.rows \subseteq Known /\ DOMAIN eng'.gone \subseteq Dead
    BY <1>1, <2>3 DEF SiteInv, BornInv
  <2> QED  BY <1>1, <2>2, <2>4, <2>5, TableSites DEF Placed
<1>4. CASE eng' = Loop /\ UNCHANGED rt
  <2>1. GoneInv' /\ <<>> \in Seq(Told(Known, Dead))  BY <1>4, LoopOk DEF GoneInv
  <2> QED  BY <1>1, <1>4, <2>1, LoopOk, LoopSites DEF Placed, SiteInv, BornInv
<1> QED  BY <1>2, <1>3, <1>4 DEF ReloadOne

LEMMA RenewSites ==
  ASSUME TypeInv, SiteInv, TakeSSL \/ RenewDone \/ SendSSL \/ \E c \in Codes : UpdateSSLInfo(c) PROVE SiteInv'
<1>1. CASE TakeSSL
  <2>1. UNCHANGED <<db, unborn, chMsg, rt, hand>>
        /\ eng' = [Loop EXCEPT !.pc = "renew", !.todo = Shared \cap DOMAIN db, !.cert = Head(chSSL)]
    BY <1>1 DEF TakeSSL, dbVars
  <2>2. eng'.rows = <<>> /\ eng'.gone = <<>> /\ eng'.out = <<>>  BY <2>1, OrderStarts
  <2>3. GoneInv' /\ DOMAIN eng'.rows = {} /\ DOMAIN eng'.gone = {}  BY <2>2 DEF GoneInv
  <2>4. eng'.out \in Seq(Told(Known, Dead))
    <3>1. <<>> \in Seq(Told(Known, Dead))  OBVIOUS
    <3> QED  BY <2>2, <3>1, Zenon
  <2>5. chMsg' \in Seq(Told(Known, Dead))  BY <2>1 DEF SiteInv, BornInv
  <2> HIDE <2>2
  <2> QED  BY <2>1, <2>3, <2>4, <2>5, LoopSites
<1>2. CASE RenewDone
  <2>1. UNCHANGED <<db, unborn, chMsg, rt, hand>> /\ eng' = Loop  BY <1>2 DEF RenewDone, dbVars, chans
  <2>2. GoneInv' /\ <<>> \in Seq(Told(Known, Dead))  BY <2>1, LoopOk DEF GoneInv
  <2> QED  BY <2>1, <2>2, LoopOk, LoopSites DEF SiteInv, BornInv
<1>3. CASE SendSSL
  <2>1. UNCHANGED <<db, unborn, rt, hand>> /\ chMsg' = chMsg \o eng.out  BY <1>3 DEF SendSSL, dbVars
  <2>2. eng'.rows = eng.rows /\ eng'.gone = eng.gone /\ eng'.out = <<>>  BY <1>3, SendSSLType
  <2>3. GoneInv'  BY <2>2 DEF SiteInv, GoneInv
  <2>4. chMsg' \in Seq(Told(Known, Dead)) /\ <<>> \in Seq(Told(Known, Dead))  BY <2>1 DEF SiteInv, BornInv
  <2> QED  BY <2>1, <2>2, <2>3, <2>4, LoopSites DEF SiteInv, BornInv
<1>4. ASSUME NEW c \in Codes, UpdateSSLInfo(c) PROVE SiteInv'
  <2>1. UNCHANGED <<unborn, chMsg, rt, hand>>  BY <1>4 DEF UpdateSSLInfo, chans
  <2>2. /\ DOMAIN db' = DOMAIN db /\ eng'.rows = eng.rows /\ eng'.gone = eng.gone /\ EngOk(eng')
        /\ \A i \in DOMAIN eng'.out : eng'.out[i].code = c /\ c \in DOMAIN db /\ eng'.out[i].type = "ssl"
    BY <1>4, UpdateSSLIs
  <2>3. GoneInv'  BY <2>2 DEF SiteInv, GoneInv
  <2>4. eng'.out \in Seq(Told(Known, Dead))
    <3> DEFINE q == eng'.out
    <3>1. q \in Seq(OkMsg)  BY <2>2 DEF EngOk
    <3> HIDE DEF q
    <3>2. Len(q) \in Nat /\ q \in [1..Len(q) -> OkMsg]  BY <3>1
    <3>3. DOMAIN db \subseteq Known  BY DEF SiteInv, BornInv
    <3>4. \A i \in 1..Len(q) : q[i] \in Told(Known, Dead)  BY <2>2, <3>2, <3>3 DEF Told, q
    <3>5. q \in [1..Len(q) -> Told(Known, Dead)]  BY <3>2, <3>4
    <3>6. q \in Seq(Told(Known, Dead))  BY <3>2, <3>5
    <3> QED  BY <3>6 DEF q
  <2> QED  BY <2>1, <2>2, <2>3, <2>4, LoopSites DEF SiteInv, BornInv
<1> QED  BY <1>1, <1>2, <1>3, <1>4

LEMMA Still ==
  ASSUME TypeInv, SiteInv, UNCHANGED <<db, unborn, chMsg, rt, eng, hand>> PROVE SiteInv'
<1>1. GoneInv'  BY DEF SiteInv, GoneInv
<1> QED  BY <1>1, LoopSites DEF SiteInv, BornInv

(* A site at rest is in the table, if at all, where its row says. *)
LEMMA SettledPlace ==
  ASSUME TabInv(rt), req.code \in DOMAIN rt.code, Settled(req.code)
  PROVE  req.code \in DOMAIN db /\ rt.code[req.code] = CodeKey(db[req.code].cfg)
<1> DEFINE c == req.code
           o == rt.target[rt.code[c]]
           O == Of(Objects(rt), c)
           A == UNION {m.row : m \in OnMsg(c) \cup Of(Range(eng.out), c)
                                     \cup UNION {Of(Range(hand[h].out), c) : h \in Handlers}}
           B == {eng.rows[d] : d \in {c} \cap DOMAIN eng.rows}
<1>1. rt.code[c] \in DOMAIN rt.target /\ o.code = c /\ rt.code[c] = CodeKey(o.row.cfg)  BY DEF TabInv
<1>2. o \in O  BY <1>1 DEF Of, Objects
<1>3. c \in DOMAIN db /\ \A r \in A \cup {x.row : x \in O} \cup B : CodeKey(r.cfg) = CodeKey(db[c].cfg)
  BY DEF Settled
<1> HIDE DEF A, B, O, o
<1>4. o.row \in A \cup {x.row : x \in O} \cup B  BY <1>2
<1> QED  BY <1>1, <1>3, <1>4

LEMMA SettledPlaceNext ==
  ASSUME TabInv(rt'), req'.code \in DOMAIN rt'.code, Settled(req.code)'
  PROVE  req'.code \in DOMAIN db' /\ rt'.code[req'.code] = CodeKey(db'[req'.code].cfg)
<1> DEFINE c == req'.code
           o == rt'.target[rt'.code[c]]
           O == Of(Objects(rt'), c)
           A == UNION {m.row : m \in Of(Range(chMsg'), c) \cup Of(Range(eng'.out), c)
                                     \cup UNION {Of(Range(hand'[h].out), c) : h \in Handlers}}
           B == {eng'.rows[d] : d \in {c} \cap DOMAIN eng'.rows}
<1>1. rt'.code[c] \in DOMAIN rt'.target /\ o.code = c /\ rt'.code[c] = CodeKey(o.row.cfg)  BY DEF TabInv
<1>2. o \in O  BY <1>1 DEF Of, Objects
<1>3. c \in DOMAIN db' /\ \A r \in A \cup {x.row : x \in O} \cup B : CodeKey(r.cfg) = CodeKey(db'[c].cfg)
  BY DEF Settled, OnMsg
<1> HIDE DEF A, B, O, o
<1>4. o.row \in A \cup {x.row : x \in O} \cup B  BY <1>2
<1> QED  BY <1>1, <1>3, <1>4

(* While its site is at rest, a request finds it. *)
LEMMA RequestStays ==
  ASSUME SiteInv, SiteInv', ReqInv, History, Placed, req' = req
  PROVE  ReqInv'
<1> DEFINE c == req.code
<1>1. CASE ~ calm'  BY <1>1 DEF ReqInv
<1>2. CASE calm'
  <2>1. calm /\ Settled(req.code)' /\ req'.pc # "idle"  BY <1>2 DEF History
  <2>2. Settled(c) /\ (req.pc \in {"found", "table"} => c \in DOMAIN rt.code)
        /\ (req.pc = "table" => rt.code[c] \in req.keys) /\ req.pc # "aborted"
    BY <2>1 DEF ReqInv
  <2>3. Settled(c)'  BY <2>1
  <2>4. ASSUME req.pc \in {"found", "table"} PROVE c \in DOMAIN rt'.code /\ rt'.code[c] = rt.code[c]
    <3>1. c \in DOMAIN rt.code  BY <2>2, <2>4
    <3>2. c \in DOMAIN db /\ rt.code[c] = CodeKey(db[c].cfg)  BY <2>2, <3>1, SettledPlace DEF SiteInv
    <3>3. CASE rt' = rt  BY <3>1, <3>3
    <3>4. CASE db' = db /\ DOMAIN rt.code \cap DOMAIN db \subseteq DOMAIN rt'.code
      <4>1. c \in DOMAIN rt'.code  BY <3>1, <3>2, <3>4
      <4>2. rt'.code[c] = CodeKey(db'[c].cfg)  BY <2>3, <4>1, SettledPlaceNext DEF SiteInv
      <4> QED  BY <3>2, <3>4, <4>1, <4>2
    <3> QED  BY <3>3, <3>4 DEF Placed
  <2> QED  BY <2>1, <2>2, <2>4 DEF ReqInv
<1>3. calm' \in BOOLEAN  BY DEF History
<1> QED  BY <1>1, <1>2, <1>3

(* The three reads of the table by a request. *)
LEMMA RequestMoves ==
  ASSUME TypeInv, SiteInv, ReqInv, NEW n, NEW p, ResolveHost(n, p) \/ ReadTarget \/ ReadCode
  PROVE  ReqInv'
<1>1. UNCHANGED <<db, rt>> /\ History /\ ReqOk(req')  BY RequestIs DEF dbVars
<1>2. CASE ~ calm'  BY <1>2 DEF ReqInv
<1>3. CASE calm'
  <2>1. Settled(req.code)' /\ req'.pc # "idle" /\ (calm \/ (req.pc # "found" /\ req'.pc = "found"))
    BY <1>1, <1>3 DEF History
  <2>2. CASE ResolveHost(n, p)
    <3>1. PICK c \in Resolve(rt, n, p) : req' = [NoReq EXCEPT !.pc = "found", !.code = c]  BY <2>2 DEF ResolveHost
    <3>2. req'.pc = "found" /\ req'.code = c  BY <3>1 DEF NoReq
    <3>3. req'.code \in DOMAIN db'  BY <2>1 DEF Settled
    <3>4. c \in SitesOf(rt)  BY ResolveIs
    <3>5. c \in DOMAIN rt.code  BY <1>1, <3>2, <3>3, <3>4 DEF SiteInv, FoundInv
    <3> QED  BY <1>1, <2>1, <3>2, <3>5 DEF ReqInv
  <2>3. CASE ReadTarget
    <3>1. req.pc = "found" /\ req' = [req EXCEPT !.pc = "table", !.keys = DOMAIN rt.target]  BY <2>3 DEF ReadTarget
    <3>2. req'.pc = "table" /\ req'.code = req.code /\ req'.keys = DOMAIN rt.target  BY <3>1 DEF TypeInv, ReqOk
    <3>3. req.code \in DOMAIN rt.code  BY <2>1, <3>1 DEF ReqInv
    <3>4. rt.code[req.code] \in DOMAIN rt.target  BY <3>3 DEF SiteInv, TabInv
    <3> QED  BY <1>1, <2>1, <3>2, <3>3, <3>4 DEF ReqInv
  <2>4. CASE ReadCode
    <3>1. req.pc = "table" /\ req' = IF req.code \in DOMAIN rt.code /\ rt.code[req.code] \in req.keys
                                     THEN NoReq ELSE [req EXCEPT !.pc = "aborted", !.keys = {}]
      BY <2>4 DEF ReadCode
    <3>2. [req EXCEPT !.pc = "aborted", !.keys = {}].pc = "aborted"  BY DEF TypeInv, ReqOk
    <3>3. calm  BY <2>1, <3>1, <3>2, NoReqOk
    <3>4. req' = NoReq  BY <3>1, <3>3 DEF ReqInv
    <3> QED  BY <2>1, <3>4, NoReqOk
  <2> QED  BY <2>2, <2>3, <2>4
<1>4. calm' \in BOOLEAN  BY <1>1 DEF History
<1> QED  BY <1>2, <1>3, <1>4

-----------------------------------------------------------------------------
LEMMA ApiServes ==
  ASSUME ServeInv, NEW h \in Handlers, NEW c \in Codes, NEW g \in BOOLEAN, NEW s,
         \/ DelHostApi(h, c) \/ SaveRules(h, c) \/ AddApi(h, c, s) \/ ModifyHostApi(h, c, s)
         \/ ModifyGuardStatusApi(h, c, g) \/ ModifyAllGuardStatusApi(h, g)
  PROVE  SiteInv' /\ ReqInv'
<1>1. SiteInv'  BY ApiSites DEF ServeInv
<1>2. History /\ UNCHANGED <<rt, req>>
  BY DEF DelHostApi, SaveRules, AddApi, ModifyHostApi, ModifyGuardStatusApi, ModifyAllGuardStatusApi, Begin
<1> QED  BY <1>1, <1>2, RequestStays DEF ServeInv, Placed

LEMMA HandleServes == ASSUME ServeInv, NEW h \in Handlers, Handle(h) PROVE SiteInv' /\ ReqInv'
<1>1. SiteInv'  BY WriteSites, NotifySites, SendSites DEF Handle, ServeInv
<1>2. History /\ UNCHANGED <<rt, req>>  BY DEF Handle, Write, Notify, Send
<1> QED  BY <1>1, <1>2, RequestStays DEF ServeInv, Placed

LEMMA OrderServes == ASSUME ServeInv, ReloadApi \/ SslOrderApi PROVE SiteInv' /\ ReqInv'
<1>1. History /\ UNCHANGED <<db, unborn, chMsg, rt, eng, hand, req>>  BY DEF ReloadApi, SslOrderApi, dbVars
<1>2. SiteInv'  BY <1>1, Still DEF ServeInv
<1> QED  BY <1>1, <1>2, RequestStays DEF ServeInv, Placed

LEMMA EngineServes == ASSUME Apart, ServeInv, EngineStep PROVE SiteInv' /\ ReqInv'
<1>1. CASE TakeMsg \/ TakeHost \/ ReloadOne
  <2>1. SiteInv' /\ Placed  BY <1>1, TakeMsgSites, TakeHostSites, ReloadOneSites DEF ServeInv
  <2>2. History /\ UNCHANGED req  BY <1>1 DEF TakeMsg, TakeHost, ReloadOne
  <2> QED  BY <2>1, <2>2, RequestStays DEF ServeInv
<1>2. CASE TakeEngine \/ TakeSSL \/ RenewDone \/ SendSSL \/ \E c \in Codes : UpdateSSLInfo(c)
  <2>1. SiteInv'  BY <1>2, TakeEngineSites, RenewSites DEF ServeInv
  <2>2. History /\ UNCHANGED <<rt, req>>  BY <1>2 DEF TakeEngine, TakeSSL, RenewDone, SendSSL, UpdateSSLInfo
  <2> QED  BY <2>1, <2>2, RequestStays DEF ServeInv, Placed
<1> QED  BY <1>1, <1>2 DEF EngineStep

LEMMA RequestServes ==
  ASSUME ServeInv, NEW n, NEW p, ResolveHost(n, p) \/ ReadTarget \/ ReadCode PROVE SiteInv' /\ ReqInv'
<1>1. UNCHANGED <<db, unborn, chMsg, rt, eng, hand>>  BY RequestIs DEF dbVars, chans, ServeInv
<1>2. SiteInv'  BY <1>1, Still DEF ServeInv
<1> QED  BY <1>2, RequestMoves DEF ServeInv

LEMMA ServeStep == ASSUME Apart, ServeInv, [Next]_vars PROVE ServeInv'
<1>1. TypeInv'  BY TypeStep DEF ServeInv
<1>2. CASE UNCHANGED vars
  <2>1. UNCHANGED <<db, unborn, chMsg, rt, eng, hand, req, calm>>  BY <1>2 DEF vars, dbVars, chans
  <2>2. SiteInv'  BY <2>1, Still DEF ServeInv
  <2>3. Settled(req.code)' <=> Settled(req.code)  BY <2>1 DEF Settled, OnMsg
  <2>4. ReqInv'  BY <2>1, <2>3 DEF ServeInv, ReqInv
  <2> QED  BY <1>1, <2>2, <2>4 DEF ServeInv
<1>3. CASE Next
  <2> SUFFICES SiteInv' /\ ReqInv'  BY <1>1 DEF ServeInv
  <2>1. ASSUME NEW h \in Handlers, NEW c \in Codes,
               \/ DelHostApi(h, c) \/ SaveRules(h, c)
               \/ \E s \in Offers[c] : AddApi(h, c, s) \/ ModifyHostApi(h, c, s)
               \/ \E g \in BOOLEAN : ModifyGuardStatusApi(h, c, g)
        PROVE  SiteInv' /\ ReqInv'
    BY <2>1, ApiServes
  <2>2. ASSUME NEW h \in Handlers, Handle(h) PROVE SiteInv' /\ ReqInv'  BY <2>2, HandleServes
  <2>3. ASSUME NEW h \in Handlers, NEW g \in BOOLEAN, ModifyAllGuardStatusApi(h, g) PROVE SiteInv' /\ ReqInv'
    BY <2>3, ApiServes, RoutingAssumption
  <2>4. CASE ReloadApi \/ SslOrderApi  BY <2>4, OrderServes
  <2>5. CASE EngineStep  BY <2>5, EngineServes
  <2>6. ASSUME NEW r \in Requests, ResolveHost(r[1], r[2]) PROVE SiteInv' /\ ReqInv'  BY <2>6, RequestServes
  <2>7. CASE ReadTarget \/ ReadCode  BY <2>7, RequestServes
  <2> QED  BY <1>3, <2>1, <2>2, <2>3, <2>4, <2>5, <2>6, <2>7 DEF Next
<1> QED  BY <1>2, <1>3

LEMMA InitServes == ASSUME Init PROVE ServeInv
<1>1. TypeInv  BY InitType
<1>2. rt.target = <<>> /\ rt.code = <<>> /\ rt.more = <<>>  BY DEF Init, NewTable
<1>3. TabInv(rt) /\ SitesOf(rt) = {} /\ FoundInv  BY <1>2 DEF TabInv, SitesOf, FoundInv
<1>4. eng.rows = Existing /\ eng.gone = <<>> /\ eng.out = <<>>  BY OrderStarts DEF Init
<1>5. \A h \in Handlers : hand[h] = Idle /\ ~ Adding(h)  BY DEF Init, Adding, Idle
<1>6. Comers = unborn  BY <1>5 DEF Comers
<1>7. DOMAIN db \subseteq Known /\ DOMAIN eng.rows \subseteq Known  BY <1>4, <1>6, RoutingAssumption DEF Init, Known
<1>8. \A h \in Handlers : HandBorn(hand[h], Known, Dead)
  <2>1. HandBorn(Idle, Known, Dead)  BY DEF HandBorn, Idle
  <2> QED  BY <1>5, <2>1
<1>9. <<>> \in Seq(Told(Known, Dead)) /\ DOMAIN eng.gone = {}  BY <1>4
<1>10. chMsg = <<>>  BY DEF Init
<1>11. chMsg \in Seq(Told(Known, Dead)) /\ eng.out \in Seq(Told(Known, Dead))  BY <1>4, <1>9, <1>10, Zenon
<1>12. BornInv  BY <1>3, <1>5, <1>7, <1>8, <1>9, <1>11 DEF BornInv
<1>13. GoneInv  BY <1>9 DEF GoneInv
<1>14. calm = FALSE /\ req.pc = "idle"  BY NoReqOk DEF Init
<1>15. ReqInv  BY <1>14 DEF ReqInv
<1> QED  BY <1>1, <1>3, <1>12, <1>13, <1>15 DEF ServeInv, SiteInv

(* A request whose site stays at its place is answered, whatever API        *)
(* requests, renewals and reloads of the engine happen between its three    *)
(* reads of the table, if no two sites claim the same name and port.        *)
THEOREM RouteServes == ASSUME Apart PROVE Spec => []ServedDuringReload
<1>1. Init => ServeInv  BY InitServes
<1>2. ServeInv /\ [Next]_vars => ServeInv'  BY ServeStep
<1>3. ServeInv => ServedDuringReload  BY DEF ServeInv, ReqInv, ServedDuringReload
<1> QED  BY <1>1, <1>2, <1>3, PTL DEF Spec
=============================================================================

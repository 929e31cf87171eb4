-------------------------- MODULE HostTableProofs --------------------------
(* HostRouting's tables are sound, for any sites that keep their names and  *)
(* claim different keys, and any API requests, capacity and number of       *)
(* changes.                                                                 *)
EXTENDS HostRoutingProofs

(* A site has one name: its row may change in everything else.              *)
OneName == \A c \in Codes : \A s, z \in Offers[c] : s.host = z.host

-----------------------------------------------------------------------------
(* The inductive invariant *)

(* All keys of site c lead to the object its code leads to, and they are    *)
(* those of that object's row.                                              *)
One(t, c) == \A k \in DOMAIN t.target : t.target[k].code = c =>
  c \in DOMAIN t.code /\ t.target[k] = HostOf(t, c) /\ k \in KeysOf(HostOf(t, c).row.cfg)

(* A further domain belongs to a site that is in the table. *)
MoreInv(t) == \A k \in DOMAIN t.more : t.more[k] \in DOMAIN t.code

(* The messages of the channel q about c that carry a row, before place n.  *)
Carries(m, c)   == m.code = c /\ m.row # {} /\ m.type # "rules"
Before(q, c, n) == {i \in DOMAIN q : i < n /\ Carries(q[i], c)}

(* What the table t will have of site c once a reload has loaded the rows f *)
(* and the messages of q before place n are taken, if it has the site at    *)
(* all: the last row among them, else the row to be loaded, else its own.   *)
Tip(q, f, t, c, n, s) ==
  /\ \A i \in Before(q, c, n) : (\A j \in Before(q, c, n) : j <= i) => The(q[i].row).cfg = s
  /\ Before(q, c, n) = {} /\ c \in DOMAIN f => f[c].cfg = s
  /\ Before(q, c, n) = {} /\ c \notin DOMAIN f /\ c \in DOMAIN t.code => HostOf(t, c).row.cfg = s
TipNow(c, n, s) == Tip(chMsg, eng.rows, rt, c, n, s)
End(q)          == Len(q) + 1

(* A handler has written the row of c and not yet told the loop. *)
Writes(j, c)  == c \in j.codes /\ j.op \in {"add", "edit"} /\ j.pc \in {"read", "send"}
Deletes(j, c) == c \in j.codes /\ j.op = "del" /\ j.pc \in {"write", "read"}

(* The row of a site whose changes do not overlap is what the loop is, or   *)
(* will be, told last; a deletion names the row the table will have then.   *)
LiveTip(c) == c \in DOMAIN db /\ (\A h \in Handlers : ~ Writes(hand[h], c)) => TipNow(c, End(chMsg), db[c].cfg)
HandTip(j, c) ==
  /\ Deletes(j, c) => TipNow(c, End(chMsg), j.old[c].cfg) /\ (c \in DOMAIN db => j.old[c].cfg = db[c].cfg)
  /\ j.pc = "send" /\ c \in j.codes /\ j.op = "del" => TipNow(c, End(chMsg), The(j.out[1].row).cfg)
  /\ j.pc = "send" /\ c \in j.codes /\ j.op \in {"add", "edit"} /\ c \in DOMAIN db =>
       j.out[1].row # {} /\ The(j.out[1].row).cfg = db[c].cfg
DelTip(c) == \A i \in DOMAIN chMsg : chMsg[i].code = c /\ chMsg[i].type = "del" => TipNow(c, i, The(chMsg[i].row).cfg)
OutTip(c) == \A i \in DOMAIN eng.out : eng.out[i].code = c /\ c \in DOMAIN db => The(eng.out[i].row).cfg = db[c].cfg
GoneTip(c) == c \in DOMAIN eng.gone =>
  c \notin DOMAIN eng.rows /\ (c \in DOMAIN rt.code => HostOf(rt, c).row.cfg = eng.gone[c])
Tips(c) == LiveTip(c) /\ (\A h \in Handlers : HandTip(hand[h], c)) /\ DelTip(c) /\ OutTip(c) /\ GoneTip(c)

(* A request that adds, edits or deletes is about one site and sends one    *)
(* message; one about rules sends rules.  The loop reads rows only to       *)
(* reload, and sends only renewed certificates.                             *)
HandShape(j) ==
  /\ j.pc # "idle" /\ j.op \in {"add", "edit", "del"} =>
       \E c \in Codes : /\ j.codes = {c}
                        /\ j.pc = "send" => Len(j.out) = 1 /\ j.out[1].code = c /\ (j.op # "del" => j.out[1].type = "host")
  /\ j.op = "rules" => \A i \in DOMAIN j.out : j.out[i].type = "rules"
ShapeInv ==
  /\ \A h \in Handlers : HandShape(hand[h])
  /\ eng.pc # "load" => eng.rows = <<>> /\ eng.gone = <<>>
  /\ eng.pc # "renew" => eng.out = <<>>
  /\ \A i \in DOMAIN eng.out : eng.out[i].type = "ssl"

BlurInv  == \A c \in Codes : Overlap(c) => c \in blur
OneInv   == \A c \in Codes : c \in DOMAIN db \/ c \notin blur => One(rt, c)
TipInv   == \A c \in Codes \ blur : Tips(c)
TableInv == ShapeInv /\ BlurInv /\ MoreInv(rt) /\ OneInv /\ TipInv

-----------------------------------------------------------------------------
(* What the table's operations do to a site *)

(* The row of c keeps its settings. *)
Same(t, u, c) ==
  /\ c \in DOMAIN u.code <=> c \in DOMAIN t.code
  /\ c \in DOMAIN t.code => HostOf(u, c).row.cfg = HostOf(t, c).row.cfg

(* The objects of a site belong to no other one. *)
LEMMA OwnedAre ==
  ASSUME NEW t, TabInv(t), NEW d
  PROVE  \A k \in Owned(t, d) : k \in DOMAIN t.target /\ t.target[k].code = d
<1> SUFFICES ASSUME NEW k \in Owned(t, d) PROVE k \in DOMAIN t.target /\ t.target[k].code = d  OBVIOUS
<1>1. k \in DOMAIN t.target /\ Has(t, d) /\ t.target[k].id = HostOf(t, d).id  BY DEF Owned
<1>2. t.code[d] \in DOMAIN t.target /\ HostOf(t, d) = t.target[t.code[d]] /\ HostOf(t, d).code = d
  BY <1>1 DEF Has, HostOf, TabInv
<1>3. t.target[k] = HostOf(t, d)  BY <1>1, <1>2 DEF TabInv
<1> QED  BY <1>1, <1>2, <1>3

LEMMA LoadOne ==
  ASSUME Apart, NEW t, TabOk(t), TabInv(t), NEW d \in Codes, NEW r \in RowOf(d), NEW list
  PROVE  LET u == LoadHost(t, d, r, list) IN
         /\ \A c \in Codes : One(t, c) => One(u, c)
         /\ \A c \in Codes \ {d} : Same(t, u, c)
         /\ d \in DOMAIN u.code /\ HostOf(u, d).row = r
         /\ MoreInv(t) => MoreInv(u)
<1> DEFINE s  == r.cfg
           hs == [id |-> NewId(t), code |-> d, row |-> r, rules |-> list]
           u  == LoadHost(t, d, r, list)
           old == {k \in DOMAIN t.more : t.more[k] = d}
           new == s.more \X ({s.port} \cup Extra(s))
<1>1. s \in Offers[d] /\ hs.code = d /\ hs.row = r  BY RowIs
<1>2. /\ u.target = Put(Without(t.target, Owned(t, d)), KeysOf(s), hs) /\ u.code = Put(t.code, {d}, CodeKey(s))
      /\ u.more = Put(Without(t.more, old), new, d)
  BY DEF LoadHost
<1>3. KeysOf(s) \subseteq KeysIn(d) /\ CodeKey(s) \in KeysOf(s)  BY <1>1, KeysInIs, CodeKeyIs
<1> HIDE DEF hs, u, new
<1>4. /\ DOMAIN u.target = (DOMAIN t.target \ Owned(t, d)) \cup KeysOf(s)
      /\ \A k \in DOMAIN u.target : u.target[k] = IF k \in KeysOf(s) THEN hs ELSE t.target[k]
  BY <1>2 DEF Put, Without, Restrict
<1>5. DOMAIN u.code = DOMAIN t.code \cup {d} /\ \A c \in DOMAIN u.code : u.code[c] = IF c = d THEN CodeKey(s) ELSE t.code[c]
  BY <1>2 DEF Put
<1>6. \A k \in DOMAIN u.more : u.more[k] = d \/ (k \in DOMAIN t.more /\ u.more[k] = t.more[k])
  BY <1>2 DEF Put, Without, Restrict
<1> HIDE DEF s
<1>7. HostOf(u, d) = hs  BY <1>3, <1>4, <1>5 DEF HostOf
<1>8. ASSUME NEW k \in DOMAIN t.target, t.target[k].code # d, t.target[k].code \in Codes
      PROVE  k \in DOMAIN u.target /\ k \notin KeysOf(s) /\ u.target[k] = t.target[k]
  <2>1. k \in KeysIn(t.target[k].code)  BY DEF TabInv
  <2>2. k \notin KeysOf(s)  BY <1>3, <1>8, <2>1 DEF Apart
  <2>3. k \notin Owned(t, d)  BY <1>8, OwnedAre
  <2> QED  BY <1>4, <2>2, <2>3
<1>9. ASSUME NEW c \in Codes \ {d}, c \in DOMAIN t.code PROVE HostOf(u, c) = HostOf(t, c)
  <2>1. t.code[c] \in DOMAIN t.target /\ t.target[t.code[c]].code = c  BY <1>9 DEF TabInv
  <2>2. u.code[c] = t.code[c]  BY <1>5, <1>9
  <2> QED  BY <1>8, <2>1, <2>2 DEF HostOf
<1>10. ASSUME NEW c \in Codes \ {d} PROVE Same(t, u, c)  BY <1>5, <1>9 DEF Same
<1>11. ASSUME NEW c \in Codes, One(t, c), NEW k \in DOMAIN u.target, u.target[k].code = c
       PROVE  c \in DOMAIN u.code /\ u.target[k] = HostOf(u, c) /\ k \in KeysOf(HostOf(u, c).row.cfg)
  <2>1. CASE k \in KeysOf(s)
    <3>1. c = d  BY <1>1, <1>4, <1>11, <2>1
    <3> QED  BY <1>1, <1>4, <1>5, <1>7, <2>1, <3>1 DEF s
  <2>2. CASE k \notin KeysOf(s)
    <3>1. k \in DOMAIN t.target /\ k \notin Owned(t, d) /\ u.target[k] = t.target[k]  BY <1>4, <2>2
    <3>2. c \in DOMAIN t.code /\ t.target[k] = HostOf(t, c) /\ k \in KeysOf(HostOf(t, c).row.cfg)
      BY <1>11, <3>1 DEF One
    <3>3. c # d
      <4>1. c \in DOMAIN t.code => Has(t, c)  BY DEF Has, TabInv
      <4> QED  BY <3>1, <3>2, <4>1 DEF Owned
    <3> QED  BY <1>5, <1>9, <3>1, <3>2, <3>3
  <2> QED  BY <2>1, <2>2
<1>12. \A c \in Codes : One(t, c) => One(u, c)  BY <1>11 DEF One
<1>13. MoreInv(t) => MoreInv(u)  BY <1>5, <1>6 DEF MoreInv
<1> QED  BY <1>1, <1>5, <1>7, <1>10, <1>12, <1>13 DEF u

LEMMA RemoveOne ==
  ASSUME Apart, NEW t, TabOk(t), TabInv(t), NEW d \in Codes, NEW s \in Offers[d]
  PROVE  LET u == RemoveHost(t, d, s) IN
         /\ \A c \in Codes : One(t, c) /\ (c = d /\ c \in DOMAIN t.code => HostOf(t, c).row.cfg = s) => One(u, c)
         /\ \A c \in Codes \ {d} : Same(t, u, c)
         /\ d \notin DOMAIN u.code
         /\ MoreInv(t) => MoreInv(u)
<1> DEFINE u == RemoveHost(t, d, s)
           old == {k \in DOMAIN t.more : t.more[k] = d}
<1>1. u.target = Without(t.target, KeysOf(s)) /\ u.code = Without(t.code, {d}) /\ u.more = Without(t.more, old)
  BY DEF RemoveHost, Cleared
<1> HIDE DEF u
<1>2. /\ DOMAIN u.target = DOMAIN t.target \ KeysOf(s) /\ \A k \in DOMAIN u.target : u.target[k] = t.target[k]
      /\ DOMAIN u.more \subseteq DOMAIN t.more \ old /\ \A k \in DOMAIN u.more : u.more[k] = t.more[k]
      /\ DOMAIN u.code = DOMAIN t.code \ {d} /\ \A c \in DOMAIN u.code : u.code[c] = t.code[c]
  BY <1>1 DEF Without, Restrict
<1>3. KeysOf(s) \subseteq KeysIn(d)  BY KeysInIs
<1>4. ASSUME NEW c \in Codes \ {d}, c \in DOMAIN t.code PROVE HostOf(u, c) = HostOf(t, c)
  <2>1. t.code[c] \in DOMAIN t.target /\ t.target[t.code[c]].code = c /\ t.code[c] \in KeysIn(c)  BY <1>4 DEF TabInv
  <2>2. t.code[c] \notin KeysOf(s)  BY <1>3, <2>1 DEF Apart
  <2> QED  BY <1>2, <1>4, <2>1, <2>2 DEF HostOf
<1>5. ASSUME NEW c \in Codes, One(t, c), c = d /\ c \in DOMAIN t.code => HostOf(t, c).row.cfg = s,
             NEW k \in DOMAIN u.target, u.target[k].code = c
      PROVE  c \in DOMAIN u.code /\ u.target[k] = HostOf(u, c) /\ k \in KeysOf(HostOf(u, c).row.cfg)
  <2>1. k \in DOMAIN t.target /\ k \notin KeysOf(s) /\ t.target[k].code = c /\ u.target[k] = t.target[k]  BY <1>2, <1>5
  <2>2. c \in DOMAIN t.code /\ t.target[k] = HostOf(t, c) /\ k \in KeysOf(HostOf(t, c).row.cfg)  BY <1>5, <2>1 DEF One
  <2>3. c # d  BY <1>5, <2>1, <2>2
  <2> QED  BY <1>2, <1>4, <2>1, <2>2, <2>3
<1>6. \A c \in Codes : One(t, c) /\ (c = d /\ c \in DOMAIN t.code => HostOf(t, c).row.cfg = s) => One(u, c)
  BY <1>5 DEF One
<1>7. \A c \in Codes \ {d} : Same(t, u, c)  BY <1>2, <1>4 DEF Same
<1>8. MoreInv(t) => MoreInv(u)  BY <1>2 DEF MoreInv
<1> QED  BY <1>2, <1>6, <1>7, <1>8 DEF u

LEMMA RepointOne ==
  ASSUME NEW t, TabOk(t), TabInv(t), NEW k \in DOMAIN t.target, NEW o,
         o.id = NewId(t), o.code = t.target[k].code, o.row.cfg = t.target[k].row.cfg
  PROVE  LET u == Repoint(t, k, o) IN
         /\ \A c \in Codes : (One(t, c) => One(u, c)) /\ Same(t, u, c)
         /\ MoreInv(t) => MoreInv(u)
<1> DEFINE u == Repoint(t, k, o)
<1>1. /\ u.code = t.code /\ u.more = t.more /\ DOMAIN u.target = DOMAIN t.target
      /\ \A x \in DOMAIN t.target :
           u.target[x] = IF t.target[x].id = t.target[k].id THEN o ELSE t.target[x]
  BY RepointIs
<1> HIDE DEF u
<1>2. \A x \in DOMAIN t.target : u.target[x].code = t.target[x].code /\ u.target[x].row.cfg = t.target[x].row.cfg
  BY <1>1 DEF TabInv
<1>3. \A c \in Codes : Same(t, u, c)  BY <1>1, <1>2 DEF Same, HostOf, TabInv
<1>4. ASSUME NEW c \in Codes, One(t, c), NEW x \in DOMAIN u.target, u.target[x].code = c
      PROVE  c \in DOMAIN u.code /\ u.target[x] = HostOf(u, c) /\ x \in KeysOf(HostOf(u, c).row.cfg)
  <2>1. x \in DOMAIN t.target /\ t.target[x].code = c  BY <1>1, <1>2, <1>4
  <2>2. c \in DOMAIN t.code /\ t.target[x] = HostOf(t, c) /\ x \in KeysOf(HostOf(t, c).row.cfg)  BY <1>4, <2>1 DEF One
  <2>3. t.code[c] \in DOMAIN t.target /\ HostOf(t, c) = t.target[t.code[c]] /\ HostOf(u, c) = u.target[t.code[c]]
    BY <1>1, <2>2 DEF TabInv, HostOf
  <2>4. u.target[x] = HostOf(u, c)  BY <1>1, <2>1, <2>2, <2>3
  <2>5. HostOf(u, c).row.cfg = HostOf(t, c).row.cfg  BY <1>3, <2>2 DEF Same
  <2> QED  BY <1>1, <2>2, <2>4, <2>5
<1>5. \A c \in Codes : One(t, c) => One(u, c)  BY <1>4 DEF One
<1>6. MoreInv(t) => MoreInv(u)  BY <1>1 DEF MoreInv
<1> QED  BY <1>3, <1>5, <1>6 DEF u

LEMMA UpdateOne ==
  ASSUME NEW t, TabOk(t), TabInv(t), NEW d, NEW list \in 0..Budget["rules"]
  PROVE  LET u == UpdateHost(t, d, list) IN
         /\ \A c \in Codes : (One(t, c) => One(u, c)) /\ Same(t, u, c)
         /\ MoreInv(t) => MoreInv(u)
<1>1. CASE Has(t, d)
  <2> DEFINE k == t.code[d]
             o == [t.target[k] EXCEPT !.id = NewId(t), !.rules = list]
  <2>1. k \in DOMAIN t.target /\ UpdateHost(t, d, list) = Repoint(t, k, o)  BY <1>1 DEF Has, HostOf, UpdateHost
  <2>2. t.target[k] \in Safe  BY <2>1 DEF TabOk
  <2>3. o.id = NewId(t) /\ o.code = t.target[k].code /\ o.row.cfg = t.target[k].row.cfg  BY <2>2 DEF Safe
  <2> HIDE DEF o, k
  <2> QED  BY <2>1, <2>3, RepointOne
<1>2. CASE ~ Has(t, d)  BY <1>2 DEF UpdateHost, Same
<1> QED  BY <1>1, <1>2

LEMMA SwitchOne ==
  ASSUME NEW t, TabOk(t), TabInv(t), NEW k, NEW g \in BOOLEAN
  PROVE  LET u == UpdateHostByKey(t, k, g) IN
         /\ \A c \in Codes : (One(t, c) => One(u, c)) /\ Same(t, u, c)
         /\ MoreInv(t) => MoreInv(u)
<1>1. CASE k \in DOMAIN t.target
  <2> DEFINE o == [t.target[k] EXCEPT !.id = NewId(t), !.row.guard = g]
  <2>1. o.id = NewId(t) /\ o.code = t.target[k].code /\ o.row.cfg = t.target[k].row.cfg
    <3>1. t.target[k] \in Safe /\ t.target[k].row \in Row  BY <1>1 DEF TabOk, RowOf
    <3> QED  BY <3>1 DEF Safe, Row
  <2>2. UpdateHostByKey(t, k, g) = Repoint(t, k, o)  BY <1>1 DEF UpdateHostByKey
  <2> HIDE DEF o
  <2> QED  BY <1>1, <2>1, <2>2, RepointOne
<1>2. CASE k \notin DOMAIN t.target  BY <1>2 DEF UpdateHostByKey, Same
<1> QED  BY <1>1, <1>2

(* What a message has done to the tables t and u before and after it: it    *)
(* changes only its own site, of which there is then its row or nothing.    *)
Applied(t, u, m) ==
  /\ \A c \in Codes \ {m.code} : (One(t, c) => One(u, c)) /\ Same(t, u, c)
  /\ One(t, m.code) /\ (m.type = "del" /\ m.code \in DOMAIN t.code => HostOf(t, m.code).row.cfg = The(m.row).cfg)
       => One(u, m.code)
  /\ ~ Carries(m, m.code) => Same(t, u, m.code)
  /\ Carries(m, m.code) /\ m.code \in DOMAIN u.code => HostOf(u, m.code).row.cfg = The(m.row).cfg
  /\ MoreInv(t) => MoreInv(u)

LEMMA ApplyOne ==
  ASSUME Apart, OneName, NEW t, TabOk(t), TabInv(t), NEW m \in OkMsg PROVE Applied(t, Apply(t, m), m)
<1> DEFINE d == m.code
           r == The(m.row)
           u == Apply(t, m)
<1>1. d \in Codes /\ m.type \in {"host", "del", "rules", "ssl"} /\ (m.type \in {"del", "ssl"} => m.row # {})
      /\ m.row \subseteq RowOf(d) /\ m.old \subseteq RowOf(d) /\ m.rules \in 0..Budget["rules"]
  BY DEF OkMsg, Msg
<1>2. m.row # {} => r \in RowOf(d) /\ r.cfg \in Offers[d]  BY <1>1, RowOfMsg, RowIs
<1>3. Has(t, d) <=> d \in DOMAIN t.code  BY DEF Has, TabInv
<1>4. \A n \in m.row, o \in m.old : n.cfg.host = o.cfg.host  BY <1>1, RowIs DEF OneName
<1>5. \/ u = t /\ ~ Carries(m, d)
      \/ u = t /\ m.type \in {"del", "ssl"} /\ d \notin DOMAIN t.code
      \/ u = LoadHost(t, d, r, rules[d]) /\ m.type # "del" /\ m.type # "rules" /\ m.row # {}
      \/ u = RemoveHost(t, d, r.cfg) /\ m.type = "del"
      \/ u = UpdateHost(t, d, m.rules) /\ m.type = "rules"
  <2>1. CASE m.type = "host" /\ m.row = {}  BY <2>1 DEF Apply, Carries
  <2>2. CASE m.type = "host" /\ m.row # {}  BY <1>4, <2>2 DEF Apply
  <2>3. CASE m.type = "ssl"  BY <1>1, <1>3, <2>3 DEF Apply
  <2>4. CASE m.type = "del"  BY <1>3, <2>4 DEF Apply
  <2>5. CASE m.type = "rules"  BY <2>5 DEF Apply
  <2> QED  BY <1>1, <2>1, <2>2, <2>3, <2>4, <2>5
<1> HIDE DEF u, d, r
<1> SUFFICES Applied(t, u, m)  BY DEF u
<1>6. \A c \in Codes : Same(t, t, c)  BY DEF Same
<1>7. CASE u = t /\ ~ Carries(m, d)  BY <1>1, <1>6, <1>7 DEF Applied, d
<1>8. CASE u = t /\ m.type \in {"del", "ssl"} /\ d \notin DOMAIN t.code
  BY <1>1, <1>6, <1>8 DEF Applied, d
<1>9. CASE u = LoadHost(t, d, r, rules[d]) /\ m.type # "del" /\ m.type # "rules" /\ m.row # {}
  <2>1. /\ \A c \in Codes : One(t, c) => One(u, c)
        /\ \A c \in Codes \ {d} : Same(t, u, c)
        /\ d \in DOMAIN u.code /\ HostOf(u, d).row = r
        /\ MoreInv(t) => MoreInv(u)
    BY <1>1, <1>2, <1>9, LoadOne
  <2> QED  BY <1>1, <1>9, <2>1 DEF Applied, Carries, d, r
<1>10. CASE u = RemoveHost(t, d, r.cfg) /\ m.type = "del"
  <2>1. /\ \A c \in Codes : One(t, c) /\ (c = d /\ c \in DOMAIN t.code => HostOf(t, c).row.cfg = r.cfg) => One(u, c)
        /\ \A c \in Codes \ {d} : Same(t, u, c)
        /\ d \notin DOMAIN u.code
        /\ MoreInv(t) => MoreInv(u)
    BY <1>1, <1>2, <1>10, RemoveOne
  <2>2. Carries(m, d)  BY <1>1, <1>10 DEF Carries, d
  <2> QED  BY <1>1, <1>10, <2>1, <2>2 DEF Applied, d, r
<1>11. CASE u = UpdateHost(t, d, m.rules) /\ m.type = "rules"
  <2>1. (\A c \in Codes : (One(t, c) => One(u, c)) /\ Same(t, u, c)) /\ (MoreInv(t) => MoreInv(u))
    BY <1>1, <1>11, UpdateOne
  <2>2. ~ Carries(m, d)  BY <1>11 DEF Carries
  <2> QED  BY <1>1, <2>1, <2>2 DEF Applied, d
<1> QED  BY <1>5, <1>7, <1>8, <1>9, <1>10, <1>11

-----------------------------------------------------------------------------
(* What the loop will be told last *)

LEMMA TipTable ==
  ASSUME NEW q, NEW f, NEW t, NEW u, NEW c, NEW n, NEW s, Same(t, u, c), Tip(q, f, t, c, n, s)
  PROVE  Tip(q, f, u, c, n, s)
  BY DEF Tip, Same

LEMMA TipRemoved ==
  ASSUME NEW q, NEW f, NEW t, NEW u, NEW c, NEW n, NEW s, c \notin DOMAIN u.code, Tip(q, f, t, c, n, s)
  PROVE  Tip(q, f, u, c, n, s)
  BY DEF Tip

(* A reload loads the row of d. *)
LEMMA TipLoaded ==
  ASSUME NEW q, NEW f, NEW e, NEW t, NEW u, NEW c, NEW n, NEW s, NEW d \in DOMAIN f, Tip(q, f, t, c, n, s),
         DOMAIN e = DOMAIN f \ {d}, \A x \in DOMAIN e : e[x] = f[x],
         c = d => HostOf(u, c).row = f[d], c # d => Same(t, u, c)
  PROVE  Tip(q, e, u, c, n, s)
<1>1. CASE c = d  BY <1>1 DEF Tip
<1>2. CASE c # d
  <2>1. (c \in DOMAIN e <=> c \in DOMAIN f) /\ (c \in DOMAIN e => e[c] = f[c])  BY <1>2
  <2> QED  BY <1>2, <2>1 DEF Tip, Same
<1> QED  BY <1>1, <1>2

LEMMA BeforeAppend ==
  ASSUME NEW q \in Seq(OkMsg), NEW m \in OkMsg, NEW c
  PROVE  LET p == Append(q, m) IN
         /\ \A i \in DOMAIN q : i \in DOMAIN p /\ p[i] = q[i]
         /\ DOMAIN p = DOMAIN q \cup {End(q)} /\ p[End(q)] = m /\ End(p) = End(q) + 1
         /\ \A n \in 1..End(q) : Before(p, c, n) = Before(q, c, n)
         /\ Before(p, c, End(p)) = Before(q, c, End(q)) \cup {i \in {End(q)} : Carries(m, c)}
         /\ \A i \in Before(q, c, End(q)) : i \in DOMAIN q /\ i < End(q)
<1> DEFINE p == Append(q, m)
<1>1. /\ Len(q) \in Nat /\ DOMAIN q = 1..Len(q) /\ DOMAIN p = 1..(Len(q) + 1) /\ Len(p) = Len(q) + 1
      /\ p[Len(q) + 1] = m /\ \A i \in 1..Len(q) : p[i] = q[i]
  OBVIOUS
<1> HIDE DEF p
<1>2. \A n \in 1..End(q) : Before(p, c, n) = Before(q, c, n)  BY <1>1 DEF Before, End
<1>3. Before(p, c, End(p)) = Before(q, c, End(q)) \cup {i \in {End(q)} : Carries(m, c)}  BY <1>1 DEF Before, End
<1>4. DOMAIN p = DOMAIN q \cup {End(q)} /\ p[End(q)] = m /\ End(p) = End(q) + 1  BY <1>1 DEF End
<1>5. \A i \in DOMAIN q : i \in DOMAIN p /\ p[i] = q[i]  BY <1>1
<1>6. \A i \in Before(q, c, End(q)) : i \in DOMAIN q /\ i < End(q)  BY DEF Before
<1> QED  BY <1>2, <1>3, <1>4, <1>5, <1>6 DEF p

(* A message is sent. *)
LEMMA TipSent ==
  ASSUME NEW q \in Seq(OkMsg), NEW m \in OkMsg, NEW f, NEW t, NEW c, NEW s
  PROVE  LET p == Append(q, m) IN
         /\ \A n \in 1..End(q) : Tip(q, f, t, c, n, s) => Tip(p, f, t, c, n, s)
         /\ ~ Carries(m, c) /\ Tip(q, f, t, c, End(q), s) => Tip(p, f, t, c, End(p), s)
         /\ Carries(m, c) /\ The(m.row).cfg = s => Tip(p, f, t, c, End(p), s)
<1> DEFINE p == Append(q, m)
<1>1. /\ \A i \in DOMAIN q : i \in DOMAIN p /\ p[i] = q[i]
      /\ DOMAIN p = DOMAIN q \cup {End(q)} /\ p[End(q)] = m /\ End(p) = End(q) + 1
      /\ \A n \in 1..End(q) : Before(p, c, n) = Before(q, c, n)
      /\ Before(p, c, End(p)) = Before(q, c, End(q)) \cup {i \in {End(q)} : Carries(m, c)}
      /\ \A i \in Before(q, c, End(q)) : i \in DOMAIN q /\ i < End(q)
  BY BeforeAppend
<1>2. End(q) \in Nat /\ \A i \in DOMAIN q : i \in Nat  BY DEF End
<1> HIDE DEF p
<1>3. ASSUME NEW n \in 1..End(q), Tip(q, f, t, c, n, s) PROVE Tip(p, f, t, c, n, s)
  <2>1. Before(p, c, n) = Before(q, c, n)  BY <1>1
  <2>2. \A i \in Before(q, c, n) : p[i] = q[i]  BY <1>1 DEF Before
  <2> QED  BY <1>3, <2>1, <2>2 DEF Tip
<1>4. ASSUME ~ Carries(m, c), Tip(q, f, t, c, End(q), s) PROVE Tip(p, f, t, c, End(p), s)
  <2>1. Before(p, c, End(p)) = Before(q, c, End(q))  BY <1>1, <1>4
  <2>2. \A i \in Before(q, c, End(q)) : p[i] = q[i]  BY <1>1
  <2> QED  BY <1>4, <2>1, <2>2 DEF Tip
<1>5. ASSUME Carries(m, c), The(m.row).cfg = s PROVE Tip(p, f, t, c, End(p), s)
  <2>1. End(q) \in Before(p, c, End(p))  BY <1>1, <1>5
  <2>2. ASSUME NEW i \in Before(p, c, End(p)), \A j \in Before(p, c, End(p)) : j <= i PROVE i = End(q)
    BY <1>1, <1>2, <2>1, <2>2
  <2>3. \A i \in Before(p, c, End(p)) : (\A j \in Before(p, c, End(p)) : j <= i) => The(p[i].row).cfg = s
    BY <1>1, <1>5, <2>2
  <2> QED  BY <2>1, <2>3 DEF Tip
<1> QED  BY <1>3, <1>4, <1>5 DEF p

(* The first message is taken. *)
LEMMA TipTaken ==
  ASSUME NEW q \in Seq(OkMsg), q # <<>>, NEW t, NEW u, Applied(t, u, Head(q)), NEW c \in Codes, NEW n \in 2..End(q), NEW s,
         Tip(q, <<>>, t, c, n, s)
  PROVE  Tip(Tail(q), <<>>, u, c, n - 1, s)
<1> DEFINE p == Tail(q)
           m == Head(q)
           A == Before(q, c, n)
           B == Before(p, c, n - 1)
<1>1. /\ Len(q) \in Nat /\ Len(q) > 0 /\ DOMAIN q = 1..Len(q) /\ DOMAIN p = 1..(Len(q) - 1)
      /\ m = q[1] /\ \A i \in DOMAIN p : p[i] = q[i + 1]
  OBVIOUS
<1>2. n \in Nat /\ n >= 2  BY <1>1 DEF End
<1> HIDE DEF p, m
<1>3. \A i \in B : i \in Nat /\ i + 1 \in A /\ p[i] = q[i + 1]  BY <1>1, <1>2 DEF Before
<1>4. \A i \in A : i \in Nat /\ (i = 1 \/ i - 1 \in B)  BY <1>1, <1>2 DEF Before
<1>5. 1 \in A <=> Carries(m, c)  BY <1>1, <1>2 DEF Before
<1> HIDE DEF A, B
<1>6. ASSUME NEW i \in B, \A j \in B : j <= i PROVE The(p[i].row).cfg = s
  <2>1. ASSUME NEW j \in A PROVE j <= i + 1  BY <1>3, <1>4, <1>6
  <2> QED  BY <1>3, <2>1 DEF Tip, A
<1>7. ASSUME B = {}, c \in DOMAIN u.code PROVE HostOf(u, c).row.cfg = s
  <2>1. A \subseteq {1}  BY <1>4, <1>7
  <2>2. CASE Carries(m, c)
    <3>1. The(m.row).cfg = s  BY <1>1, <1>5, <2>1, <2>2 DEF Tip, A
    <3>2. m.code = c  BY <2>2 DEF Carries
    <3> QED  BY <1>7, <2>2, <3>1, <3>2 DEF Applied, m
  <2>3. CASE ~ Carries(m, c)
    <3>1. A = {}  BY <1>5, <2>1, <2>3
    <3>2. Same(t, u, c)  BY <2>3 DEF Applied, m
    <3> QED  BY <1>7, <3>1, <3>2 DEF Tip, A, Same
  <2> QED  BY <2>2, <2>3
<1>8. DOMAIN <<>> = {}  OBVIOUS
<1> QED  BY <1>6, <1>7, <1>8 DEF Tip, B, p

-----------------------------------------------------------------------------
(* The shape of requests and of the loop *)

Api(h, c, g, s) ==
  \/ DelHostApi(h, c) \/ SaveRules(h, c) \/ AddApi(h, c, s) \/ ModifyHostApi(h, c, s)
  \/ ModifyGuardStatusApi(h, c, g) \/ ModifyAllGuardStatusApi(h, g)

(* An API request begins: nothing but the request changes. *)
LEMMA ApiIs ==
  ASSUME TypeInv, NEW h \in Handlers, NEW c \in Codes, NEW g, NEW s, Api(h, c, g, s)
  PROVE  \E j : /\ hand[h].pc = "idle" /\ UNCHANGED <<db, rules, chans, rt, eng, req>> /\ History
                /\ \A f \in Handlers : hand'[f] = IF f = h THEN j ELSE hand[f]
                /\ j.pc = "write" /\ j.out = <<>>
                /\ j.op \in {"add", "edit", "del"} => j.codes = {c}
                /\ j.op = "del" => c \in DOMAIN db /\ j.old[c] = db[c]
<1>1. ASSUME NEW o, NEW C, NEW a, Begin(h, o, C, a), o \in {"add", "edit", "del"} => C = {c}, o = "del" => c \in DOMAIN db
      PROVE  \E j : /\ hand[h].pc = "idle" /\ UNCHANGED <<db, rules, chans, rt, eng, req>> /\ History
                    /\ \A f \in Handlers : hand'[f] = IF f = h THEN j ELSE hand[f]
                    /\ j.pc = "write" /\ j.out = <<>>
                    /\ j.op \in {"add", "edit", "del"} => j.codes = {c}
                    /\ j.op = "del" => c \in DOMAIN db /\ j.old[c] = db[c]
  <2> DEFINE j == [pc |-> "write", op |-> o, codes |-> C, arg |-> a, old |-> Restrict(db, C \cap DOMAIN db), out |-> <<>>]
  <2>1. hand[h].pc = "idle" /\ hand' = [hand EXCEPT ![h] = j] /\ UNCHANGED <<db, rules, chans, rt, eng, req>> /\ History
    BY <1>1 DEF Begin
  <2>2. j.pc = "write" /\ j.op = o /\ j.codes = C /\ j.out = <<>> /\ j.old = Restrict(db, C \cap DOMAIN db)  OBVIOUS
  <2>3. o = "del" => j.old[c] = db[c]  BY <1>1, <2>2 DEF Restrict
  <2> HIDE DEF j
  <2>4. \A f \in Handlers : hand'[f] = IF f = h THEN j ELSE hand[f]  BY <2>1 DEF TypeInv, HandsOk
  <2> QED  BY <1>1, <2>1, <2>2, <2>3, <2>4
<1>2. CASE DelHostApi(h, c)  BY <1>1, <1>2 DEF DelHostApi
<1>3. CASE SaveRules(h, c)  BY <1>1, <1>3 DEF SaveRules
<1>4. CASE AddApi(h, c, s)  BY <1>1, <1>4 DEF AddApi
<1>5. CASE ModifyHostApi(h, c, s)  BY <1>1, <1>5 DEF ModifyHostApi
<1>6. CASE ModifyGuardStatusApi(h, c, g)  BY <1>1, <1>6 DEF ModifyGuardStatusApi
<1>7. CASE ModifyAllGuardStatusApi(h, g)  BY <1>1, <1>7 DEF ModifyAllGuardStatusApi
<1> QED  BY <1>2, <1>3, <1>4, <1>5, <1>6, <1>7 DEF Api

(* The database change of a request that adds, edits or deletes a site      *)
(* leaves the settings of the others alone; another request's those of all. *)
LEMMA WriteIs ==
  ASSUME TypeInv, NEW h \in Handlers, Write(h)
  PROVE  /\ hand[h].pc = "write" /\ UNCHANGED <<unborn, chMsg, rt, eng, req>> /\ History
         /\ \A g \in Handlers : hand'[g] = IF g = h THEN [hand[h] EXCEPT !.pc = "read"] ELSE hand[g]
         /\ LET u == [hand[h] EXCEPT !.pc = "read"] IN
            u.pc = "read" /\ u.op = hand[h].op /\ u.codes = hand[h].codes /\ u.old = hand[h].old /\ u.out = hand[h].out
         /\ \A c \in Codes : c \notin hand[h].codes \/ hand[h].op \notin {"add", "edit", "del"} =>
              (c \in DOMAIN db' <=> c \in DOMAIN db) /\ (c \in DOMAIN db => db'[c].cfg = db[c].cfg)
         /\ hand[h].op = "del" => DOMAIN db' = DOMAIN db \ hand[h].codes
         /\ DOMAIN db' \subseteq DOMAIN db \cup {c \in hand[h].codes : hand[h].op = "add"}
<1> DEFINE j == hand[h]
           u == [j EXCEPT !.pc = "read"]
<1>1. j.pc = "write" /\ UNCHANGED <<unborn, chMsg, rt, eng, req>> /\ History /\ hand' = [hand EXCEPT ![h] = u]
  BY DEF Write, chans
<1>2. RowsOk(db) /\ HandOk(j) /\ \A g \in Handlers : hand'[g] = IF g = h THEN u ELSE hand[g]
  BY <1>1 DEF TypeInv, DbOk, HandsOk
<1>3. u.pc = "read" /\ u.op = j.op /\ u.codes = j.codes /\ u.old = j.old /\ u.out = j.out  BY <1>2 DEF HandOk
<1>4. DOMAIN db' = CASE j.op = "add" -> DOMAIN db \cup j.codes
                     [] j.op = "del" -> DOMAIN db \ j.codes
                     [] OTHER -> DOMAIN db
  BY WriteDb
<1>5. ASSUME NEW c \in DOMAIN db, c \notin j.codes \/ j.op \notin {"add", "edit", "del"} PROVE db'[c].cfg = db[c].cfg
  <2>1. db[c] \in Row  BY <1>2 DEF RowsOk, RowOf
  <2> DEFINE v == [db[c] EXCEPT !.guard = j.arg]
  <2>2. v.cfg = db[c].cfg  BY <2>1 DEF Row
  <2> HIDE DEF v
  <2>3. CASE j.op = "add"
    <3>1. db' = Put(db, j.codes, [cfg |-> j.arg, guard |-> TRUE, cert |-> 0])  BY <2>3 DEF Write
    <3>2. c \notin j.codes  BY <1>5, <2>3
    <3> HIDE DEF j
    <3> QED  BY <3>1, <3>2 DEF Put
  <2>4. CASE j.op = "del"
    <3>1. db' = Without(db, j.codes)  BY <2>4 DEF Write
    <3>2. c \notin j.codes  BY <1>5, <2>4
    <3> HIDE DEF j
    <3> QED  BY <3>1, <3>2 DEF Without, Restrict
  <2>5. CASE j.op = "guardAll"
    <3>1. db' = [d \in DOMAIN db |-> [db[d] EXCEPT !.guard = j.arg]]  BY <2>5 DEF Write
    <3>2. db'[c] = v  BY <3>1 DEF v
    <3> QED  BY <2>2, <3>2
  <2>6. CASE j.op \notin {"add", "del", "guardAll"}
    <3> DEFINE w(d) == CASE j.op = "edit"  -> [db[d] EXCEPT !.cfg = j.arg]
                         [] j.op = "guard" -> [db[d] EXCEPT !.guard = j.arg]
                         [] OTHER          -> db[d]
    <3>1. db' = [d \in DOMAIN db |-> IF d \in j.codes THEN w(d) ELSE db[d]]  BY <2>6 DEF Write
    <3>2. c \in j.codes => w(c) = v \/ w(c) = db[c]  BY <1>5 DEF v
    <3> HIDE DEF w, j
    <3>3. db'[c] = IF c \in j.codes THEN w(c) ELSE db[c]  BY <3>1
    <3> QED  BY <2>2, <3>2, <3>3
  <2> QED  BY <2>3, <2>4, <2>5, <2>6
<1> HIDE DEF u, j
<1>6. j.op = "del" => DOMAIN db' = DOMAIN db \ j.codes  BY <1>4
<1>7. DOMAIN db' \subseteq DOMAIN db \cup {c \in j.codes : j.op = "add"}  BY <1>4
<1>8. \A c \in Codes : c \notin j.codes \/ j.op \notin {"add", "edit", "del"} => (c \in DOMAIN db' <=> c \in DOMAIN db)
  BY <1>4
<1> QED  BY <1>1, <1>2, <1>3, <1>5, <1>6, <1>7, <1>8 DEF u, j

(* The notice of a request that adds, edits or deletes a site is one        *)
(* message, with the row the database has or the row deleted.               *)
LEMMA NotifyOne ==
  ASSUME TypeInv, NEW h \in Handlers, Notify(h)
  PROVE  \E u : /\ hand[h].pc = "read" /\ UNCHANGED <<db, unborn, chMsg, rt, eng, req>> /\ History
                /\ \A g \in Handlers : hand'[g] = IF g = h THEN u ELSE hand[g]
                /\ u.pc = "send" /\ u.op = hand[h].op /\ u.codes = hand[h].codes
                /\ u.op = "rules" => \A i \in DOMAIN u.out : u.out[i].type = "rules"
                /\ \A c : u.codes = {c} /\ u.op \in {"add", "edit", "del"} =>
                     /\ Len(u.out) = 1 /\ u.out[1].code = c
                     /\ u.op = "del" => u.out[1].row = {hand[h].old[c]}
                     /\ u.op # "del" => u.out[1].type = "host" /\ (c \in DOMAIN db => u.out[1].row = {db[c]})
<1> DEFINE j == hand[h]
<1>1. HandOk(j) /\ j.pc = "read" /\ UNCHANGED <<db, unborn, chMsg, rt, eng, req>> /\ History
  BY DEF TypeInv, HandsOk, Notify, dbVars, chans
<1>2. PICK q \in Seq(OkMsg) :
        /\ hand' = [hand EXCEPT ![h] = [hand[h] EXCEPT !.pc = "send", !.out = q]] /\ Len(q) = Cardinality(j.codes)
        /\ \A i \in DOMAIN q : \E c \in j.codes : q[i] = Notice(j, c)
  BY NotifyIs
<1> DEFINE u == [j EXCEPT !.pc = "send", !.out = q]
<1>3. u.pc = "send" /\ u.op = j.op /\ u.codes = j.codes /\ u.out = q  BY <1>1 DEF HandOk
<1>4. \A g \in Handlers : hand'[g] = IF g = h THEN u ELSE hand[g]  BY <1>2 DEF TypeInv, HandsOk
<1> HIDE DEF u, j
<1>5. j.op = "rules" => \A i \in DOMAIN q : q[i].type = "rules"  BY <1>1, <1>2, NoticeOk
<1>6. ASSUME NEW c, j.codes = {c}, j.op \in {"add", "edit", "del"}
      PROVE  /\ Len(q) = 1 /\ q[1].code = c
             /\ j.op = "del" => q[1].row = {j.old[c]}
             /\ j.op # "del" => q[1].type = "host" /\ (c \in DOMAIN db => q[1].row = {db[c]})
  <2>1. Len(q) = 1  BY <1>2, <1>6, FS_Singleton
  <2>2. 1 \in DOMAIN q  BY <2>1
  <2>3. q[1] = Notice(j, c)  BY <1>2, <1>6, <2>2
  <2> QED  BY <1>1, <1>6, <2>1, <2>3, NoticeOk
<1> QED  BY <1>1, <1>3, <1>4, <1>5, <1>6 DEF j

LEMMA SendOne ==
  ASSUME TypeInv, NEW h \in Handlers, HandShape(hand[h]), Send(h)
  PROVE  LET j == hand[h]
             m == Head(j.out)
         IN  /\ j.pc = "send" /\ UNCHANGED <<db, unborn, rt, eng, req>> /\ History /\ m \in OkMsg
             /\ chMsg' = IF j.op \in {"guard", "guardAll"} THEN chMsg ELSE Append(chMsg, m)
             /\ j.op = "rules" => m.type = "rules"
             /\ j.op \in {"add", "edit", "del"} => m = j.out[1]
             /\ \E u : /\ \A g \in Handlers : hand'[g] = IF g = h THEN u ELSE hand[g]
                       /\ HandShape(u)
                       /\ u.pc = "idle" \/ (u.pc = "send" /\ u.op = j.op /\ u.op \notin {"add", "edit", "del"})
<1> DEFINE j == hand[h]
           u == IF Len(j.out) = 1 THEN Idle
                ELSE [j EXCEPT !.out = Tail(@), !.codes = @ \ {Head(j.out).code}]
<1>1. /\ hand' = [hand EXCEPT ![h] = u] /\ Head(j.out) \in OkMsg /\ j.pc = "send"
      /\ u = Idle \/ (u.pc = "send" /\ u.op = j.op /\ u.codes \subseteq j.codes /\ u.out = Tail(j.out))
  BY SendIs
<1>2. Len(j.out) = 1 => u = Idle  OBVIOUS
<1> HIDE DEF u
<1>3. UNCHANGED <<db, unborn, rt, eng, req>> /\ History  BY DEF Send, dbVars
<1>4. chMsg' = IF j.op \in {"guard", "guardAll"} THEN chMsg ELSE Append(chMsg, Head(j.out))  BY DEF Send
<1>5. \A g \in Handlers : hand'[g] = IF g = h THEN u ELSE hand[g]  BY <1>1 DEF TypeInv, HandsOk
<1>6. j.out \in Seq(OkMsg) /\ j.out # <<>>  BY <1>1 DEF TypeInv, HandsOk, HandOk
<1> HIDE DEF j
<1>7. Len(j.out) \in Nat /\ 1 \in DOMAIN j.out /\ Head(j.out) = j.out[1]  BY <1>6
<1>8. \A i \in DOMAIN Tail(j.out) : i + 1 \in DOMAIN j.out /\ Tail(j.out)[i] = j.out[i + 1]  BY <1>6
<1>9. j.op = "rules" => \A i \in DOMAIN j.out : j.out[i].type = "rules"  BY DEF HandShape, j
<1>10. j.op \in {"add", "edit", "del"} => u = Idle  BY <1>1, <1>2 DEF HandShape, j
<1>11. HandShape(Idle) /\ Idle.pc = "idle"  BY DEF HandShape, Idle
<1>12. HandShape(u)
  <2>1. CASE u = Idle  BY <1>11, <2>1
  <2>2. CASE u # Idle
    <3>1. u.op = j.op /\ u.out = Tail(j.out) /\ u.op \notin {"add", "edit", "del"}  BY <1>1, <1>10, <2>2
    <3> QED  BY <1>8, <1>9, <3>1 DEF HandShape
  <2> QED  BY <2>1, <2>2
<1>13. u.pc = "idle" \/ (u.pc = "send" /\ u.op = j.op /\ u.op \notin {"add", "edit", "del"})  BY <1>1, <1>10, <1>11
<1> QED  BY <1>1, <1>3, <1>4, <1>5, <1>7, <1>9, <1>12, <1>13 DEF j

LEMMA ShapeHand ==
  ASSUME ShapeInv, NEW h \in Handlers, NEW u, HandShape(u), \A g \in Handlers : hand'[g] = IF g = h THEN u ELSE hand[g],
         UNCHANGED eng
  PROVE  ShapeInv'
  BY DEF ShapeInv

LEMMA HandleShape ==
  ASSUME TypeInv, ShapeInv, NEW h \in Handlers, Handle(h) PROVE ShapeInv'
<1>1. CASE Write(h)
  <2> DEFINE u == [hand[h] EXCEPT !.pc = "read"]
  <2>1. UNCHANGED eng /\ \A g \in Handlers : hand'[g] = IF g = h THEN u ELSE hand[g]  BY <1>1, WriteIs
  <2>2. hand[h].pc = "write" /\ u.pc = "read" /\ u.op = hand[h].op /\ u.codes = hand[h].codes /\ u.out = hand[h].out
    BY <1>1, WriteIs
  <2> HIDE DEF u
  <2>3. HandShape(u)  BY <2>2 DEF ShapeInv, HandShape
  <2> QED  BY <2>1, <2>3, ShapeHand
<1>2. CASE Notify(h)
  <2>1. PICK u : /\ hand[h].pc = "read" /\ UNCHANGED <<db, unborn, chMsg, rt, eng, req>> /\ History
                 /\ \A g \in Handlers : hand'[g] = IF g = h THEN u ELSE hand[g]
                 /\ u.pc = "send" /\ u.op = hand[h].op /\ u.codes = hand[h].codes
                 /\ u.op = "rules" => \A i \in DOMAIN u.out : u.out[i].type = "rules"
                 /\ \A c : u.codes = {c} /\ u.op \in {"add", "edit", "del"} =>
                      /\ Len(u.out) = 1 /\ u.out[1].code = c
                      /\ u.op = "del" => u.out[1].row = {hand[h].old[c]}
                      /\ u.op # "del" => u.out[1].type = "host" /\ (c \in DOMAIN db => u.out[1].row = {db[c]})
    BY <1>2, NotifyOne
  <2>2. HandShape(u)  BY <2>1 DEF ShapeInv, HandShape
  <2> QED  BY <2>1, <2>2, ShapeHand
<1>3. CASE Send(h)
  <2>1. UNCHANGED eng /\ \E u : HandShape(u) /\ \A g \in Handlers : hand'[g] = IF g = h THEN u ELSE hand[g]
    BY <1>3, SendOne DEF ShapeInv
  <2> QED  BY <2>1, ShapeHand
<1> QED  BY <1>1, <1>2, <1>3 DEF Handle

LEMMA ApiShape ==
  ASSUME TypeInv, ShapeInv, NEW h \in Handlers, NEW c \in Codes, NEW g, NEW s, Api(h, c, g, s) PROVE ShapeInv'
<1>1. PICK j : /\ UNCHANGED eng /\ \A f \in Handlers : hand'[f] = IF f = h THEN j ELSE hand[f]
               /\ j.pc = "write" /\ j.out = <<>> /\ (j.op \in {"add", "edit", "del"} => j.codes = {c})
  BY ApiIs
<1>2. HandShape(j)  BY <1>1 DEF HandShape
<1> QED  BY <1>1, <1>2, ShapeHand

LEMMA EngineShape == ASSUME TypeInv, ShapeInv, EngineStep PROVE ShapeInv'
<1>1. UNCHANGED hand
  BY DEF EngineStep, TakeMsg, TakeHost, TakeEngine, ReloadOne, TakeSSL, SendSSL, RenewDone, UpdateSSLInfo
<1>2. CASE UNCHANGED eng  BY <1>1, <1>2 DEF ShapeInv
<1>3. CASE eng' = Loop  BY <1>1, <1>3, LoopOk DEF ShapeInv
<1>4. CASE TakeEngine
  <2>1. eng'.pc = "load" /\ eng'.out = <<>>  BY <1>4, OrderStarts DEF TakeEngine
  <2> QED  BY <1>1, <2>1 DEF ShapeInv
<1>5. CASE TakeSSL
  <2>1. eng'.pc = "renew" /\ eng'.out = <<>> /\ eng'.rows = <<>> /\ eng'.gone = <<>>  BY <1>5, OrderStarts DEF TakeSSL
  <2> QED  BY <1>1, <2>1 DEF ShapeInv
<1>6. CASE SendSSL
  <2>1. eng'.pc = eng.pc /\ eng'.out = <<>> /\ eng'.rows = eng.rows /\ eng'.gone = eng.gone
    BY <1>6, SendSSLType DEF SendSSL, TypeInv, EngOk
  <2> QED  BY <1>1, <2>1 DEF ShapeInv
<1>7. ASSUME NEW c \in Codes, UpdateSSLInfo(c) PROVE ShapeInv'
  <2>1. eng'.pc = eng.pc /\ eng.pc = "renew" /\ eng'.rows = eng.rows /\ eng'.gone = eng.gone
        /\ \A i \in DOMAIN eng'.out : eng'.out[i].type = "ssl"
    BY <1>7, UpdateSSLIs DEF UpdateSSLInfo
  <2> QED  BY <1>1, <2>1 DEF ShapeInv
<1>8. CASE ReloadOne
  <2>1. eng.pc = "load" /\ (eng' = Loop \/ (\E c : eng' = [eng EXCEPT !.rows = Without(@, {c})])
                             \/ (\E c : eng' = [eng EXCEPT !.gone = Without(@, {c})]))
    BY <1>8 DEF ReloadOne
  <2>2. eng' = Loop \/ (eng'.pc = eng.pc /\ eng'.out = eng.out)  BY <2>1 DEF TypeInv, EngOk
  <2> QED  BY <1>1, <1>3, <2>1, <2>2 DEF ShapeInv
<1> QED  BY <1>2, <1>3, <1>4, <1>5, <1>6, <1>7, <1>8 DEF EngineStep, TakeMsg, TakeHost, RenewDone

-----------------------------------------------------------------------------
(* Changes of a site that overlap *)

LEMMA BlurIs ==
  ASSUME History, NEW c \in Codes, c \notin blur'
  PROVE  /\ ~ Overlap(c)'
         /\ c \notin blur \/ (eng.pc = "loop" /\ eng'.pc = "load" /\ ~ Pending(c) /\ c \in DOMAIN db)
  BY DEF History

LEMMA BlurStep == ASSUME History PROVE BlurInv'
  BY DEF History, BlurInv

(* Two requests, or a request and the loop's renewal, about a site overlap. *)
LEMMA Alone ==
  ASSUME NEW c, ~ Overlap(c), NEW h \in Handlers, hand[h].pc # "idle", c \in hand[h].codes
  PROVE  /\ \A g \in Handlers \ {h} : hand[g].pc = "idle" \/ c \notin hand[g].codes
         /\ \A i \in DOMAIN eng.out : eng.out[i].code # c
<1>1. h \in Busy(c)  BY DEF Busy
<1>2. \A g \in Busy(c) : g = h  BY <1>1 DEF Overlap
<1>3. ASSUME NEW g \in Handlers \ {h}, hand[g].pc # "idle", c \in hand[g].codes PROVE FALSE
  <2>1. g \in Busy(c)  BY <1>3 DEF Busy
  <2> QED  BY <1>2, <2>1
<1>4. ASSUME NEW i \in DOMAIN eng.out, eng.out[i].code = c PROVE FALSE
  <2>1. eng.out[i] \in Of(Range(eng.out), c)  BY <1>4 DEF Of, Range
  <2>2. "loop" \in Busy(c)  BY <2>1 DEF Busy
  <2> QED  BY <1>2, <2>2, RoutingAssumption
<1> QED  BY <1>3, <1>4

LEMMA AloneNext ==
  ASSUME NEW c, ~ Overlap(c)', NEW h \in Handlers, hand'[h].pc # "idle", c \in hand'[h].codes
  PROVE  \A g \in Handlers \ {h} : hand'[g].pc = "idle" \/ c \notin hand'[g].codes
<1> SUFFICES ASSUME NEW g \in Handlers \ {h}, hand'[g].pc # "idle", c \in hand'[g].codes PROVE FALSE  OBVIOUS
<1>1. h \in Busy(c)' /\ g \in Busy(c)'  BY DEF Busy
<1> QED  BY <1>1 DEF Overlap

(* A site nothing is under way about. *)
LEMMA NotPending ==
  ASSUME NEW c, ~ Pending(c)
  PROVE  /\ \A h \in Handlers : hand[h].pc = "idle" \/ c \notin hand[h].codes
         /\ \A i \in DOMAIN chMsg : chMsg[i].code # c
<1>1. Busy(c) = {} /\ OnMsg(c) = {}  BY DEF Pending
<1>2. ASSUME NEW i \in DOMAIN chMsg, chMsg[i].code = c PROVE FALSE
  <2>1. chMsg[i] \in OnMsg(c)  BY <1>2 DEF OnMsg, Of, Range
  <2> QED  BY <1>1, <2>1
<1>3. \A h \in Handlers : hand[h].pc = "idle" \/ c \notin hand[h].codes  BY <1>1 DEF Busy
<1> QED  BY <1>2, <1>3

LEMMA TheOne == ASSUME NEW x PROVE The({x}) = x
  BY DEF The

-----------------------------------------------------------------------------
(* The rows the loop is told, step by step *)

(* Neither the requests nor the channel moves. *)
LEMMA TipsMove ==
  ASSUME NEW c \in Codes, Tips(c), UNCHANGED <<hand, chMsg>>,
         \A n, s : TipNow(c, n, s) => Tip(chMsg', eng'.rows, rt', c, n, s),
         c \in DOMAIN db' <=> c \in DOMAIN db, c \in DOMAIN db => db'[c].cfg = db[c].cfg, OutTip(c)', GoneTip(c)'
  PROVE  Tips(c)'
<1>1. LiveTip(c)'  BY DEF Tips, LiveTip, TipNow
<1>2. \A h \in Handlers : HandTip(hand[h], c)'  BY DEF Tips, HandTip, TipNow
<1>3. DelTip(c)'  BY DEF Tips, DelTip, TipNow
<1> QED  BY <1>1, <1>2, <1>3 DEF Tips

(* Nothing moves but the database's other columns, or the loop's renewal.   *)
LEMMA TipsStay ==
  ASSUME NEW c \in Codes, Tips(c), UNCHANGED <<hand, chMsg>>, eng'.rows = eng.rows, Same(rt, rt', c),
         c \in DOMAIN db' <=> c \in DOMAIN db, c \in DOMAIN db => db'[c].cfg = db[c].cfg, OutTip(c)', GoneTip(c)'
  PROVE  Tips(c)'
<1>1. \A n, s : TipNow(c, n, s) => Tip(chMsg', eng'.rows, rt', c, n, s)  BY TipTable DEF TipNow
<1> QED  BY <1>1, TipsMove

LEMMA ApiTips ==
  ASSUME TypeInv, BlurInv, TipInv, NEW h \in Handlers, NEW d \in Codes, NEW b, NEW s, Api(h, d, b, s) PROVE TipInv'
<1> SUFFICES ASSUME NEW c \in Codes, c \notin blur' PROVE Tips(c)'  BY DEF TipInv
<1>1. PICK j : /\ hand[h].pc = "idle" /\ UNCHANGED <<db, rules, chans, rt, eng, req>> /\ History
               /\ \A f \in Handlers : hand'[f] = IF f = h THEN j ELSE hand[f]
               /\ j.pc = "write" /\ j.out = <<>>
               /\ j.op \in {"add", "edit", "del"} => j.codes = {d}
               /\ j.op = "del" => d \in DOMAIN db /\ j.old[d] = db[d]
  BY ApiIs
<1>2. UNCHANGED <<db, chMsg, rt, eng>>  BY <1>1 DEF chans
<1>3. c \notin blur /\ ~ Overlap(c)'  BY <1>1, BlurIs
<1>4. Tips(c)  BY <1>3 DEF TipInv
<1>5. \A g \in Handlers : Writes(hand'[g], c) <=> Writes(hand[g], c)  BY <1>1 DEF Writes
<1>6. LiveTip(c)'  BY <1>2, <1>4, <1>5 DEF Tips, LiveTip, TipNow
<1>7. ASSUME Deletes(j, c) PROVE c \in DOMAIN db /\ j.old[c] = db[c] /\ TipNow(c, End(chMsg), db[c].cfg)
  <2>1. c = d /\ c \in j.codes /\ c \in DOMAIN db /\ j.old[c] = db[c]  BY <1>1, <1>7 DEF Deletes
  <2>2. \A g \in Handlers \ {h} : hand'[g].pc = "idle" \/ c \notin hand'[g].codes  BY <1>1, <1>3, <2>1, AloneNext
  <2>3. \A g \in Handlers : ~ Writes(hand[g], c)  BY <1>1, <2>2 DEF Writes
  <2> QED  BY <1>4, <2>1, <2>3 DEF Tips, LiveTip
<1>8. ASSUME NEW g \in Handlers PROVE HandTip(hand[g], c)'
  <2>1. CASE g = h  BY <1>1, <1>2, <1>7, <2>1 DEF HandTip, TipNow
  <2>2. CASE g # h  BY <1>1, <1>2, <1>4, <2>2 DEF Tips, HandTip, TipNow
  <2> QED  BY <2>1, <2>2
<1>9. DelTip(c)' /\ OutTip(c)' /\ GoneTip(c)'  BY <1>2, <1>4 DEF Tips, DelTip, OutTip, GoneTip, TipNow
<1> QED  BY <1>6, <1>8, <1>9 DEF Tips

LEMMA WriteTips ==
  ASSUME TypeInv, BlurInv, TipInv, NEW h \in Handlers, Write(h) PROVE TipInv'
<1> SUFFICES ASSUME NEW c \in Codes, c \notin blur' PROVE Tips(c)'  BY DEF TipInv
<1> DEFINE j == hand[h]
           u == [j EXCEPT !.pc = "read"]
<1>1. /\ j.pc = "write" /\ UNCHANGED <<chMsg, rt, eng>> /\ History
      /\ \A g \in Handlers : hand'[g] = IF g = h THEN u ELSE hand[g]
      /\ u.pc = "read" /\ u.op = j.op /\ u.codes = j.codes /\ u.old = j.old
      /\ c \notin j.codes \/ j.op \notin {"add", "edit", "del"} =>
           (c \in DOMAIN db' <=> c \in DOMAIN db) /\ (c \in DOMAIN db => db'[c].cfg = db[c].cfg)
      /\ j.op = "del" => DOMAIN db' = DOMAIN db \ j.codes
  BY WriteIs
<1> HIDE DEF u
<1>2. c \notin blur /\ ~ Overlap(c)  BY <1>1, BlurIs DEF BlurInv
<1>3. Tips(c)  BY <1>2 DEF TipInv
<1>4. DelTip(c)' /\ GoneTip(c)'  BY <1>1, <1>3 DEF Tips, DelTip, GoneTip, TipNow
<1>5. CASE c \notin j.codes \/ j.op \notin {"add", "edit", "del"}
  <2>1. (c \in DOMAIN db' <=> c \in DOMAIN db) /\ (c \in DOMAIN db => db'[c].cfg = db[c].cfg)  BY <1>1, <1>5
  <2>2. \A g \in Handlers : Writes(hand'[g], c) <=> Writes(hand[g], c)  BY <1>1, <1>5 DEF Writes
  <2>3. LiveTip(c)'  BY <1>1, <1>3, <2>1, <2>2 DEF Tips, LiveTip, TipNow
  <2>4. ASSUME NEW g \in Handlers PROVE HandTip(hand[g], c)'
    <3>1. CASE g = h  BY <1>1, <1>5, <3>1 DEF HandTip, Deletes
    <3>2. CASE g # h  BY <1>1, <1>3, <2>1, <3>2 DEF Tips, HandTip, TipNow
    <3> QED  BY <3>1, <3>2
  <2>5. OutTip(c)'  BY <1>1, <1>3, <2>1 DEF Tips, OutTip
  <2> QED  BY <1>4, <2>3, <2>4, <2>5 DEF Tips
<1>6. CASE c \in j.codes /\ j.op \in {"add", "edit", "del"}
  <2>1. /\ \A g \in Handlers \ {h} : hand[g].pc = "idle" \/ c \notin hand[g].codes
        /\ \A i \in DOMAIN eng.out : eng.out[i].code # c
    BY <1>1, <1>2, <1>6, Alone
  <2>2. LiveTip(c)'
    <3>1. CASE j.op = "del"  BY <1>1, <1>6, <3>1 DEF LiveTip
    <3>2. CASE j.op # "del"
      <4>1. Writes(hand'[h], c)  BY <1>1, <1>6, <3>2 DEF Writes
      <4> QED  BY <4>1 DEF LiveTip
    <3> QED  BY <3>1, <3>2
  <2>3. ASSUME NEW g \in Handlers PROVE HandTip(hand[g], c)'
    <3>1. CASE g = h
      <4>1. Deletes(u, c) => Deletes(j, c) /\ c \notin DOMAIN db'  BY <1>1 DEF Deletes
      <4>2. Deletes(j, c) => TipNow(c, End(chMsg), j.old[c].cfg)  BY <1>3 DEF Tips, HandTip
      <4> QED  BY <1>1, <3>1, <4>1, <4>2 DEF HandTip, TipNow
    <3>2. CASE g # h
      <4>1. hand'[g] = hand[g] /\ (hand[g].pc = "idle" \/ c \notin hand[g].codes)  BY <1>1, <2>1, <3>2
      <4> QED  BY <4>1 DEF HandTip, Deletes
    <3> QED  BY <3>1, <3>2
  <2>4. OutTip(c)'  BY <1>1, <2>1 DEF OutTip
  <2> QED  BY <1>4, <2>2, <2>3, <2>4 DEF Tips
<1> QED  BY <1>5, <1>6

LEMMA NotifyTips ==
  ASSUME TypeInv, ShapeInv, TipInv, NEW h \in Handlers, Notify(h) PROVE TipInv'
<1> SUFFICES ASSUME NEW c \in Codes, c \notin blur' PROVE Tips(c)'  BY DEF TipInv
<1> DEFINE j == hand[h]
<1>1. PICK u : /\ hand[h].pc = "read" /\ UNCHANGED <<db, unborn, chMsg, rt, eng, req>> /\ History
               /\ \A g \in Handlers : hand'[g] = IF g = h THEN u ELSE hand[g]
               /\ u.pc = "send" /\ u.op = hand[h].op /\ u.codes = hand[h].codes
               /\ u.op = "rules" => \A i \in DOMAIN u.out : u.out[i].type = "rules"
               /\ \A x : u.codes = {x} /\ u.op \in {"add", "edit", "del"} =>
                    /\ Len(u.out) = 1 /\ u.out[1].code = x
                    /\ u.op = "del" => u.out[1].row = {hand[h].old[x]}
                    /\ u.op # "del" => u.out[1].type = "host" /\ (x \in DOMAIN db => u.out[1].row = {db[x]})
  BY NotifyOne
<1>2. c \notin blur  BY <1>1, BlurIs
<1>3. Tips(c)  BY <1>2 DEF TipInv
<1>4. DelTip(c)' /\ GoneTip(c)' /\ OutTip(c)'  BY <1>1, <1>3 DEF Tips, DelTip, GoneTip, OutTip, TipNow
<1>5. \A g \in Handlers : Writes(hand'[g], c) <=> Writes(hand[g], c)  BY <1>1 DEF Writes
<1>6. LiveTip(c)'  BY <1>1, <1>3, <1>5 DEF Tips, LiveTip, TipNow
<1>7. ASSUME c \in j.codes, j.op \in {"add", "edit", "del"}
      PROVE  /\ j.op = "del" => TipNow(c, End(chMsg), The(u.out[1].row).cfg)
             /\ j.op # "del" /\ c \in DOMAIN db => u.out[1].row # {} /\ The(u.out[1].row).cfg = db[c].cfg
  <2>1. u.codes = {c}  BY <1>1, <1>7 DEF ShapeInv, HandShape
  <2>2. CASE j.op = "del"
    <3>1. u.out[1].row = {j.old[c]}  BY <1>1, <2>1, <2>2
    <3>2. TipNow(c, End(chMsg), j.old[c].cfg)  BY <1>1, <1>3, <1>7, <2>2 DEF Tips, HandTip, Deletes
    <3> QED  BY <2>2, <3>1, <3>2, TheOne
  <2>3. CASE j.op # "del"
    <3>1. c \in DOMAIN db => u.out[1].row = {db[c]}  BY <1>1, <1>7, <2>1, <2>3
    <3> QED  BY <2>3, <3>1, TheOne
  <2> QED  BY <2>2, <2>3
<1>8. ASSUME NEW g \in Handlers PROVE HandTip(hand[g], c)'
  <2>1. CASE g = h
    <3>1. ~ Deletes(u, c)  BY <1>1 DEF Deletes
    <3> QED  BY <1>1, <1>7, <2>1, <3>1 DEF HandTip, TipNow
  <2>2. CASE g # h  BY <1>1, <1>3, <2>2 DEF Tips, HandTip, TipNow
  <2> QED  BY <2>1, <2>2
<1> QED  BY <1>4, <1>6, <1>8 DEF Tips

(* A message is sent to the loop. *)
LEMMA SentTips ==
  ASSUME chMsg \in Seq(OkMsg), NEW m \in OkMsg, chMsg' = Append(chMsg, m), UNCHANGED rt, eng'.rows = eng.rows, NEW c
  PROVE  /\ \A s : ~ Carries(m, c) /\ TipNow(c, End(chMsg), s) => Tip(chMsg', eng'.rows, rt', c, End(chMsg'), s)
         /\ Carries(m, c) => Tip(chMsg', eng'.rows, rt', c, End(chMsg'), The(m.row).cfg)
         /\ DelTip(c) /\ (m.code = c /\ m.type = "del" => TipNow(c, End(chMsg), The(m.row).cfg)) => DelTip(c)'
<1>1. \A s : /\ \A n \in 1..End(chMsg) : TipNow(c, n, s) => Tip(chMsg', eng'.rows, rt', c, n, s)
             /\ ~ Carries(m, c) /\ TipNow(c, End(chMsg), s) => Tip(chMsg', eng'.rows, rt', c, End(chMsg'), s)
             /\ Carries(m, c) /\ The(m.row).cfg = s => Tip(chMsg', eng'.rows, rt', c, End(chMsg'), s)
  BY TipSent DEF TipNow
<1>2. /\ \A i \in DOMAIN chMsg : chMsg'[i] = chMsg[i]
      /\ DOMAIN chMsg' = DOMAIN chMsg \cup {End(chMsg)} /\ chMsg'[End(chMsg)] = m
  BY BeforeAppend
<1>3. End(chMsg) \in 1..End(chMsg) /\ DOMAIN chMsg \subseteq 1..End(chMsg)  BY DEF End
<1>4. ASSUME DelTip(c), m.code = c /\ m.type = "del" => TipNow(c, End(chMsg), The(m.row).cfg),
             NEW i \in DOMAIN chMsg', chMsg'[i].code = c, chMsg'[i].type = "del"
      PROVE  Tip(chMsg', eng'.rows, rt', c, i, The(chMsg'[i].row).cfg)
  <2>1. i \in 1..End(chMsg)  BY <1>2, <1>3
  <2>2. TipNow(c, i, The(chMsg'[i].row).cfg)
    <3>1. CASE i \in DOMAIN chMsg  BY <1>2, <1>4, <3>1 DEF DelTip
    <3>2. CASE i = End(chMsg)  BY <1>2, <1>4, <3>2
    <3> QED  BY <1>2, <3>1, <3>2
  <2> QED  BY <1>1, <2>1, <2>2
<1>5. DelTip(c) /\ (m.code = c /\ m.type = "del" => TipNow(c, End(chMsg), The(m.row).cfg)) => DelTip(c)'
  BY <1>4 DEF DelTip, TipNow
<1> QED  BY <1>1, <1>5


LEMMA SendTips ==
  ASSUME TypeInv, SiteInv, ShapeInv, BlurInv, TipInv, NEW h \in Handlers, Send(h) PROVE TipInv'
<1> SUFFICES ASSUME NEW c \in Codes, c \notin blur' PROVE Tips(c)'  BY DEF TipInv
<1> DEFINE j == hand[h]
           m == Head(j.out)
<1>1. HandShape(j)  BY DEF ShapeInv
<1>2. /\ j.pc = "send" /\ UNCHANGED <<db, unborn, rt, eng, req>> /\ History /\ m \in OkMsg
      /\ chMsg' = IF j.op \in {"guard", "guardAll"} THEN chMsg ELSE Append(chMsg, m)
      /\ j.op = "rules" => m.type = "rules"
      /\ j.op \in {"add", "edit", "del"} => m = j.out[1]
  BY <1>1, SendOne
<1>3. PICK u : /\ \A g \in Handlers : hand'[g] = IF g = h THEN u ELSE hand[g]
               /\ HandShape(u)
               /\ u.pc = "idle" \/ (u.pc = "send" /\ u.op = j.op /\ u.op \notin {"add", "edit", "del"})
  BY <1>1, SendOne
<1>4. c \notin blur /\ ~ Overlap(c)  BY <1>2, BlurIs DEF BlurInv
<1>5. Tips(c)  BY <1>4 DEF TipInv
<1>6. OutTip(c)' /\ GoneTip(c)'  BY <1>2, <1>5 DEF Tips, OutTip, GoneTip
<1>7. chMsg \in Seq(OkMsg) /\ HandBorn(j, Known, Dead) /\ HandOk(j)
  BY DEF TypeInv, ChanOk, HandsOk, SiteInv, BornInv
<1>8. j.op \in {"add", "edit", "del"} => j.codes = {m.code} /\ (j.op # "del" => m.type = "host")
  BY <1>1, <1>2 DEF HandShape
<1>9. HandTip(j, c)  BY <1>5 DEF Tips
<1>10. CASE c \in j.codes /\ j.op \in {"add", "edit", "del"}
  <2>1. chMsg' = Append(chMsg, m) /\ m = j.out[1] /\ m.code = c /\ u.pc = "idle"  BY <1>2, <1>3, <1>8, <1>10
  <2>2. \A g \in Handlers \ {h} : hand[g].pc = "idle" \/ c \notin hand[g].codes  BY <1>2, <1>4, <1>10, Alone
  <2>3. \A g \in Handlers : hand'[g].pc = "idle" \/ c \notin hand'[g].codes  BY <1>3, <2>1, <2>2
  <2>4. \A g \in Handlers : HandTip(hand[g], c)'
    <3> SUFFICES ASSUME NEW g \in Handlers PROVE HandTip(hand[g], c)'  OBVIOUS
    <3> QED  BY <2>3 DEF HandTip, Deletes
  <2>5. LiveTip(c)'
    <3>1. CASE j.op = "del"
      <4>1. c \notin DOMAIN db  BY <1>2, <1>7, <1>10, <3>1 DEF HandBorn, Dead
      <4> QED  BY <1>2, <4>1 DEF LiveTip
    <3>2. CASE j.op # "del"
      <4> SUFFICES ASSUME c \in DOMAIN db PROVE Tip(chMsg', eng'.rows, rt', c, End(chMsg'), db[c].cfg)
        BY <1>2 DEF LiveTip, TipNow
      <4>1. m.row # {} /\ The(m.row).cfg = db[c].cfg  BY <1>2, <1>9, <1>10, <2>1, <3>2 DEF HandTip
      <4>2. Carries(m, c)  BY <1>8, <1>10, <2>1, <3>2, <4>1 DEF Carries
      <4> QED  BY <1>2, <1>7, <2>1, <4>1, <4>2, SentTips
    <3> QED  BY <3>1, <3>2
  <2>6. m.type = "del" => j.op = "del"  BY <1>8, <1>10
  <2>7. m.type = "del" => TipNow(c, End(chMsg), The(m.row).cfg)  BY <1>2, <1>9, <1>10, <2>1, <2>6 DEF HandTip
  <2>8. DelTip(c)'  BY <1>2, <1>5, <1>7, <2>1, <2>7, SentTips DEF Tips
  <2> QED  BY <1>6, <2>4, <2>5, <2>8 DEF Tips
<1>11. CASE ~ (c \in j.codes /\ j.op \in {"add", "edit", "del"})
  <2>1. j.op \in {"add", "edit", "del", "rules", "guard", "guardAll"}  BY <1>7 DEF HandOk, ApiOps, Ops
  <2>2. chMsg' = chMsg \/ (chMsg' = Append(chMsg, m) /\ ~ Carries(m, c) /\ ~ (m.code = c /\ m.type = "del"))
    BY <1>2, <1>8, <1>11, <2>1 DEF Carries
  <2>3. (\A s : TipNow(c, End(chMsg), s) => Tip(chMsg', eng'.rows, rt', c, End(chMsg'), s)) /\ DelTip(c)'
    <3>1. CASE chMsg' = chMsg  BY <1>2, <1>5, <3>1 DEF Tips, DelTip, TipNow
    <3>2. CASE chMsg' # chMsg  BY <1>2, <1>5, <1>7, <2>2, <3>2, SentTips DEF Tips
    <3> QED  BY <3>1, <3>2
  <2>4. \A g \in Handlers : Writes(hand'[g], c) <=> Writes(hand[g], c)  BY <1>3, <1>11 DEF Writes
  <2>5. LiveTip(c)'  BY <1>2, <1>5, <2>3, <2>4 DEF Tips, LiveTip, TipNow
  <2>6. ASSUME NEW g \in Handlers PROVE HandTip(hand[g], c)'
    <3>1. CASE g = h  BY <1>3, <3>1 DEF HandTip, Deletes
    <3>2. CASE g # h  BY <1>2, <1>3, <1>5, <2>3, <3>2 DEF Tips, HandTip, TipNow
    <3> QED  BY <3>1, <3>2
  <2> QED  BY <1>6, <2>3, <2>5, <2>6 DEF Tips
<1> QED  BY <1>10, <1>11

LEMMA TakeMsgTips ==
  ASSUME Apart, OneName, TypeInv, TabInv(rt), ShapeInv, TipInv, TakeMsg PROVE TipInv'
<1> SUFFICES ASSUME NEW c \in Codes, c \notin blur' PROVE Tips(c)'  BY DEF TipInv
<1> DEFINE m == Head(chMsg)
<1>1. /\ UNCHANGED <<db, eng, hand>> /\ History /\ eng.pc = "loop" /\ chMsg # <<>>
      /\ rt' = Apply(rt, m) /\ chMsg' = Tail(chMsg)
  BY DEF TakeMsg, dbVars
<1>2. eng.rows = <<>> /\ eng'.rows = <<>> /\ eng.gone = <<>>  BY <1>1 DEF ShapeInv
<1>3. chMsg \in Seq(OkMsg) /\ m \in OkMsg  BY <1>1, QueueIs DEF TypeInv, ChanOk
<1>4. Applied(rt, rt', m)  BY <1>1, <1>3, ApplyOne DEF TypeInv
<1>5. c \notin blur  BY <1>1, BlurIs
<1>6. Tips(c)  BY <1>5 DEF TipInv
<1>7. \A n \in 2..End(chMsg) : \A s : TipNow(c, n, s) => Tip(chMsg', eng'.rows, rt', c, n - 1, s)
  BY <1>1, <1>2, <1>3, <1>4, TipTaken DEF TipNow
<1>8. /\ End(chMsg) \in 2..End(chMsg) /\ End(chMsg') = End(chMsg) - 1
      /\ \A i \in DOMAIN chMsg' : /\ i + 1 \in DOMAIN chMsg /\ chMsg'[i] = chMsg[i + 1]
                                  /\ i + 1 \in 2..End(chMsg) /\ i = (i + 1) - 1
  BY <1>1, <1>3 DEF End
<1> HIDE DEF m
<1>9. \A s : TipNow(c, End(chMsg), s) => Tip(chMsg', eng'.rows, rt', c, End(chMsg'), s)  BY <1>7, <1>8
<1>10. LiveTip(c)'  BY <1>1, <1>6, <1>9 DEF Tips, LiveTip, TipNow
<1>11. \A h \in Handlers : HandTip(hand[h], c)'  BY <1>1, <1>6, <1>9 DEF Tips, HandTip, TipNow
<1>12. DelTip(c)'
  <2> SUFFICES ASSUME NEW i \in DOMAIN chMsg', chMsg'[i].code = c, chMsg'[i].type = "del"
               PROVE  Tip(chMsg', eng'.rows, rt', c, i, The(chMsg'[i].row).cfg)
    BY DEF DelTip, TipNow
  <2>1. TipNow(c, i + 1, The(chMsg'[i].row).cfg)  BY <1>6, <1>8 DEF Tips, DelTip
  <2>2. Tip(chMsg', eng'.rows, rt', c, (i + 1) - 1, The(chMsg'[i].row).cfg)  BY <1>7, <1>8, <2>1
  <2> QED  BY <1>8, <2>2
<1>13. OutTip(c)'  BY <1>1, <1>6 DEF Tips, OutTip
<1>14. GoneTip(c)'  BY <1>1, <1>2 DEF GoneTip
<1> QED  BY <1>10, <1>11, <1>12, <1>13, <1>14 DEF Tips

(* The protection of a site is switched. *)
LEMMA TakeHostOne ==
  ASSUME TypeInv, TabInv(rt), TakeHost
  PROVE  /\ \A c \in Codes : (One(rt, c) => One(rt', c)) /\ Same(rt, rt', c)
         /\ MoreInv(rt) => MoreInv(rt')
<1> DEFINE m == Head(chHost)
<1>1. rt' = IF m.row = {} THEN rt ELSE UpdateHostByKey(rt, Key(The(m.row).cfg), The(m.row).guard)  BY DEF TakeHost
<1>2. m \in OkMsg
  <2>1. chHost \in Seq(OkMsg) /\ chHost # <<>>  BY DEF TakeHost, TypeInv, ChanOk
  <2> QED  BY <2>1, QueueIs
<1> HIDE DEF m
<1>3. m.row # {} => The(m.row).guard \in BOOLEAN  BY <1>2, RowOfMsg DEF RowOf, Row
<1>4. CASE m.row = {}  BY <1>1, <1>4 DEF Same
<1>5. CASE m.row # {}  BY <1>1, <1>3, <1>5, SwitchOne DEF TypeInv
<1> QED  BY <1>4, <1>5

LEMMA TakeHostTips ==
  ASSUME TypeInv, TabInv(rt), ShapeInv, TipInv, TakeHost PROVE TipInv'
<1> SUFFICES ASSUME NEW c \in Codes, c \notin blur' PROVE Tips(c)'  BY DEF TipInv
<1>1. UNCHANGED <<db, chMsg, eng, hand>> /\ History /\ eng.pc = "loop"  BY DEF TakeHost, dbVars
<1>2. c \notin blur  BY <1>1, BlurIs
<1>3. Tips(c) /\ Same(rt, rt', c)  BY <1>2, TakeHostOne DEF TipInv
<1>4. OutTip(c)'  BY <1>1, <1>3 DEF Tips, OutTip
<1>5. GoneTip(c)'  BY <1>1 DEF ShapeInv, GoneTip
<1> QED  BY <1>1, <1>3, <1>4, <1>5, TipsStay

LEMMA TakeEngineTips ==
  ASSUME TypeInv, SiteInv, ShapeInv, TipInv, TakeEngine PROVE TipInv'
<1> SUFFICES ASSUME NEW c \in Codes, c \notin blur' PROVE Tips(c)'  BY DEF TipInv
<1> DEFINE known == {d \in DOMAIN rt.code : Has(rt, d) /\ d \notin DOMAIN db}
           gone  == [d \in known |-> HostOf(rt, d).row.cfg]
<1>1. /\ UNCHANGED <<db, chMsg, rt, hand>> /\ History /\ eng.pc = "loop"
      /\ eng' = [Loop EXCEPT !.pc = "load", !.rows = db, !.gone = gone]
  BY DEF TakeEngine, dbVars
<1>2. c \in DOMAIN gone => c \notin DOMAIN db /\ gone[c] = HostOf(rt, c).row.cfg  OBVIOUS
<1> HIDE DEF gone
<1>3. eng'.rows = db /\ eng'.gone = gone /\ eng'.out = <<>>  BY <1>1, OrderStarts
<1>4. OutTip(c)'  BY <1>3 DEF OutTip
<1>5. GoneTip(c)'  BY <1>1, <1>2, <1>3 DEF GoneTip
<1>6. DOMAIN eng.rows = {}  BY <1>1 DEF ShapeInv
<1>7. \A n, s : /\ TipNow(c, n, s) /\ (c \in DOMAIN db => db[c].cfg = s) => Tip(chMsg', eng'.rows, rt', c, n, s)
                /\ Before(chMsg, c, n) = {} /\ c \in DOMAIN db /\ db[c].cfg = s => Tip(chMsg', eng'.rows, rt', c, n, s)
  BY <1>1, <1>3, <1>6 DEF TipNow, Tip
<1>8. CASE c \notin blur
  <2>1. Tips(c)  BY <1>8 DEF TipInv
  <2>2. LiveTip(c)'  BY <1>1, <1>7, <2>1 DEF Tips, LiveTip, TipNow
  <2>3. ASSUME NEW h \in Handlers PROVE HandTip(hand[h], c)'
    <3> DEFINE j == hand[h]
    <3>1. HandTip(j, c) /\ hand'[h] = j  BY <1>1, <2>1 DEF Tips
    <3>2. j.pc = "send" /\ c \in j.codes /\ j.op = "del" => c \notin DOMAIN db  BY DEF SiteInv, BornInv, HandBorn, Dead
    <3>3. Deletes(j, c) => Tip(chMsg', eng'.rows, rt', c, End(chMsg'), j.old[c].cfg)  BY <1>1, <1>7, <3>1 DEF HandTip
    <3>4. j.pc = "send" /\ c \in j.codes /\ j.op = "del" =>
            Tip(chMsg', eng'.rows, rt', c, End(chMsg'), The(j.out[1].row).cfg)
      BY <1>1, <1>7, <3>1, <3>2 DEF HandTip
    <3> QED  BY <1>1, <3>1, <3>3, <3>4 DEF HandTip, TipNow
  <2>4. DelTip(c)'
    <3> SUFFICES ASSUME NEW i \in DOMAIN chMsg, chMsg[i].code = c, chMsg[i].type = "del"
                 PROVE  Tip(chMsg', eng'.rows, rt', c, i, The(chMsg[i].row).cfg)
      BY <1>1 DEF DelTip, TipNow
    <3>1. chMsg[i] \in Told(Known, Dead)  BY DEF SiteInv, BornInv
    <3>2. c \notin DOMAIN db  BY <3>1 DEF Told, Dead
    <3>3. TipNow(c, i, The(chMsg[i].row).cfg)  BY <2>1 DEF Tips, DelTip
    <3> QED  BY <1>7, <3>2, <3>3
  <2> QED  BY <1>4, <1>5, <2>2, <2>3, <2>4 DEF Tips
<1>9. CASE c \in blur
  <2>1. ~ Pending(c) /\ c \in DOMAIN db  BY <1>1, <1>9, BlurIs
  <2>2. /\ \A h \in Handlers : hand[h].pc = "idle" \/ c \notin hand[h].codes
        /\ \A i \in DOMAIN chMsg : chMsg[i].code # c
    BY <2>1, NotPending
  <2>3. Before(chMsg, c, End(chMsg)) = {}  BY <2>2 DEF Before, Carries
  <2>4. LiveTip(c)'  BY <1>1, <1>7, <2>1, <2>3 DEF LiveTip, TipNow
  <2>5. ASSUME NEW h \in Handlers PROVE HandTip(hand[h], c)'  BY <1>1, <2>2 DEF HandTip, Deletes
  <2>6. DelTip(c)'  BY <1>1, <2>2 DEF DelTip
  <2> QED  BY <1>4, <1>5, <2>4, <2>5, <2>6 DEF Tips
<1> QED  BY <1>8, <1>9

(* A reload loads one row, removes one site, or is over. *)
LEMMA ReloadLoad ==
  ASSUME Apart, TypeInv, SiteInv, NEW d \in DOMAIN eng.rows, rt' = LoadHost(rt, d, eng.rows[d], rules[d]),
         eng' = [eng EXCEPT !.rows = Without(@, {d})]
  PROVE  /\ \A c \in Codes : One(rt, c) => One(rt', c)
         /\ \A c \in Codes \ {d} : Same(rt, rt', c)
         /\ HostOf(rt', d).row = eng.rows[d]
         /\ MoreInv(rt) => MoreInv(rt')
         /\ DOMAIN eng'.rows = DOMAIN eng.rows \ {d} /\ \A c \in DOMAIN eng'.rows : eng'.rows[c] = eng.rows[c]
         /\ eng'.pc = eng.pc /\ eng'.gone = eng.gone /\ eng'.out = eng.out
<1>1. d \in Codes /\ eng.rows[d] \in RowOf(d)  BY DEF TypeInv, EngOk, RowsOk
<1>2. eng'.rows = Without(eng.rows, {d}) /\ eng'.pc = eng.pc /\ eng'.gone = eng.gone /\ eng'.out = eng.out
  BY DEF TypeInv, EngOk
<1>3. DOMAIN eng'.rows = DOMAIN eng.rows \ {d} /\ \A c \in DOMAIN eng'.rows : eng'.rows[c] = eng.rows[c]
  BY <1>2 DEF Without, Restrict
<1>4. /\ \A c \in Codes : One(rt, c) => One(rt', c)
      /\ \A c \in Codes \ {d} : Same(rt, rt', c)
      /\ d \in DOMAIN rt'.code /\ HostOf(rt', d).row = eng.rows[d]
      /\ MoreInv(rt) => MoreInv(rt')
  BY <1>1, LoadOne DEF TypeInv, SiteInv
<1> QED  BY <1>2, <1>3, <1>4

LEMMA ReloadRemove ==
  ASSUME Apart, TypeInv, SiteInv, NEW d \in DOMAIN eng.gone, rt' = RemoveHost(rt, d, eng.gone[d]),
         eng' = [eng EXCEPT !.gone = Without(@, {d})]
  PROVE  /\ d \in Dead
         /\ \A c \in Codes : One(rt, c) /\ (c = d /\ c \in DOMAIN rt.code => HostOf(rt, c).row.cfg = eng.gone[d])
                               => One(rt', c)
         /\ \A c \in Codes \ {d} : Same(rt, rt', c)
         /\ d \notin DOMAIN rt'.code
         /\ MoreInv(rt) => MoreInv(rt')
         /\ DOMAIN eng'.gone = DOMAIN eng.gone \ {d} /\ \A c \in DOMAIN eng'.gone : eng'.gone[c] = eng.gone[c]
         /\ eng'.pc = eng.pc /\ eng'.rows = eng.rows /\ eng'.out = eng.out
<1>1. d \in Codes /\ eng.gone[d] \in Offers[d] /\ d \in Dead  BY DEF TypeInv, EngOk, SiteInv, GoneInv, BornInv
<1>2. eng'.gone = Without(eng.gone, {d}) /\ eng'.pc = eng.pc /\ eng'.rows = eng.rows /\ eng'.out = eng.out
  BY DEF TypeInv, EngOk
<1>3. DOMAIN eng'.gone = DOMAIN eng.gone \ {d} /\ \A c \in DOMAIN eng'.gone : eng'.gone[c] = eng.gone[c]
  BY <1>2 DEF Without, Restrict
<1>4. /\ \A c \in Codes : One(rt, c) /\ (c = d /\ c \in DOMAIN rt.code => HostOf(rt, c).row.cfg = eng.gone[d])
                            => One(rt', c)
      /\ \A c \in Codes \ {d} : Same(rt, rt', c)
      /\ d \notin DOMAIN rt'.code
      /\ MoreInv(rt) => MoreInv(rt')
  BY <1>1, RemoveOne DEF TypeInv, SiteInv
<1> QED  BY <1>1, <1>2, <1>3, <1>4

LEMMA ReloadOneTips ==
  ASSUME Apart, TypeInv, SiteInv, ShapeInv, TipInv, ReloadOne PROVE TipInv'
<1> SUFFICES ASSUME NEW c \in Codes, c \notin blur' PROVE Tips(c)'  BY DEF TipInv
<1>1. UNCHANGED <<db, chMsg, hand>> /\ History /\ eng.pc = "load"  BY DEF ReloadOne, dbVars, chans
<1>2. c \notin blur  BY <1>1, BlurIs
<1>3. Tips(c)  BY <1>2 DEF TipInv
<1>4. ASSUME NEW d \in DOMAIN eng.rows, rt' = LoadHost(rt, d, eng.rows[d], rules[d]),
             eng' = [eng EXCEPT !.rows = Without(@, {d})]
      PROVE  Tips(c)'
  <2>1. /\ \A b \in Codes \ {d} : Same(rt, rt', b)
        /\ HostOf(rt', d).row = eng.rows[d]
        /\ DOMAIN eng'.rows = DOMAIN eng.rows \ {d} /\ \A b \in DOMAIN eng'.rows : eng'.rows[b] = eng.rows[b]
        /\ eng'.gone = eng.gone /\ eng'.out = eng.out
    BY <1>4, ReloadLoad
  <2>2. \A n, s : TipNow(c, n, s) => Tip(chMsg', eng'.rows, rt', c, n, s)  BY <1>1, <2>1, TipLoaded DEF TipNow
  <2>3. OutTip(c)'  BY <1>1, <1>3, <2>1 DEF Tips, OutTip
  <2>4. GoneTip(c)'
    <3>1. c \in DOMAIN eng.gone => c \notin DOMAIN eng.rows /\ Same(rt, rt', c)  BY <1>3, <2>1 DEF Tips, GoneTip
    <3> QED  BY <1>3, <2>1, <3>1 DEF Tips, GoneTip, Same
  <2> QED  BY <1>1, <1>3, <2>2, <2>3, <2>4, TipsMove
<1>5. ASSUME NEW d \in DOMAIN eng.gone, rt' = RemoveHost(rt, d, eng.gone[d]),
             eng' = [eng EXCEPT !.gone = Without(@, {d})]
      PROVE  Tips(c)'
  <2>1. /\ \A b \in Codes \ {d} : Same(rt, rt', b)
        /\ d \notin DOMAIN rt'.code
        /\ DOMAIN eng'.gone = DOMAIN eng.gone \ {d} /\ \A b \in DOMAIN eng'.gone : eng'.gone[b] = eng.gone[b]
        /\ eng'.rows = eng.rows /\ eng'.out = eng.out
    BY <1>5, ReloadRemove
  <2>2. \A n, s : TipNow(c, n, s) => Tip(chMsg', eng'.rows, rt', c, n, s)
    <3>1. CASE c = d  BY <1>1, <2>1, <3>1, TipRemoved DEF TipNow
    <3>2. CASE c # d  BY <1>1, <2>1, <3>2, TipTable DEF TipNow
    <3> QED  BY <3>1, <3>2
  <2>3. OutTip(c)'  BY <1>1, <1>3, <2>1 DEF Tips, OutTip
  <2>4. GoneTip(c)'
    <3>1. c \in DOMAIN eng'.gone => c \in DOMAIN eng.gone /\ eng'.gone[c] = eng.gone[c] /\ Same(rt, rt', c)  BY <2>1
    <3> QED  BY <1>3, <2>1, <3>1 DEF Tips, GoneTip, Same
  <2> QED  BY <1>1, <1>3, <2>2, <2>3, <2>4, TipsMove
<1>6. CASE eng.rows = <<>> /\ eng' = Loop /\ UNCHANGED rt
  <2>1. eng'.rows = eng.rows /\ eng'.gone = <<>> /\ eng'.out = <<>>  BY <1>6, LoopOk
  <2>2. OutTip(c)' /\ GoneTip(c)' /\ Same(rt, rt', c)  BY <1>6, <2>1 DEF OutTip, GoneTip, Same
  <2> QED  BY <1>1, <1>3, <2>1, <2>2, TipsStay
<1> QED  BY <1>4, <1>5, <1>6 DEF ReloadOne

LEMMA SendSSLTips ==
  ASSUME TypeInv, ShapeInv, BlurInv, TipInv, SendSSL PROVE TipInv'
<1> SUFFICES ASSUME NEW c \in Codes, c \notin blur' PROVE Tips(c)'  BY DEF TipInv
<1> DEFINE m == eng.out[1]
<1>1. UNCHANGED <<db, rt, hand>> /\ History /\ eng.pc = "renew" /\ eng.out # <<>> /\ chMsg' = chMsg \o eng.out
  BY DEF SendSSL, dbVars
<1>2. eng'.rows = eng.rows /\ eng'.gone = eng.gone /\ eng'.out = <<>>  BY SendSSLType
<1>3. chMsg \in Seq(OkMsg) /\ eng.out \in Seq(OkMsg) /\ Len(eng.out) <= 1  BY DEF TypeInv, ChanOk, EngOk
<1>4. 1 \in DOMAIN eng.out /\ m \in OkMsg /\ chMsg' = Append(chMsg, m)
  <2> DEFINE q == chMsg
             e == eng.out
  <2>1. q \in Seq(OkMsg) /\ e \in Seq(OkMsg) /\ e # <<>> /\ Len(e) <= 1  BY <1>1, <1>3
  <2> HIDE DEF q, e
  <2>2. Len(e) = 1
    <3> DEFINE n == Len(e)
    <3>1. n \in Nat \ {0} /\ n <= 1  BY <2>1, EmptySeq
    <3> HIDE DEF n
    <3>2. n = 1  BY <3>1
    <3> QED  BY <3>2 DEF n
  <2>3. 1 \in DOMAIN e /\ e[1] \in OkMsg /\ e = <<e[1]>>  BY <2>1, <2>2
  <2>4. q \o <<e[1]>> = Append(q, e[1])  BY <2>1, <2>3
  <2> QED  BY <1>1, <2>3, <2>4 DEF q, e
<1>5. m.type = "ssl" /\ m.row # {}  BY <1>4 DEF ShapeInv, OkMsg
<1>6. c \notin blur /\ ~ Overlap(c)  BY <1>1, BlurIs DEF BlurInv
<1>7. Tips(c)  BY <1>6 DEF TipInv
<1>8. DelTip(c)'  BY <1>1, <1>2, <1>3, <1>4, <1>5, <1>7, SentTips DEF Tips
<1>9. OutTip(c)' /\ GoneTip(c)'  BY <1>1, <1>2, <1>7 DEF Tips, OutTip, GoneTip
<1>10. CASE m.code = c
  <2>1. Carries(m, c)  BY <1>5, <1>10 DEF Carries
  <2>2. c \in DOMAIN db => The(m.row).cfg = db[c].cfg  BY <1>4, <1>7, <1>10 DEF Tips, OutTip
  <2>3. c \in DOMAIN db => Tip(chMsg', eng'.rows, rt', c, End(chMsg'), db[c].cfg)
    BY <1>1, <1>2, <1>3, <1>4, <2>1, <2>2, SentTips
  <2>4. LiveTip(c)'  BY <1>1, <2>3 DEF LiveTip, TipNow
  <2>5. ASSUME NEW h \in Handlers PROVE HandTip(hand[h], c)'
    <3>1. hand[h].pc = "idle" \/ c \notin hand[h].codes  BY <1>4, <1>6, <1>10, Alone
    <3> QED  BY <1>1, <3>1 DEF HandTip, Deletes
  <2> QED  BY <1>8, <1>9, <2>4, <2>5 DEF Tips
<1>11. CASE m.code # c
  <2>1. ~ Carries(m, c)  BY <1>11 DEF Carries
  <2>2. \A s : TipNow(c, End(chMsg), s) => Tip(chMsg', eng'.rows, rt', c, End(chMsg'), s)
    BY <1>1, <1>2, <1>3, <1>4, <2>1, SentTips
  <2>3. LiveTip(c)'  BY <1>1, <1>7, <2>2 DEF Tips, LiveTip, TipNow
  <2>4. \A h \in Handlers : HandTip(hand[h], c)'  BY <1>1, <1>7, <2>2 DEF Tips, HandTip, TipNow
  <2> QED  BY <1>8, <1>9, <2>3, <2>4 DEF Tips
<1> QED  BY <1>10, <1>11

LEMMA RenewTips ==
  ASSUME TypeInv, ShapeInv, BlurInv, TipInv, TakeSSL \/ RenewDone \/ SendSSL \/ \E d \in Codes : UpdateSSLInfo(d)
  PROVE  TipInv'
<1>1. CASE SendSSL  BY <1>1, SendSSLTips
<1>2. ASSUME NEW d \in Codes, TakeSSL \/ RenewDone \/ UpdateSSLInfo(d), NEW c \in Codes, c \notin blur' PROVE Tips(c)'
  <2>1. UNCHANGED <<chMsg, rt, hand>> /\ History /\ eng.pc # "load" /\ eng'.pc # "load"
    <3>1. CASE TakeSSL  BY <3>1, OrderStarts DEF TakeSSL
    <3>2. CASE RenewDone  BY <3>2, LoopOk DEF RenewDone, chans
    <3>3. CASE UpdateSSLInfo(d)  BY <3>3, UpdateSSLIs DEF UpdateSSLInfo, chans
    <3> QED  BY <1>2, <3>1, <3>2, <3>3
  <2>2. eng.rows = <<>> /\ eng'.rows = <<>> /\ eng'.gone = <<>>
    <3>1. eng.rows = <<>> /\ eng.gone = <<>>  BY <2>1 DEF ShapeInv
    <3>2. CASE TakeSSL  BY <3>1, <3>2, OrderStarts DEF TakeSSL
    <3>3. CASE RenewDone  BY <3>1, <3>3, LoopOk DEF RenewDone
    <3>4. CASE UpdateSSLInfo(d)  BY <3>1, <3>4, UpdateSSLIs
    <3> QED  BY <1>2, <3>2, <3>3, <3>4
  <2>3. (c \in DOMAIN db' <=> c \in DOMAIN db) /\ (c \in DOMAIN db => db'[c].cfg = db[c].cfg)
    <3>1. CASE TakeSSL \/ RenewDone  BY <3>1 DEF TakeSSL, RenewDone, dbVars
    <3>2. CASE UpdateSSLInfo(d)  BY <3>2, UpdateSSLIs
    <3> QED  BY <1>2, <3>1, <3>2
  <2>4. OutTip(c)'
    <3>1. CASE TakeSSL
      <4>1. eng'.out = <<>>  BY <3>1, OrderStarts DEF TakeSSL
      <4> QED  BY <4>1 DEF OutTip
    <3>2. CASE RenewDone  BY <3>2, LoopOk DEF RenewDone, OutTip
    <3>3. CASE UpdateSSLInfo(d)
      <4>1. \A i \in DOMAIN eng'.out : eng'.out[i].code = d /\ eng'.out[i].row = {db'[d]}  BY <3>3, UpdateSSLIs
      <4> QED  BY <4>1, TheOne DEF OutTip
    <3> QED  BY <1>2, <3>1, <3>2, <3>3
  <2>5. GoneTip(c)'  BY <2>2 DEF GoneTip
  <2>6. c \notin blur  BY <1>2, <2>1, BlurIs
  <2>7. Tips(c) /\ Same(rt, rt', c)  BY <2>1, <2>6 DEF TipInv, Same
  <2> QED  BY <2>1, <2>2, <2>3, <2>4, <2>5, <2>7, TipsStay
<1>3. ASSUME NEW d \in Codes, TakeSSL \/ RenewDone \/ UpdateSSLInfo(d) PROVE TipInv'  BY <1>2, <1>3 DEF TipInv
<1> QED  BY <1>1, <1>3, RoutingAssumption

-----------------------------------------------------------------------------
(* The keys of a site, step by step *)

LEMMA BlurOne == ASSUME OneInv, History, NEW c \in Codes, c \in DOMAIN db \/ c \notin blur' PROVE One(rt, c)
  BY BlurIs DEF OneInv

(* A site that is new to the database has no keys. *)
LEMMA OneStay ==
  ASSUME OneInv, MoreInv(rt), BornInv, UNCHANGED rt, History, DOMAIN db' \subseteq DOMAIN db \cup Comers
  PROVE  OneInv' /\ MoreInv(rt')
<1>1. ASSUME NEW c \in Codes, c \in DOMAIN db' \/ c \notin blur' PROVE One(rt, c)
  <2>1. CASE c \in DOMAIN db \/ c \notin blur'  BY <2>1, BlurOne
  <2>2. CASE c \in Comers
    <3>1. c \notin SitesOf(rt)  BY <2>2 DEF BornInv, Known
    <3> QED  BY <3>1 DEF SitesOf, One
  <2> QED  BY <1>1, <2>1, <2>2
<1> QED  BY <1>1 DEF OneInv

LEMMA HandleOne ==
  ASSUME TypeInv, SiteInv, ShapeInv, OneInv, MoreInv(rt), NEW h \in Handlers, Handle(h) PROVE OneInv' /\ MoreInv(rt')
<1>1. UNCHANGED rt /\ History  BY DEF Handle, Write, Notify, Send
<1>2. DOMAIN db' \subseteq DOMAIN db \cup Comers
  <2>1. CASE Write(h)
    <3>1. hand[h].pc = "write" /\ DOMAIN db' \subseteq DOMAIN db \cup {c \in hand[h].codes : hand[h].op = "add"}
      BY <2>1, WriteIs
    <3> QED  BY <3>1 DEF Comers, Adding
  <2>2. CASE Notify(h) \/ Send(h)  BY <2>2 DEF Notify, Send, dbVars
  <2> QED  BY <2>1, <2>2 DEF Handle
<1> QED  BY <1>1, <1>2, OneStay DEF SiteInv

LEMMA TakeMsgOne ==
  ASSUME Apart, OneName, TypeInv, SiteInv, ShapeInv, OneInv, MoreInv(rt), TipInv, TakeMsg PROVE OneInv' /\ MoreInv(rt')
<1> DEFINE m == Head(chMsg)
<1>1. UNCHANGED <<db, eng>> /\ History /\ eng.pc = "loop" /\ chMsg # <<>> /\ rt' = Apply(rt, m)
  BY DEF TakeMsg, dbVars
<1>2. chMsg \in Seq(OkMsg) /\ m \in OkMsg /\ m \in Told(Known, Dead)
  BY <1>1, QueueIs DEF TypeInv, ChanOk, SiteInv, BornInv
<1>3. 1 \in DOMAIN chMsg /\ m = chMsg[1]  BY <1>1, <1>2
<1>4. Applied(rt, rt', m)  BY <1>1, <1>2, ApplyOne DEF TypeInv, SiteInv
<1> HIDE DEF m
<1>5. ASSUME m.type = "del", m.code \notin blur', m.code \in DOMAIN rt.code PROVE HostOf(rt, m.code).row.cfg = The(m.row).cfg
  <2>1. m.code \in Codes  BY <1>2 DEF OkMsg, Msg
  <2>2. m.code \notin blur  BY <1>1, <1>5, <2>1, BlurIs
  <2>3. TipNow(m.code, 1, The(m.row).cfg)  BY <1>3, <1>5, <2>1, <2>2 DEF TipInv, Tips, DelTip
  <2>4. Before(chMsg, m.code, 1) = {}  BY <1>2 DEF Before
  <2>5. DOMAIN eng.rows = {}  BY <1>1 DEF ShapeInv
  <2> QED  BY <1>5, <2>3, <2>4, <2>5 DEF TipNow, Tip
<1>6. ASSUME NEW c \in Codes, c \in DOMAIN db \/ c \notin blur' PROVE One(rt', c)
  <2>1. One(rt, c)  BY <1>1, <1>6, BlurOne
  <2>2. CASE c # m.code  BY <1>4, <2>1, <2>2 DEF Applied
  <2>3. CASE c = m.code
    <3>1. m.type = "del" => c \notin blur'  BY <1>2, <1>6, <2>3 DEF Told, Dead
    <3> QED  BY <1>4, <1>5, <2>1, <2>3, <3>1 DEF Applied
  <2> QED  BY <2>2, <2>3
<1> QED  BY <1>1, <1>4, <1>6 DEF OneInv, Applied

LEMMA ReloadOneOne ==
  ASSUME Apart, TypeInv, SiteInv, OneInv, MoreInv(rt), TipInv, ReloadOne PROVE OneInv' /\ MoreInv(rt')
<1>1. UNCHANGED db /\ History /\ eng.pc = "load"  BY DEF ReloadOne, dbVars
<1>2. ASSUME NEW d \in DOMAIN eng.rows, rt' = LoadHost(rt, d, eng.rows[d], rules[d]),
             eng' = [eng EXCEPT !.rows = Without(@, {d})]
      PROVE  OneInv' /\ MoreInv(rt')
  <2>1. (\A c \in Codes : One(rt, c) => One(rt', c)) /\ MoreInv(rt')  BY <1>2, ReloadLoad
  <2> QED  BY <1>1, <2>1, BlurOne DEF OneInv
<1>3. ASSUME NEW d \in DOMAIN eng.gone, rt' = RemoveHost(rt, d, eng.gone[d]),
             eng' = [eng EXCEPT !.gone = Without(@, {d})]
      PROVE  OneInv' /\ MoreInv(rt')
  <2>1. /\ d \in Dead /\ MoreInv(rt')
        /\ \A c \in Codes : One(rt, c) /\ (c = d /\ c \in DOMAIN rt.code => HostOf(rt, c).row.cfg = eng.gone[d])
                              => One(rt', c)
    BY <1>3, ReloadRemove
  <2>2. ASSUME NEW c \in Codes, c \in DOMAIN db \/ c \notin blur' PROVE One(rt', c)
    <3>1. One(rt, c)  BY <1>1, <2>2, BlurOne
    <3>2. ASSUME c = d, c \in DOMAIN rt.code PROVE HostOf(rt, c).row.cfg = eng.gone[d]
      <4>1. c \notin blur'  BY <2>1, <2>2, <3>2 DEF Dead
      <4>2. c \notin blur  BY <1>1, <4>1, BlurIs
      <4> QED  BY <3>2, <4>2 DEF TipInv, Tips, GoneTip
    <3> QED  BY <2>1, <3>1, <3>2
  <2> QED  BY <1>1, <2>1, <2>2 DEF OneInv
<1>4. CASE UNCHANGED rt  BY <1>1, <1>4, OneStay DEF SiteInv
<1> QED  BY <1>2, <1>3, <1>4 DEF ReloadOne

LEMMA EngineOne ==
  ASSUME Apart, OneName, TypeInv, SiteInv, ShapeInv, OneInv, MoreInv(rt), TipInv, EngineStep PROVE OneInv' /\ MoreInv(rt')
<1>1. CASE TakeMsg  BY <1>1, TakeMsgOne
<1>2. CASE TakeHost
  <2>1. UNCHANGED db /\ History  BY <1>2 DEF TakeHost, dbVars
  <2>2. (\A c \in Codes : One(rt, c) => One(rt', c)) /\ MoreInv(rt')  BY <1>2, TakeHostOne DEF SiteInv
  <2> QED  BY <2>1, <2>2, BlurOne DEF OneInv
<1>3. CASE ReloadOne  BY <1>3, ReloadOneOne
<1>4. CASE TakeEngine \/ TakeSSL \/ SendSSL \/ RenewDone
  <2>1. UNCHANGED <<db, rt>> /\ History  BY <1>4 DEF TakeEngine, TakeSSL, SendSSL, RenewDone, dbVars
  <2> QED  BY <2>1, OneStay DEF SiteInv
<1>5. ASSUME NEW c \in Codes, UpdateSSLInfo(c) PROVE OneInv' /\ MoreInv(rt')
  <2>1. UNCHANGED rt /\ History /\ DOMAIN db' = DOMAIN db  BY <1>5, UpdateSSLIs DEF UpdateSSLInfo
  <2> QED  BY <2>1, OneStay DEF SiteInv
<1> QED  BY <1>1, <1>2, <1>3, <1>4, <1>5 DEF EngineStep

-----------------------------------------------------------------------------
(* The theorem *)

LEMMA ApiTable ==
  ASSUME ServeInv, TableInv, NEW h \in Handlers, NEW c \in Codes, NEW g, NEW s, Api(h, c, g, s) PROVE TableInv'
<1>1. UNCHANGED <<db, rt>> /\ History  BY ApiIs DEF ServeInv
<1>2. ShapeInv' /\ BlurInv' /\ TipInv'  BY <1>1, ApiShape, BlurStep, ApiTips DEF ServeInv, TableInv
<1>3. OneInv' /\ MoreInv(rt)'  BY <1>1, OneStay DEF ServeInv, SiteInv, TableInv
<1> QED  BY <1>2, <1>3 DEF TableInv

LEMMA HandleTable == ASSUME ServeInv, TableInv, NEW h \in Handlers, Handle(h) PROVE TableInv'
<1>1. History  BY DEF Handle, Write, Notify, Send
<1>2. ShapeInv' /\ BlurInv'  BY <1>1, HandleShape, BlurStep DEF ServeInv, TableInv
<1>3. TipInv'  BY WriteTips, NotifyTips, SendTips DEF Handle, ServeInv, TableInv
<1>4. OneInv' /\ MoreInv(rt)'  BY HandleOne DEF ServeInv, TableInv
<1> QED  BY <1>2, <1>3, <1>4 DEF TableInv

LEMMA EngineTable == ASSUME Apart, OneName, ServeInv, TableInv, EngineStep PROVE TableInv'
<1>1. History
  BY DEF EngineStep, TakeMsg, TakeHost, TakeEngine, ReloadOne, TakeSSL, SendSSL, RenewDone, UpdateSSLInfo
<1>2. ShapeInv' /\ BlurInv'  BY <1>1, EngineShape, BlurStep DEF ServeInv, TableInv
<1>3. TipInv'
  BY TakeMsgTips, TakeHostTips, TakeEngineTips, ReloadOneTips, RenewTips DEF EngineStep, ServeInv, SiteInv, TableInv
<1>4. OneInv' /\ MoreInv(rt)'  BY EngineOne DEF ServeInv, TableInv
<1> QED  BY <1>2, <1>3, <1>4 DEF TableInv

(* A client's request, or an order: no site changes. *)
LEMMA OtherTable ==
  ASSUME ServeInv, TableInv, UNCHANGED <<dbVars, chMsg, rt, eng, hand>>, History PROVE TableInv'
<1>1. UNCHANGED <<db, chMsg, rt, eng, hand>>  BY DEF dbVars
<1>2. ShapeInv' /\ BlurInv'  BY <1>1, BlurStep DEF TableInv, ShapeInv
<1>3. OneInv' /\ MoreInv(rt)'  BY <1>1, OneStay DEF ServeInv, SiteInv, TableInv
<1>4. ASSUME NEW c \in Codes, c \notin blur' PROVE Tips(c)'
  <2>1. c \notin blur  BY <1>1, <1>4, BlurIs
  <2>2. Tips(c) /\ Same(rt, rt', c)  BY <1>1, <2>1 DEF TableInv, TipInv, Same
  <2>3. OutTip(c)' /\ GoneTip(c)'  BY <1>1, <2>2 DEF Tips, OutTip, GoneTip
  <2> QED  BY <1>1, <2>2, <2>3, TipsStay
<1> QED  BY <1>2, <1>3, <1>4 DEF TableInv, TipInv

LEMMA TableStep == ASSUME Apart, OneName, ServeInv, TableInv, [Next]_vars PROVE TableInv'
<1>1. CASE UNCHANGED vars
  <2>1. UNCHANGED <<db, chMsg, chHost, rt, eng, hand, blur>>  BY <1>1 DEF vars, dbVars, chans
  <2>2. ShapeInv' /\ MoreInv(rt)' /\ OneInv'  BY <2>1 DEF TableInv, ShapeInv, OneInv
  <2>3. \A c \in Codes : Overlap(c)' <=> Overlap(c)  BY <2>1 DEF Overlap, Busy, OnMsg, OnHost
  <2>4. BlurInv'  BY <2>1, <2>3 DEF TableInv, BlurInv
  <2>5. ASSUME NEW c \in Codes, c \notin blur' PROVE Tips(c)'
    <3>1. Tips(c) /\ Same(rt, rt', c)  BY <2>1, <2>5 DEF TableInv, TipInv, Same
    <3>2. OutTip(c)' /\ GoneTip(c)'  BY <2>1, <3>1 DEF Tips, OutTip, GoneTip
    <3> QED  BY <2>1, <3>1, <3>2, TipsStay
  <2> QED  BY <2>2, <2>4, <2>5 DEF TableInv, TipInv
<1>2. CASE Next
  <2>1. ASSUME NEW h \in Handlers, NEW c \in Codes,
               \/ DelHostApi(h, c) \/ SaveRules(h, c)
               \/ \E s \in Offers[c] : AddApi(h, c, s) \/ ModifyHostApi(h, c, s)
               \/ \E g \in BOOLEAN : ModifyGuardStatusApi(h, c, g)
        PROVE  TableInv'
    <3>1. PICK g, s : Api(h, c, g, s)  BY <2>1 DEF Api
    <3> QED  BY <3>1, ApiTable
  <2>2. ASSUME NEW h \in Handlers, Handle(h) PROVE TableInv'  BY <2>2, HandleTable
  <2>3. ASSUME NEW h \in Handlers, NEW g \in BOOLEAN, ModifyAllGuardStatusApi(h, g) PROVE TableInv'
    <3>1. \E c \in Codes : Api(h, c, g, 0)  BY <2>3, RoutingAssumption DEF Api
    <3> QED  BY <3>1, ApiTable
  <2>4. CASE ReloadApi \/ SslOrderApi  BY <2>4, OtherTable DEF ReloadApi, SslOrderApi
  <2>5. CASE EngineStep  BY <2>5, EngineTable
  <2>6. ASSUME NEW r \in Requests, ResolveHost(r[1], r[2]) PROVE TableInv'
    <3>1. UNCHANGED <<dbVars, chMsg, rt, eng, hand>> /\ History  BY <2>6 DEF ResolveHost, chans
    <3> QED  BY <3>1, OtherTable
  <2>7. CASE ReadTarget \/ ReadCode
    <3>1. UNCHANGED <<dbVars, chMsg, rt, eng, hand>> /\ History  BY <2>7 DEF ReadTarget, ReadCode, chans
    <3> QED  BY <3>1, OtherTable
  <2> QED  BY <1>2, <2>1, <2>2, <2>3, <2>4, <2>5, <2>6, <2>7 DEF Next
<1> QED  BY <1>1, <1>2

LEMMA InitTable == ASSUME Init PROVE TableInv
<1>1. rt.target = <<>> /\ rt.code = <<>> /\ rt.more = <<>>  BY DEF Init, NewTable
<1>2. eng.pc = "load" /\ eng.rows = db /\ eng.gone = <<>> /\ eng.out = <<>>  BY OrderStarts DEF Init
<1>3. chMsg = <<>> /\ \A h \in Handlers : hand[h] = Idle /\ hand[h].pc = "idle" /\ hand[h].op = "add"  BY DEF Init, Idle
<1>4. MoreInv(rt) /\ OneInv  BY <1>1 DEF MoreInv, OneInv, One
<1>5. ShapeInv  BY <1>2, <1>3 DEF ShapeInv, HandShape
<1>6. BlurInv
  <2> SUFFICES ASSUME NEW c \in Codes PROVE ~ Overlap(c)  BY DEF BlurInv
  <2>1. DOMAIN eng.out = {} /\ DOMAIN chMsg = {}  BY <1>2, <1>3
  <2>2. Busy(c) = {} /\ OnMsg(c) = {}  BY <1>3, <2>1 DEF Busy, OnMsg, Of, Range
  <2> QED  BY <2>2 DEF Overlap
<1>7. ASSUME NEW c \in Codes PROVE Tips(c)
  <2>1. Before(chMsg, c, End(chMsg)) = {}  BY <1>3 DEF Before
  <2>2. LiveTip(c)  BY <1>2, <2>1 DEF LiveTip, TipNow, Tip
  <2>3. \A h \in Handlers : HandTip(hand[h], c)  BY <1>3 DEF HandTip, Deletes
  <2>4. DelTip(c) /\ OutTip(c) /\ GoneTip(c)  BY <1>2, <1>3 DEF DelTip, OutTip, GoneTip
  <2> QED  BY <2>2, <2>3, <2>4 DEF Tips
<1> QED  BY <1>4, <1>5, <1>6, <1>7 DEF TableInv, TipInv

LEMMA TableFound == ASSUME ServeInv, TableInv PROVE TableSound
<1> SUFFICES ASSUME NEW r \in Requests, NEW c \in Resolve(rt, r[1], r[2]), c \notin blur
             PROVE  Has(rt, c) /\ HostOf(rt, c).code = c
  BY DEF TableSound
<1>1. c \in SitesOf(rt) /\ c \in Codes  BY ResolveIs, SitesAre DEF ServeInv, TypeInv
<1>2. c \in DOMAIN rt.code
  <2>1. CASE \E k \in DOMAIN rt.target : rt.target[k].code = c  BY <1>1, <2>1 DEF TableInv, OneInv, One
  <2>2. CASE \E k \in DOMAIN rt.more : rt.more[k] = c  BY <2>2 DEF TableInv, MoreInv
  <2> QED  BY <1>1, <2>1, <2>2 DEF SitesOf
<1> QED  BY <1>2 DEF ServeInv, SiteInv, TabInv, Has, HostOf

(* In every table published, a request that resolves to a site finds that   *)
(* site's object by its code, unless changes of that site overlapped: a     *)
(* deletion clears every key of the object the table has, because the row   *)
(* it names is the one the loop was told last.  For sites that keep their   *)
(* names, no two of which claim the same name and port.                     *)
THEOREM RouteTableSound == ASSUME Apart, OneName PROVE Spec => []TableSound
<1>1. Init => ServeInv /\ TableInv  BY InitServes, InitTable
<1>2. ServeInv /\ TableInv /\ [Next]_vars => (ServeInv /\ TableInv)'  BY ServeStep, TableStep
<1>3. ServeInv /\ TableInv => TableSound  BY TableFound
<1> QED  BY <1>1, <1>2, <1>3, PTL DEF Spec
=============================================================================

------------------------------- MODULE CCRing -------------------------------
(***************************************************************************)
(* One counting key of the CC rate limiter: the ring of time buckets that  *)
(* Counter.Incr advances, adds to and sums                                 *)
(* (wafenginecore/cccounter/counter.go).                                   *)
(*                                                                         *)
(* A request reads the clock and the rule's window before it takes the     *)
(* shard's lock; what it does under the lock is one step.  The history     *)
(* variable hits is the exact record the ring approximates.                *)
(***************************************************************************)
EXTENDS Integers, FiniteSetsExt

CONSTANTS
  NumBuckets,   \* numBuckets: 10
  Windows,      \* values the rule's window_sec may have (1 .. 86400 seconds)
  IdleSeconds,  \* argument of Cleanup: 300
  Procs,        \* request goroutines
  Base, End,    \* bound: the clock (unix seconds) runs from Base to End
  MaxHits,      \* bound: requests counted
  MaxEdits,     \* bound: edits of the rule
  MaxLag        \* bound: seconds a request waits for the shard's lock

ASSUME RingAssumption ==
  /\ NumBuckets \in Nat \ {0} /\ Windows \subseteq Nat \ {0} /\ Windows # {}
  /\ {IdleSeconds, Base, End, MaxHits, MaxEdits, MaxLag} \subseteq Nat /\ Base <= End

Buckets == 0 .. NumBuckets - 1
Times   == Base .. End

VARIABLES
  now,     \* the clock
  window,  \* window_sec of the rule
  ring,    \* the key's bucketRing; up: it is in the map
  req,     \* each request: idle, or waiting for the lock with what it read
  hits,    \* number of requests counted at each second
  newest,  \* the latest second counted since the ring was made
  last,    \* the last Result, with the time and the window it is for
  edits    \* number of edits of the rule

vars == <<now, window, ring, req, hits, newest, last, edits>>

NoRing == [up |-> FALSE, counts |-> [i \in Buckets |-> 0], slot |-> 0, lastSeen |-> 0]
Idle   == [pc |-> "idle", t |-> 0, w |-> 0]

(* Incr: the width of a bucket, at least a second. *)
Width(w) == IF w \div NumBuckets <= 0 THEN 1 ELSE w \div NumBuckets

(* Incr: the time slice has moved from slot old to slot new; the buckets    *)
(* passed over are cleared.                                                 *)
KeepsOne(counts, old, new) ==  \* mutant: the bucket now in use is not cleared
  [i \in Buckets |-> IF new - old >= NumBuckets \/ \E d \in 1 .. new - old - 1 : (old + d) % NumBuckets = i
                     THEN 0 ELSE counts[i]]
ClearsOneMore(counts, old, new) ==  \* mutant: the old bucket is cleared too
  [i \in Buckets |-> IF new - old >= NumBuckets \/ \E d \in 0 .. new - old : (old + d) % NumBuckets = i
                     THEN 0 ELSE counts[i]]
Rotated(counts, old, new) ==
  [i \in Buckets |-> IF new - old >= NumBuckets \/ \E d \in 1 .. new - old : (old + d) % NumBuckets = i
                     THEN 0 ELSE counts[i]]

(* Incr under the lock, for a request that read time t and window w: the   *)
(* ring is made if there is none, advanced, added to.  A slot before the   *)
(* ring's own leaves the ring where it is.                                 *)
Counted(t, w) ==
  LET slot  == t \div Width(w)
      from  == IF ring.up THEN ring.slot ELSE slot
      moved == IF slot > from THEN Rotated(ring.counts, from, slot) ELSE ring.counts
  IN  [up       |-> TRUE,
       counts   |-> [moved EXCEPT ![slot % NumBuckets] = @ + 1],
       slot     |-> IF slot > from THEN slot ELSE from,
       lastSeen |-> t]

Total(counts) == MapThenSumSet(LAMBDA i : counts[i], Buckets)

(* The requests counted after second a, up to second b. *)
HitsIn(a, b) == MapThenSumSet(LAMBDA t : hits[t], {t \in Times : a < t /\ t <= b})

Init ==
  /\ now = Base /\ window \in Windows /\ ring = NoRing
  /\ req = [p \in Procs |-> Idle]
  /\ hits = [t \in Times |-> 0] /\ newest = Base
  /\ last = [count |-> 0, at |-> Base, w |-> window] /\ edits = 0

Tick ==
  /\ now < End /\ \A p \in Procs : req[p].pc = "idle" \/ now - req[p].t < MaxLag
  /\ now' = now + 1
  /\ UNCHANGED <<window, ring, req, hits, newest, last, edits>>

(* Incr up to the lock: the key's shard, the time, the slot. *)
Enter(p) ==
  /\ req[p].pc = "idle"
  /\ HitsIn(Base - 1, End) + Cardinality({q \in Procs : req[q].pc # "idle"}) < MaxHits
  /\ req' = [req EXCEPT ![p] = [pc |-> "lock", t |-> now, w |-> window]]
  /\ UNCHANGED <<now, window, ring, hits, newest, last, edits>>

(* Incr under the lock. *)
Incr(p) ==
  /\ req[p].pc = "lock"
  /\ ring'   = Counted(req[p].t, req[p].w)
  /\ hits'   = [hits EXCEPT ![req[p].t] = @ + 1]
  /\ newest' = IF ring.up /\ newest > req[p].t THEN newest ELSE req[p].t
  /\ last'   = [count |-> Total(ring'.counts), at |-> newest', w |-> req[p].w]
  /\ req'    = [req EXCEPT ![p] = Idle]
  /\ UNCHANGED <<now, window, edits>>

(* Cleanup: the key is removed when it has been idle for too long. *)
Cleanup ==
  /\ ring.up /\ ring.lastSeen <= now - IdleSeconds
  /\ ring' = NoRing
  /\ UNCHANGED <<now, window, req, hits, newest, last, edits>>

(* ModifyApi: the rule keeps its id, and so its keys, when its window is   *)
(* changed.                                                                *)
ModifyApi(w) ==
  /\ edits < MaxEdits /\ w # window
  /\ window' = w /\ edits' = edits + 1
  /\ UNCHANGED <<now, ring, req, hits, newest, last>>

Next ==
  \/ Tick \/ Cleanup
  \/ \E p \in Procs : Enter(p) \/ Incr(p)
  \/ \E w \in Windows : ModifyApi(w)

Spec == Init /\ [][Next]_vars

-----------------------------------------------------------------------------
(* The count that Incr returns contains no request older than the window,  *)
(* whatever requests waited for the lock in between.                       *)
NoStaleHits == last.count <= HitsIn(last.at - last.w, last.at)

(* The count that Incr returns contains every request of the window but    *)
(* those of its first bucket width: the error is at most one bucket.       *)
NoLostHits == last.count >= HitsIn(last.at - last.w + Width(last.w), last.at)

=============================================================================

---------------------------- MODULE LookupProofs ----------------------------
(***************************************************************************)
(* The unlocked lookup ConsistentHash::find against the double-buffered    *)
(* rings: what a worker gets when failover() swaps the ring under it.      *)
(***************************************************************************)
EXTENDS FailoverProofs

InLookup(r) == r.pc \in {"size", "begin", "deref"}

\* No point of the ring is at or after the key: find wraps to begin().
Wraps(ring, k) == \A p \in DOMAIN ring : ~ (p >= k)

\* What holds of a worker record between lower_bound and the end of find.
LookupInv(r) ==
    /\ r.it = DANGLING => r.swaps >= 1
    /\ InLookup(r) =>
         /\ ~ r.wild
         /\ find(Ring(r.group), r.key) \in r.seen
         /\ r.pc = "begin" => r.it = END
         /\ r.swaps = 0 =>
              /\ r.it # END => r.tree = live[r.group]
              /\ r.it = END => Wraps(Ring(r.group), r.key)
              /\ r.pc = "begin" => DOMAIN Ring(r.group) # {}
         /\ r.swaps = 1 /\ r.it = END /\ DOMAIN Ring(r.group) # {} =>
              Ring(r.group)[begin(Ring(r.group))] \in r.seen
         /\ r.swaps <= 1 /\ r.it # END /\ r.it # DANGLING =>
              tree[r.group][r.tree][r.it] \in r.seen
    /\ r.pc = "got" /\ ~ r.wild /\ r.swaps <= 1 => r.host \in r.seen
    /\ r.pc = "find" => r.it = END /\ ~ r.wild

AllLookups == \A w \in Workers : LookupInv(worker[w])

\* A key that wraps is answered by the owner of the first point.
LEMMA WrapAnswer ==
    ASSUME NEW ring, IsRing(ring), NEW k \in Nat, Wraps(ring, k), DOMAIN ring # {}
    PROVE  find(ring, k) = ring[begin(ring)]
BY DEF find, lower_bound, Wraps

\* One mutation of a ring in which the key wraps: the owner of the new first
\* point is the old answer or the new one.
LEMMA WrapAfterMutation ==
    ASSUME NEW g \in GroupName, NEW ring, RingOf(g, ring), NEW k \in Nat, Wraps(ring, k),
           health.host \in Member(g), NEW r \in Mutated(ring), DOMAIN r # {}
    PROVE  r[begin(r)] \in {find(ring, k), find(r, k)}
<1> DEFINE b == begin(r)
<1>1. IsRing(r) /\ IsRing(ring)
  BY MutatedRing DEF RingOf
<1>2. b \in DOMAIN r /\ \A q \in DOMAIN r : b <= q
  BY <1>1, LeastIsMinimum DEF begin, IsRing
<1> HIDE DEF b
<1>3. CASE Wraps(r, k)
  BY <1>1, <1>3, WrapAnswer DEF b
<1>4. CASE ~ Wraps(r, k)
  <2>1. CASE health.pc = "del"
    <3>1. DOMAIN r \subseteq DOMAIN ring
      BY <1>1, <2>1, DelHostOwners DEF Mutated
    <3> QED
      BY <1>4, <3>1 DEF Wraps
  <2>2. CASE health.pc # "del"
    <3>1. PICK h : h = health.host /\ h \in Alias /\ host_infos(h) \in Info
      BY ConfFacts, HostFacts
    <3>2. Added(r, ring, h, host_infos(h))
      BY <1>1, <2>2, <3>1, AddHostOwners DEF Mutated
    <3>3. PICK p \in DOMAIN r :
              /\ find(r, k) = r[p]
              /\ \/ p >= k /\ \A q \in DOMAIN r : q >= k => p <= q
                 \/ \A q \in DOMAIN r : ~ (q >= k) /\ p <= q
      BY <1>1, FindOwner
    <3>4. p >= k
      BY <1>4, <3>3 DEF Wraps
    <3>5. find(r, k) = h
      BY <3>2, <3>3, <3>4 DEF Added, Wraps
    <3>6. CASE b \in VNodes(host_infos(h))
      BY <3>2, <3>5, <3>6 DEF Added, b
    <3>7. CASE b \notin VNodes(host_infos(h))
      <4>1. b \in DOMAIN ring /\ r[b] = ring[b] /\ \A q \in DOMAIN ring : b <= q
        BY <1>2, <3>2, <3>7 DEF Added
      <4>2. begin(ring) \in DOMAIN ring /\ \A q \in DOMAIN ring : begin(ring) <= q
        BY <1>1, <4>1, LeastIsMinimum DEF begin, IsRing
      <4>3. begin(ring) = b
        BY <1>1, <4>1, <4>2 DEF IsRing
      <4>4. find(ring, k) = ring[begin(ring)]
        BY <1>1, <4>1, WrapAnswer
      <4> QED
        BY <4>1, <4>3, <4>4 DEF b
    <3> QED
      BY <3>6, <3>7
  <2> QED
    BY <2>1, <2>2
<1> QED
  BY <1>3, <1>4
\* Nothing a lookup depends on changes.
LEMMA LookupStay ==
    ASSUME AllLookups, UNCHANGED rings, \A w \in Workers : worker'[w] = worker[w]
    PROVE  AllLookups'
BY DEF AllLookups, LookupInv, InLookup, Ring, rings

\* One worker steps and the rings stay.
LEMMA LookupWorker ==
    ASSUME TypeOK, AllLookups, NEW w \in Workers, NEW e, Step(w, e), UNCHANGED rings,
           LookupInv(e)
    PROVE  AllLookups'
<1>1. ASSUME NEW v \in Workers PROVE worker'[v] = IF v = w THEN e ELSE worker[v]
  BY DEF TypeOK, WorkerTypes, Step, Threads
<1>2. \A v \in Workers : LookupInv(worker'[v])
  BY <1>1 DEF AllLookups
<1>3. tree' = tree /\ live' = live
  BY DEF rings
<1> QED
  BY <1>2, <1>3 DEF AllLookups, LookupInv, Ring

\* RewriteTmp takes the ground from under a lookup only if it began in the
\* other tree, and then a swap has happened since.
LEMMA LookupRewrite ==
    ASSUME TypeOK, AllLookups, RewriteTmp
    PROVE  AllLookups'
<1>1. PICK g \in GroupName : g = FirstGroup(health.left)
  BY DEF TypeOK, RewriteTmp, FirstGroup, HealthTypes, GroupName
<1>2. PICK tmp \in {0, 1} : tmp = 1 - live[g] /\ live[g] \in {0, 1} /\ tmp # live[g]
  BY DEF TypeOK, RingTypes
<1>3. PICK r : tree' = [tree EXCEPT ![g][tmp] = r]
  BY <1>1, <1>2 DEF RewriteTmp
<1>4. /\ live' = live
      /\ \A f \in GroupName, i \in {0, 1} : f # g \/ i # tmp => tree'[f][i] = tree[f][i]
  BY <1>3 DEF RewriteTmp, TypeOK, RingTypes
<1>5. \A f \in GroupName : Ring(f)' = Ring(f)
  BY <1>2, <1>4 DEF Ring, TypeOK, RingTypes
<1>6. ASSUME NEW w \in Workers PROVE LookupInv(worker[w])'
  <2> DEFINE q == worker[w]
             hit == InLookup(q) /\ q.group = g /\ q.tree = tmp /\ q.it # END
  <2>1. q \in WorkerRecord /\ LookupInv(q) /\ q.group \in GroupName /\ q.tree \in {0, 1}
        /\ q.swaps \in Nat
    BY DEF TypeOK, WorkerTypes, WorkerRecord, AllLookups, Threads
  <2>2. worker'[w] = IF hit THEN [q EXCEPT !.it = DANGLING] ELSE q
    BY <1>1, <1>2 DEF RewriteTmp, InLookup, Threads
  <2>3. CASE hit
    <3>1. q.swaps >= 1 /\ q.pc # "begin"
      BY <1>2, <2>1, <2>3 DEF LookupInv
    <3>2. PICK e : e = worker'[w] /\ e = [q EXCEPT !.it = DANGLING]
      BY <2>2, <2>3
    <3>3. /\ e.it = DANGLING /\ e.pc = q.pc /\ e.group = q.group /\ e.key = q.key
          /\ e.seen = q.seen /\ e.swaps = q.swaps /\ e.wild = q.wild /\ e.host = q.host
      BY <2>1, <3>2 DEF WorkerRecord
    <3>4. InLookup(q)
      BY <2>3
    <3>5. /\ ~ q.wild /\ find(Ring(q.group), q.key) \in q.seen
      BY <2>1, <3>4 DEF LookupInv
    <3>6. Ring(e.group)' = Ring(q.group)
      BY <1>5, <2>1, <3>3
    <3>7. DANGLING # END
      BY DEF DANGLING, END
    <3> HIDE DEF q
    <3>8. (find(Ring(e.group), e.key)' \in e.seen)
      BY <3>3, <3>5, <3>6
    <3>9. LookupInv(e)'
      BY <2>1, <3>1, <3>3, <3>4, <3>5, <3>7, <3>8 DEF LookupInv, InLookup
    <3> QED
      BY <3>2, <3>9 DEF LookupInv, InLookup, Ring
  <2>4. CASE ~ hit
    <3>1. worker'[w] = q
      BY <2>2, <2>4
    <3>2. Ring(q.group)' = Ring(q.group)
      BY <1>5, <2>1, <3>1
    <3>3. InLookup(q) /\ q.it # END => tree'[q.group][q.tree] = tree[q.group][q.tree]
      BY <1>4, <2>1, <2>4
    <3> QED
      BY <1>4, <2>1, <3>1, <3>2, <3>3 DEF LookupInv, InLookup, Ring
  <2> QED
    BY <2>3, <2>4
<1> QED
  BY <1>6 DEF AllLookups
\* SwapTrees adds the new answer to what a lookup under way may give; the
\* first swap is the delicate one for a lookup that found end().
LEMMA LookupSwap ==
    ASSUME MaxSwaps >= 2, TypeOK, ControlInv, AllLookups, SwapTrees
    PROVE  AllLookups'
<1>1. PICK g \in GroupName : g = FirstGroup(health.left) /\ g \in health.left
  BY DEF TypeOK, SwapTrees, FirstGroup, HealthTypes, GroupName
<1>2. PICK new : new = tree[g][1 - live[g]] /\ new \in Mutated(Ring(g))
  BY <1>1 DEF SwapTrees, ControlInv
<1>3. health.host \in Member(g) /\ RingOf(g, Ring(g))
  BY <1>1 DEF TypeOK, SwapTrees, HealthTypes, GroupsOf, RingTypes, RingOf, Ring
<1>4. /\ live' = [live EXCEPT ![g] = 1 - live[g]]
      /\ tree' = tree
  BY <1>1 DEF SwapTrees
<1>5. Ring(g)' = new /\ \A f \in GroupName \ {g} : Ring(f)' = Ring(f)
  BY <1>2, <1>4 DEF Ring, TypeOK, RingTypes
<1>6. ASSUME NEW w \in Workers PROVE LookupInv(worker[w])'
  <2>1. PICK q : q = worker[w] /\ q \in WorkerRecord /\ LookupInv(q)
    BY DEF TypeOK, WorkerTypes, AllLookups, Threads
  <2>2. /\ q.group \in GroupName /\ q.tree \in {0, 1} /\ q.swaps \in Nat /\ q.key \in Nat
    BY <2>1 DEF WorkerRecord
  <2>3. CASE InLookup(q) /\ q.group = g
    <3> DEFINE n == IF q.swaps < MaxSwaps THEN q.swaps + 1 ELSE q.swaps
               S == q.seen \cup {find(new, q.key)}
    <3>1. worker'[w] = [q EXCEPT !.seen = S, !.swaps = n]
      BY <1>1, <1>2, <2>1, <2>3 DEF SwapTrees, InLookup, Threads
    <3>2. /\ n \in Nat /\ n >= 1 /\ (n = 1 => q.swaps = 0)
          /\ (n <= 1 => q.swaps <= 1)
      BY <2>2, LimitAssumption
    <3>3. q.seen \subseteq S /\ find(new, q.key) \in S
      OBVIOUS
    <3> HIDE DEF n, S
    <3>4. PICK e : /\ e = worker'[w]
                   /\ e.it = q.it /\ e.pc = q.pc /\ e.group = g /\ e.key = q.key
                   /\ e.seen = S /\ e.swaps = n /\ e.wild = q.wild /\ e.host = q.host
                   /\ e.tree = q.tree
      BY <2>1, <2>3, <3>1 DEF WorkerRecord
    <3>5. InLookup(e) /\ ~ e.wild /\ (e.pc = "begin" => e.it = END)
      BY <2>1, <2>3, <3>4 DEF LookupInv, InLookup
    <3>6. find(Ring(e.group)', e.key) \in e.seen
      BY <1>5, <3>3, <3>4
    <3>7. ASSUME e.swaps = 1, e.it = END, DOMAIN new # {}
          PROVE  new[begin(new)] \in e.seen
      <4>1. Wraps(Ring(g), q.key) /\ find(Ring(g), q.key) \in q.seen
        BY <2>1, <2>3, <3>2, <3>4, <3>7 DEF LookupInv
      <4>2. new[begin(new)] \in {find(Ring(g), q.key), find(new, q.key)}
        BY <1>2, <1>3, <2>2, <3>7, <4>1, WrapAfterMutation
      <4> QED
        BY <3>3, <3>4, <4>1, <4>2
    <3>8. e.swaps <= 1 /\ e.it # END /\ e.it # DANGLING => tree[e.group][e.tree][e.it] \in e.seen
      BY <2>1, <2>3, <3>2, <3>3, <3>4 DEF LookupInv
    <3>9. e.swaps >= 1 /\ e.swaps # 0 /\ e.pc # "got" /\ e.pc # "find"
      BY <3>2, <3>4, <3>5 DEF InLookup
    <3> QED
      BY <1>4, <1>5, <3>4, <3>5, <3>6, <3>7, <3>8, <3>9 DEF LookupInv
  <2>4. CASE ~ (InLookup(q) /\ q.group = g)
    <3>1. worker'[w] = q
      BY <1>1, <2>1, <2>4 DEF SwapTrees, InLookup, Threads
    <3>2. CASE InLookup(q)
      <4>1. q.group \in GroupName \ {g}
        BY <2>2, <2>4, <3>2
      <4>2. Ring(q.group)' = Ring(q.group) /\ live'[q.group] = live[q.group]
        BY <1>4, <1>5, <4>1 DEF TypeOK, RingTypes
      <4> QED
        BY <1>4, <2>1, <3>1, <4>2 DEF LookupInv
    <3>3. CASE ~ InLookup(q)
      BY <2>1, <3>1, <3>3 DEF LookupInv, InLookup
    <3> QED
      BY <3>2, <3>3
  <2> QED
    BY <2>3, <2>4
<1> QED
  BY <1>6 DEF AllLookups

\* Each step of a worker.
LEMMA LookupWorkerStep ==
    ASSUME TypeOK, AllLookups, NEW w \in Workers, Worker(w)
    PROVE  AllLookups'
<1>1. PICK r : r = worker[w] /\ r \in WorkerRecord /\ LookupInv(r) /\ IteratorValid(r)
  BY DEF TypeOK, WorkerTypes, AllLookups, Threads
<1>2. UNCHANGED rings
  BY DEF Worker, Request, FindLowerBound, FindSize, FindBegin, FindDeref, Found,
         Talk, TalkOk, TalkFail, LoadFail, StoreFail, LoadCont, StoreCont, Push
<1>3. r.group \in GroupName /\ r.key \in Nat /\ r.swaps \in Nat
  BY <1>1 DEF WorkerRecord
<1>4. PICK ring : /\ ring = Ring(r.group) /\ ring = tree[r.group][live[r.group]]
                  /\ IsRing(ring)
  BY <1>3 DEF TypeOK, RingTypes, Ring
<1>5. IdleWorker.pc = "idle" /\ IdleWorker.it = END /\ ~ IdleWorker.wild /\ IdleWorker.swaps = 0
  BY DEF IdleWorker
<1>6. DANGLING # END
  BY DEF DANGLING, END
<1>7. ASSUME NEW e, Step(w, e), e.it = END, ~ e.wild,
             e.pc \notin {"size", "begin", "deref", "got"}
      PROVE  AllLookups'
  <2>1. LookupInv(e)
    BY <1>6, <1>7 DEF LookupInv, InLookup
  <2> QED
    BY <1>2, <1>7, <2>1, LookupWorker
<1>8. CASE Request(w)
  <2>1. PICK gr : gr = [u \in BOOLEAN |-> IF ~ u /\ DOMAIN Ring("hosts_read") # {}
                                           THEN "hosts_read" ELSE "hosts"]
    OBVIOUS
  <2>2. PICK u \in BOOLEAN, k \in Keys :
          Step(w, [IdleWorker EXCEPT !.pc = "find", !.update = u, !.key = k, !.group = gr[u]])
    BY <1>8, <2>1 DEF Request
  <2> DEFINE e == [IdleWorker EXCEPT !.pc = "find", !.update = u, !.key = k, !.group = gr[u]]
  <2>3. e.pc = "find" /\ e.it = END /\ ~ e.wild
    BY DEF IdleWorker
  <2>4. Step(w, e)
    BY <2>2
  <2> HIDE DEF e
  <2> QED
    BY <1>7, <2>3, <2>4
<1>9. CASE FindLowerBound(w)
  <2>1. PICK lb : lb = lower_bound(ring, r.key)
    OBVIOUS
  <2>2. PICK e : /\ e = [r EXCEPT !.pc = "size", !.tree = live[r.group], !.it = lb,
                                  !.seen = {find(ring, r.key)}, !.swaps = 0]
                 /\ Step(w, e)
    BY <1>1, <1>4, <1>9, <2>1 DEF FindLowerBound
  <2>3. /\ e.pc = "size" /\ e.tree = live[r.group] /\ e.it = lb /\ e.wild = r.wild
        /\ e.seen = {find(ring, r.key)} /\ e.swaps = 0 /\ e.group = r.group /\ e.key = r.key
    BY <1>1, <2>2 DEF WorkerRecord
  <2>4. ~ r.wild
    BY <1>1, <1>9 DEF FindLowerBound, LookupInv
  <2>5. /\ lb = END => Wraps(ring, r.key)
        /\ lb # END => lb \in DOMAIN ring /\ find(ring, r.key) = ring[lb]
    <3> DEFINE S == {p \in DOMAIN ring : p >= r.key}
    <3>1. S \in SUBSET Nat
      BY <1>4 DEF IsRing
    <3>2. CASE S = {}
      BY <2>1, <3>2 DEF lower_bound, Wraps
    <3>3. CASE S # {}
      <4>1. lb = Least(S) /\ lb \in S
        BY <2>1, <3>1, <3>3, LeastIsMinimum DEF lower_bound
      <4>2. lb # END
        BY <3>1, <4>1 DEF END
      <4> QED
        BY <2>1, <4>1, <4>2 DEF find
    <3> QED
      BY <3>2, <3>3
  <2>6. lb # DANGLING
    BY <1>4, <1>6, <2>5 DEF IsRing, DANGLING
  <2>7. find(ring, r.key) \in e.seen /\ e.it # DANGLING /\ InLookup(e) /\ ~ e.wild
    BY <2>3, <2>4, <2>6 DEF InLookup
  <2>8. e.it # END => tree[e.group][e.tree][e.it] \in e.seen
    BY <1>4, <2>3, <2>5
  <2>9. e.it = END => Wraps(Ring(e.group), e.key)
    BY <1>4, <2>3, <2>5
  <2>10. LookupInv(e)
    <3>1. find(Ring(e.group), e.key) \in e.seen
      BY <1>4, <2>3, <2>7
    <3>2. e.swaps = 0 /\ e.pc = "size" /\ e.tree = live[e.group]
      BY <2>3
    <3> QED
      BY <2>7, <2>8, <2>9, <3>1, <3>2 DEF LookupInv
  <2> QED
    BY <1>2, <2>2, <2>10, LookupWorker
<1>10. CASE FindSize(w)
  <2>1. InLookup(r) /\ r.pc = "size"
    BY <1>1, <1>10 DEF FindSize, InLookup
  <2>2. CASE DOMAIN ring = {}
    <3>1. PICK e : e = [r EXCEPT !.pc = "got", !.host = 0] /\ Step(w, e)
      BY <1>1, <1>4, <1>10, <2>2 DEF FindSize
    <3>2. e.pc = "got" /\ e.host = 0 /\ e.it = r.it /\ e.swaps = r.swaps /\ e.seen = r.seen
      BY <1>1, <3>1 DEF WorkerRecord
    <3>3. 0 \in r.seen
      BY <1>1, <1>4, <2>1, <2>2 DEF LookupInv, find
    <3>4. LookupInv(e)
      BY <1>1, <3>2, <3>3 DEF LookupInv, InLookup
    <3> QED
      BY <1>2, <3>1, <3>4, LookupWorker
  <2>3. CASE DOMAIN ring # {}
    <3>1. PICK pc : pc = IF r.it = END THEN "begin" ELSE "deref"
      OBVIOUS
    <3>2. PICK e : e = [r EXCEPT !.pc = pc] /\ Step(w, e)
      BY <1>1, <1>4, <1>10, <2>3, <3>1 DEF FindSize
    <3>3. /\ e.pc = pc /\ e.it = r.it /\ e.swaps = r.swaps /\ e.seen = r.seen /\ e.wild = r.wild
          /\ e.group = r.group /\ e.tree = r.tree /\ e.key = r.key
      BY <1>1, <3>2 DEF WorkerRecord
    <3>4. LookupInv(e)
      BY <1>1, <1>4, <2>1, <2>3, <3>1, <3>3 DEF LookupInv, InLookup
    <3> QED
      BY <1>2, <3>2, <3>4, LookupWorker
  <2> QED
    BY <2>2, <2>3
<1>11. CASE FindBegin(w)
  <2>1. InLookup(r) /\ r.pc = "begin" /\ r.it = END
    BY <1>1, <1>11 DEF FindBegin, InLookup, LookupInv
  <2>2. PICK it : it = IF DOMAIN ring = {} THEN DANGLING ELSE begin(ring)
    OBVIOUS
  <2>3. PICK e : /\ e = [r EXCEPT !.pc = "deref", !.tree = live[r.group], !.it = it]
                 /\ Step(w, e)
    BY <1>1, <1>4, <1>11, <2>2 DEF FindBegin
  <2>4. /\ e.pc = "deref" /\ e.tree = live[r.group] /\ e.it = it /\ e.wild = r.wild
        /\ e.seen = r.seen /\ e.swaps = r.swaps /\ e.group = r.group /\ e.key = r.key
    BY <1>1, <2>3 DEF WorkerRecord
  <2>5. it = DANGLING => r.swaps >= 1
    <3>1. CASE DOMAIN ring = {}
      BY <1>1, <1>3, <1>4, <2>1, <3>1 DEF LookupInv
    <3>2. CASE DOMAIN ring # {}
      <4>1. begin(ring) \in Nat
        BY <1>4, <3>2, LeastIsMinimum DEF begin, IsRing
      <4> QED
        BY <2>2, <3>2, <4>1 DEF DANGLING
    <3> QED
      BY <3>1, <3>2
  <2>6. it # END
    <3>1. CASE DOMAIN ring = {}
      BY <1>6, <2>2, <3>1
    <3>2. CASE DOMAIN ring # {}
      <4>1. begin(ring) \in Nat
        BY <1>4, <3>2, LeastIsMinimum DEF begin, IsRing
      <4> QED
        BY <2>2, <3>2, <4>1 DEF END
    <3> QED
      BY <3>1, <3>2
  <2>7. ASSUME r.swaps <= 1, it # DANGLING
        PROVE  ring[it] \in r.seen
    <3>1. DOMAIN ring # {} /\ it = begin(ring)
      BY <2>2, <2>7
    <3>2. CASE r.swaps = 0
      <4>1. Wraps(ring, r.key) /\ find(ring, r.key) \in r.seen
        BY <1>1, <1>4, <2>1, <3>2 DEF LookupInv
      <4> QED
        BY <1>3, <1>4, <3>1, <4>1, WrapAnswer
    <3>3. CASE r.swaps = 1
      BY <1>1, <1>4, <2>1, <3>1, <3>3 DEF LookupInv
    <3> QED
      BY <1>3, <2>7, <3>2, <3>3
  <2>8. ~ r.wild /\ find(ring, r.key) \in r.seen
    BY <1>1, <1>4, <2>1 DEF LookupInv
  <2>9. LookupInv(e)
    BY <1>4, <2>4, <2>5, <2>6, <2>7, <2>8 DEF LookupInv, InLookup
  <2> QED
    BY <1>2, <2>3, <2>9, LookupWorker
<1>12. CASE FindDeref(w)
  <2>1. InLookup(r) /\ r.pc = "deref"
    BY <1>1, <1>12 DEF FindDeref, InLookup
  <2>2. CASE r.it # DANGLING
    <3>1. PICK v : v = tree[r.group][r.tree][r.it]
      OBVIOUS
    <3>2. PICK e : e = [r EXCEPT !.pc = "got", !.host = v] /\ Step(w, e)
      BY <1>1, <1>12, <2>2, <3>1 DEF FindDeref
    <3>3. e.pc = "got" /\ e.host = v /\ e.it = r.it /\ e.swaps = r.swaps /\ e.seen = r.seen
      BY <1>1, <3>2 DEF WorkerRecord
    <3>4. r.it # END
      <4>1. r.it \in DOMAIN tree[r.group][r.tree] /\ r.tree \in {0, 1}
        BY <1>1, <2>1, <2>2 DEF IteratorValid, WorkerRecord
      <4>2. DOMAIN tree[r.group][r.tree] \subseteq Nat
        BY <1>3, <4>1 DEF TypeOK, RingTypes, IsRing
      <4> QED
        BY <4>1, <4>2 DEF END
    <3>5. LookupInv(e)
      BY <1>1, <2>1, <2>2, <3>1, <3>3, <3>4 DEF LookupInv, InLookup
    <3> QED
      BY <1>2, <3>2, <3>5, LookupWorker
  <2>3. CASE r.it = DANGLING
    <3>1. PICK e : /\ Step(w, e)
                   /\ \/ \E h \in Hosts : e = [r EXCEPT !.pc = "got", !.host = h, !.wild = TRUE]
                      \/ e = [r EXCEPT !.pc = "crash", !.wild = TRUE]
      BY <1>1, <1>12, <2>3 DEF FindDeref
    <3>2. e.pc \in {"got", "crash"} /\ e.wild /\ e.it = r.it /\ e.swaps = r.swaps
      BY <1>1, <3>1 DEF WorkerRecord
    <3>3. LookupInv(e)
      BY <1>1, <3>2 DEF LookupInv, InLookup
    <3> QED
      BY <1>2, <3>1, <3>3, LookupWorker
  <2> QED
    BY <2>2, <2>3
<1>13. CASE Found(w)
  <2>1. PICK found : found = IF r.host = 0 THEN r.talkto ELSE Append(r.talkto, r.host)
    OBVIOUS
  <2>2. PICK next : next = [IdleWorker EXCEPT !.talkto = found]
    OBVIOUS
  <2>3. next.it = END /\ ~ next.wild /\ next \in [DOMAIN IdleWorker -> {next[x] : x \in DOMAIN IdleWorker}]
    BY <2>2 DEF IdleWorker
  <2>4. PICK e : /\ Step(w, e)
                 /\ \/ e = [next EXCEPT !.pc = "find", !.update = TRUE, !.key = r.key,
                                        !.group = "hosts_backup"]
                    \/ e = [next EXCEPT !.pc = IF found = << >> THEN "idle" ELSE "talk"]
                    \/ e = [IdleWorker EXCEPT !.pc = "talk", !.talkto = r.talkto, !.push = r.host]
    BY <1>1, <1>13, <2>1, <2>2 DEF Found
  <2>5. e.pc \in {"find", "idle", "talk"} /\ e.it = END /\ ~ e.wild
    BY <2>2, <2>4 DEF IdleWorker
  <2> QED
    BY <1>7, <2>4, <2>5
<1>14. ASSUME Step(w, Rest(r)), Talking(r) PROVE AllLookups'
  <2>1. Rest(r).pc \in {"idle", "talk", "push"} /\ Rest(r).it = END /\ ~ Rest(r).wild
    BY DEF Rest, IdleWorker
  <2> QED
    BY <1>7, <1>14, <2>1
<1>15. ASSUME NEW pc \in {"fail++", "fail=", "cont++", "cont="}, NEW x, Talking(r),
              \/ Step(w, [r EXCEPT !.pc = pc]) \/ Step(w, [r EXCEPT !.pc = pc, !.val = x])
       PROVE  AllLookups'
  <2>1. PICK e : /\ Step(w, e)
                 /\ e = [r EXCEPT !.pc = pc] \/ e = [r EXCEPT !.pc = pc, !.val = x]
    BY <1>15
  <2>3. e.pc = pc /\ e.it = r.it /\ e.swaps = r.swaps
    BY <1>1, <2>1 DEF WorkerRecord
  <2>2. LookupInv(e)
    BY <1>1, <1>15, <2>3 DEF LookupInv, InLookup
  <2> QED
    BY <1>2, <2>1, <2>2, LookupWorker
<1>16. CASE TalkOk(w)
  BY <1>1, <1>14, <1>16 DEF TalkOk, Talking
<1>17. CASE TalkFail(w)
  <2>1. Talking(r) /\ (Step(w, [r EXCEPT !.pc = "fail++"]) \/ Step(w, Rest(r)))
    BY <1>1, <1>17 DEF TalkFail, Talking
  <2> QED
    BY <1>14, <1>15, <2>1
<1>18. CASE LoadFail(w)
  <2>1. Talking(r) /\ \E x : Step(w, [r EXCEPT !.pc = "fail=", !.val = x])
    BY <1>1, <1>18 DEF LoadFail, Talking
  <2> QED
    BY <1>15, <2>1
<1>19. CASE StoreFail(w)
  BY <1>1, <1>15, <1>19 DEF StoreFail, Talking
<1>20. CASE LoadCont(w)
  <2>1. Talking(r) /\ \E x : Step(w, [r EXCEPT !.pc = "cont=", !.val = x])
    BY <1>1, <1>20 DEF LoadCont, Talking
  <2> QED
    BY <1>15, <2>1
<1>21. CASE StoreCont(w)
  BY <1>1, <1>14, <1>21 DEF StoreCont, Talking
<1>22. CASE Push(w)
  BY <1>5, <1>7, <1>22 DEF Push
<1> QED
  BY <1>8, <1>9, <1>10, <1>11, <1>12, <1>13, <1>16, <1>17, <1>18, <1>19, <1>20, <1>21, <1>22
     DEF Worker, Talk

\* No lookup is under way at the start.
LEMMA LookupInit ==
    ASSUME Init
    PROVE  AllLookups
<1>1. IdleWorker.pc = "idle" /\ IdleWorker.it = END
  BY DEF IdleWorker
<1>2. END # DANGLING
  BY DEF DANGLING, END
<1>3. \A w \in Workers : worker[w] = IdleWorker
  BY DEF Init, Threads
<1> QED
  BY <1>1, <1>2, <1>3 DEF AllLookups, LookupInv, InLookup

\* Every step keeps the lookups in order.
LEMMA LookupStep ==
    ASSUME MaxSwaps >= 2, TypeOK, ControlInv, AllLookups, [Next]_vars
    PROVE  AllLookups'
<1>1. CASE RewriteTmp
  BY <1>1, LookupRewrite
<1>2. CASE SwapTrees
  BY <1>2, LookupSwap
<1>3. CASE UNCHANGED <<rings, worker>>
  BY <1>3, LookupStay
<1>4. CASE \E w \in Workers : Worker(w)
  BY <1>4, LookupWorkerStep
<1>6. CASE asyncReqThread
  <2>1. \A w \in Workers : w \in Threads /\ w # ASYNC
    BY AsyncAssumption DEF Threads
  <2>2. UNCHANGED rings /\ \E e : Step(ASYNC, e)
    BY <1>6 DEF asyncReqThread, TakeAsync, Talk, TalkOk, TalkFail, LoadFail, StoreFail,
                LoadCont, StoreCont
  <2>3. \A w \in Workers : worker'[w] = worker[w]
    BY <2>1, <2>2 DEF Step, TypeOK, WorkerTypes
  <2> QED
    BY <2>2, <2>3, LookupStay
<1>5. \/ RewriteTmp \/ SwapTrees \/ UNCHANGED <<rings, worker>>
      \/ asyncReqThread \/ \E w \in Workers : Worker(w)
  BY DEF Next, checkHealthThread, Wake, FailoverDel, MarkOffline, StartProbe, Probe,
         MarkOnline, ResetCount, Sleep, Toggle, vars, rings
<1> QED
  BY <1>1, <1>2, <1>3, <1>4, <1>5, <1>6

\* For every configuration, key and number of threads: a lookup that overlaps
\* at most one swap of its ring, and reads no freed node, gives an answer that
\* an atomic find would have given at some moment of the lookup.
THEOREM LookupsLinearize ==
    ASSUME MaxSwaps >= 2
    PROVE  Spec => []LookupLinearizable
<1>1. Init => TypeOK /\ ControlInv /\ AllLookups
  BY TypeInit, RingInitial, LookupInit
<1>2. TypeOK /\ ControlInv /\ AllLookups /\ [Next]_vars => (TypeOK /\ ControlInv /\ AllLookups)'
  BY TypeStep, ControlStep, LookupStep
<1>3. AllLookups => LookupLinearizable
  BY DEF AllLookups, LookupInv, LookupLinearizable
<1> QED
  BY <1>1, <1>2, <1>3, PTL DEF Spec

\* The double buffer protects every lookup until the first swap: an iterator
\* that dangles has lived through one.
THEOREM DanglingNeedsSwap ==
    ASSUME MaxSwaps >= 2
    PROVE  Spec => []DanglingOnlyAfterSwap
<1>1. Init => TypeOK /\ ControlInv /\ AllLookups
  BY TypeInit, RingInitial, LookupInit
<1>2. TypeOK /\ ControlInv /\ AllLookups /\ [Next]_vars => (TypeOK /\ ControlInv /\ AllLookups)'
  BY TypeStep, ControlStep, LookupStep
<1>3. AllLookups => DanglingOnlyAfterSwap
  BY DEF AllLookups, LookupInv, DanglingOnlyAfterSwap
<1> QED
  BY <1>1, <1>2, <1>3, PTL DEF Spec
=============================================================================

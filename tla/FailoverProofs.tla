--------------------------- MODULE FailoverProofs ---------------------------
(***************************************************************************)
(* Invariants of Failover, proved for every configuration, every number of *)
(* workers and every interleaving, and that it implements Routing.         *)
(***************************************************************************)
EXTENDS Failover, ConsistentHashProofs, SequenceTheorems, FiniteSetTheorems

\* The configuration: members of groups are aliases and have an (id, weight).
LEMMA ConfFacts ==
    ASSUME NEW g \in GroupName
    PROVE  /\ Member(g) \in SUBSET Alias
           /\ Member(g) \subseteq Hosts
           /\ Conf[g] \in [Member(g) -> Info]
<1>1. Conf[g] \in UNION {[H -> Info] : H \in SUBSET Alias}
  BY ConfAssumption
<1>2. PICK H \in SUBSET Alias : Conf[g] \in [H -> Info]
  BY <1>1
<1> QED
  BY <1>2 DEF Member, Hosts

\* Every host is an alias, and host_infos has an (id, weight) for it.
LEMMA HostFacts ==
    ASSUME NEW h \in Hosts
    PROVE  h \in Alias /\ h \in Nat \ {0} /\ host_infos(h) \in Info
<1>1. PICK g \in GroupName : h \in Member(g)
  BY DEF Hosts
<1>2. h \in Alias /\ h \in Nat \ {0}
  BY <1>1, ConfFacts, AliasAssumption
<1>3. \A f \in GroupName : h \in Member(f) => Conf[f][h] \in Info
  BY ConfFacts
<1>4. "hosts" \in GroupName /\ "hosts_read" \in GroupName /\ "hosts_backup" \in GroupName
  BY DEF GroupName
<1>5. h \in Member("hosts_read") \/ h \in Member("hosts_backup") \/ h \in Member("hosts")
  BY <1>1 DEF GroupName
<1> QED
  BY <1>2, <1>3, <1>4, <1>5 DEF host_infos

\* A ring whose points belong to members of g.
RingOf(g, ring) == IsRing(ring) /\ ring \in [DOMAIN ring -> Member(g)]

\* find on such a ring answers a member or, when it is empty, 0.
LEMMA FindType ==
    ASSUME NEW g \in GroupName, NEW ring, RingOf(g, ring), NEW k \in Nat
    PROVE  find(ring, k) \in Hosts \cup {0}
<1>1. CASE DOMAIN ring = {}
  BY <1>1 DEF find
<1>2. CASE DOMAIN ring # {}
  <2>1. \E p \in DOMAIN ring : find(ring, k) = ring[p]
    BY <1>2, FindOwner DEF RingOf
  <2> QED
    BY <2>1, ConfFacts DEF RingOf
<1> QED
  BY <1>1, <1>2

\* The ring setHosts builds at startup.
LEMMA InitialRing ==
    ASSUME NEW g \in GroupName
    PROVE  /\ RingOf(g, createVNodes(EmptyRing, Conf[g]))
           /\ RingOf(g, EmptyRing)
<1>1. IsRing(EmptyRing) /\ DOMAIN EmptyRing = {}
  BY DEF IsRing, EmptyRing
<1>2. Written(createVNodes(EmptyRing, Conf[g]), EmptyRing, Member(g), Conf[g])
  BY <1>1, ConfFacts, CreateVNodesOwners
<1> QED
  BY <1>1, <1>2, ConfFacts DEF RingOf, IsRing, Written, EmptyRing

\* A mutation of a ring of group g by a member leaves a ring of group g.
LEMMA MutatedRing ==
    ASSUME NEW g \in GroupName, NEW ring, RingOf(g, ring),
           health.host \in Member(g), NEW r \in Mutated(ring)
    PROVE  RingOf(g, r)
<1>1. CASE health.pc = "del"
  <2>1. r \in delHost(ring, health.host)
    BY <1>1 DEF Mutated
  <2>2. /\ IsRing(r) /\ DOMAIN r \subseteq DOMAIN ring
        /\ \A p \in DOMAIN r : r[p] = ring[p]
    BY <2>1, DelHostOwners DEF RingOf
  <2> QED
    BY <2>2 DEF RingOf, IsRing
<1>2. CASE health.pc # "del"
  <2> DEFINE h == health.host
  <2>1. h \in Alias /\ h \in Member(g) /\ host_infos(h) \in Info
    BY ConfFacts, HostFacts
  <2>2. r = addHost(ring, h, host_infos(h))
    BY <1>2 DEF Mutated
  <2> HIDE DEF h
  <2>3. Added(r, ring, h, host_infos(h))
    BY <2>1, <2>2, AddHostOwners DEF RingOf
  <2>4. \A p \in DOMAIN r : r[p] \in Member(g)
    BY <2>1, <2>3 DEF RingOf, Added
  <2> QED
    BY <2>3, <2>4 DEF RingOf, IsRing, Added
<1> QED
  BY <1>1, <1>2
-----------------------------------------------------------------------------
(***************************************************************************)
(* Type correctness                                                        *)
(***************************************************************************)

\* A worker that is in the middle of talking to a host has one to talk to.
Talking(r) == r.pc \in {"talk", "fail++", "fail=", "cont++", "cont="}

\* It has one to talk to, or a backup to queue an update for, and the backup is
\* looked up only after the host of the key.
Busy(r) == /\ Talking(r) => r.talkto # << >>
           /\ r.group = "hosts_backup" => r.talkto # << >>
           /\ r.pc = "push" => r.push \in Hosts

\* The types of everything but the queue and the leaked descriptors.
CoreTypes == RingTypes /\ HostTypes /\ HealthTypes /\ WorkerTypes

\* One worker steps and the trees stay.
LEMMA WorkerStep ==
    ASSUME WorkerTypes, NEW w \in Threads, NEW r \in WorkerRecord, Step(w, r),
           UNCHANGED tree, IteratorValid(r), Busy(r)
    PROVE  WorkerTypes'
<1>1. worker' \in [Threads -> WorkerRecord]
  BY DEF WorkerTypes, Step
<1>2. ASSUME NEW v \in Threads
      PROVE  /\ IteratorValid(worker[v])'
             /\ Busy(worker[v])'
  <2>1. CASE v = w
    <3>1. worker'[v] = r
      BY <2>1 DEF WorkerTypes, Step
    <3> QED
      BY <3>1 DEF IteratorValid, Busy, Talking
  <2>2. CASE v # w
    <3>1. worker'[v] = worker[v]
      BY <2>2 DEF WorkerTypes, Step
    <3> QED
      BY <3>1 DEF IteratorValid, Busy, Talking, WorkerTypes
  <2> QED
    BY <2>1, <2>2
<1> QED
  BY <1>1, <1>2 DEF WorkerTypes, Busy, Talking

\* The records a worker starts from and returns to.
LEMMA IdleType ==
    /\ IdleWorker \in WorkerRecord
    /\ IdleWorker.pc = "idle" /\ IdleWorker.it = END /\ IdleWorker.swaps = 0
    /\ IdleWorker.group = "hosts"
<1>1. << >> \in Seq(Hosts)
  OBVIOUS
<1>2. {} \in SUBSET (Hosts \cup {0}) /\ -1 \in Int
  OBVIOUS
<1> QED
  BY <1>1, <1>2, SMTT(30) DEF IdleWorker, WorkerRecord, WorkerPC, GroupName, END

\* What Rest returns is a worker that is idle, has a host to talk to, or an
\* update to queue.
LEMMA RestType ==
    ASSUME NEW r \in WorkerRecord, r.talkto # << >>
    PROVE  /\ Rest(r) \in WorkerRecord
           /\ Rest(r).pc \in {"idle", "talk", "push"}
           /\ Rest(r).it = END /\ Rest(r).swaps = 0 /\ Rest(r).group = "hosts"
           /\ Rest(r).pc = "talk" => Rest(r).talkto # << >>
           /\ Rest(r).pc = "push" => Rest(r).push \in Hosts
<1>1. r.talkto \in Seq(Hosts) /\ r.push \in Hosts \cup {0}
  BY DEF WorkerRecord
<1>2. CASE ~ (Len(r.talkto) > 1) /\ r.push = 0
  BY <1>2, IdleType DEF Rest
<1>3. CASE ~ (Len(r.talkto) > 1) /\ r.push # 0
  BY <1>1, <1>3, IdleType DEF Rest, WorkerRecord, WorkerPC
<1>4. CASE Len(r.talkto) > 1
  <2> DEFINE t == Tail(r.talkto)
  <2>1. t \in Seq(Hosts) /\ t # << >>
    <3>1. PICK s \in Seq(Hosts) : s = r.talkto
      BY <1>1
    <3>2. PICK n \in Nat : n = Len(s)
      BY <3>1, LenProperties
    <3>3. n > 1 /\ s # << >>
      BY <1>4, <3>1, <3>2, EmptySeq
    <3>4. Tail(s) \in Seq(Hosts) /\ Len(Tail(s)) = n - 1
      BY <3>2, <3>3, HeadTailProperties
    <3>5. PICK u \in Seq(Hosts) : u = Tail(s)
      BY <3>4
    <3>6. Len(u) # 0
      BY <3>3, <3>4, <3>5
    <3>7. u # << >>
      BY <3>6, EmptySeq
    <3> QED
      BY <3>1, <3>5, <3>7
  <2>2. Rest(r) = [IdleWorker EXCEPT !.pc = "talk", !.talkto = t, !.push = r.push]
    BY <1>4 DEF Rest
  <2> HIDE DEF t
  <2> QED
    BY <1>1, <2>1, <2>2, IdleType DEF WorkerRecord, WorkerPC
<1> QED
  BY <1>2, <1>3, <1>4

\* Steps of the health thread that only move its own control state and the
\* host tables: rings and workers keep their types.
LEMMA RingsAndWorkersStay ==
    ASSUME RingTypes, WorkerTypes, UNCHANGED <<rings, worker>>
    PROVE  RingTypes' /\ WorkerTypes'
BY DEF rings, RingTypes, WorkerTypes, IteratorValid

\* checkHealthThread preserves the types.
LEMMA HealthTypeStep ==
    ASSUME TypeOK, checkHealthThread
    PROVE  CoreTypes'
<1> USE DEF TypeOK, CoreTypes
<1>1. CASE Wake
  <2>1. HealthTypes' /\ HostTypes'
    BY <1>1 DEF Wake, HealthTypes, HealthPC, HostTypes, counters, outside
  <2> QED
    BY <1>1, <2>1, RingsAndWorkersStay DEF Wake
<1>2. CASE FailoverDel
  <2>1. PICK h : h = Least(health.todo) /\ h \in health.todo /\ h \in Hosts
    <3>1. health.todo \in SUBSET Nat /\ health.todo \subseteq Hosts
      BY HostFacts DEF HealthTypes
    <3> QED
      BY <1>2, <3>1, LeastIsMinimum DEF FailoverDel
  <2>2. health' = IF host_offline[h]
                  THEN [health EXCEPT !.todo = @ \ {h}]
                  ELSE [health EXCEPT !.pc = "del", !.host = h, !.left = GroupsOf(h)]
    BY <1>2, <2>1 DEF FailoverDel
  <2>3. GroupsOf(h) \in SUBSET GroupName
    BY DEF GroupsOf
  <2>4. health.pc = "fail"
    BY <1>2 DEF FailoverDel
  <2>5. HealthTypes'
    BY <2>1, <2>2, <2>3, <2>4 DEF HealthTypes, HealthPC
  <2>6. HostTypes'
    BY <1>2 DEF FailoverDel, HostTypes, counters, outside
  <2> QED
    BY <1>2, <2>5, <2>6, RingsAndWorkersStay DEF FailoverDel
<1>3. CASE RewriteTmp
  <2> DEFINE g == FirstGroup(health.left)
             tmp == 1 - live[g]
  <2>1. g \in health.left /\ g \in GroupName /\ health.host \in Member(g)
    BY <1>3 DEF RewriteTmp, FirstGroup, HealthTypes, GroupName, GroupsOf
  <2>2. tmp \in {0, 1} /\ live[g] \in {0, 1} /\ tmp # live[g]
    BY <2>1 DEF RingTypes
  <2>3. PICK r \in Mutated(Ring(g)) : tree' = [tree EXCEPT ![g][tmp] = r]
    BY <1>3 DEF RewriteTmp
  <2>4. /\ health' = [health EXCEPT !.ready = TRUE]
        /\ UNCHANGED <<live, host_offline, counters, outside>>
        /\ health.pc \in {"del", "add"} /\ health.left # {}
    BY <1>3 DEF RewriteTmp
  <2>5. worker' = [w \in Threads |->
                     IF /\ worker[w].pc \in {"size", "begin", "deref"}
                        /\ worker[w].group = g
                        /\ worker[w].tree = tmp
                        /\ worker[w].it # END
                     THEN [worker[w] EXCEPT !.it = DANGLING] ELSE worker[w]]
    BY <1>3 DEF RewriteTmp
  <2> HIDE DEF g, tmp
  <2>6. RingOf(g, r)
    BY <2>1, <2>2, MutatedRing DEF RingTypes, RingOf, Ring
  <2>7. /\ tree' = [f \in GroupName |-> [i \in {0, 1} |-> tree'[f][i]]]
        /\ \A f \in GroupName, i \in {0, 1} :
              tree'[f][i] = IF f = g /\ i = tmp THEN r ELSE tree[f][i]
    BY <2>1, <2>2, <2>3 DEF RingTypes
  <2>8. RingTypes'
    BY <2>4, <2>6, <2>7 DEF RingTypes, RingOf
  <2>9. HealthTypes' /\ HostTypes'
    BY <2>4 DEF HealthTypes, HostTypes, counters, outside
  <2>10. WorkerTypes'
    <3>1. DANGLING \in Int /\ DANGLING # END
      BY DEF DANGLING, END
    <3>2. worker' \in [Threads -> WorkerRecord]
      <4>1. \A q \in WorkerRecord : [q EXCEPT !.it = DANGLING] \in WorkerRecord
        BY <3>1 DEF WorkerRecord
      <4> QED
        BY <2>5, <4>1 DEF WorkerTypes
    <3>3. ASSUME NEW w \in Threads
          PROVE  IteratorValid(worker[w])' /\ Busy(worker[w])'
      <4>1. worker[w] \in WorkerRecord /\ IteratorValid(worker[w])
        BY DEF WorkerTypes
      <4>2. worker[w].group \in GroupName /\ worker[w].tree \in {0, 1}
        BY <4>1 DEF WorkerRecord
      <4>3. CASE worker'[w].it = DANGLING
        BY <4>3, <4>1, <2>5 DEF IteratorValid, WorkerTypes, WorkerRecord, Busy, Talking
      <4>4. CASE worker'[w].it # DANGLING
        <5>1. worker'[w] = worker[w]
          BY <2>5, <4>1, <4>4 DEF WorkerRecord
        <5>2. worker[w].pc \in {"size", "deref"} /\ worker[w].it # END =>
                  ~ (worker[w].group = g /\ worker[w].tree = tmp)
          BY <2>5, <4>1, <4>4 DEF WorkerRecord
        <5>3. IteratorValid(worker[w])'
          <6>1. SUFFICES ASSUME worker[w].pc \in {"size", "deref"}, worker[w].it # DANGLING,
                                ~ (worker[w].it = END /\ worker[w].pc = "size")
                         PROVE  worker[w].it \in DOMAIN tree'[worker[w].group][worker[w].tree]
            BY <5>1 DEF IteratorValid
          <6>2. worker[w].it \in DOMAIN tree[worker[w].group][worker[w].tree]
            BY <4>1, <6>1 DEF IteratorValid
          <6>3. worker[w].it # END
            BY <2>1, <4>2, <6>2 DEF RingTypes, IsRing, END
          <6> QED
            BY <2>7, <4>2, <5>2, <6>1, <6>2, <6>3
        <5> QED
          BY <5>1, <5>3 DEF WorkerTypes, Busy, Talking
      <4> QED
        BY <4>3, <4>4
    <3> QED
      BY <3>2, <3>3 DEF WorkerTypes, Busy, Talking
  <2> QED
    BY <2>8, <2>9, <2>10
<1>4. CASE SwapTrees
  <2> DEFINE g == FirstGroup(health.left)
  <2>1. /\ live' = [live EXCEPT ![g] = 1 - @]
        /\ health' = [health EXCEPT !.ready = FALSE, !.left = @ \ {g}]
        /\ UNCHANGED <<tree, host_offline, counters, outside>>
        /\ worker' = [w \in Threads |->
                IF worker[w].pc \in {"size", "begin", "deref"} /\ worker[w].group = g
                THEN [worker[w] EXCEPT
                        !.seen = @ \cup {find(tree[g][1 - live[g]], worker[w].key)},
                        !.swaps = IF @ < MaxSwaps THEN @ + 1 ELSE @]
                ELSE worker[w]]
    BY <1>4 DEF SwapTrees
  <2>2. g \in health.left /\ g \in GroupName
    BY <1>4 DEF SwapTrees, FirstGroup, HealthTypes, GroupName
  <2> HIDE DEF g
  <2>3. RingTypes' /\ HostTypes' /\ HealthTypes'
    <3>1. RingTypes'
      <4>1. live \in [GroupName -> {0, 1}]
        BY DEF RingTypes
      <4>2. live' = [live EXCEPT ![g] = 1 - live[g]] /\ tree' = tree
        BY <2>1
      <4>3. 1 - live[g] \in {0, 1}
        BY <2>2, <4>1
      <4>4. tree' = tree /\ live' \in [GroupName -> {0, 1}]
        BY <2>2, <4>1, <4>2, <4>3
      <4> QED
        BY <4>4 DEF RingTypes
    <3>2. HostTypes'
      BY <2>1 DEF HostTypes, counters, outside
    <3>3. HealthTypes'
      BY <2>1, <2>2 DEF HealthTypes
    <3> QED
      BY <3>1, <3>2, <3>3
  <2>4. 1 - live[g] \in {0, 1} /\ RingOf(g, tree[g][1 - live[g]])
    BY <2>2 DEF RingTypes, RingOf
  <2>5. ASSUME NEW w \in Threads
        PROVE  /\ worker'[w] \in WorkerRecord
               /\ worker'[w].pc = worker[w].pc /\ worker'[w].it = worker[w].it
               /\ worker'[w].group = worker[w].group /\ worker'[w].tree = worker[w].tree
               /\ worker'[w].talkto = worker[w].talkto
    <3>1. worker[w] \in WorkerRecord /\ worker[w].key \in Nat
      BY DEF WorkerTypes, WorkerRecord
    <3>2. find(tree[g][1 - live[g]], worker[w].key) \in Hosts \cup {0}
      BY <2>2, <2>4, <3>1, FindType
    <3>3. CASE worker[w].pc \in {"size", "begin", "deref"} /\ worker[w].group = g
      <4> DEFINE S == worker[w].seen \cup {find(tree[g][1 - live[g]], worker[w].key)}
                 n == IF worker[w].swaps < MaxSwaps THEN worker[w].swaps + 1 ELSE worker[w].swaps
      <4>1. worker'[w] = [worker[w] EXCEPT !.seen = S, !.swaps = n]
        BY <2>1, <3>3
      <4>2. S \in SUBSET (Hosts \cup {0}) /\ n \in Nat
        BY <3>1, <3>2 DEF WorkerRecord
      <4> HIDE DEF S, n
      <4> QED
        BY <3>1, <4>1, <4>2 DEF WorkerRecord
    <3>4. CASE ~ (worker[w].pc \in {"size", "begin", "deref"} /\ worker[w].group = g)
      BY <2>1, <3>1, <3>4
    <3> QED
      BY <3>3, <3>4
  <2>6. worker' \in [Threads -> WorkerRecord]
    BY <2>1, <2>5
  <2>7. WorkerTypes'
    BY <2>1, <2>5, <2>6 DEF WorkerTypes, IteratorValid
  <2> QED
    BY <2>3, <2>7
<1>5. CASE MarkOffline
  <2>1. HealthTypes' /\ HostTypes'
    BY <1>5 DEF MarkOffline, HealthTypes, HealthPC, HostTypes, counters, outside
  <2> QED
    BY <1>5, <2>1, RingsAndWorkersStay DEF MarkOffline
<1>6. CASE StartProbe
  <2>1. HealthTypes' /\ HostTypes'
    BY <1>6 DEF StartProbe, HealthTypes, HealthPC, HostTypes, counters, outside
  <2> QED
    BY <1>6, <2>1, RingsAndWorkersStay DEF StartProbe
<1>7. CASE Probe
  <2>1. PICK h : h = Least(health.todo) /\ h \in health.todo /\ h \in Hosts
    <3>1. health.todo \in SUBSET Nat /\ health.todo \subseteq Hosts
      BY HostFacts DEF HealthTypes
    <3> QED
      BY <1>7, <3>1, LeastIsMinimum DEF Probe
  <2>2. health' = IF ~ Connects(h) THEN [health EXCEPT !.todo = @ \ {h}]
                  ELSE [health EXCEPT !.pc = "add", !.host = h,
                          !.left = IF host_offline[h] THEN GroupsOf(h) ELSE {}]
    BY <1>7, <2>1 DEF Probe
  <2>3. GroupsOf(h) \in SUBSET GroupName
    BY DEF GroupsOf
  <2>4. health.pc = "probe"
    BY <1>7 DEF Probe
  <2>5. HealthTypes'
    BY <2>1, <2>2, <2>3, <2>4 DEF HealthTypes, HealthPC
  <2>6. HostTypes'
    BY <1>7 DEF Probe, HostTypes, counters, outside
  <2> QED
    BY <1>7, <2>5, <2>6, RingsAndWorkersStay DEF Probe
<1>8. CASE MarkOnline
  <2>1. HealthTypes' /\ HostTypes'
    BY <1>8 DEF MarkOnline, HealthTypes, HealthPC, HostTypes, counters, outside
  <2> QED
    BY <1>8, <2>1, RingsAndWorkersStay DEF MarkOnline
<1>9. CASE ResetCount
  <2>1. HealthTypes' /\ HostTypes'
    BY <1>9 DEF ResetCount, HealthTypes, HealthPC, HostTypes, outside
  <2> QED
    BY <1>9, <2>1, RingsAndWorkersStay DEF ResetCount
<1>10. CASE Sleep
  <2>1. HealthTypes' /\ HostTypes'
    BY <1>10 DEF Sleep, HealthTypes, HealthPC, HostTypes, counters, outside
  <2> QED
    BY <1>10, <2>1, RingsAndWorkersStay DEF Sleep
<1> QED
  BY <1>1, <1>2, <1>3, <1>4, <1>5, <1>6, <1>7, <1>8, <1>9, <1>10 DEF checkHealthThread
\* Steps of a worker that leave everything but its own record alone.
LEMMA OnlyWorkerMoves ==
    ASSUME TypeOK, NEW w \in Threads, NEW r \in WorkerRecord, Step(w, r),
           IteratorValid(r), Busy(r),
           UNCHANGED <<rings, host_offline, counters, health, up>>
    PROVE  CoreTypes'
<1>1. WorkerTypes'
  BY WorkerStep DEF TypeOK, rings
<1>2. RingTypes' /\ HostTypes' /\ HealthTypes'
  BY DEF TypeOK, RingTypes, HostTypes, HealthTypes, rings, counters
<1> QED
  BY <1>1, <1>2 DEF CoreTypes

\* Each step of a worker preserves the types.
LEMMA WorkerTypeStep ==
    ASSUME TypeOK, NEW w \in Threads, Worker(w)
    PROVE  CoreTypes'
<1> DEFINE r == worker[w]
<1>1. r \in WorkerRecord /\ IteratorValid(r) /\ Busy(r)
  BY DEF TypeOK, WorkerTypes, Busy, Talking
<1>2. \A g \in GroupName : RingOf(g, Ring(g)) /\ live[g] \in {0, 1}
  BY DEF TypeOK, RingTypes, RingOf, Ring
<1>3. r.group \in GroupName /\ r.key \in Nat /\ r.tree \in {0, 1} /\ r.talkto \in Seq(Hosts)
  BY <1>1 DEF WorkerRecord
<1>4. Talking(r) => /\ Head(r.talkto) \in Hosts
                    /\ Rest(r) \in WorkerRecord
                    /\ IteratorValid(Rest(r))
                    /\ Busy(Rest(r))
  <2>1. Talking(r) => Head(r.talkto) \in Hosts
    <3>1. PICK s \in Seq(Hosts) : s = r.talkto
      BY <1>3
    <3>2. s # << >> => Head(s) \in Hosts
      BY HeadTailProperties
    <3> QED
      BY <1>1, <3>1, <3>2 DEF Busy
  <2> QED
    BY <1>1, <2>1, RestType DEF IteratorValid, Busy, Talking
<1>5. CASE Request(w)
  <2>1. PICK update \in BOOLEAN, k \in Keys :
          Step(w, [IdleWorker EXCEPT !.pc = "find", !.update = update, !.key = k,
                     !.group = IF ~ update /\ DOMAIN Ring("hosts_read") # {}
                               THEN "hosts_read" ELSE "hosts"])
    BY <1>5 DEF Request
  <2> DEFINE gr == IF ~ update /\ DOMAIN Ring("hosts_read") # {}
                   THEN "hosts_read" ELSE "hosts"
             e == [IdleWorker EXCEPT !.pc = "find", !.update = update, !.key = k, !.group = gr]
  <2>2. gr \in GroupName /\ k \in Nat
    BY KeysAssumption DEF GroupName
  <2> HIDE DEF gr
  <2>3. e \in WorkerRecord /\ e.pc = "find" /\ e.group = gr
    BY <2>2, IdleType DEF WorkerRecord, WorkerPC
  <2>5. gr # "hosts_backup"
    BY DEF gr
  <2>4. Step(w, e)
    BY <2>1 DEF gr
  <2> HIDE DEF e
  <2> QED
    BY <1>5, <2>3, <2>4, <2>5, OnlyWorkerMoves DEF outside, Request, IteratorValid, Busy, Talking
<1>6. CASE FindLowerBound(w)
  <2> DEFINE ring == Ring(r.group)
             e == [r EXCEPT !.pc = "size", !.tree = live[r.group],
                            !.it = lower_bound(ring, r.key),
                            !.seen = {find(ring, r.key)}, !.swaps = 0]
  <2>1. Step(w, e)
    BY <1>6 DEF FindLowerBound
  <2>2. find(ring, r.key) \in Hosts \cup {0}
    BY <1>2, <1>3, FindType
  <2>3. \/ lower_bound(ring, r.key) = END
        \/ lower_bound(ring, r.key) \in DOMAIN ring
    <3> DEFINE S == {p \in DOMAIN ring : p >= r.key}
    <3>1. S \in SUBSET Nat
      BY <1>2, <1>3 DEF RingOf, IsRing
    <3> QED
      BY <3>1, LeastIsMinimum DEF lower_bound
  <2>4. lower_bound(ring, r.key) \in Int
    BY <1>2, <1>3, <2>3 DEF RingOf, IsRing, END
  <2>5. live[r.group] \in {0, 1} /\ ring = tree[r.group][live[r.group]]
    BY <1>2, <1>3 DEF Ring
  <2>6. {find(ring, r.key)} \in SUBSET (Hosts \cup {0})
    BY <2>2
  <2>7. /\ e \in WorkerRecord /\ e.pc = "size" /\ e.it = lower_bound(ring, r.key)
        /\ e.group = r.group /\ e.tree = live[r.group] /\ e.talkto = r.talkto
    BY <1>1, <2>4, <2>5, <2>6 DEF WorkerRecord, WorkerPC
  <2>8. IteratorValid(e)
    BY <2>3, <2>5, <2>7 DEF IteratorValid
  <2> HIDE DEF e
  <2> QED
    BY <1>1, <1>6, <2>1, <2>7, <2>8, OnlyWorkerMoves DEF outside, FindLowerBound, Busy, Talking
<1>7. CASE FindSize(w)
  <2>1. PICK pc \in {"got", "begin", "deref"}, h \in Hosts \cup {0} :
          /\ Step(w, [r EXCEPT !.pc = pc, !.host = h])
          /\ pc = "deref" => r.it # END
    <3>1. CASE DOMAIN Ring(r.group) = {}
      <4>1. Step(w, [r EXCEPT !.pc = "got", !.host = 0])
        BY <1>7, <3>1 DEF FindSize
      <4> QED
        BY <4>1
    <3>2. CASE DOMAIN Ring(r.group) # {}
      <4>1. Step(w, [r EXCEPT !.pc = IF r.it = END THEN "begin" ELSE "deref"])
        BY <1>7, <3>2 DEF FindSize
      <4>2. ASSUME NEW x PROVE [r EXCEPT !.pc = x] = [r EXCEPT !.pc = x, !.host = r.host]
        BY <1>1 DEF WorkerRecord
      <4>3. r.host \in Hosts \cup {0}
        BY <1>1 DEF WorkerRecord
      <4> QED
        BY <4>1, <4>2, <4>3
    <3> QED
      BY <3>1, <3>2
  <2> DEFINE e == [r EXCEPT !.pc = pc, !.host = h]
  <2>2. /\ e \in WorkerRecord /\ e.pc = pc /\ e.it = r.it
        /\ e.group = r.group /\ e.tree = r.tree /\ e.talkto = r.talkto
    BY <1>1 DEF WorkerRecord, WorkerPC
  <2>3. r.pc = "size"
    BY <1>7 DEF FindSize
  <2> HIDE DEF e
  <2>4. IteratorValid(e) /\ Busy(e)
    BY <1>1, <2>1, <2>2, <2>3 DEF IteratorValid, Busy, Talking
  <2>5. Step(w, e)
    BY <2>1 DEF e
  <2> QED
    BY <1>7, <2>2, <2>4, <2>5, OnlyWorkerMoves DEF outside, FindSize
<1>8. CASE FindBegin(w)
  <2> DEFINE ring == Ring(r.group)
             it == IF DOMAIN ring = {} THEN DANGLING ELSE begin(ring)
             e == [r EXCEPT !.pc = "deref", !.tree = live[r.group], !.it = it]
  <2>1. Step(w, e)
    BY <1>8 DEF FindBegin
  <2>2. it = DANGLING \/ it \in DOMAIN ring
    BY <1>2, <1>3, LeastIsMinimum DEF begin, RingOf, IsRing
  <2>3. it \in Int
    BY <1>2, <1>3, <2>2 DEF RingOf, IsRing, DANGLING
  <2>4. live[r.group] \in {0, 1} /\ ring = tree[r.group][live[r.group]]
    BY <1>2, <1>3 DEF Ring
  <2> HIDE DEF it
  <2>5. /\ e \in WorkerRecord /\ e.pc = "deref" /\ e.it = it
        /\ e.group = r.group /\ e.tree = live[r.group] /\ e.talkto = r.talkto
    BY <1>1, <2>3, <2>4 DEF WorkerRecord, WorkerPC
  <2> HIDE DEF e
  <2>6. IteratorValid(e) /\ Busy(e)
    BY <1>1, <2>2, <2>4, <2>5 DEF IteratorValid, Busy, Talking
  <2> QED
    BY <1>8, <2>1, <2>5, <2>6, OnlyWorkerMoves DEF outside, FindBegin
<1>9. CASE FindDeref(w)
  <2>1. PICK pc \in {"got", "crash"}, h \in Hosts \cup {0}, b \in BOOLEAN :
          Step(w, [r EXCEPT !.pc = pc, !.host = h, !.wild = b])
    <3> DEFINE v == tree[r.group][r.tree][r.it]
    <3>1. r.pc = "deref" /\ r.host \in Hosts \cup {0} /\ r.wild \in BOOLEAN
      BY <1>1, <1>9 DEF FindDeref, WorkerRecord
    <3>2. CASE r.it # DANGLING
      <4>1. r.it \in DOMAIN tree[r.group][r.tree]
        BY <1>1, <3>1, <3>2 DEF IteratorValid
      <4>2. v \in Hosts
        BY <1>3, <4>1, ConfFacts DEF TypeOK, RingTypes
      <4>3. Step(w, [r EXCEPT !.pc = "got", !.host = v])
        BY <1>9, <3>2 DEF FindDeref
      <4> HIDE DEF v
      <4>4. [r EXCEPT !.pc = "got", !.host = v] = [r EXCEPT !.pc = "got", !.host = v, !.wild = r.wild]
        BY <1>1 DEF WorkerRecord
      <4> QED
        BY <3>1, <4>2, <4>3, <4>4
    <3>3. CASE r.it = DANGLING
      <4>1. \/ \E h \in Hosts : Step(w, [r EXCEPT !.pc = "got", !.host = h, !.wild = TRUE])
            \/ Step(w, [r EXCEPT !.pc = "crash", !.wild = TRUE])
        BY <1>9, <3>3 DEF FindDeref
      <4>2. [r EXCEPT !.pc = "crash", !.wild = TRUE]
              = [r EXCEPT !.pc = "crash", !.host = r.host, !.wild = TRUE]
        BY <1>1 DEF WorkerRecord
      <4> QED
        BY <3>1, <4>1, <4>2
    <3> QED
      BY <3>2, <3>3
  <2> DEFINE e == [r EXCEPT !.pc = pc, !.host = h, !.wild = b]
  <2>2. e \in WorkerRecord /\ e.pc = pc /\ e.group = r.group /\ e.talkto = r.talkto
    BY <1>1 DEF WorkerRecord, WorkerPC
  <2>3. Step(w, e)
    BY <2>1
  <2> HIDE DEF e
  <2> QED
    BY <1>1, <1>9, <2>2, <2>3, OnlyWorkerMoves DEF outside, FindDeref, IteratorValid, Busy, Talking
<1>10. CASE Found(w)
  <2> DEFINE found == IF r.host = 0 THEN r.talkto ELSE Append(r.talkto, r.host)
             again == /\ r.update /\ r.group = "hosts" /\ r.host # 0
                      /\ DOMAIN Ring("hosts_backup") # {}
             e == IF again
                  THEN [[IdleWorker EXCEPT !.talkto = found] EXCEPT
                           !.pc = "find", !.update = TRUE, !.key = r.key, !.group = "hosts_backup"]
                  ELSE [[IdleWorker EXCEPT !.talkto = found] EXCEPT
                           !.pc = IF found = << >> THEN "idle" ELSE "talk"]
             f == [IdleWorker EXCEPT !.pc = "talk", !.talkto = r.talkto, !.push = r.host]
  <2>1. Step(w, e) \/ (r.group = "hosts_backup" /\ r.host # 0 /\ Step(w, f))
    BY <1>10 DEF Found
  <2>2. found \in Seq(Hosts) /\ r.host \in Hosts \cup {0}
    <3>1. r.host \in Hosts \cup {0}
      BY <1>1 DEF WorkerRecord
    <3> QED
      BY <1>3, <3>1, AppendProperties
  <2>7. again => found # << >>
    <3>1. PICK s \in Seq(Hosts), h \in Hosts \cup {0} : s = r.talkto /\ h = r.host
      BY <1>3, <2>2
    <3>2. ASSUME h \in Hosts PROVE Append(s, h) # << >>
      BY <3>2, AppendProperties, EmptySeq
    <3> QED
      BY <2>2, <3>1, <3>2
  <2> HIDE DEF found, again
  <2>3. e \in WorkerRecord /\ e.pc \in {"find", "idle", "talk"} /\ e.talkto = found
        /\ (e.pc = "talk" => found # << >>)
        /\ (e.group = "hosts_backup" => found # << >>)
    <3> DEFINE next == [IdleWorker EXCEPT !.talkto = found]
    <3>1. next \in WorkerRecord /\ next.talkto = found /\ next.group = "hosts"
      BY <2>2, IdleType DEF WorkerRecord
    <3>2. e = IF again
              THEN [next EXCEPT !.pc = "find", !.update = TRUE, !.key = r.key,
                                !.group = "hosts_backup"]
              ELSE [next EXCEPT !.pc = IF found = << >> THEN "idle" ELSE "talk"]
      OBVIOUS
    <3>3. r.key \in Nat
      BY <1>3
    <3> HIDE DEF next, e
    <3>4. CASE again
      BY <2>7, <3>1, <3>2, <3>3, <3>4 DEF WorkerRecord, WorkerPC, GroupName
    <3>5. CASE ~ again
      BY <3>1, <3>2, <3>5 DEF WorkerRecord, WorkerPC
    <3> QED
      BY <3>4, <3>5
  <2>4. f \in WorkerRecord /\ f.pc = "talk" /\ f.talkto = r.talkto
    BY <1>3, <2>2, IdleType DEF WorkerRecord, WorkerPC
  <2> HIDE DEF e, f
  <2>5. CASE Step(w, e)
    BY <1>10, <2>5, <2>3, OnlyWorkerMoves DEF outside, Found, IteratorValid, Busy, Talking
  <2>6. CASE r.group = "hosts_backup" /\ r.host # 0 /\ Step(w, f)
    BY <1>1, <1>10, <2>6, <2>4, OnlyWorkerMoves DEF outside, Found, IteratorValid, Busy, Talking
  <2> QED
    BY <2>1, <2>5, <2>6
<1>11. CASE TalkOk(w)
  <2>1. Talking(r) /\ Step(w, Rest(r))
    BY <1>11 DEF TalkOk, Busy, Talking
  <2>2. WorkerTypes'
    BY <1>4, <1>11, <2>1, WorkerStep DEF TalkOk, TypeOK, rings
  <2>3. HostTypes'
    BY <1>4, <1>11, <2>1 DEF TalkOk, TypeOK, HostTypes, outside
  <2>4. RingTypes' /\ HealthTypes'
    BY <1>11 DEF TalkOk, TypeOK, RingTypes, HealthTypes, rings
  <2> QED
    BY <2>2, <2>3, <2>4 DEF CoreTypes
<1>12. CASE TalkFail(w)
  <2>1. Talking(r)
    BY <1>12 DEF TalkFail, Busy, Talking
  <2>2. CASE st_fail[Head(r.talkto)] < st_limit
    <3> DEFINE e == [r EXCEPT !.pc = "fail++"]
    <3>1. Step(w, e)
      BY <1>12, <2>2 DEF TalkFail
    <3>2. e \in WorkerRecord /\ e.pc = "fail++" /\ e.talkto = r.talkto /\ e.group = r.group
      BY <1>1 DEF WorkerRecord, WorkerPC
    <3> HIDE DEF e
    <3> QED
      BY <1>1, <1>12, <2>1, <3>1, <3>2, OnlyWorkerMoves DEF outside, TalkFail, IteratorValid, Busy, Talking
  <2>3. CASE ~ (st_fail[Head(r.talkto)] < st_limit)
    <3>1. Step(w, Rest(r))
      BY <1>12, <2>3 DEF TalkFail
    <3> QED
      BY <1>4, <1>12, <2>1, <3>1, OnlyWorkerMoves DEF outside, TalkFail
  <2> QED
    BY <2>2, <2>3
<1>13. CASE LoadFail(w)
  <2> DEFINE x == st_fail[Head(r.talkto)]
             e == [r EXCEPT !.pc = "fail=", !.val = x]
  <2>1. Talking(r)
    BY <1>13 DEF LoadFail, Busy, Talking
  <2>2. x \in Nat
    BY <1>4, <2>1 DEF TypeOK, HostTypes, outside
  <2>3. Step(w, e)
    BY <1>13 DEF LoadFail
  <2> HIDE DEF x
  <2>4. e \in WorkerRecord /\ e.pc = "fail=" /\ e.talkto = r.talkto /\ e.group = r.group
    BY <1>1, <2>2 DEF WorkerRecord, WorkerPC
  <2> HIDE DEF e
  <2> QED
    BY <1>1, <1>13, <2>1, <2>3, <2>4, OnlyWorkerMoves DEF outside, LoadFail, IteratorValid, Busy, Talking
<1>14. CASE StoreFail(w)
  <2> DEFINE e == [r EXCEPT !.pc = "cont++"]
  <2>1. Talking(r) /\ Step(w, e)
    BY <1>14 DEF StoreFail, Busy, Talking
  <2>2. e \in WorkerRecord /\ e.pc = "cont++" /\ e.talkto = r.talkto /\ e.group = r.group
    BY <1>1 DEF WorkerRecord, WorkerPC
  <2>3. r.val + 1 \in Nat
    BY <1>1 DEF WorkerRecord
  <2>4. HostTypes'
    BY <1>4, <1>14, <2>1, <2>3 DEF StoreFail, TypeOK, HostTypes, outside
  <2> HIDE DEF e
  <2>5. WorkerTypes'
    BY <1>1, <1>14, <2>1, <2>2, WorkerStep DEF StoreFail, TypeOK, rings, IteratorValid, Busy, Talking
  <2>6. RingTypes' /\ HealthTypes'
    BY <1>14 DEF StoreFail, TypeOK, RingTypes, HealthTypes, rings
  <2> QED
    BY <2>4, <2>5, <2>6 DEF CoreTypes
<1>15. CASE LoadCont(w)
  <2> DEFINE x == st_cont_fail[Head(r.talkto)]
             e == [r EXCEPT !.pc = "cont=", !.val = x]
  <2>1. Talking(r)
    BY <1>15 DEF LoadCont, Busy, Talking
  <2>2. x \in Nat
    BY <1>4, <2>1 DEF TypeOK, HostTypes, outside
  <2>3. Step(w, e)
    BY <1>15 DEF LoadCont
  <2> HIDE DEF x
  <2>4. e \in WorkerRecord /\ e.pc = "cont=" /\ e.talkto = r.talkto /\ e.group = r.group
    BY <1>1, <2>2 DEF WorkerRecord, WorkerPC
  <2> HIDE DEF e
  <2> QED
    BY <1>1, <1>15, <2>1, <2>3, <2>4, OnlyWorkerMoves DEF outside, LoadCont, IteratorValid, Busy, Talking
<1>16. CASE StoreCont(w)
  <2>1. Talking(r) /\ Step(w, Rest(r))
    BY <1>16 DEF StoreCont, Busy, Talking
  <2>2. WorkerTypes'
    BY <1>4, <1>16, <2>1, WorkerStep DEF StoreCont, TypeOK, rings
  <2>3. r.val + 1 \in Nat
    BY <1>1 DEF WorkerRecord
  <2>4. HostTypes'
    BY <1>4, <1>16, <2>1, <2>3 DEF StoreCont, TypeOK, HostTypes, outside
  <2>5. RingTypes' /\ HealthTypes'
    BY <1>16 DEF StoreCont, TypeOK, RingTypes, HealthTypes, rings
  <2> QED
    BY <2>2, <2>4, <2>5 DEF CoreTypes
<1>17. CASE Push(w)
  BY <1>17, IdleType, OnlyWorkerMoves DEF Push, IteratorValid, Busy, Talking
<1> QED
  BY <1>5, <1>6, <1>7, <1>8, <1>9, <1>10, <1>11, <1>12, <1>13, <1>14, <1>15, <1>16, <1>17
     DEF Worker, Talk

\* asyncReqThread takes an update out of the queue.
LEMMA TakeTypeStep ==
    ASSUME TypeOK, TakeAsync
    PROVE  CoreTypes'
<1> DEFINE e == [IdleWorker EXCEPT !.pc = "talk", !.talkto = <<Head(async_req)>>]
<1>1. async_req \in Seq(Hosts) /\ async_req # << >>
  BY DEF TypeOK, OutsideTypes, TakeAsync
<1>2. Head(async_req) \in Hosts
  BY <1>1, HeadTailProperties
<1>3. <<Head(async_req)>> \in Seq(Hosts) /\ <<Head(async_req)>> # << >>
  BY <1>2
<1>4. e \in WorkerRecord /\ e.pc = "talk" /\ e.talkto # << >>
  BY <1>3, IdleType DEF WorkerRecord, WorkerPC
<1>5. Step(ASYNC, e) /\ ASYNC \in Threads
  BY DEF TakeAsync, Threads
<1> HIDE DEF e
<1> QED
  BY <1>4, <1>5, OnlyWorkerMoves DEF TakeAsync, IteratorValid, Busy, Talking

\* A step that touches no variable.
LEMMA TypeStutter ==
    ASSUME TypeOK, UNCHANGED vars
    PROVE  TypeOK'
BY DEF vars, TypeOK, RingTypes, HostTypes, HealthTypes, WorkerTypes, IteratorValid, OutsideTypes

\* The initial state: the rings of setHosts, counters of initVar.
LEMMA TypeInit ==
    ASSUME Init
    PROVE  TypeOK
<1>1. RingTypes
  <2>1. \A g \in GroupName : /\ tree[g][0] = createVNodes(EmptyRing, Conf[g])
                             /\ tree[g][1] = EmptyRing
    BY DEF Init
  <2>2. \A g \in GroupName, i \in {0, 1} : RingOf(g, tree[g][i])
    BY <2>1, InitialRing
  <2>3. tree = [g \in GroupName |-> [i \in {0, 1} |-> tree[g][i]]]
    BY DEF Init
  <2> QED
    BY <2>2, <2>3 DEF Init, RingTypes, RingOf
<1>2. HostTypes
  BY DEF Init, HostTypes
<1>3. HealthTypes
  BY DEF Init, HealthTypes, HealthPC, Sleeping
<1>4. WorkerTypes
  <2>1. worker \in [Threads -> WorkerRecord]
    BY IdleType DEF Init
  <2>2. \A w \in Threads : worker[w].pc = "idle" /\ worker[w].group = "hosts"
    BY IdleType DEF Init
  <2> QED
    BY <2>1, <2>2 DEF WorkerTypes, IteratorValid
<1>5. OutsideTypes
  BY LimitAssumption DEF Init, OutsideTypes
<1> QED
  BY <1>1, <1>2, <1>3, <1>4, <1>5 DEF TypeOK

\* Leaking a socket stays within the limit; only Push and TakeAsync move the
\* queue.
LEMMA OutsideStep ==
    ASSUME TypeOK, [Next]_vars
    PROVE  OutsideTypes'
<1> USE LimitAssumption
<1>1. leaked \in 0 .. FdLimit /\ async_req \in Seq(Hosts)
  BY DEF TypeOK, OutsideTypes
<1>2. \A h : LeakedBy(h) \in 0 .. FdLimit
  BY <1>1 DEF LeakedBy
<1>3. CASE UNCHANGED <<async_req, leaked>>
  BY <1>1, <1>3 DEF OutsideTypes
<1>4. CASE Probe
  BY <1>1, <1>2, <1>4 DEF Probe, OutsideTypes
<1>5. ASSUME NEW w \in Threads, TalkFail(w)
      PROVE  OutsideTypes'
  BY <1>1, <1>2, <1>5 DEF TalkFail, OutsideTypes
<1>6. ASSUME NEW w \in Threads, Push(w)
      PROVE  OutsideTypes'
  <2>1. worker[w].push \in Hosts
    BY <1>6 DEF Push, TypeOK, WorkerTypes
  <2> QED
    BY <1>1, <1>6, <2>1, AppendProperties DEF Push, OutsideTypes
<1>7. CASE TakeAsync
  BY <1>1, <1>7, HeadTailProperties DEF TakeAsync, OutsideTypes
<1>8. ASSUME checkHealthThread, ~ Probe
      PROVE  UNCHANGED <<async_req, leaked>>
  BY <1>8 DEF checkHealthThread, Wake, FailoverDel, RewriteTmp, SwapTrees, MarkOffline,
              StartProbe, MarkOnline, ResetCount, Sleep, outside
<1>9. ASSUME NEW w \in Threads, Worker(w), ~ TalkFail(w), ~ Push(w)
      PROVE  UNCHANGED <<async_req, leaked>>
  BY <1>9 DEF Worker, Talk, Request, FindLowerBound, FindSize, FindBegin, FindDeref, Found,
              TalkOk, LoadFail, StoreFail, LoadCont, StoreCont, outside
<1>10. ASSUME asyncReqThread, ~ TakeAsync
       PROVE  Worker(ASYNC) /\ ASYNC \in Threads
  BY <1>10 DEF asyncReqThread, Worker, Threads
<1>11. ASSUME NEW h \in Hosts, Toggle(h)
       PROVE  UNCHANGED <<async_req, leaked>>
  BY <1>11 DEF Toggle
<1>12. ASSUME UNCHANGED vars
       PROVE  UNCHANGED <<async_req, leaked>>
  BY <1>12 DEF vars
<1> QED
  BY <1>3, <1>4, <1>5, <1>6, <1>7, <1>8, <1>9, <1>10, <1>11, <1>12 DEF Next, Threads

\* Every step of any thread preserves the types.
LEMMA TypeStep ==
    ASSUME TypeOK, [Next]_vars
    PROVE  TypeOK'
<1>0. OutsideTypes'
  BY OutsideStep
<1>1. CASE checkHealthThread
  BY <1>0, <1>1, HealthTypeStep DEF CoreTypes, TypeOK
<1>2. ASSUME NEW w \in Threads, Worker(w)
      PROVE  TypeOK'
  BY <1>0, <1>2, WorkerTypeStep DEF CoreTypes, TypeOK
<1>3. ASSUME NEW h \in Hosts, Toggle(h)
      PROVE  TypeOK'
  <2>1. HostTypes'
    BY <1>3 DEF Toggle, TypeOK, HostTypes, counters
  <2>2. HealthTypes'
    BY <1>3 DEF Toggle, TypeOK, HealthTypes
  <2> QED
    BY <1>0, <1>3, <2>1, <2>2, RingsAndWorkersStay DEF Toggle, TypeOK
<1>4. CASE UNCHANGED vars
  BY <1>4, TypeStutter
<1>5. CASE asyncReqThread
  <2>1. CASE TakeAsync
    BY <1>0, <2>1, TakeTypeStep DEF CoreTypes, TypeOK
  <2>2. CASE Talk(ASYNC)
    BY <1>2, <2>2 DEF Worker, Threads
  <2> QED
    BY <1>5, <2>1, <2>2 DEF asyncReqThread
<1> QED
  BY <1>1, <1>2, <1>3, <1>4, <1>5 DEF Next, Threads

\* The type invariant holds in every reachable state, for any configuration,
\* any number of workers, whatever nodes delHost steps over and even when a worker
\* reads through a dangling iterator.
THEOREM TypeCorrect == Spec => []TypeOK
<1>1. Init => TypeOK
  BY TypeInit
<1>2. TypeOK /\ [Next]_vars => TypeOK'
  BY TypeStep
<1> QED
  BY <1>1, <1>2, PTL DEF Spec

-----------------------------------------------------------------------------
(***************************************************************************)
(* The rings follow host_offline                                           *)
(***************************************************************************)

\* Control state of the health thread: what host_offline says of the hosts it
\* is working on, and that a rewritten _hash_tmp is a mutation of _hash.
ControlInv ==
    /\ health.pc = "del" => ~ host_offline[health.host]
    /\ health.pc \in {"probe", "add"} => \A h \in health.todo : host_offline[h]
    /\ health.pc = "reset" => /\ ~ host_offline[health.host]
                              /\ \A h \in health.todo \ {health.host} : host_offline[h]
    /\ health.ready =>
          LET g == FirstGroup(health.left)
          IN  tree[g][1 - live[g]] \in Mutated(Ring(g))

\* Workers, asyncReqThread and the environment leave the rings, host_offline and
\* the health thread alone.
LEMMA OthersLeaveRings ==
    ASSUME \/ \E w \in Workers : Worker(w)
           \/ asyncReqThread
           \/ \E h \in Hosts : Toggle(h)
    PROVE  UNCHANGED <<rings, host_offline, health>>
<1>1. ASSUME NEW w, Worker(w)
      PROVE  UNCHANGED <<rings, host_offline, health>>
  BY <1>1 DEF Worker, Talk, Request, FindLowerBound, FindSize, FindBegin, FindDeref, Found,
              TalkOk, TalkFail, LoadFail, StoreFail, LoadCont, StoreCont, Push
<1>2. ASSUME asyncReqThread
      PROVE  UNCHANGED <<rings, host_offline, health>>
  BY <1>1, <1>2 DEF asyncReqThread, TakeAsync, Worker
<1> QED
  BY <1>1, <1>2 DEF Toggle

\* Such steps do not disturb it.
LEMMA ControlStay ==
    ASSUME ControlInv, UNCHANGED <<rings, host_offline, health>>
    PROVE  ControlInv'
BY DEF ControlInv, rings, Mutated, Ring

\* Every step keeps the control invariant of the health thread.
LEMMA ControlStep ==
    ASSUME TypeOK, ControlInv, [Next]_vars
    PROVE  ControlInv'
<1> USE DEF TypeOK
<1>1. CASE Wake
  BY <1>1 DEF Wake, ControlInv, HealthTypes
<1>2. CASE FailoverDel
  BY <1>2 DEF FailoverDel, ControlInv, HealthTypes
<1>3. CASE RewriteTmp
  <2>1. PICK g \in GroupName : g = FirstGroup(health.left)
    BY <1>3 DEF RewriteTmp, FirstGroup, HealthTypes, GroupName
  <2>2. live[g] \in {0, 1} /\ 1 - live[g] \in {0, 1} /\ 1 - live[g] # live[g]
    BY DEF RingTypes
  <2>3. PICK r \in Mutated(Ring(g)) : tree' = [tree EXCEPT ![g][1 - live[g]] = r]
    BY <1>3, <2>1 DEF RewriteTmp
  <2>4. /\ health' = [health EXCEPT !.ready = TRUE]
        /\ UNCHANGED <<live, host_offline>>
        /\ health.pc \in {"del", "add"}
    BY <1>3 DEF RewriteTmp
  <2>5. tree'[g][1 - live[g]] = r /\ tree'[g][live[g]] = tree[g][live[g]]
    BY <2>2, <2>3 DEF RingTypes
  <2>6. /\ health'.pc = health.pc /\ health'.host = health.host
        /\ health'.left = health.left /\ health'.todo = health.todo
    BY <2>4 DEF HealthTypes
  <2>7. FirstGroup(health'.left) = g
    BY <2>1, <2>6
  <2>8. tree'[g][1 - live'[g]] \in Mutated(Ring(g))'
    BY <2>3, <2>4, <2>5, <2>6 DEF Mutated, Ring
  <2> QED
    BY <2>4, <2>6, <2>7, <2>8 DEF ControlInv
<1>4. CASE SwapTrees
  <2>1. /\ health'.pc = health.pc /\ health'.host = health.host
        /\ health'.todo = health.todo /\ health'.ready = FALSE /\ UNCHANGED host_offline
    BY <1>4 DEF SwapTrees, HealthTypes
  <2> QED
    BY <2>1 DEF ControlInv
<1>5. CASE MarkOffline
  BY <1>5 DEF MarkOffline, ControlInv, HealthTypes
<1>6. CASE StartProbe
  BY <1>6 DEF StartProbe, ControlInv, HealthTypes
<1>7. CASE Probe
  <2>1. ~ health.ready
    BY <1>7 DEF Probe, HealthTypes
  <2>2. PICK h : \/ health' = [health EXCEPT !.todo = @ \ {h}]
                 \/ \E G : health' = [health EXCEPT !.pc = "add", !.host = h, !.left = G]
    BY <1>7 DEF Probe
  <2>3. /\ health'.pc \in {"probe", "add"} /\ health'.todo \subseteq health.todo
        /\ ~ health'.ready
    BY <1>7, <2>1, <2>2 DEF Probe, HealthTypes
  <2>4. UNCHANGED host_offline /\ health.pc = "probe"
    BY <1>7 DEF Probe
  <2> QED
    BY <2>3, <2>4 DEF ControlInv
<1>8. CASE MarkOnline
  <2>1. ~ health.ready /\ health.host \in health.todo /\ health.host \in Hosts
    <3>1. health.pc = "add" /\ health.left = {}
      BY <1>8 DEF MarkOnline
    <3>2. health.todo \subseteq Hosts /\ health.host \in health.todo
      BY <3>1 DEF HealthTypes
    <3>3. ~ health.ready
      BY <3>1 DEF HealthTypes
    <3> QED
      BY <3>2, <3>3
  <2> QED
    BY <1>8, <2>1 DEF MarkOnline, ControlInv, HealthTypes, HostTypes
<1>9. CASE ResetCount
  BY <1>9 DEF ResetCount, ControlInv, HealthTypes
<1>10. CASE Sleep
  BY <1>10 DEF Sleep, ControlInv, HealthTypes
<1>11. ASSUME \/ \E w \in Workers : Worker(w)
              \/ asyncReqThread
              \/ \E h \in Hosts : Toggle(h)
       PROVE  ControlInv'
  BY <1>11, OthersLeaveRings, ControlStay
<1>13. CASE UNCHANGED vars
  BY <1>13, ControlStay DEF vars, rings
<1> QED
  BY <1>1, <1>2, <1>3, <1>4, <1>5, <1>6, <1>7, <1>8, <1>9, <1>10, <1>11, <1>13
     DEF Next, checkHealthThread

\* The ring of group g when the hosts of E are in it: every point is a virtual
\* node of its owner, and the hosts of E have all of theirs.
Good(ring, g, E) ==
    /\ RingOf(g, ring)
    /\ \A p \in DOMAIN ring : p \in VNodes(Conf[g][ring[p]])
    /\ \A h \in E : VNodes(Conf[g][h]) \subseteq DOMAIN ring

\* setHosts puts every member in.
LEMMA GoodInit ==
    ASSUME NEW g \in GroupName
    PROVE  Good(createVNodes(EmptyRing, Conf[g]), g, Member(g))
<1> DEFINE ring == createVNodes(EmptyRing, Conf[g])
<1>1. IsRing(EmptyRing) /\ DOMAIN EmptyRing = {}
  BY DEF IsRing, EmptyRing
<1>2. Written(ring, EmptyRing, Member(g), Conf[g])
  BY <1>1, ConfFacts, CreateVNodesOwners
<1>3. RingOf(g, ring)
  BY InitialRing
<1> HIDE DEF ring
<1>4. Good(ring, g, Member(g))
  BY <1>1, <1>2, <1>3 DEF Good, Written, RingOf
<1> QED
  BY <1>4 DEF ring

\* delHost takes h out and leaves the others complete.
LEMMA GoodDel ==
    ASSUME NEW g \in GroupName, NEW E \in SUBSET Member(g), NEW ring, Good(ring, g, E),
           DistinctPoints, NEW h \in Member(g), NEW r \in delHost(ring, h)
    PROVE  Good(r, g, E \ {h})
<1>1. /\ IsRing(r) /\ DOMAIN r \subseteq DOMAIN ring
      /\ \A p \in DOMAIN r : r[p] = ring[p]
      /\ \A p \in DOMAIN ring : ring[p] # h => p \in DOMAIN r
  BY DelHostOwners DEF Good, RingOf
<1>2. RingOf(g, r)
  BY <1>1 DEF Good, RingOf, IsRing
<1>3. \A p \in DOMAIN r : p \in VNodes(Conf[g][r[p]])
  BY <1>1 DEF Good
<1>4. ASSUME NEW a \in E \ {h}, NEW p \in VNodes(Conf[g][a])
      PROVE  p \in DOMAIN r
  <2>1. p \in DOMAIN ring /\ ring[p] \in Member(g) /\ p \in VNodes(Conf[g][ring[p]])
    BY <1>4 DEF Good, RingOf
  <2>2. ring[p] = a
    BY <1>4, <2>1 DEF DistinctPoints
  <2> QED
    BY <1>1, <2>1, <2>2
<1> QED
  BY <1>2, <1>3, <1>4 DEF Good

\* addHost puts h in and leaves the others complete.
LEMMA GoodAdd ==
    ASSUME NEW g \in GroupName, NEW E \in SUBSET Member(g), NEW ring, Good(ring, g, E),
           DistinctPoints, NEW h \in Member(g), Conf[g][h] = host_infos(h),
           NEW r, r = addHost(ring, h, host_infos(h))
    PROVE  Good(r, g, E \cup {h})
<1>1. h \in Alias /\ host_infos(h) \in Info
  BY ConfFacts, HostFacts
<1>2. Added(r, ring, h, host_infos(h))
  BY <1>1, AddHostOwners DEF Good, RingOf
<1>3. \A p \in DOMAIN r : r[p] \in Member(g) /\ p \in VNodes(Conf[g][r[p]])
  BY <1>2 DEF Good, RingOf, Added
<1>4. RingOf(g, r)
  BY <1>2, <1>3 DEF RingOf, Added, IsRing
<1>5. \A a \in E \cup {h} : VNodes(Conf[g][a]) \subseteq DOMAIN r
  BY <1>2 DEF Good, Added
<1> QED
  BY <1>3, <1>4, <1>5 DEF Good

\* The inductive invariant: every ring is the ring of the hosts expected in it.
RingInv == \A g \in GroupName : Good(Ring(g), g, Online(g))

\* Only SwapTrees changes a ring in use or who is expected in it.
LEMMA OnlySwapMoves ==
    ASSUME TypeOK, ControlInv, [Next]_vars, ~ SwapTrees, NEW g \in GroupName
    PROVE  Ring(g)' = Ring(g) /\ Online(g)' = Online(g)
<1> USE DEF TypeOK
<1>0. SUFFICES Ring(g)' = Ring(g) /\ \A h \in Member(g) : Expected(g, h)' <=> Expected(g, h)
  BY DEF Online
<1>1. CASE Wake
  BY <1>1 DEF Wake, Expected, HealthTypes, rings, Ring
<1>2. CASE FailoverDel
  <2>1. PICK h : /\ health.pc = "fail"
                 /\ \/ health' = [health EXCEPT !.todo = @ \ {h}]
                    \/ /\ ~ host_offline[h]
                       /\ health' = [health EXCEPT !.pc = "del", !.host = h, !.left = GroupsOf(h)]
    BY <1>2 DEF FailoverDel
  <2>2. \A a \in Member(g) : Expected(g, a)' <=> Expected(g, a)
    BY <1>2, <2>1 DEF FailoverDel, Expected, HealthTypes, GroupsOf
  <2> QED
    BY <1>2, <2>2 DEF FailoverDel, rings, Ring
<1>3. CASE RewriteTmp
  <2>1. PICK f \in GroupName : f = FirstGroup(health.left)
    BY <1>3 DEF RewriteTmp, FirstGroup, HealthTypes, GroupName
  <2>2. live[f] \in {0, 1} /\ 1 - live[f] \in {0, 1} /\ 1 - live[f] # live[f]
    BY DEF RingTypes
  <2>3. \E r : tree' = [tree EXCEPT ![f][1 - live[f]] = r]
    BY <1>3, <2>1 DEF RewriteTmp
  <2>4. Ring(g)' = Ring(g)
    BY <1>3, <2>2, <2>3 DEF RewriteTmp, RingTypes, Ring
  <2>5. \A h \in Member(g) : Expected(g, h)' <=> Expected(g, h)
    BY <1>3 DEF RewriteTmp, Expected, HealthTypes
  <2> QED
    BY <2>4, <2>5
<1>5. CASE MarkOffline
  <2>1. health.host \in Hosts
    BY <1>5 DEF MarkOffline, HealthTypes
  <2>2. \A h \in Member(g) : Expected(g, h)' <=> Expected(g, h)
    BY <1>5, <2>1, ConfFacts DEF MarkOffline, Expected, HealthTypes, HostTypes
  <2> QED
    BY <1>5, <2>2 DEF MarkOffline, rings, Ring
<1>6. CASE StartProbe
  BY <1>6 DEF StartProbe, Expected, HealthTypes, rings, Ring
<1>7. CASE Probe
  <2>1. health.todo \in SUBSET Nat /\ health.todo # {}
    BY <1>7, HostFacts DEF Probe, HealthTypes
  <2>2. PICK h \in health.todo : h = Least(health.todo)
    BY <2>1, LeastIsMinimum
  <2>3. host_offline[h] /\ health.pc = "probe"
    BY <1>7 DEF Probe, ControlInv
  <2>4. \/ health' = [health EXCEPT !.todo = @ \ {h}]
        \/ health' = [health EXCEPT !.pc = "add", !.host = h, !.left = GroupsOf(h)]
    BY <1>7, <2>2, <2>3 DEF Probe
  <2>5. \A a \in Member(g) : Expected(g, a)' <=> Expected(g, a)
    BY <1>7, <2>3, <2>4 DEF Probe, Expected, HealthTypes, GroupsOf
  <2> QED
    BY <1>7, <2>5 DEF Probe, rings, Ring
<1>8. CASE MarkOnline
  <2>1. health.host \in Hosts
    BY <1>8 DEF MarkOnline, HealthTypes
  <2>2. \A h \in Member(g) : Expected(g, h)' <=> Expected(g, h)
    BY <1>8, <2>1, ConfFacts DEF MarkOnline, Expected, HealthTypes, HostTypes
  <2> QED
    BY <1>8, <2>2 DEF MarkOnline, rings, Ring
<1>9. CASE ResetCount
  BY <1>9 DEF ResetCount, Expected, HealthTypes, rings, Ring
<1>10. CASE Sleep
  BY <1>10 DEF Sleep, Expected, HealthTypes, rings, Ring
<1>11. CASE UNCHANGED <<rings, host_offline, health>>
  BY <1>11 DEF Expected, rings, Ring
<1>12. ASSUME \/ \E w \in Workers : Worker(w)
              \/ asyncReqThread
              \/ \E h \in Hosts : Toggle(h)
       PROVE  UNCHANGED <<rings, host_offline, health>>
  BY <1>12, OthersLeaveRings
<1>14. ASSUME UNCHANGED vars
       PROVE  UNCHANGED <<rings, host_offline, health>>
  BY <1>14 DEF vars, rings
<1> QED
  BY <1>1, <1>2, <1>3, <1>5, <1>6, <1>7, <1>8, <1>9, <1>10, <1>11, <1>12, <1>14
     DEF Next, checkHealthThread

\* What SwapTrees does for the host h that failover() is about, in group g: the
\* ring and the membership of g change together.
Swapped(g, h) ==
    /\ g \in health.left /\ g = FirstGroup(health.left)
    /\ h = health.host /\ h \in Member(g)
    /\ \A f \in GroupName \ {g} : Ring(f)' = Ring(f) /\ Online(f)' = Online(f)
    /\ health.pc = "del" => /\ Ring(g)' \in delHost(Ring(g), h)
                            /\ Online(g)' = Online(g) \ {h}
    /\ health.pc = "add" => /\ Ring(g)' = addHost(Ring(g), h, host_infos(h))
                            /\ Online(g)' = Online(g) \cup {h}

\* The step that puts the mutated copy of a ring in its place.
LEMMA SwapMoves ==
    ASSUME TypeOK, ControlInv, SwapTrees
    PROVE  health.pc \in {"del", "add"} /\ \E g \in GroupName : \E h \in Hosts : Swapped(g, h)
<1> USE DEF TypeOK
<1>1. PICK g \in GroupName : g = FirstGroup(health.left) /\ g \in health.left
  BY DEF SwapTrees, FirstGroup, HealthTypes, GroupName
<1>2. PICK h : h = health.host /\ h \in Member(g) /\ h \in Hosts
  BY <1>1, ConfFacts DEF SwapTrees, HealthTypes, GroupsOf
<1>3. /\ live' = [live EXCEPT ![g] = 1 - live[g]]
      /\ tree' = tree /\ host_offline' = host_offline
      /\ health' = [health EXCEPT !.ready = FALSE, !.left = @ \ {g}]
      /\ health.pc \in {"del", "add"}
  BY <1>1 DEF SwapTrees, HealthTypes
<1>4. /\ Ring(g)' = tree[g][1 - live[g]]
      /\ \A f \in GroupName \ {g} : Ring(f)' = Ring(f)
  BY <1>3 DEF Ring, RingTypes
<1>5. Ring(g)' \in Mutated(Ring(g))
  BY <1>1, <1>4 DEF SwapTrees, ControlInv
<1>6. /\ health'.pc = health.pc /\ health'.host = h
      /\ health'.left = health.left \ {g}
  BY <1>2, <1>3 DEF HealthTypes
<1>7. \A f \in GroupName \ {g} : Online(f)' = Online(f)
  BY <1>2, <1>3, <1>6 DEF Online, Expected
<1>8. health.pc = "del" => /\ Ring(g)' \in delHost(Ring(g), h)
                           /\ Online(g)' = Online(g) \ {h}
  BY <1>2, <1>3, <1>5, <1>6 DEF Mutated, Online, Expected
<1>9. health.pc = "add" => /\ Ring(g)' = addHost(Ring(g), h, host_infos(h))
                           /\ Online(g)' = Online(g) \cup {h}
  BY <1>1, <1>2, <1>3, <1>5, <1>6 DEF Mutated, Online, Expected
<1> QED
  BY <1>1, <1>2, <1>3, <1>4, <1>7, <1>8, <1>9 DEF Swapped

\* Every step keeps the rings as they should be (Good), finished or half-way through
\* failover.
LEMMA RingStep ==
    ASSUME SameInfo, DistinctPoints, TypeOK, ControlInv, RingInv, [Next]_vars
    PROVE  RingInv'
<1>1. CASE ~ SwapTrees
  BY <1>1, OnlySwapMoves DEF RingInv
<1>2. CASE SwapTrees
  <2>1. PICK g \in GroupName : \E h \in Hosts : Swapped(g, h)
    BY <1>2, SwapMoves
  <2>2. PICK h \in Hosts : Swapped(g, h)
    BY <2>1
  <2>3. Online(g) \in SUBSET Member(g) /\ Good(Ring(g), g, Online(g))
    BY DEF Online, RingInv
  <2>4. h \in Member(g) /\ Conf[g][h] = host_infos(h)
    BY <2>2 DEF Swapped, SameInfo
  <2>5. Good(Ring(g)', g, Online(g)')
    <3>1. CASE health.pc = "del"
      BY <2>2, <2>3, <2>4, <3>1, GoodDel DEF Swapped
    <3>2. CASE health.pc = "add"
      BY <2>2, <2>3, <2>4, <3>2, GoodAdd DEF Swapped
    <3> QED
      BY <1>2, <3>1, <3>2, SwapMoves
  <2> QED
    BY <2>2, <2>5 DEF Swapped, RingInv
<1> QED
  BY <1>1, <1>2

\* The invariant in the initial state.
LEMMA RingInitial ==
    ASSUME Init
    PROVE  ControlInv /\ RingInv
<1>1. ControlInv
  BY DEF Init, ControlInv, Sleeping
<1>2. ASSUME NEW g \in GroupName
      PROVE  Good(Ring(g), g, Online(g))
  <2>1. Ring(g) = createVNodes(EmptyRing, Conf[g])
    BY DEF Init, Ring
  <2>2. Online(g) = Member(g)
    BY ConfFacts DEF Init, Online, Expected, Sleeping
  <2> QED
    BY <2>1, <2>2, GoodInit
<1> QED
  BY <1>1, <1>2 DEF RingInv

\* The points of a member that is in, in a ring as it should be.
LEMMA GoodPoints ==
    ASSUME DistinctPoints, NEW g \in GroupName, NEW E \in SUBSET Member(g), NEW ring,
           Good(ring, g, E), NEW h \in E
    PROVE  PointsOf(ring, h) = VNodes(Conf[g][h])
<1>1. \A p \in DOMAIN ring : ring[p] = h => p \in VNodes(Conf[g][h])
  BY DEF Good
<1>2. \A p \in VNodes(Conf[g][h]) : p \in DOMAIN ring /\ ring[p] = h
  <2> TAKE p \in VNodes(Conf[g][h])
  <2>1. p \in DOMAIN ring /\ ring[p] \in Member(g) /\ p \in VNodes(Conf[g][ring[p]])
    BY DEF Good, RingOf
  <2> QED
    BY <2>1 DEF DistinctPoints
<1> QED
  BY <1>1, <1>2 DEF PointsOf

\* A key of a member that is in, in a ring as it should be: the point the full
\* ring sends it to is there, and no point of the ring is missing from the
\* full one, so it is still the first.
LEMMA GoodHome ==
    ASSUME DistinctPoints, NEW g \in GroupName, NEW E \in SUBSET Member(g), NEW ring,
           Good(ring, g, E), NEW k \in Nat, Home(g, k) \in E
    PROVE  find(ring, k) = Home(g, k)
<1> DEFINE full == createVNodes(EmptyRing, Conf[g])
<1>1. Good(full, g, Member(g))
  BY GoodInit
<1>2. Home(g, k) = find(full, k)
  BY DEF Home
<1> HIDE DEF full
<1>3. IsRing(full) /\ IsRing(ring)
  BY <1>1 DEF Good, RingOf
<1>4. DOMAIN full # {}
  <2>1. 0 \notin Member(g)
    BY ConfFacts, AliasAssumption
  <2> QED
    BY <1>2, <2>1 DEF find
<1>5. PICK p \in DOMAIN full :
         /\ find(full, k) = full[p]
         /\ \/ p >= k /\ \A q \in DOMAIN full : q >= k => p <= q
            \/ \A q \in DOMAIN full : ~ (q >= k) /\ p <= q
  BY <1>3, <1>4, FindOwner
<1>6. ASSUME NEW q \in DOMAIN ring
      PROVE  q \in DOMAIN full /\ full[q] = ring[q]
  <2>1. ring[q] \in Member(g) /\ q \in VNodes(Conf[g][ring[q]])
    BY DEF Good, RingOf
  <2>2. PointsOf(full, ring[q]) = VNodes(Conf[g][ring[q]])
    BY <1>1, <2>1, GoodPoints
  <2> QED
    BY <2>1, <2>2 DEF PointsOf
<1>7. p \in DOMAIN ring
  <2>1. full[p] \in E /\ p \in VNodes(Conf[g][full[p]])
    BY <1>1, <1>2, <1>5 DEF Good
  <2> QED
    BY <2>1 DEF Good
<1>8. PICK q \in DOMAIN ring :
         /\ find(ring, k) = ring[q]
         /\ \/ q >= k /\ \A x \in DOMAIN ring : x >= k => q <= x
            \/ \A x \in DOMAIN ring : ~ (x >= k) /\ q <= x
  BY <1>3, <1>7, FindOwner
<1>9. p \in Nat /\ q \in Nat /\ q \in DOMAIN full
  BY <1>3, <1>6 DEF IsRing
<1>10. p = q
  BY <1>5, <1>7, <1>8, <1>9
<1> QED
  BY <1>2, <1>5, <1>6, <1>7, <1>8, <1>10

\* What the invariant says of the members that are in, and of their keys.
LEMMA RingInvImplies ==
    ASSUME DistinctPoints, RingInv
    PROVE  OnlineHostsComplete /\ KeysStayHome
<1>1. \A g \in GroupName : Online(g) \in SUBSET Member(g) /\ Good(Ring(g), g, Online(g))
  BY DEF RingInv, Online
<1>2. ASSUME NEW g \in GroupName, NEW h \in Member(g), Expected(g, h)
      PROVE  PointsOf(Ring(g), h) = VNodes(Conf[g][h])
  <2>1. h \in Online(g)
    BY <1>2 DEF Online
  <2> QED
    BY <1>1, <2>1, GoodPoints
<1>3. ASSUME NEW g \in GroupName, NEW k \in Keys, Home(g, k) # 0, Expected(g, Home(g, k))
      PROVE  find(Ring(g), k) = Home(g, k)
  <2>1. k \in Nat
    BY KeysAssumption
  <2>2. Home(g, k) \in Member(g)
    <3> DEFINE full == createVNodes(EmptyRing, Conf[g])
    <3>1. RingOf(g, full) /\ find(full, k) # 0
      BY <1>3, InitialRing DEF Home
    <3> HIDE DEF full
    <3>2. DOMAIN full # {}
      BY <3>1 DEF find
    <3>3. \E p \in DOMAIN full : find(full, k) = full[p]
      BY <2>1, <3>1, <3>2, FindOwner DEF RingOf
    <3> QED
      BY <3>1, <3>3 DEF RingOf, Home, full
  <2>3. Home(g, k) \in Online(g)
    BY <1>3, <2>2 DEF Online
  <2> QED
    BY <1>1, <2>1, <2>3, GoodHome
<1> QED
  BY <1>2, <1>3 DEF OnlineHostsComplete, KeysStayHome

\* A host that is online keeps exactly its configured virtual nodes in every
\* ring of its groups, through any sequence of failovers and recoveries of
\* any hosts and whatever nodes delHost steps over; provided a host has one id
\* and weight in all its groups and no CRC-32 point is shared.
THEOREM OnlineComplete ==
    ASSUME SameInfo, DistinctPoints
    PROVE  Spec => []OnlineHostsComplete
<1>1. Init => TypeOK /\ ControlInv /\ RingInv
  BY TypeInit, RingInitial
<1>2. TypeOK /\ ControlInv /\ RingInv /\ [Next]_vars => (TypeOK /\ ControlInv /\ RingInv)'
  BY TypeStep, ControlStep, RingStep
<1>3. RingInv => OnlineHostsComplete
  BY RingInvImplies
<1> QED
  BY <1>1, <1>2, <1>3, PTL DEF Spec

\* Under the same conditions on the configuration, a key whose own host is
\* online is always looked up at that host: what other hosts do, and what
\* delHost leaves of them in the ring, never draws it away.
THEOREM OnlineKeysStayHome ==
    ASSUME SameInfo, DistinctPoints
    PROVE  Spec => []KeysStayHome
<1>1. Init => TypeOK /\ ControlInv /\ RingInv
  BY TypeInit, RingInitial
<1>2. TypeOK /\ ControlInv /\ RingInv /\ [Next]_vars => (TypeOK /\ ControlInv /\ RingInv)'
  BY TypeStep, ControlStep, RingStep
<1>3. RingInv => KeysStayHome
  BY RingInvImplies
<1> QED
  BY <1>1, <1>2, <1>3, PTL DEF Spec

-----------------------------------------------------------------------------
(***************************************************************************)
(* Consistent hashing across failovers                                     *)
(***************************************************************************)

\* What one step may do to the answer for a key.
Disrupts(g, k) ==
    LET old == find(Ring(g), k)
        new == find(Ring(g)', k)
    IN  old # new => IF health.pc = "del" THEN old = health.host
                     ELSE new = health.host

\* Only SwapTrees replaces the ring in use, and it does so by a mutation.
LEMMA SwapDisrupts ==
    ASSUME TypeOK, ControlInv, SwapTrees, NEW g \in GroupName, NEW k \in Keys
    PROVE  Disrupts(g, k)
<1>1. PICK f \in GroupName : f = FirstGroup(health.left) /\ f \in health.left
  BY DEF TypeOK, SwapTrees, FirstGroup, HealthTypes, GroupName
<1>2. PICK h : h = health.host /\ h \in Member(f) /\ health.pc \in {"del", "add"}
  BY <1>1 DEF TypeOK, SwapTrees, HealthTypes, GroupsOf
<1>3. /\ live' = [live EXCEPT ![f] = 1 - live[f]]
      /\ tree' = tree
  BY <1>1 DEF SwapTrees
<1>4. k \in Nat /\ h \in Alias /\ host_infos(h) \in Info
  BY <1>2, KeysAssumption, ConfFacts, HostFacts
<1>5. IsRing(Ring(f))
  BY DEF TypeOK, RingTypes, Ring
<1>6. CASE g # f
  BY <1>3, <1>6 DEF TypeOK, RingTypes, Ring, Disrupts
<1>7. CASE g = f
  <2>1. Ring(f)' = tree[f][1 - live[f]]
    BY <1>3 DEF TypeOK, RingTypes, Ring
  <2>2. Ring(f)' \in Mutated(Ring(f))
    BY <1>1, <2>1 DEF SwapTrees, ControlInv
  <2>3. CASE health.pc = "del"
    <3>1. Ring(f)' \in delHost(Ring(f), h)
      BY <1>2, <2>2, <2>3 DEF Mutated
    <3> QED
      BY <1>2, <1>4, <1>5, <1>7, <2>3, <3>1, DelHostMovesOnlyItsKeys DEF Disrupts
  <2>4. CASE health.pc = "add"
    <3>1. Ring(f)' = addHost(Ring(f), h, host_infos(h))
      BY <1>2, <2>2, <2>4 DEF Mutated
    <3> QED
      BY <1>2, <1>4, <1>5, <1>7, <2>4, <3>1, AddHostTakesKeysOnly DEF Disrupts
  <2> QED
    BY <1>2, <2>3, <2>4
<1> QED
  BY <1>6, <1>7

\* Every step changes the answer of a ring only for keys of the host it is about.
LEMMA StepDisrupts ==
    ASSUME TypeOK, ControlInv, [Next]_vars, NEW g \in GroupName, NEW k \in Keys
    PROVE  Disrupts(g, k)
<1>1. CASE SwapTrees
  BY <1>1, SwapDisrupts
<1>2. CASE Ring(g)' = Ring(g)
  BY <1>2 DEF Disrupts
<1>3. CASE RewriteTmp
  <2>1. PICK f \in GroupName : f = FirstGroup(health.left)
    BY <1>3 DEF TypeOK, RewriteTmp, FirstGroup, HealthTypes, GroupName
  <2>2. live[f] \in {0, 1} /\ 1 - live[f] \in {0, 1} /\ 1 - live[f] # live[f]
    BY DEF TypeOK, RingTypes
  <2>3. \E r : tree' = [tree EXCEPT ![f][1 - live[f]] = r]
    BY <1>3, <2>1 DEF RewriteTmp
  <2>4. Ring(g)' = Ring(g)
    BY <1>3, <2>2, <2>3 DEF RewriteTmp, TypeOK, RingTypes, Ring
  <2> QED
    BY <1>2, <2>4
<1>4. CASE UNCHANGED rings
  BY <1>2, <1>4 DEF rings, Ring
<1>5. \/ SwapTrees \/ RewriteTmp \/ UNCHANGED rings
  BY OthersLeaveRings
     DEF Next, checkHealthThread, Wake, FailoverDel, MarkOffline, StartProbe, Probe,
         MarkOnline, ResetCount, Sleep, vars, rings
<1> QED
  BY <1>1, <1>3, <1>4, <1>5

\* Whatever failover() does, the only keys that change hands are those of the
\* host it takes out or those the returning host takes over; for every
\* configuration, colliding points and skipped nodes included.
THEOREM FailoverMovesFewKeys == Spec => MinimalDisruption
<1>1. Init => TypeOK /\ ControlInv
  BY TypeInit, RingInitial
<1>2. TypeOK /\ ControlInv /\ [Next]_vars => (TypeOK /\ ControlInv)'
  BY TypeStep, ControlStep
<1>3. TypeOK /\ ControlInv /\ [Next]_vars =>
        [\A g \in GroupName, k \in Keys :
            LET old == find(Ring(g), k)
                new == find(Ring(g)', k)
            IN  old # new => IF health.pc = "del" THEN old = health.host
                             ELSE new = health.host]_rings
  BY StepDisrupts DEF Disrupts
<1> QED
  BY <1>1, <1>2, <1>3, PTL DEF Spec, MinimalDisruption

-----------------------------------------------------------------------------
(***************************************************************************)
(* The failure counter of two threads                                      *)
(***************************************************************************)

\* A worker between the test of st_fail[h] and its store of st_fail[h].
Counting(r, h) == r.pc \in {"fail++", "fail="} /\ Head(r.talkto) = h

\* What the overshoot rests on.  While one worker counts a failure of h, st_fail[h]
\* is at most the limit, and its copy reaches the limit only if st_fail[h] has;
\* while two do, st_fail[h] is below it: the second one has just tested that.
CountInv ==
    \A h \in Hosts :
        /\ st_fail[h] <= st_limit + 1
        /\ \A w \in CountingThreads : Counting(worker[w], h) =>
              /\ st_fail[h] <= st_limit
              /\ worker[w].pc = "fail=" =>
                    /\ worker[w].val <= st_limit
                    /\ st_fail[h] < st_limit => worker[w].val < st_limit
        /\ \A v, w \in CountingThreads :
              v # w /\ Counting(worker[v], h) /\ Counting(worker[w], h) => st_fail[h] < st_limit

\* The counting threads are threads, and finitely many.
LEMMA CountingFacts ==
    CountingThreads \subseteq Threads /\ IsFiniteSet(CountingThreads)
<1>1. IsFiniteSet(Workers \cup {ASYNC})
  BY WorkersAssumption, FS_AddElement
<1> QED
  BY <1>1, WorkersAssumption DEF CountingThreads, Threads

\* Of three threads out of two, two are the same.
LEMMA TwoThreads ==
    ASSUME Cardinality(CountingThreads) = 2, NEW u \in CountingThreads,
           NEW v \in CountingThreads, NEW w \in CountingThreads
    PROVE  u = v \/ u = w \/ v = w
<1> SUFFICES ASSUME u # v, u # w, v # w
             PROVE  FALSE
  OBVIOUS
<1>1. Cardinality(CountingThreads \ {u}) = 1 /\ IsFiniteSet(CountingThreads \ {u})
  BY CountingFacts, FS_RemoveElement
<1>2. /\ Cardinality((CountingThreads \ {u}) \ {v}) = 0
      /\ IsFiniteSet((CountingThreads \ {u}) \ {v})
  BY <1>1, FS_RemoveElement
<1>3. (CountingThreads \ {u}) \ {v} = {}
  BY <1>2, FS_EmptySet
<1> QED
  BY <1>3

\* Where no group is backed up, nothing is ever queued and asyncReqThread is idle.
AsyncInv ==
    Member("hosts_backup") = {} =>
        /\ async_req = << >>
        /\ worker[ASYNC].pc = "idle"
        /\ \A w \in Threads : /\ worker[w].group # "hosts_backup"
                              /\ worker[w].push = 0 /\ worker[w].pc # "push"

\* Every step keeps it so: the backup ring is empty, and never looked into.
LEMMA AsyncStep ==
    ASSUME TypeOK, AsyncInv, [Next]_vars
    PROVE  AsyncInv'
<1> SUFFICES ASSUME Member("hosts_backup") = {}
             PROVE  AsyncInv'
  BY DEF AsyncInv
<1> DEFINE Quiet(r) == r.group # "hosts_backup" /\ r.push = 0 /\ r.pc # "push"
<1>1. /\ async_req = << >> /\ worker[ASYNC].pc = "idle" /\ \A w \in Threads : Quiet(worker[w])
      /\ worker \in [Threads -> WorkerRecord]
  BY DEF AsyncInv, TypeOK, WorkerTypes
<1>2. DOMAIN Ring("hosts_backup") = {}
  BY DEF TypeOK, RingTypes, Ring, GroupName
<1>3. ASSUME NEW w \in Workers, NEW r, Step(w, r), Quiet(r), UNCHANGED async_req
      PROVE  AsyncInv'
  <2>1. \A v \in Threads : worker'[v] = IF v = w THEN r ELSE worker[v]
    BY <1>1, <1>3 DEF Step, Threads
  <2>2. w # ASYNC /\ ASYNC \in Threads
    BY AsyncAssumption DEF Threads
  <2> QED
    BY <1>1, <1>3, <2>1, <2>2 DEF AsyncInv
<1>4. CASE UNCHANGED <<async_req, worker>>
  BY <1>1, <1>4 DEF AsyncInv
<1>5. ASSUME UNCHANGED async_req,
             \A w \in Threads : Quiet(worker'[w]) /\ worker'[w].pc = worker[w].pc
      PROVE  AsyncInv'
  <2>1. ASYNC \in Threads
    BY DEF Threads
  <2> QED
    BY <1>1, <1>5, <2>1 DEF AsyncInv
<1>6. CASE checkHealthThread
  <2>1. CASE RewriteTmp
    <3>1. ASSUME NEW w \in Threads
          PROVE  Quiet(worker'[w]) /\ worker'[w].pc = worker[w].pc
      <4>1. worker'[w] = worker[w] \/ worker'[w] = [worker[w] EXCEPT !.it = DANGLING]
        BY <2>1 DEF RewriteTmp
      <4>2. Quiet(worker[w]) /\ worker[w] \in WorkerRecord
        BY <1>1
      <4> QED
        BY <4>1, <4>2 DEF WorkerRecord
    <3> QED
      BY <1>5, <2>1, <3>1 DEF RewriteTmp, outside
  <2>2. CASE SwapTrees
    <3>1. ASSUME NEW w \in Threads
          PROVE  Quiet(worker'[w]) /\ worker'[w].pc = worker[w].pc
      <4> DEFINE g == FirstGroup(health.left)
                 s == worker[w].seen \cup {find(tree[g][1 - live[g]], worker[w].key)}
                 n == IF worker[w].swaps < MaxSwaps THEN worker[w].swaps + 1 ELSE worker[w].swaps
      <4>1. worker'[w] = worker[w] \/ worker'[w] = [worker[w] EXCEPT !.seen = s, !.swaps = n]
        BY <2>2 DEF SwapTrees
      <4>2. Quiet(worker[w]) /\ worker[w] \in WorkerRecord
        BY <1>1
      <4> HIDE DEF s, n
      <4> QED
        BY <4>1, <4>2 DEF WorkerRecord
    <3> QED
      BY <1>5, <2>2, <3>1 DEF SwapTrees, outside
  <2>3. ASSUME ~ RewriteTmp, ~ SwapTrees
        PROVE  UNCHANGED <<async_req, worker>>
    BY <1>6, <2>3 DEF checkHealthThread, Wake, FailoverDel, MarkOffline, StartProbe, Probe,
                      MarkOnline, ResetCount, Sleep, outside
  <2> QED
    BY <1>4, <2>1, <2>2, <2>3
<1>7. ASSUME NEW w \in Workers, Worker(w)
      PROVE  AsyncInv'
  <2> DEFINE r == worker[w]
  <2>1. w \in Threads /\ r \in WorkerRecord /\ Quiet(r)
    BY <1>1 DEF Threads
  <2>2. Quiet(IdleWorker) /\ Quiet(Rest(r))
    BY <2>1 DEF IdleWorker, Rest
  <2>3. UNCHANGED async_req
    <3>1. ~ Push(w)
      BY <2>1 DEF Push
    <3> QED
      BY <1>7, <3>1 DEF Worker, Talk, Request, FindLowerBound, FindSize, FindBegin, FindDeref,
                        Found, TalkOk, TalkFail, LoadFail, StoreFail, LoadCont, StoreCont, outside
  <2>4. CASE Request(w)
    <3>0. PICK u \in BOOLEAN, k \in Keys :
            Step(w, [IdleWorker EXCEPT !.pc = "find", !.update = u, !.key = k,
                       !.group = IF ~ u /\ DOMAIN Ring("hosts_read") # {}
                                 THEN "hosts_read" ELSE "hosts"])
      BY <2>4 DEF Request
    <3>1. PICK g \in {"hosts", "hosts_read"} :
             Step(w, [IdleWorker EXCEPT !.pc = "find", !.update = u, !.key = k, !.group = g])
      BY <3>0
    <3>2. Quiet([IdleWorker EXCEPT !.pc = "find", !.update = u, !.key = k, !.group = g])
      BY DEF IdleWorker
    <3> QED
      BY <1>3, <2>3, <3>1, <3>2
  <2>5. CASE FindLowerBound(w)
    <3>1. PICK t, i, s : Step(w, [r EXCEPT !.pc = "size", !.tree = t, !.it = i, !.seen = s, !.swaps = 0])
      BY <2>5 DEF FindLowerBound
    <3>2. Quiet([r EXCEPT !.pc = "size", !.tree = t, !.it = i, !.seen = s, !.swaps = 0])
      BY <2>1 DEF WorkerRecord
    <3> QED
      BY <1>3, <2>3, <3>1, <3>2
  <2>6. CASE FindSize(w)
    <3>1. \/ Step(w, [r EXCEPT !.pc = "got", !.host = 0])
          \/ \E p \in {"begin", "deref"} : Step(w, [r EXCEPT !.pc = p])
      BY <2>6 DEF FindSize
    <3>2. /\ Quiet([r EXCEPT !.pc = "got", !.host = 0])
          /\ \A p \in {"begin", "deref"} : Quiet([r EXCEPT !.pc = p])
      BY <2>1 DEF WorkerRecord
    <3> QED
      BY <1>3, <2>3, <3>1, <3>2
  <2>7. CASE FindBegin(w)
    <3>1. PICK t, i : Step(w, [r EXCEPT !.pc = "deref", !.tree = t, !.it = i])
      BY <2>7 DEF FindBegin
    <3>2. Quiet([r EXCEPT !.pc = "deref", !.tree = t, !.it = i])
      BY <2>1 DEF WorkerRecord
    <3> QED
      BY <1>3, <2>3, <3>1, <3>2
  <2>8. CASE FindDeref(w)
    <3>1. \/ \E k : Step(w, [r EXCEPT !.pc = "got", !.host = k])
          \/ \E k : Step(w, [r EXCEPT !.pc = "got", !.host = k, !.wild = TRUE])
          \/ Step(w, [r EXCEPT !.pc = "crash", !.wild = TRUE])
      BY <2>8 DEF FindDeref
    <3>2. /\ \A k : Quiet([r EXCEPT !.pc = "got", !.host = k])
          /\ \A k : Quiet([r EXCEPT !.pc = "got", !.host = k, !.wild = TRUE])
          /\ Quiet([r EXCEPT !.pc = "crash", !.wild = TRUE])
      BY <2>1 DEF WorkerRecord
    <3> QED
      BY <1>3, <2>3, <3>1, <3>2
  <2>9. CASE Found(w)
    <3> DEFINE found == IF r.host = 0 THEN r.talkto ELSE Append(r.talkto, r.host)
               p == IF found = << >> THEN "idle" ELSE "talk"
    <3>1. Step(w, [[IdleWorker EXCEPT !.talkto = found] EXCEPT !.pc = p])
      BY <1>2, <2>1, <2>9 DEF Found
    <3>3. p # "push"
      OBVIOUS
    <3> HIDE DEF found, p
    <3>2. Quiet([[IdleWorker EXCEPT !.talkto = found] EXCEPT !.pc = p])
      BY <3>3 DEF IdleWorker
    <3> QED
      BY <1>3, <2>3, <3>1, <3>2
  <2>10. CASE Talk(w)
    <3>1. \/ Step(w, Rest(r))
          \/ \E p \in {"fail++", "cont++"} : Step(w, [r EXCEPT !.pc = p])
          \/ \E p \in {"fail=", "cont="} : \E x : Step(w, [r EXCEPT !.pc = p, !.val = x])
      BY <2>10 DEF Talk, TalkOk, TalkFail, LoadFail, StoreFail, LoadCont, StoreCont
    <3>2. /\ \A p \in {"fail++", "cont++"} : Quiet([r EXCEPT !.pc = p])
          /\ \A p \in {"fail=", "cont="} : \A x : Quiet([r EXCEPT !.pc = p, !.val = x])
      BY <2>1 DEF WorkerRecord
    <3> QED
      BY <1>3, <2>2, <2>3, <3>1, <3>2
  <2>11. ~ Push(w)
    BY <2>1 DEF Push
  <2> QED
    BY <1>7, <2>4, <2>5, <2>6, <2>7, <2>8, <2>9, <2>10, <2>11 DEF Worker
<1>8. ~ asyncReqThread
  BY <1>1 DEF asyncReqThread, TakeAsync, Talk, TalkOk, TalkFail, LoadFail, StoreFail, LoadCont,
              StoreCont
<1> QED
  BY <1>4, <1>6, <1>7, <1>8 DEF Next, Toggle, vars

\* Steps that leave st_fail alone and let no worker begin or go on counting.
LEMMA CountStay ==
    ASSUME CountInv, UNCHANGED st_fail,
           \A w \in CountingThreads : \/ worker'[w].pc \notin {"fail++", "fail="}
                                      \/ worker'[w] = worker[w]
    PROVE  CountInv'
BY DEF CountInv, Counting

\* The health thread and the environment never do.
LEMMA CountHealth ==
    ASSUME TypeOK, CountInv, checkHealthThread \/ \E h \in Hosts : Toggle(h)
    PROVE  CountInv'
<1> USE CountingFacts
<1>1. CASE UNCHANGED <<st_fail, worker>>
  BY <1>1, CountStay
<1>2. CASE RewriteTmp
  <2>1. ASSUME NEW w \in CountingThreads
        PROVE  worker'[w].pc \notin {"fail++", "fail="} \/ worker'[w] = worker[w]
    <3>1. \/ worker'[w] = worker[w]
          \/ /\ worker[w].pc \in {"size", "begin", "deref"}
             /\ worker'[w] = [worker[w] EXCEPT !.it = DANGLING]
      BY <1>2 DEF RewriteTmp
    <3> QED
      BY <3>1 DEF TypeOK, WorkerTypes, WorkerRecord
  <2> QED
    BY <1>2, <2>1, CountStay DEF RewriteTmp, counters
<1>3. CASE SwapTrees
  <2>1. ASSUME NEW w \in CountingThreads
        PROVE  worker'[w].pc \notin {"fail++", "fail="} \/ worker'[w] = worker[w]
    <3>1. \/ worker'[w] = worker[w]
          \/ /\ worker[w].pc \in {"size", "begin", "deref"}
             /\ \E s, n : worker'[w] = [worker[w] EXCEPT !.seen = s, !.swaps = n]
      BY <1>3 DEF SwapTrees
    <3> QED
      BY <3>1 DEF TypeOK, WorkerTypes, WorkerRecord
  <2> QED
    BY <1>3, <2>1, CountStay DEF SwapTrees, counters
<1> QED
  BY <1>1, <1>2, <1>3
     DEF checkHealthThread, Wake, FailoverDel, MarkOffline, StartProbe, Probe, MarkOnline,
         ResetCount, Sleep, Toggle, counters

\* Each step of one of two threads keeps the bounds.
LEMMA CountWorker ==
    ASSUME TypeOK, CountInv, Cardinality(CountingThreads) = 2, NEW w \in CountingThreads, Worker(w)
    PROVE  CountInv'
<1> DEFINE r == worker[w]
           h == Head(r.talkto)
<1>0. w \in Threads /\ CountingThreads \subseteq Threads
  BY CountingFacts
<1>1. /\ r \in WorkerRecord
      /\ worker \in [Threads -> WorkerRecord]
      /\ st_fail \in [Hosts -> Nat]
      /\ st_limit \in Nat \ {0}
  BY <1>0, LimitAssumption DEF TypeOK, WorkerTypes, HostTypes
<1>2. Talking(r) => h \in Hosts
  <2>1. PICK s : s = r.talkto
    OBVIOUS
  <2>2. Talking(r) => s # << >> /\ s \in Seq(Hosts)
    BY <2>1, <1>0, <1>1 DEF TypeOK, WorkerTypes, Talking, WorkerRecord
  <2> QED
    BY <2>1, <2>2, HeadTailProperties
<1>3. ASSUME NEW n, Step(w, n), n.pc \notin {"fail++", "fail="}, UNCHANGED st_fail
      PROVE  CountInv'
  BY <1>0, <1>1, <1>3, CountStay DEF Step
<1>4. CASE TalkFail(w)
  <2>1. CASE st_fail[h] < st_limit
    <3>1. Step(w, [r EXCEPT !.pc = "fail++"]) /\ UNCHANGED st_fail /\ r.pc = "talk"
      BY <1>4, <2>1 DEF TalkFail, counters
    <3>2. /\ worker'[w].pc = "fail++" /\ worker'[w].talkto = r.talkto
          /\ \A v \in CountingThreads : v # w => worker'[v] = worker[v]
      BY <1>0, <1>1, <3>1 DEF Step, WorkerRecord
    <3> HIDE DEF r
    <3> SUFFICES ASSUME NEW k \in Hosts
                 PROVE  /\ st_fail[k] <= st_limit + 1
                        /\ \A v \in CountingThreads : Counting(worker'[v], k) =>
                              /\ st_fail[k] <= st_limit
                              /\ worker'[v].pc = "fail=" =>
                                    /\ worker'[v].val <= st_limit
                                    /\ st_fail[k] < st_limit => worker'[v].val < st_limit
                        /\ \A v, u \in CountingThreads :
                              v # u /\ Counting(worker'[v], k) /\ Counting(worker'[u], k)
                                 => st_fail[k] < st_limit
      BY <3>1 DEF CountInv
    <3>3. Counting(worker'[w], k) => k = h
      BY <3>2 DEF Counting
    <3>4. \A v \in CountingThreads : Counting(worker'[v], k) => v = w \/ Counting(worker[v], k)
      BY <3>2
    <3>5. st_fail[k] \in Nat
      BY <1>1
    <3> QED
      BY <1>1, <2>1, <3>2, <3>3, <3>4, <3>5 DEF CountInv
  <2>2. CASE ~ (st_fail[h] < st_limit)
    <3>1. Step(w, Rest(r)) /\ UNCHANGED st_fail /\ r.talkto # << >>
      BY <1>0, <1>4, <2>2 DEF TalkFail, counters, TypeOK, WorkerTypes
    <3> QED
      BY <1>1, <1>3, <3>1, RestType
  <2> QED
    BY <2>1, <2>2
<1>5. CASE LoadFail(w)
  <2>1. /\ Step(w, [r EXCEPT !.pc = "fail=", !.val = st_fail[h]])
        /\ UNCHANGED st_fail /\ r.pc = "fail++"
    BY <1>5 DEF LoadFail, counters
  <2>2. /\ worker'[w].pc = "fail=" /\ worker'[w].talkto = r.talkto
        /\ worker'[w].val = st_fail[h]
        /\ \A v \in CountingThreads : v # w => worker'[v] = worker[v]
    BY <1>0, <1>1, <2>1 DEF Step, WorkerRecord
  <2>3. \A k \in Hosts, v \in CountingThreads : Counting(worker'[v], k) => Counting(worker[v], k)
    BY <2>1, <2>2 DEF Counting
  <2>4. \A k \in Hosts : Counting(worker'[w], k) => k = h
    BY <2>2 DEF Counting
  <2> HIDE DEF r, h
  <2> QED
    BY <1>1, <2>1, <2>2, <2>3, <2>4 DEF CountInv
<1>6. CASE StoreFail(w)
  <2>1. /\ Step(w, [r EXCEPT !.pc = "cont++"]) /\ r.pc = "fail="
        /\ st_fail' = [st_fail EXCEPT ![h] = r.val + 1]
    BY <1>6 DEF StoreFail
  <2>2. /\ worker'[w].pc = "cont++"
        /\ \A v \in CountingThreads : v # w => worker'[v] = worker[v]
    BY <1>0, <1>1, <2>1 DEF Step, WorkerRecord
  <2>3. h \in Hosts /\ r.val \in Nat /\ Counting(r, h)
    BY <1>1, <1>2, <2>1 DEF Talking, WorkerRecord, Counting
  <2>4. st_fail'[h] = r.val + 1 /\ \A k \in Hosts : k # h => st_fail'[k] = st_fail[k]
    BY <1>1, <2>1, <2>3
  <2>5. r.val <= st_limit
    BY <2>1, <2>3 DEF CountInv
  <2>6. \A k \in Hosts, v \in CountingThreads :
           Counting(worker'[v], k) => v # w /\ worker'[v] = worker[v] /\ Counting(worker[v], k)
    BY <2>2 DEF Counting
  <2>7. ASSUME NEW v \in CountingThreads, Counting(worker'[v], h)
        PROVE  /\ r.val < st_limit
               /\ worker'[v].pc = "fail=" => worker'[v].val < st_limit
               /\ \A u \in CountingThreads : Counting(worker'[u], h) => u = v
    <3>1. v # w /\ worker'[v] = worker[v] /\ Counting(worker[v], h)
      BY <2>3, <2>6, <2>7
    <3>2. st_fail[h] < st_limit
      BY <2>3, <3>1 DEF CountInv
    <3>3. \A u \in CountingThreads : u # w => u = v
      BY <3>1, TwoThreads
    <3> HIDE DEF h
    <3> QED
      BY <2>1, <2>3, <2>6, <3>1, <3>2, <3>3 DEF CountInv
  <2> HIDE DEF r, h
  <2>8. ASSUME NEW k \in Hosts
        PROVE  /\ st_fail'[k] <= st_limit + 1
               /\ \A v \in CountingThreads : Counting(worker'[v], k) =>
                     /\ st_fail'[k] <= st_limit
                     /\ worker'[v].pc = "fail=" =>
                           /\ worker'[v].val <= st_limit
                           /\ st_fail'[k] < st_limit => worker'[v].val < st_limit
               /\ \A v, u \in CountingThreads :
                     v # u /\ Counting(worker'[v], k) /\ Counting(worker'[u], k)
                        => st_fail'[k] < st_limit
    <3>1. CASE k = h
      <4>1. st_fail'[k] <= st_limit + 1
        BY <1>1, <2>3, <2>4, <2>5, <3>1
      <4>2. \A v, u \in CountingThreads :
               ~ (v # u /\ Counting(worker'[v], k) /\ Counting(worker'[u], k))
        BY <2>7, <3>1
      <4>3. ASSUME NEW v \in CountingThreads, Counting(worker'[v], k)
            PROVE  /\ st_fail'[k] <= st_limit
                   /\ worker'[v].pc = "fail=" => worker'[v].val < st_limit
        BY <1>1, <2>3, <2>4, <2>7, <3>1, <4>3
      <4>4. \A v \in CountingThreads : Counting(worker'[v], k) => worker'[v].val \in Nat
        BY <1>0, <1>1, <2>6 DEF WorkerRecord
      <4> QED
        BY <1>1, <4>1, <4>2, <4>3, <4>4
    <3>2. CASE k # h
      BY <2>4, <2>6, <3>2 DEF CountInv
    <3> QED
      BY <3>1, <3>2
  <2> QED
    BY <2>8 DEF CountInv
<1>7. CASE TalkOk(w) \/ StoreCont(w)
  <2>1. Step(w, Rest(r)) /\ UNCHANGED st_fail /\ r.talkto # << >>
    BY <1>0, <1>7 DEF TalkOk, StoreCont, TypeOK, WorkerTypes
  <2> QED
    BY <1>1, <1>3, <2>1, RestType
<1>8. CASE LoadCont(w)
  <2>1. /\ Step(w, [r EXCEPT !.pc = "cont=", !.val = st_cont_fail[h]])
        /\ UNCHANGED st_fail
    BY <1>8 DEF LoadCont, counters
  <2>2. [r EXCEPT !.pc = "cont=", !.val = st_cont_fail[h]].pc = "cont="
    BY <1>1 DEF WorkerRecord
  <2> QED
    BY <1>3, <2>1, <2>2
<1>9. CASE Request(w) \/ FindLowerBound(w) \/ FindSize(w) \/ FindBegin(w) \/ FindDeref(w) \/ Found(w)
  <2>1. UNCHANGED st_fail
    BY <1>9 DEF Request, FindLowerBound, FindSize, FindBegin, FindDeref, Found, counters
  <2>2. CASE Request(w)
    <3>1. PICK u \in BOOLEAN, k \in Keys, g \in {"hosts", "hosts_read"} :
             Step(w, [IdleWorker EXCEPT !.pc = "find", !.update = u, !.key = k, !.group = g])
      BY <2>2 DEF Request
    <3>2. [IdleWorker EXCEPT !.pc = "find", !.update = u, !.key = k, !.group = g].pc = "find"
      BY IdleType DEF WorkerRecord
    <3> QED
      BY <1>3, <2>1, <3>1, <3>2
  <2>3. CASE FindLowerBound(w)
    <3>1. PICK t, i, s : Step(w, [r EXCEPT !.pc = "size", !.tree = t, !.it = i, !.seen = s, !.swaps = 0])
      BY <2>3 DEF FindLowerBound
    <3>2. [r EXCEPT !.pc = "size", !.tree = t, !.it = i, !.seen = s, !.swaps = 0].pc = "size"
      BY <1>1 DEF WorkerRecord
    <3> QED
      BY <1>3, <2>1, <3>1, <3>2
  <2>4. CASE FindSize(w)
    <3>1. \/ Step(w, [r EXCEPT !.pc = "got", !.host = 0])
          \/ \E p \in {"begin", "deref"} : Step(w, [r EXCEPT !.pc = p])
      BY <2>4 DEF FindSize
    <3>2. /\ [r EXCEPT !.pc = "got", !.host = 0].pc = "got"
          /\ \A p : [r EXCEPT !.pc = p].pc = p
      BY <1>1 DEF WorkerRecord
    <3> QED
      BY <1>3, <2>1, <3>1, <3>2
  <2>5. CASE FindBegin(w)
    <3>1. PICK t, i : Step(w, [r EXCEPT !.pc = "deref", !.tree = t, !.it = i])
      BY <2>5 DEF FindBegin
    <3>2. [r EXCEPT !.pc = "deref", !.tree = t, !.it = i].pc = "deref"
      BY <1>1 DEF WorkerRecord
    <3> QED
      BY <1>3, <2>1, <3>1, <3>2
  <2>6. CASE FindDeref(w)
    <3>1. \/ \E k : Step(w, [r EXCEPT !.pc = "got", !.host = k])
          \/ \E k : Step(w, [r EXCEPT !.pc = "got", !.host = k, !.wild = TRUE])
          \/ Step(w, [r EXCEPT !.pc = "crash", !.wild = TRUE])
      BY <2>6 DEF FindDeref
    <3>2. /\ \A k : [r EXCEPT !.pc = "got", !.host = k].pc = "got"
          /\ \A k : [r EXCEPT !.pc = "got", !.host = k, !.wild = TRUE].pc = "got"
          /\ [r EXCEPT !.pc = "crash", !.wild = TRUE].pc = "crash"
      BY <1>1 DEF WorkerRecord
    <3> QED
      BY <1>3, <2>1, <3>1, <3>2
  <2>7. CASE Found(w)
    <3>1. PICK found :
             \/ Step(w, [[IdleWorker EXCEPT !.talkto = found]
                            EXCEPT !.pc = "find", !.update = TRUE, !.key = r.key,
                                   !.group = "hosts_backup"])
             \/ \E p \in {"idle", "talk"} :
                   Step(w, [[IdleWorker EXCEPT !.talkto = found] EXCEPT !.pc = p])
             \/ \E q : Step(w, [IdleWorker EXCEPT !.pc = "talk", !.talkto = found, !.push = q])
      BY <2>7 DEF Found
    <3>2. /\ [[IdleWorker EXCEPT !.talkto = found]
                 EXCEPT !.pc = "find", !.update = TRUE, !.key = r.key,
                        !.group = "hosts_backup"].pc = "find"
          /\ \A p : [[IdleWorker EXCEPT !.talkto = found] EXCEPT !.pc = p].pc = p
          /\ \A q : [IdleWorker EXCEPT !.pc = "talk", !.talkto = found, !.push = q].pc = "talk"
      BY DEF IdleWorker
    <3> QED
      BY <1>3, <2>1, <3>1, <3>2
  <2> QED
    BY <1>9, <2>2, <2>3, <2>4, <2>5, <2>6, <2>7
<1>10. CASE Push(w)
  BY <1>3, <1>10, IdleType DEF Push, counters
<1> QED
  BY <1>4, <1>5, <1>6, <1>7, <1>8, <1>9, <1>10 DEF Worker, Talk

\* Two threads that count failures of one host, two workers or a worker and
\* asyncReqThread, overshoot ST_LIMIT by at most one, whatever they read of each
\* other's increments: the second has tested the counter while the first was
\* still on its way to store.
THEOREM FailCountIsBounded == Spec => []FailCountBounded
<1> DEFINE Inv == TypeOK /\ AsyncInv /\ (Cardinality(CountingThreads) = 2 => CountInv)
<1>1. Init => Inv
  <2>1. Init => CountInv
    BY LimitAssumption, IdleType, CountingFacts DEF Init, CountInv, Counting
  <2>2. Init => AsyncInv
    <3>1. IdleWorker.group = "hosts" /\ IdleWorker.push = 0 /\ IdleWorker.pc = "idle"
      BY DEF IdleWorker
    <3> QED
      BY <3>1 DEF Init, AsyncInv, Threads
  <2> QED
    BY <2>1, <2>2, TypeInit
<1>2. Inv /\ [Next]_vars => Inv'
  <2> SUFFICES ASSUME Inv, [Next]_vars
               PROVE  Inv'
    OBVIOUS
  <2>1. ASSUME CountInv, Cardinality(CountingThreads) = 2
        PROVE  CountInv'
    <3>1. CASE UNCHANGED vars
      BY <2>1, <3>1, CountStay DEF vars
    <3>2. CASE checkHealthThread \/ \E h \in Hosts : Toggle(h)
      BY <2>1, <3>2, CountHealth
    <3>3. CASE \E w \in Workers : Worker(w)
      <4>1. Workers \subseteq CountingThreads
        BY DEF CountingThreads, Threads
      <4> QED
        BY <2>1, <3>3, <4>1, CountWorker
    <3>4. CASE TakeAsync
      <4>1. /\ Step(ASYNC, [IdleWorker EXCEPT !.pc = "talk", !.talkto = <<Head(async_req)>>])
            /\ UNCHANGED st_fail
        BY <3>4 DEF TakeAsync, counters
      <4>2. [IdleWorker EXCEPT !.pc = "talk", !.talkto = <<Head(async_req)>>].pc = "talk"
        BY DEF IdleWorker
      <4>3. \A w \in CountingThreads : worker'[w].pc \notin {"fail++", "fail="} \/ worker'[w] = worker[w]
        BY <4>1, <4>2, CountingFacts DEF Step, TypeOK, WorkerTypes
      <4> QED
        BY <2>1, <4>1, <4>3, CountStay
    <3>5. CASE Talk(ASYNC)
      <4>1. worker[ASYNC].pc # "idle"
        BY <3>5 DEF Talk, TalkOk, TalkFail, LoadFail, StoreFail, LoadCont, StoreCont
      <4>2. ASYNC \in CountingThreads
        BY <4>1 DEF AsyncInv, CountingThreads, Threads
      <4> QED
        BY <2>1, <3>5, <4>2, CountWorker DEF Worker
    <3> QED
      BY <3>1, <3>2, <3>3, <3>4, <3>5 DEF Next, asyncReqThread
  <2> QED
    BY <2>1, TypeStep, AsyncStep
<1>3. Inv => FailCountBounded
  BY DEF CountInv, FailCountBounded
<1> QED
  BY <1>1, <1>2, <1>3, PTL DEF Spec

-----------------------------------------------------------------------------
(***************************************************************************)
(* Failover implements Routing: initial states map to initial states, a    *)
(* step of SwapTrees to a host leaving or returning, every other step to a *)
(* stutter.                                                                *)
(***************************************************************************)

\* The groups as Routing sees them.
LEMMA RoutingConf ==
    /\ R!Groups = GroupName
    /\ \A g \in GroupName : R!Members(g) = Member(g)
    /\ \A g \in GroupName : Rank[g] \in Nat
    /\ \A g \in GroupName : \A h \in Member(g) : Points[g][h] = VNodes(Conf[g][h])
BY DEF R!Groups, R!Members, Rank, Points, GroupName

\* The points that each member owns in a ring of its group.
Owned(g, ring) == [h \in Member(g) |-> PointsOf(ring, h)]

\* find on a ring is consistent hashing over the points that the members own.
LEMMA FindRoutes ==
    ASSUME NEW g \in GroupName, NEW ring, RingOf(g, ring), NEW k \in Nat
    PROVE  find(ring, k) = R!Route(Owned(g, ring), k)
<1> DEFINE own == Owned(g, ring)
           S == UNION {own[h] : h \in DOMAIN own}
<1>1. DOMAIN own = Member(g) /\ \A h \in Member(g) : own[h] = PointsOf(ring, h)
  BY DEF Owned
<1>2. \A p \in DOMAIN ring : ring[p] \in Member(g) /\ p \in own[ring[p]]
  BY <1>1 DEF RingOf, PointsOf
<1>3. S = DOMAIN ring
  <2>1. \A h \in DOMAIN own : own[h] \subseteq DOMAIN ring
    BY <1>1 DEF PointsOf
  <2>2. \A p \in DOMAIN ring : p \in own[ring[p]] /\ ring[p] \in DOMAIN own
    BY <1>1, <1>2
  <2> HIDE DEF own
  <2> QED
    BY <2>1, <2>2, Zenon
<1>4. CASE S = {}
  BY <1>3, <1>4 DEF find, R!Route
<1>5. CASE S # {}
  <2> DEFINE after == {p \in S : p >= k}
             p == R!Clockwise(S, k)
  <2>1. S \in SUBSET Nat /\ after \in SUBSET Nat
    BY <1>3 DEF RingOf, IsRing
  <2>2. p = IF after = {} THEN Least(S) ELSE Least(after)
    BY DEF R!Clockwise, R!First, Least
  <2>3. Least(S) \in S /\ (after # {} => Least(after) \in after)
    BY <1>5, <2>1, LeastIsMinimum
  <2>4. find(ring, k) = ring[p]
    <3>1. lower_bound(ring, k) = IF after = {} THEN END ELSE Least(after)
      BY <1>3 DEF lower_bound
    <3>2. begin(ring) = Least(S)
      BY <1>3 DEF begin
    <3>3. after # {} => Least(after) # END
      BY <2>1, <2>3 DEF END
    <3> QED
      BY <1>3, <1>5, <2>2, <3>1, <3>2, <3>3 DEF find
  <2>5. p \in DOMAIN ring
    BY <1>3, <2>2, <2>3
  <2> HIDE DEF S, p, own
  <2>6. ring[p] \in DOMAIN own /\ p \in own[ring[p]]
    BY <1>1, <1>2, <2>5
  <2>7. \A h \in DOMAIN own : p \in own[h] => h = ring[p]
    BY <1>1, <2>5 DEF PointsOf
  <2>8. (CHOOSE h \in DOMAIN own : p \in own[h]) = ring[p]
    BY <2>6, <2>7
  <2> QED
    BY <1>5, <2>4, <2>8 DEF R!Route, S, p, own
<1> QED
  BY <1>4, <1>5

\* So the rings give the routes of Routing.
LEMMA RoutesMatch ==
    ASSUME NEW ring, \A g \in GroupName : RingOf(g, ring[g])
    PROVE  [g \in GroupName |-> [k \in Keys |-> find(ring[g], k)]]
              = R!Routes([g \in GroupName |-> Owned(g, ring[g])])
<1>1. \A g \in GroupName, k \in Keys : find(ring[g], k) = R!Route(Owned(g, ring[g]), k)
  BY KeysAssumption, FindRoutes
<1> QED
  BY <1>1, RoutingConf DEF R!Routes

\* A host that delHost takes out of a ring gives up points, and nobody else does.
LEMMA DelOwned ==
    ASSUME DistinctPoints, NEW g \in GroupName, NEW E \in SUBSET Member(g), NEW ring,
           Good(ring, g, E), NEW h \in E, NEW r \in delHost(ring, h)
    PROVE  /\ Owned(g, r) = [Owned(g, ring) EXCEPT ![h] = PointsOf(r, h)]
           /\ PointsOf(r, h) \subseteq VNodes(Conf[g][h])
           /\ PointsOf(r, h) = VNodes(Conf[g][h]) => PointsOf(r, h) = {}
<1>1. /\ DOMAIN r \subseteq DOMAIN ring
      /\ \A p \in DOMAIN r : r[p] = ring[p]
      /\ \A p \in DOMAIN ring : ring[p] # h => p \in DOMAIN r
      /\ PointsOf(ring, h) # {} => PointsOf(r, h) # PointsOf(ring, h)
  BY DelHostOwners DEF Good, RingOf
<1>2. PointsOf(ring, h) = VNodes(Conf[g][h])
  BY GoodPoints
<1>3. \A a \in Member(g) \ {h} : PointsOf(r, a) = PointsOf(ring, a)
  BY <1>1 DEF PointsOf
<1>4. PointsOf(r, h) \subseteq PointsOf(ring, h)
  BY <1>1 DEF PointsOf
<1> QED
  BY <1>1, <1>2, <1>3, <1>4 DEF Owned

\* A host that addHost puts back owns all of its points, and nobody loses any.
LEMMA AddOwned ==
    ASSUME DistinctPoints, NEW g \in GroupName, NEW E \in SUBSET Member(g), NEW ring,
           Good(ring, g, E), NEW h \in Member(g), Conf[g][h] = host_infos(h),
           NEW r, r = addHost(ring, h, host_infos(h))
    PROVE  Owned(g, r) = [Owned(g, ring) EXCEPT ![h] = VNodes(Conf[g][h])]
<1>1. h \in Alias /\ host_infos(h) \in Info
  BY ConfFacts, HostFacts
<1>2. Added(r, ring, h, host_infos(h))
  BY <1>1, AddHostOwners DEF Good, RingOf
<1>3. Good(r, g, E \cup {h}) /\ E \cup {h} \in SUBSET Member(g)
  BY GoodAdd
<1>4. PointsOf(r, h) = VNodes(Conf[g][h])
  BY <1>3, GoodPoints
<1>5. \A p \in DOMAIN ring : ring[p] # h => p \notin VNodes(Conf[g][h])
  BY DEF Good, RingOf, DistinctPoints
<1>6. \A a \in Member(g) \ {h} : PointsOf(r, a) = PointsOf(ring, a)
  BY <1>2, <1>5 DEF PointsOf, Added
<1> QED
  BY <1>4, <1>6 DEF Owned

-----------------------------------------------------------------------------
\* Half-way through failover() the groups still to do are the last ones in
\* the order of the groups.
SuffixInv ==
    health.pc \in {"del", "add"} =>
        \A f, g \in GroupsOf(health.host) :
            g \in health.left /\ Rank[g] <= Rank[f] => f \in health.left

\* FirstGroup takes the groups in the order of Rank.
LEMMA FirstGroupIsFirst ==
    ASSUME NEW G \in SUBSET GroupName, G # {}
    PROVE  FirstGroup(G) \in G /\ \A f \in G : Rank[FirstGroup(G)] <= Rank[f]
<1>1. Rank["hosts"] = 1 /\ Rank["hosts_read"] = 2 /\ Rank["hosts_backup"] = 3
  BY DEF Rank, GroupName
<1>2. \A f \in G : f = "hosts" \/ f = "hosts_read" \/ f = "hosts_backup"
  BY DEF GroupName
<1> QED
  BY <1>1, <1>2 DEF FirstGroup

\* No two groups have the same rank.
LEMMA RankInjective ==
    ASSUME NEW f \in GroupName, NEW g \in GroupName, f # g
    PROVE  Rank[f] # Rank[g]
BY DEF Rank, GroupName

\* The order of the groups is kept by every step.
LEMMA SuffixStep ==
    ASSUME TypeOK, SuffixInv, [Next]_vars
    PROVE  SuffixInv'
<1> USE DEF TypeOK
<1>1. CASE FailoverDel
  <2>1. PICK h : \/ health' = [health EXCEPT !.todo = @ \ {h}]
                 \/ health' = [health EXCEPT !.pc = "del", !.host = h, !.left = GroupsOf(h)]
    BY <1>1 DEF FailoverDel
  <2> QED
    BY <1>1, <2>1 DEF FailoverDel, HealthTypes, SuffixInv, GroupsOf
<1>2. CASE Probe
  <2>1. PICK h : \/ health' = [health EXCEPT !.todo = @ \ {h}]
                 \/ health' = [health EXCEPT !.pc = "add", !.host = h, !.left = GroupsOf(h)]
                 \/ health' = [health EXCEPT !.pc = "add", !.host = h, !.left = {}]
    BY <1>2 DEF Probe
  <2> QED
    BY <1>2, <2>1 DEF Probe, HealthTypes, SuffixInv, GroupsOf
<1>3. CASE SwapTrees
  <2>1. health.pc \in {"del", "add"} /\ health.left # {} /\ health.left \in SUBSET GroupName
    BY <1>3 DEF SwapTrees, HealthTypes
  <2>2. PICK g \in GroupName : g = FirstGroup(health.left) /\ g \in health.left
    BY <2>1, FirstGroupIsFirst
  <2>3. \A f \in health.left : Rank[g] <= Rank[f]
    BY <2>1, <2>2, FirstGroupIsFirst
  <2>4. health'.host = health.host /\ health'.left = health.left \ {g}
    BY <1>3, <2>2 DEF SwapTrees, HealthTypes
  <2>5. ASSUME NEW e \in GroupsOf(health.host), NEW f \in GroupsOf(health.host),
               f \in health.left \ {g}, Rank[f] <= Rank[e]
        PROVE  e \in health.left \ {g}
    <3>1. e \in GroupName /\ f \in GroupName
      BY DEF GroupsOf
    <3>2. e \in health.left
      BY <2>1, <2>5 DEF SuffixInv
    <3>3. e # g
      BY <2>2, <2>3, <2>5, <3>1, RankInjective, RoutingConf
    <3> QED
      BY <3>2, <3>3
  <2> QED
    BY <2>4, <2>5 DEF SuffixInv, GroupsOf
<1>4. CASE RewriteTmp
  BY <1>4 DEF RewriteTmp, HealthTypes, SuffixInv, GroupsOf
<1>5. CASE Wake \/ StartProbe \/ MarkOffline \/ MarkOnline \/ ResetCount \/ Sleep
  <2>1. health'.pc \notin {"del", "add"}
    BY <1>5 DEF Wake, StartProbe, MarkOffline, MarkOnline, ResetCount, Sleep, HealthTypes
  <2> QED
    BY <2>1 DEF SuffixInv
<1>6. CASE UNCHANGED health
  BY <1>6 DEF SuffixInv, GroupsOf
<1>7. ASSUME \/ \E w \in Workers : Worker(w)
             \/ asyncReqThread
             \/ \E h \in Hosts : Toggle(h)
      PROVE  UNCHANGED health
  BY <1>7, OthersLeaveRings
<1> QED
  BY <1>1, <1>2, <1>3, <1>4, <1>5, <1>6, <1>7 DEF Next, checkHealthThread, vars

\* What Routing asks of the state before a step of SwapTrees.
LEMMA SwapOrder ==
    ASSUME TypeOK, SuffixInv, health.pc \in {"del", "add"}, NEW g \in GroupName,
           NEW h \in Hosts, g \in health.left, g = FirstGroup(health.left), h = health.host
    PROVE  /\ health.pc = "del" => R!OnlineIn(h, {f \in GroupName : Rank[f] >= Rank[g]})
           /\ health.pc = "add" => R!OnlineIn(h, {f \in GroupName : Rank[f] < Rank[g]})
           /\ R!OthersSettled(h)
<1> USE DEF TypeOK, HealthTypes
<1>1. ASSUME NEW f \in GroupName, h \in Member(f)
      PROVE  f \in health.left <=> Rank[f] >= Rank[g]
  <2>1. health.left \in SUBSET GroupName /\ f \in GroupsOf(h) /\ g \in GroupsOf(h)
    BY <1>1 DEF GroupsOf
  <2>2. Rank[f] \in Nat /\ Rank[g] \in Nat
    BY RoutingConf
  <2>3. f \in health.left => Rank[f] >= Rank[g]
    BY <2>1, <2>2, FirstGroupIsFirst
  <2>4. Rank[f] >= Rank[g] => f \in health.left
    BY <2>1, <2>2 DEF SuffixInv
  <2> QED
    BY <2>3, <2>4
<1>2. ASSUME NEW f \in GroupName, h \in Member(f)
      PROVE  /\ health.pc = "del" => (h \in Online(f) <=> Rank[f] >= Rank[g])
             /\ health.pc = "add" => (h \in Online(f) <=> Rank[f] < Rank[g])
  <2>1. Rank[f] \in Nat /\ Rank[g] \in Nat
    BY RoutingConf
  <2> QED
    BY <1>1, <1>2, <2>1 DEF Online, Expected
<1>3. ASSUME NEW a, a # h, NEW f \in GroupName, a \in Member(f)
      PROVE  a \in Online(f) <=> ~ host_offline[a]
  BY <1>3 DEF Online, Expected
<1>4. ASSUME NEW a, a # h
      PROVE  R!OnlineIn(a, GroupName) \/ R!OnlineIn(a, {})
  BY <1>3, <1>4, RoutingConf DEF R!OnlineIn
<1>5. R!OthersSettled(h)
  BY <1>4, RoutingConf DEF R!OthersSettled
<1>6. health.pc = "del" => R!OnlineIn(h, {f \in GroupName : Rank[f] >= Rank[g]})
  BY <1>2, RoutingConf DEF R!OnlineIn
<1>7. health.pc = "add" => R!OnlineIn(h, {f \in GroupName : Rank[f] < Rank[g]})
  BY <1>2, RoutingConf DEF R!OnlineIn
<1> QED
  BY <1>5, <1>6, <1>7

\* The rings and the points owned, as functions of the group.
Rings == [g \in GroupName |-> Ring(g)]
AllOwned(ring) == [g \in GroupName |-> Owned(g, ring[g])]

\* What the mapping of Routing's variables is in terms of these.
LEMMA MappingFacts ==
    ASSUME TypeOK
    PROVE  /\ [g \in GroupName |-> [h \in Member(g) |-> PointsOf(Ring(g), h)]] = AllOwned(Rings)
           /\ [g \in GroupName |-> [k \in Keys |-> find(Ring(g), k)]] = R!Routes(AllOwned(Rings))
<1>1. \A g \in GroupName : RingOf(g, Rings[g])
  BY DEF Rings, TypeOK, RingTypes, RingOf, Ring
<1>2. [g \in GroupName |-> [k \in Keys |-> find(Ring(g), k)]]
        = [g \in GroupName |-> [k \in Keys |-> find(Rings[g], k)]]
  BY DEF Rings
<1>3. [g \in GroupName |-> [k \in Keys |-> find(Rings[g], k)]] = R!Routes(AllOwned(Rings))
  BY <1>1, RoutesMatch DEF AllOwned
<1> QED
  BY <1>2, <1>3 DEF AllOwned, Owned, Rings

\* The same of the state after a step.
LEMMA MappingFactsNext ==
    ASSUME TypeOK'
    PROVE  /\ [g \in GroupName |-> [h \in Member(g) |-> PointsOf(Ring(g), h)]]' = AllOwned(Rings')
           /\ [g \in GroupName |-> [k \in Keys |-> find(Ring(g), k)]]' = R!Routes(AllOwned(Rings'))
<1> DEFINE ring == Rings'
<1>0. ring = [g \in GroupName |-> Ring(g)']
  BY DEF Rings
<1>1. \A g \in GroupName : RingOf(g, ring[g])
  BY <1>0 DEF TypeOK, RingTypes, RingOf, Ring
<1>2. [g \in GroupName |-> [k \in Keys |-> find(Ring(g), k)]]'
        = [g \in GroupName |-> [k \in Keys |-> find(ring[g], k)]]
  BY <1>0
<1>4. [g \in GroupName |-> [h \in Member(g) |-> PointsOf(Ring(g), h)]]' = AllOwned(ring)
  BY <1>0 DEF AllOwned, Owned
<1> HIDE DEF ring
<1>3. [g \in GroupName |-> [k \in Keys |-> find(ring[g], k)]] = R!Routes(AllOwned(ring))
  BY <1>1, RoutesMatch DEF AllOwned
<1> QED
  BY <1>2, <1>3, <1>4 DEF ring

\* A step of SwapTrees is a host leaving, or returning to, a group.
LEMMA SwapRoutes ==
    ASSUME SameInfo, DistinctPoints, TypeOK, ControlInv, RingInv, SuffixInv, TypeOK', SwapTrees
    PROVE  R!Next
<1>1. health.pc \in {"del", "add"}
  BY SwapMoves
<1>2. PICK g \in GroupName : \E h \in Hosts : Swapped(g, h)
  BY SwapMoves
<1>3. PICK h \in Hosts : Swapped(g, h)
  BY <1>2
<1> DEFINE on == [f \in GroupName |-> Online(f)]
<1>4. /\ health.pc = "del" => R!OnlineIn(h, {f \in GroupName : Rank[f] >= Rank[g]})
      /\ health.pc = "add" => R!OnlineIn(h, {f \in GroupName : Rank[f] < Rank[g]})
      /\ R!OthersSettled(h)
  BY <1>1, <1>3, SwapOrder DEF Swapped
<1>6. /\ health.pc = "del" => on' = [on EXCEPT ![g] = @ \ {h}]
      /\ health.pc = "add" => on' = [on EXCEPT ![g] = @ \cup {h}]
  <2>1. /\ on' = [f \in GroupName |-> Online(f)']
        /\ \A f \in GroupName \ {g} : Online(f)' = Online(f)
    BY <1>3 DEF Swapped
  <2>2. health.pc = "del" => Online(g)' = Online(g) \ {h}
    BY <1>3 DEF Swapped
  <2>3. health.pc = "add" => Online(g)' = Online(g) \cup {h}
    BY <1>3 DEF Swapped
  <2> QED
    BY <2>1, <2>2, <2>3
<1>7. on' # on
  <2>1. health.pc = "del" => h \in on[g] /\ h \notin on'[g]
    BY <1>3 DEF Swapped, Online, Expected
  <2>2. health.pc = "add" => h \notin on[g] /\ h \in on'[g]
    BY <1>3 DEF Swapped, Online, Expected
  <2> QED
    BY <1>1, <2>1, <2>2
<1> DEFINE own == [f \in GroupName |-> [a \in Member(f) |-> PointsOf(Ring(f), a)]]
<1>10. /\ own = AllOwned(Rings)
       /\ own' = AllOwned(Rings')
       /\ [f \in GroupName |-> [k \in Keys |-> find(Ring(f), k)]]' = R!Routes(own')
  BY MappingFacts, MappingFactsNext
<1>11. /\ Rings[g] = Ring(g) /\ Rings'[g] = Ring(g)'
       /\ \A f \in GroupName \ {g} : Rings'[f] = Rings[f]
  BY <1>3 DEF Rings, Swapped
<1>12. Good(Ring(g), g, Online(g)) /\ Online(g) \in SUBSET Member(g) /\ h \in Member(g)
  BY <1>3 DEF RingInv, Online, Swapped
<1>13. ASSUME NEW kept, Owned(g, Rings'[g]) = [Owned(g, Rings[g]) EXCEPT ![h] = kept]
       PROVE  own' = [own EXCEPT ![g][h] = kept]
  <2>1. PICK old, new : old = Rings /\ new = Rings'
    OBVIOUS
  <2>2. /\ AllOwned(new) = [AllOwned(old) EXCEPT ![g] = Owned(g, new[g])]
        /\ AllOwned(old)[g] = Owned(g, old[g])
    BY <1>11, <2>1 DEF AllOwned
  <2>3. PICK a, b : a = AllOwned(old) /\ b = AllOwned(new)
    OBVIOUS
  <2>4. b = [a EXCEPT ![g] = [a[g] EXCEPT ![h] = kept]]
    BY <1>13, <2>1, <2>2, <2>3
  <2>5. own = a /\ own' = b
    BY <1>10, <2>1, <2>3
  <2> HIDE DEF own
  <2> QED
    BY <2>4, <2>5
<1>8. CASE health.pc = "del"
  <2> DEFINE r == Ring(g)'
  <2>1. r \in delHost(Ring(g), h) /\ h \in Online(g)
    BY <1>3, <1>8, <1>12 DEF Swapped, Online, Expected
  <2>2. PICK kept : kept = PointsOf(r, h)
    OBVIOUS
  <2> HIDE DEF r
  <2>3. /\ Owned(g, r) = [Owned(g, Ring(g)) EXCEPT ![h] = kept]
        /\ kept \in SUBSET VNodes(Conf[g][h]) /\ (kept = VNodes(Conf[g][h]) => kept = {})
    <3>1. PICK ring, E : ring = Ring(g) /\ E = Online(g)
      OBVIOUS
    <3>2. /\ Owned(g, r) = [Owned(g, ring) EXCEPT ![h] = PointsOf(r, h)]
          /\ PointsOf(r, h) \subseteq VNodes(Conf[g][h])
          /\ PointsOf(r, h) = VNodes(Conf[g][h]) => PointsOf(r, h) = {}
      <4>1. Good(ring, g, E) /\ E \in SUBSET Member(g) /\ h \in E
        BY <1>12, <2>1, <3>1
      <4>2. r \in delHost(ring, h)
        BY <2>1, <3>1
      <4> QED
        BY <4>1, <4>2, DelOwned
    <3>3. PICK v, o, n : v = VNodes(Conf[g][h]) /\ o = Owned(g, ring) /\ n = Owned(g, r)
      OBVIOUS
    <3>4. n = [o EXCEPT ![h] = kept] /\ kept \subseteq v /\ (kept = v => kept = {})
      BY <2>2, <3>2, <3>3
    <3> QED
      BY <3>1, <3>3, <3>4
  <2>4. own' = [own EXCEPT ![g][h] = kept]
    BY <1>11, <1>13, <2>3 DEF r
  <2>5. Points[g][h] = VNodes(Conf[g][h])
    BY <1>12, RoutingConf
  <2> HIDE DEF own, on
  <2>6. R!Leave(g, h)
    BY <1>4, <1>6, <1>8, <1>10, <2>3, <2>4, <2>5, RoutingConf DEF R!Leave, own, on
  <2> QED
    BY <1>3, <1>7, <2>6, RoutingConf DEF R!Next, Swapped, on
<1>9. CASE health.pc = "add"
  <2> DEFINE r == Ring(g)'
  <2>1. r = addHost(Ring(g), h, host_infos(h)) /\ Conf[g][h] = host_infos(h)
    BY <1>3, <1>9, <1>12 DEF Swapped, SameInfo
  <2> HIDE DEF r
  <2>2. Owned(g, r) = [Owned(g, Ring(g)) EXCEPT ![h] = VNodes(Conf[g][h])]
    BY <1>12, <2>1, AddOwned
  <2>3. own' = [own EXCEPT ![g][h] = Points[g][h]]
    BY <1>11, <1>12, <1>13, <2>2, RoutingConf DEF r
  <2> HIDE DEF own, on
  <2>4. R!Return(g, h)
    BY <1>4, <1>6, <1>9, <1>10, <2>3, RoutingConf DEF R!Return, own, on
  <2> QED
    BY <1>3, <1>7, <2>4, RoutingConf DEF R!Next, Swapped, on
<1> QED
  BY <1>1, <1>8, <1>9

\* The initial states.
LEMMA InitRoutes ==
    ASSUME DistinctPoints, Init
    PROVE  R!Init /\ SuffixInv
<1>1. \A g \in GroupName : Online(g) = Member(g)
  BY ConfFacts DEF Init, Online, Expected, Sleeping
<1>2. RingInv /\ TypeOK
  BY RingInitial, TypeInit
<1>3. SuffixInv
  BY DEF Init, Sleeping, SuffixInv
<1> DEFINE own == [g \in GroupName |-> [h \in Member(g) |-> PointsOf(Ring(g), h)]]
<1>4. [g \in GroupName |-> Online(g)] = [g \in R!Groups |-> R!Members(g)]
  BY <1>1, RoutingConf
<1>5. \A g \in GroupName : \A h \in Member(g) : PointsOf(Ring(g), h) = VNodes(Conf[g][h])
  BY <1>1, <1>2, GoodPoints DEF RingInv
<1>6. own = Points
  BY <1>5 DEF Points
<1>7. [g \in GroupName |-> [k \in Keys |-> find(Ring(g), k)]] = R!Routes(own)
  BY <1>2, MappingFacts
<1> QED
  BY <1>3, <1>4, <1>6, <1>7 DEF R!Init

\* Failover implements Routing, for every configuration in which a host has one
\* id and weight in all its groups and no CRC-32 point is shared, for any
\* number of workers and whatever nodes delHost steps over: to everyone who
\* looks a key up, hosts leave and return one group at a time, and at each
\* moment the host of a key is the one consistent hashing gives over the points
\* of the online members and what the others have been left.
THEOREM FailoverImplementsRouting ==
    ASSUME SameInfo, DistinctPoints
    PROVE  Spec => ImplementsRouting
<1> DEFINE Inv == TypeOK /\ ControlInv /\ RingInv /\ SuffixInv
<1>1. Init => Inv /\ R!Init
  BY TypeInit, RingInitial, InitRoutes
<1>2. Inv /\ [Next]_vars => Inv'
  BY TypeStep, ControlStep, RingStep, SuffixStep
<1>3. Inv /\ [Next]_vars /\ Inv' => [R!Next]_(R!vars)
  <2> SUFFICES ASSUME Inv, [Next]_vars, TypeOK'
               PROVE  [R!Next]_(R!vars)
    OBVIOUS
  <2>1. CASE SwapTrees
    BY <2>1, SwapRoutes
  <2>2. CASE ~ SwapTrees
    BY <2>2, OnlySwapMoves DEF R!vars
  <2> QED
    BY <2>1, <2>2
<1> HIDE DEF Inv
<1> QED
  BY <1>1, <1>2, <1>3, PTL DEF Spec, ImplementsRouting, R!Spec
=============================================================================

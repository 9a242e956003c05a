------------------------ MODULE ConsistentHashProofs ------------------------
(***************************************************************************)
(* What the ring operations of ConsistentHash guarantee, for every ring,   *)
(* host and key.                                                           *)
(***************************************************************************)
EXTENDS ConsistentHash, TLAPS, WellFoundedInduction

\* Every nonempty set of points has a least element, and Least names it: the
\* node that lower_bound or begin() stops at exists.
LEMMA LeastIsMinimum ==
    ASSUME NEW S \in SUBSET Nat, S # {}
    PROVE  /\ Least(S) \in S
           /\ \A q \in S : Least(S) <= q
<1> DEFINE R == {ss \in Nat \X Nat : ss[1] < ss[2]}
<1>1. IsWellFoundedOn(R, Nat)
  BY NatLessThanWellFounded DEF OpToRel
<1> HIDE DEF R
<1>2. \E p \in S : \A q \in S : ~ (<<q, p>> \in R)
  BY <1>1, WFMin, Zenon
<1>3. \E p \in S : \A q \in S : p <= q
  <2>1. PICK p \in S : \A q \in S : ~ (<<q, p>> \in R)
    BY <1>2
  <2>2. \A q \in S : ~ (q < p)
    BY <2>1 DEF R
  <2> QED
    BY <2>2
<1> QED
  BY <1>3 DEF Least

\* The virtual nodes of a configured host are CRC-32 values.
LEMMA VNodesInNat ==
    ASSUME NEW info \in Info
    PROVE  VNodes(info) \in SUBSET Nat
BY PointAssumption, WeightAssumption DEF VNodes, Info

\* r is ring after the virtual nodes of hosts were written: a new point goes to
\* one of the hosts that have it, every other point keeps its owner.
Written(r, ring, H, hosts) ==
    /\ r = [p \in DOMAIN r |-> r[p]]
    /\ DOMAIN ring \subseteq DOMAIN r
    /\ DOMAIN r \subseteq Nat
    /\ \A a \in H : VNodes(hosts[a]) \subseteq DOMAIN r
    /\ \A p \in DOMAIN r :
          \/ r[p] \in H /\ p \in VNodes(hosts[r[p]])
          \/ /\ p \in DOMAIN ring /\ r[p] = ring[p]
             /\ \A a \in H : p \notin VNodes(hosts[a])

\* This is what createVNodes does, whatever points the hosts share.
LEMMA CreateVNodesOwners ==
    ASSUME NEW ring, IsRing(ring),
           NEW H \in SUBSET Alias, NEW hosts \in [H -> Info]
    PROVE  Written(createVNodes(ring, hosts), ring, H, hosts)
<1> DEFINE r == createVNodes(ring, hosts)
<1> DEFINE new == UNION {VNodes(hosts[a]) : a \in H}
<1>1. DOMAIN hosts = H
  OBVIOUS
<1>2. r = [p \in DOMAIN ring \cup new |->
              IF p \in new THEN LastWriter(hosts, p) ELSE ring[p]]
  BY <1>1 DEF createVNodes
<1>3. new \subseteq Nat
  BY VNodesInNat
<1>4. ASSUME NEW p \in new
      PROVE  LastWriter(hosts, p) \in H /\ p \in VNodes(hosts[LastWriter(hosts, p)])
  <2> DEFINE W == {a \in H : p \in VNodes(hosts[a])}
             ranks == {HostPort[a] : a \in W}
  <2>1. ranks # {} /\ ranks \in SUBSET Nat
    BY <1>4, HostPortAssumption
  <2>2. PICK m \in ranks : \A q \in ranks : m <= q
    BY <2>1, LeastIsMinimum
  <2>3. \E a \in DOMAIN hosts :
           /\ p \in VNodes(hosts[a])
           /\ \A b \in DOMAIN hosts : p \in VNodes(hosts[b]) => HostPort[a] <= HostPort[b]
    BY <1>1, <2>2
  <2> QED
    BY <1>1, <2>3 DEF LastWriter
<1> HIDE DEF new
<1>5. \A a \in H : VNodes(hosts[a]) \subseteq new
  BY DEF new
<1> QED
  BY <1>2, <1>3, <1>4, <1>5 DEF IsRing, Written

\* r is ring with h added: h owns its virtual nodes, every other point keeps
\* its owner.
Added(r, ring, h, info) ==
    /\ IsRing(r)
    /\ DOMAIN r = DOMAIN ring \cup VNodes(info)
    /\ \A p \in VNodes(info) : r[p] = h
    /\ \A p \in DOMAIN ring \ VNodes(info) : r[p] = ring[p]

\* This is what addHost does.
LEMMA AddHostOwners ==
    ASSUME NEW ring, IsRing(ring), NEW h \in Alias, NEW info \in Info
    PROVE  Added(addHost(ring, h, info), ring, h, info)
<1> DEFINE H == {h}
           hosts == [a \in H |-> info]
           r == createVNodes(ring, hosts)
<1>1. H \in SUBSET Alias /\ hosts \in [H -> Info] /\ hosts[h] = info
  OBVIOUS
<1>2. addHost(ring, h, info) = r
  BY DEF addHost
<1>3. \A a : a \in H <=> a = h
  OBVIOUS
<1> HIDE DEF H, hosts
<1>4. Written(r, ring, H, hosts)
  BY <1>1, CreateVNodesOwners
<1> HIDE DEF r
<1> QED
  BY <1>1, <1>2, <1>3, <1>4 DEF IsRing, Written, Added

\* delHost, whatever nodes its loop steps over: what remains is part of the old
\* ring, holds every point of the other hosts, and has lost one of the host's.
LEMMA DelHostOwners ==
    ASSUME NEW ring, IsRing(ring), NEW h, NEW r \in delHost(ring, h)
    PROVE  /\ IsRing(r)
           /\ DOMAIN r \subseteq DOMAIN ring
           /\ \A p \in DOMAIN r : r[p] = ring[p]
           /\ \A p \in DOMAIN ring : ring[p] # h => p \in DOMAIN r
           /\ PointsOf(ring, h) # {} => PointsOf(r, h) # PointsOf(ring, h)
<1>1. PICK s \in SUBSET PointsOf(ring, h) :
          /\ r = Restrict(ring, DOMAIN ring \ s)
          /\ \A p \in PointsOf(ring, h) : (\A q \in PointsOf(ring, h) : p <= q) => p \in s
  BY DEF delHost
<1>2. ASSUME PointsOf(ring, h) # {}
      PROVE  PointsOf(r, h) # PointsOf(ring, h)
  <2>1. PICK p \in PointsOf(ring, h) : \A q \in PointsOf(ring, h) : p <= q
    BY <1>2, LeastIsMinimum DEF PointsOf, IsRing
  <2>2. p \in s /\ p \notin DOMAIN r
    BY <1>1, <2>1 DEF Restrict
  <2> QED
    BY <2>1, <2>2 DEF PointsOf
<1> QED
  BY <1>1, <1>2 DEF PointsOf, Restrict, IsRing

\* find on a ring that is not empty answers the owner of one of its points,
\* the first at or after the key, or the first of all.
LEMMA FindOwner ==
    ASSUME NEW ring, IsRing(ring), NEW k \in Nat, DOMAIN ring # {}
    PROVE  \E p \in DOMAIN ring :
              /\ find(ring, k) = ring[p]
              /\ \/ p >= k /\ \A q \in DOMAIN ring : q >= k => p <= q
                 \/ \A q \in DOMAIN ring : ~ (q >= k) /\ p <= q
<1> DEFINE S == {p \in DOMAIN ring : p >= k}
<1>1. S \in SUBSET Nat /\ DOMAIN ring \in SUBSET Nat
  BY DEF IsRing
<1>2. CASE S = {}
  <2>1. find(ring, k) = ring[Least(DOMAIN ring)]
    BY <1>2 DEF find, lower_bound, begin
  <2> QED
    BY <1>1, <1>2, <2>1, LeastIsMinimum
<1>3. CASE S # {}
  <2>1. Least(S) \in S /\ \A q \in S : Least(S) <= q
    BY <1>1, <1>3, LeastIsMinimum
  <2>2. lower_bound(ring, k) = Least(S)
    BY <1>3 DEF lower_bound
  <2>3. Least(S) # END
    BY <1>1, <2>1 DEF END
  <2>4. find(ring, k) = ring[Least(S)]
    BY <2>2, <2>3 DEF find
  <2> QED
    BY <2>1, <2>4
<1> QED
  BY <1>2, <1>3

\* Consistent hashing, removal: delHost moves only keys that belonged to the
\* removed host.
THEOREM DelHostMovesOnlyItsKeys ==
    ASSUME NEW ring, IsRing(ring), NEW h \in Alias, NEW r \in delHost(ring, h),
           NEW k \in Nat, find(r, k) # find(ring, k)
    PROVE  find(ring, k) = h
<1>1. /\ IsRing(r) /\ DOMAIN r \subseteq DOMAIN ring
      /\ \A p \in DOMAIN r : r[p] = ring[p]
      /\ \A p \in DOMAIN ring : ring[p] # h => p \in DOMAIN r
  BY DelHostOwners
<1>2. CASE DOMAIN ring = {}
  BY <1>1, <1>2 DEF find
<1>3. CASE DOMAIN ring # {}
  <2>1. PICK p \in DOMAIN ring :
              /\ find(ring, k) = ring[p]
              /\ \/ p >= k /\ \A q \in DOMAIN ring : q >= k => p <= q
                 \/ \A q \in DOMAIN ring : ~ (q >= k) /\ p <= q
    BY <1>3, FindOwner
  <2> SUFFICES ASSUME ring[p] # h PROVE FALSE
    BY <2>1
  <2>2. p \in DOMAIN r
    BY <1>1
  <2>3. PICK t \in DOMAIN r :
              /\ find(r, k) = r[t]
              /\ \/ t >= k /\ \A q \in DOMAIN r : q >= k => t <= q
                 \/ \A q \in DOMAIN r : ~ (q >= k) /\ t <= q
    BY <1>1, <2>2, FindOwner
  <2>4. t = p
    BY <1>1, <2>1, <2>2, <2>3 DEF IsRing
  <2> QED
    BY <1>1, <2>1, <2>3, <2>4
<1> QED
  BY <1>2, <1>3

\* Consistent hashing, return: addHost moves keys only to the added host.
THEOREM AddHostTakesKeysOnly ==
    ASSUME NEW ring, IsRing(ring), NEW h \in Alias, NEW info \in Info,
           NEW k \in Nat, find(addHost(ring, h, info), k) # find(ring, k)
    PROVE  find(addHost(ring, h, info), k) = h
<1> DEFINE r == addHost(ring, h, info)
<1>1. /\ IsRing(r)
      /\ DOMAIN r = DOMAIN ring \cup VNodes(info)
      /\ \A p \in VNodes(info) : r[p] = h
      /\ \A p \in DOMAIN ring \ VNodes(info) : r[p] = ring[p]
  BY AddHostOwners DEF Added
<1> HIDE DEF r
<1>2. CASE DOMAIN r = {}
  <2>1. DOMAIN ring = {}
    BY <1>1, <1>2
  <2> QED
    BY <1>2, <2>1 DEF find, r
<1>3. CASE DOMAIN r # {}
  <2>1. PICK p \in DOMAIN r :
              /\ find(r, k) = r[p]
              /\ \/ p >= k /\ \A q \in DOMAIN r : q >= k => p <= q
                 \/ \A q \in DOMAIN r : ~ (q >= k) /\ p <= q
    BY <1>1, <1>3, FindOwner
  <2> SUFFICES ASSUME p \notin VNodes(info) PROVE FALSE
    BY <1>1, <2>1 DEF r
  <2>2. p \in DOMAIN ring /\ r[p] = ring[p]
    BY <1>1
  <2>3. PICK t \in DOMAIN ring :
              /\ find(ring, k) = ring[t]
              /\ \/ t >= k /\ \A q \in DOMAIN ring : q >= k => t <= q
                 \/ \A q \in DOMAIN ring : ~ (q >= k) /\ t <= q
    BY <2>2, FindOwner
  <2>4. t = p
    BY <1>1, <2>1, <2>2, <2>3 DEF IsRing
  <2> QED
    BY <2>1, <2>2, <2>3, <2>4 DEF r
<1> QED
  BY <1>2, <1>3
=============================================================================

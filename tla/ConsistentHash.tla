--------------------------- MODULE ConsistentHash ---------------------------
(***************************************************************************)
(* The consistent-hash ring of src/src/hash.cpp.                           *)
(*                                                                         *)
(* A ring (std::map<uint32_t, pair<string,uint32_t> > _hash) is a function *)
(* from a finite set of points, the CRC-32 values of the virtual nodes, to *)
(* the alias_index of the backend that owns the point.  The "host:port"    *)
(* string stored beside the alias is determined by the alias               *)
(* (KvProxy::setHostAlias) and is left out.                                *)
(*                                                                         *)
(* CRC-32 itself is a parameter: Point[id][i] is crc32("id-i"), and a key  *)
(* is represented by its own CRC-32 value.                                 *)
(***************************************************************************)
EXTENDS Integers, FiniteSets, Functions

CONSTANTS
    Alias,       \* the alias indexes handed out by setHostAlias, from 1 up
    Id,          \* the server ids ("index") of the configuration
    MaxWeight,   \* the largest configured weight
    Point,       \* Point[id][i] = crc32("id-i"), the i-th virtual node of id
    HostPort     \* rank of a host's "host:port" string, from the last one up

ASSUME AliasAssumption == Alias \subseteq Nat \ {0}
ASSUME WeightAssumption == MaxWeight \in Nat
ASSUME PointAssumption == Point \in [Id -> [0 .. (MaxWeight - 1) -> Nat]]
ASSUME HostPortAssumption == HostPort \in [Alias -> Nat]

\* A host's configured (index, weight) pair.
Info == [index : Id, weight : 0 .. MaxWeight]

\* The rings: partial functions from points to aliases.
IsRing(ring) == /\ DOMAIN ring \subseteq Nat
                /\ ring \in [DOMAIN ring -> Alias]

EmptyRing == [p \in {} |-> 0]

\* The points that createVNodes writes for a host configured as info.
VNodes(info) == {Point[info.index][i] : i \in 0 .. (info.weight - 1)}

\* The points that alias h owns in the ring.
PointsOf(ring, h) == {p \in DOMAIN ring : ring[p] = h}

(***************************************************************************)
(* ConsistentHash::createVNodes, as a function of the current ring and of  *)
(* the hosts to add (alias |-> info).  The hosts are walked in the order   *)
(* of their "host:port" strings and a later one overwrites a point that an *)
(* earlier one, or the current ring, already has.                          *)
(***************************************************************************)
LastWriter(hosts, p) ==
    CHOOSE a \in DOMAIN hosts :
        /\ p \in VNodes(hosts[a])
        /\ \A b \in DOMAIN hosts : p \in VNodes(hosts[b]) => HostPort[a] <= HostPort[b]

createVNodes(ring, hosts) ==
    LET new == UNION {VNodes(hosts[a]) : a \in DOMAIN hosts}
    IN  [p \in DOMAIN ring \cup new |->
            IF p \in new THEN LastWriter(hosts, p) ELSE ring[p]]

\* ConsistentHash::addHost: createVNodes with the one host.
addHost(ring, h, info) == createVNodes(ring, [a \in {h} |-> info])

(***************************************************************************)
(* ConsistentHash::delHost: the rings the loop can leave behind.  It       *)
(* erases the node its iterator is at and then increments the erased       *)
(* iterator.  What the increment yields is undefined: with the allocator   *)
(* of this build it follows the stale links of the freed node, so the loop *)
(* may step over later nodes of h.  It never erases another host's node    *)
(* and always erases the first one of h.                                   *)
(***************************************************************************)
delHost_EraseToEnd(ring, h) ==     \* mutant: erase(it, end())
    {Restrict(ring, {p \in DOMAIN ring : \A q \in PointsOf(ring, h) : p < q})}

delHost(ring, h) ==
    LET mine == PointsOf(ring, h)
    IN  {Restrict(ring, DOMAIN ring \ s) :
            s \in {e \in SUBSET mine : \A p \in mine : (\A q \in mine : p <= q) => p \in e}}

(***************************************************************************)
(* ConsistentHash::find, in the steps a concurrent swap of the ring can    *)
(* fall between: lower_bound, the emptiness test, begin() and the          *)
(* dereference.                                                            *)
(***************************************************************************)
END == -1

Least(S) == CHOOSE p \in S : \A q \in S : p <= q

lower_bound(ring, k) ==
    LET S == {p \in DOMAIN ring : p >= k}
    IN  IF S = {} THEN END ELSE Least(S)

begin(ring) == Least(DOMAIN ring)

find(ring, k) ==
    IF DOMAIN ring = {} THEN 0
    ELSE IF lower_bound(ring, k) = END THEN ring[begin(ring)]
         ELSE ring[lower_bound(ring, k)]

=============================================================================

------------------------------ MODULE Routing -------------------------------
(***************************************************************************)
(* What failover does for those who look keys up, without trees, swaps,    *)
(* counters or threads: at every moment each group distributes its keys by *)
(* consistent hashing over the points its members own.  A member that is   *)
(* online owns all of its points.  One that leaves gives up some of them,  *)
(* not always all (ConsistentHash::delHost), and takes all of them back    *)
(* when it returns.  Hosts leave and return one at a time; a host does so  *)
(* in one group after the other, in a fixed order, and does not turn back  *)
(* half-way.                                                               *)
(*                                                                         *)
(* Module Failover implements this specification.                          *)
(***************************************************************************)
EXTENDS Naturals

CONSTANTS
    Rank,    \* group |-> its place in the order in which hosts are moved
    Points,  \* group |-> member |-> the points of the circle it is given
    Keys     \* points of the circle that keys hash to

VARIABLES
    online,  \* group |-> the members that are online in it
    owned,   \* group |-> member |-> the points it owns now
    route    \* group |-> key |-> the host it is sent to, or 0

vars == <<online, owned, route>>

Groups == DOMAIN Rank
Members(g) == DOMAIN Points[g]

\* The first of the points S at or after k, going round the circle.
First(S) == CHOOSE p \in S : \A q \in S : p <= q
Clockwise(S, k) == LET after == {p \in S : p >= k}
                   IN  IF after = {} THEN First(S) ELSE First(after)

\* The host of a key when own gives the points of each member of a group.
Route(own, k) ==
    LET S == UNION {own[h] : h \in DOMAIN own}
    IN  IF S = {} THEN 0 ELSE CHOOSE h \in DOMAIN own : Clockwise(S, k) \in own[h]

Routes(own) == [g \in Groups |-> [k \in Keys |-> Route(own[g], k)]]

\* Host h is online in those of its groups that are in G, and in no other.
OnlineIn(h, G) == \A g \in Groups : h \in Members(g) => (h \in online[g] <=> g \in G)

\* Every host but h is online in all of its groups or in none.
OthersSettled(h) ==
    \A g \in Groups : \A a \in Members(g) \ {h} : OnlineIn(a, Groups) \/ OnlineIn(a, {})

Init ==
    /\ online = [g \in Groups |-> Members(g)]
    /\ owned = Points
    /\ route = Routes(owned)

\* A host with any points at all loses at least one.
Leave(g, h) ==
    /\ OnlineIn(h, {f \in Groups : Rank[f] >= Rank[g]})
    /\ OthersSettled(h)
    /\ online' = [online EXCEPT ![g] = @ \ {h}]
    /\ \E kept \in SUBSET Points[g][h] :
          /\ kept = Points[g][h] => kept = {}
          /\ owned' = [owned EXCEPT ![g][h] = kept]
    /\ route' = Routes(owned')

Return(g, h) ==
    /\ OnlineIn(h, {f \in Groups : Rank[f] < Rank[g]})
    /\ OthersSettled(h)
    /\ online' = [online EXCEPT ![g] = @ \cup {h}]
    /\ owned' = [owned EXCEPT ![g][h] = Points[g][h]]
    /\ route' = Routes(owned')

\* Every step moves a host.
Next ==
    /\ online' # online
    /\ \E g \in Groups : \E h \in Members(g) : Leave(g, h) \/ Return(g, h)

Spec == Init /\ [][Next]_vars
=============================================================================

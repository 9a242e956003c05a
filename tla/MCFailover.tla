----------------------------- MODULE MCFailover -----------------------------
(* Instances of Failover for TLC.  The points of different hosts interleave, *)
(* so that keys fall before, between and after them and wrap around.         *)
EXTENDS Failover

MCPoint == [id \in Id |-> [i \in 0 .. (MaxWeight - 1) |-> 10 * i + id]]
MCHostPort == [a \in Alias |-> 10 - a]

Conf1(i) == [index |-> i, weight |-> 1]
Conf2(i) == [index |-> i, weight |-> 2]
NoHosts == [h \in {} |-> Conf1(1)]

\* hosts and hosts_read name the same group; host 1 also backs it up.
ConfShared == [g \in GroupName |->
    [h \in (IF g = "hosts_backup" THEN {1} ELSE {1, 2}) |->
        IF h = 2 THEN Conf2(h) ELSE Conf1(h)]]

\* A single host that is its own backup, so that a worker and asyncReqThread
\* count its failures.
ConfOne == [g \in GroupName |->
    IF g = "hosts_read" THEN NoHosts ELSE [h \in {1} |-> Conf1(1)]]
=============================================================================

----------------------------- MODULE MCConnPool -----------------------------
(* Instances of ConnPool for TLC.                                            *)
EXTENDS ConnPool, TLC

\* Each backend on a machine of its own.
OwnIps == [b \in Backends |-> b]
\* All backends on one machine.
OneIp == [b \in Backends |-> 1]

\* One thread makes a single request, the others two.
Requests == LET one == CHOOSE t \in Threads : TRUE
            IN  [t \in Threads |-> IF t = one /\ Threads # {t} THEN 1 ELSE 2]
=============================================================================

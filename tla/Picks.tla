------------------------------- MODULE Picks --------------------------------
(* Choosing some elements of a sequence and keeping their order.             *)
EXTENDS Naturals, Sequences

\* The ways to choose from a sequence of length n: f[i] is the place of the
\* i-th element chosen.
Picks(n) == UNION {{f \in [1 .. m -> 1 .. n] : \A i, j \in 1 .. m : i < j => f[i] < f[j]}
                   : m \in 0 .. n}

\* What f chooses from s.
Picked(s, f) == [i \in DOMAIN f |-> s[f[i]]]
=============================================================================

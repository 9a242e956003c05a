---------------------------- MODULE Replication -----------------------------
(***************************************************************************)
(* What asynchronous replication promises, without threads, locks, queues  *)
(* or buffers: writes go to the backups through one channel that may lose  *)
(* them but neither repeats nor reorders them.                             *)
(*                                                                         *)
(* Module AsyncReq implements this specification.                          *)
(***************************************************************************)
EXTENDS Naturals, Sequences, Picks

CONSTANTS
    Write,    \* the writes
    Backups   \* the backup hosts

VARIABLES
    chan,     \* the writes under way, oldest first
    received  \* host |-> the writes it has received, in order

vars == <<chan, received>>

Init ==
    /\ chan = << >>
    /\ received = [h \in Backups |-> << >>]

Enqueue ==
    /\ chan' # << >>
    /\ LET a == chan'[Len(chan')]
       IN  a \in Write /\ chan' = Append(chan, a)
    /\ UNCHANGED received

\* The n oldest writes leave the channel.  A host gets all, none or some of
\* them, in their order.
Deliver(h, n, f) ==
    /\ received' = [received EXCEPT ![h] = @ \o Picked(chan, f)]
    /\ chan' = SubSeq(chan, n + 1, Len(chan))

Next ==
    \/ Enqueue
    \/ \E h \in Backups, n \in 1 .. Len(chan) : \E f \in Picks(n) : Deliver(h, n, f)

Spec == Init /\ [][Next]_vars
=============================================================================

----------------------------- MODULE MCAsyncReq -----------------------------
(* Instances of AsyncReq for TLC: all keys on one backup host, or each on    *)
(* one of its own.                                                           *)
EXTENDS AsyncReq, TLC

OneOwner == [k \in Keys |-> CHOOSE h \in Backups : TRUE]
TwoOwners == CHOOSE f \in [Keys -> Backups] :
                \A k, l \in Keys \ SyncKeys : k # l => f[k] # f[l]

\* One worker makes two writes and the others one each.
Writes == LET first == CHOOSE w \in Workers : TRUE
          IN  [w \in Workers |-> IF w = first THEN 2 ELSE 1]
=============================================================================

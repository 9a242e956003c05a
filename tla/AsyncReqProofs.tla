--------------------------- MODULE AsyncReqProofs ---------------------------
(***************************************************************************)
(* The replication queue for any number of workers, keys and backups: its  *)
(* types and locking, its bound, and the order in which backups receive    *)
(* the writes.                                                             *)
(***************************************************************************)
EXTENDS AsyncReq, FiniteSetTheorems, SequenceTheorems, TLAPS

-----------------------------------------------------------------------------
(* Types                                                                   *)

\* What is picked from a sequence of writes is one.
LEMMA PickedType ==
    ASSUME NEW c \in Seq(Write), NEW f \in Picks(Len(c))
    PROVE  /\ Picked(c, f) \in Seq(Write)
           /\ \A x \in 1 .. Len(Picked(c, f)) : /\ f[x] \in 1 .. Len(c)
                                                /\ Picked(c, f)[x] = c[f[x]]
           /\ \A x, y \in 1 .. Len(Picked(c, f)) : x < y => f[x] < f[y]
<1>1. PICK n \in Nat : n = Len(c)
  BY LenProperties
<1>2. PICK m \in 0 .. n : /\ f \in [1 .. m -> 1 .. n]
                          /\ \A i, j \in 1 .. m : i < j => f[i] < f[j]
  BY <1>1 DEF Picks
<1>3. m \in Nat /\ DOMAIN f = 1 .. m
  BY <1>1, <1>2
<1>4. \A x \in 1 .. m : f[x] \in 1 .. Len(c) /\ c[f[x]] \in Write
  BY <1>1, <1>2, ElementOfSeq
<1>5. PICK g : g = Picked(c, f) /\ g = [i \in 1 .. m |-> c[f[i]]]
  BY <1>3 DEF Picked
<1>6. g \in Seq(Write) /\ Len(g) = m
  BY <1>3, <1>4, <1>5, IsASeq, LenProperties
<1> QED
  BY <1>2, <1>4, <1>5, <1>6

\* What Talk delivers and what it leaves are writes.
LEMMA TalkType ==
    ASSUME NEW buf \in Seq(Write), NEW t \in Talk(buf)
    PROVE  t.got \in Seq(Write) /\ t.left \in Seq(Write)
<1>1. << >> \in Seq(Write)
  BY EmptySeq
<1>2. CASE t = [got |-> buf, left |-> << >>]
  BY <1>1, <1>2
<1>3. CASE t = [got |-> << >>, left |-> buf]
  BY <1>1, <1>3
<1>4. ASSUME NEW f \in Picks(Len(buf)), t = [got |-> Picked(buf, f), left |-> << >>]
      PROVE  t.got \in Seq(Write) /\ t.left \in Seq(Write)
  BY <1>1, <1>4, PickedType
<1> QED
  BY <1>2, <1>3, <1>4 DEF Talk

\* The write in hand is a write.
LEMMA CurrentType ==
    ASSUME TypeOK, NEW w \in Workers
    PROVE  Current(w) \in Write
BY DEF TypeOK, Current, Write

\* What TalkMaster does to the worker and the master.
MasterEffect(w, pc, k, got, left) ==
    /\ pc = (IF k \in SyncKeys THEN "sync" ELSE "check")
    /\ master' = master \o got
    /\ worker' = [worker EXCEPT ![w] =
          [pc |-> pc, n |-> worker[w].n + 1, key |-> k, buf |-> left]]

\* TalkMaster has that effect.
LEMMA TalkMasterEffect ==
    ASSUME TypeOK, NEW w \in Workers, TalkMaster(w)
    PROVE  \E pc \in {"sync", "check"}, k \in Keys, got \in Seq(Write), left \in Seq(Write) :
              MasterEffect(w, pc, k, got, left)
<1> DEFINE new(k) == [w |-> w, n |-> worker[w].n + 1, key |-> k]
<1>1. PICK k \in Keys : \E t \in Talk(Append(worker[w].buf, new(k))) :
        /\ master' = master \o t.got
        /\ worker' = [worker EXCEPT ![w] =
               [pc |-> IF k \in SyncKeys THEN "sync" ELSE "check",
                n |-> new(k).n, key |-> k, buf |-> t.left]]
  BY Zenon DEF TalkMaster
<1>2. PICK a : a = new(k)
  OBVIOUS
<1>3. PICK t \in Talk(Append(worker[w].buf, a)) :
        /\ master' = master \o t.got
        /\ worker' = [worker EXCEPT ![w] =
               [pc |-> IF k \in SyncKeys THEN "sync" ELSE "check",
                n |-> a.n, key |-> k, buf |-> t.left]]
  BY <1>1, <1>2
<1>4. a \in Write /\ a.n = worker[w].n + 1 /\ worker[w].buf \in Seq(Write)
  <2>1. worker[w].n + 1 \in Nat /\ worker[w].buf \in Seq(Write)
    BY DEF TypeOK
  <2>2. a \in Write /\ a.n = worker[w].n + 1
    BY <1>2, <2>1 DEF Write
  <2> QED
    BY <2>1, <2>2
<1>5. Append(worker[w].buf, a) \in Seq(Write)
  BY <1>4, AppendProperties
<1>6. t.got \in Seq(Write) /\ t.left \in Seq(Write)
  BY <1>3, <1>5, TalkType
<1>7. PICK pc \in {"sync", "check"} : pc = IF k \in SyncKeys THEN "sync" ELSE "check"
  OBVIOUS
<1>8. worker' = [worker EXCEPT ![w] =
                   [pc |-> pc, n |-> worker[w].n + 1, key |-> k, buf |-> t.left]]
  BY <1>3, <1>4, <1>7
<1>9. MasterEffect(w, pc, k, t.got, t.left)
  BY <1>3, <1>7, <1>8 DEF MasterEffect
<1> QED
  BY <1>6, <1>9

\* The initial state has the types.
LEMMA TypeInit ==
    ASSUME Init
    PROVE  TypeOK
<1>1. << >> \in Seq(Write)
  BY EmptySeq
<1>2. worker \in [Workers -> [pc : WorkerPC, n : Nat, key : Keys, buf : Seq(Write)]]
  BY <1>1 DEF Init, WorkerPC
<1>3. \A w \in Workers : worker[w].pc = "push" <=> lock = w
  BY WorkersAssumption DEF Init, NOBODY
<1>4. backup \in [Backups -> Seq(Write)] /\ handed \in [Backups -> Seq(Write)]
  BY <1>1 DEF Init
<1> QED
  BY <1>1, <1>2, <1>3, <1>4 DEF Init, TypeOK, AsyncPC, NOBODY, ASYNC

\* The workers keep the types.
LEMMA WorkerTypeStep ==
    ASSUME TypeOK, NEW w \in Workers, Worker(w)
    PROVE  TypeOK'
<1> USE DEF TypeOK
<1>1. CASE TalkMaster(w)
  <2>1. PICK pc \in {"sync", "check"}, k \in Keys, got \in Seq(Write), left \in Seq(Write) :
          MasterEffect(w, pc, k, got, left)
    BY <1>1, TalkMasterEffect
  <2>2. master' \in Seq(Write)
    BY <2>1, ConcatProperties DEF MasterEffect
  <2>3. worker' \in [Workers -> [pc : WorkerPC, n : Nat, key : Keys, buf : Seq(Write)]]
    BY <2>1 DEF WorkerPC, MasterEffect
  <2>4. \A v \in Workers : worker'[v].pc = "push" <=> lock' = v
    BY <1>1, <2>1 DEF TalkMaster, MasterEffect
  <2> QED
    BY <1>1, <2>2, <2>3, <2>4 DEF TalkMaster, queues, hosts
<1>2. CASE TalkRead(w)
  <2>1. PICK t \in Talk(worker[w].buf) :
          /\ master' = master \o t.got
          /\ worker' = [worker EXCEPT ![w].buf = t.left]
    BY <1>2 DEF TalkRead
  <2>2. t.got \in Seq(Write) /\ t.left \in Seq(Write)
    BY <2>1, TalkType
  <2>3. master' \in Seq(Write)
    BY <2>1, <2>2, ConcatProperties
  <2> QED
    BY <1>2, <2>1, <2>2, <2>3 DEF TalkRead, queues, hosts
<1>3. CASE CheckSize(w)
  <2>3. PICK size \in SizeSeen :
          /\ worker' = [worker EXCEPT ![w].pc = IF size < async_size THEN "build" ELSE "idle"]
          /\ torn' = (torn \/ size # Len(async_req))
    BY <1>3 DEF CheckSize, Goto
  <2>1. PICK pc \in {"build", "idle"} :
          worker' = [worker EXCEPT ![w].pc = pc] /\ torn' = (torn \/ size # Len(async_req))
    BY <2>3
  <2>2. torn' \in BOOLEAN
    BY <2>1, Zenon
  <2> QED
    BY <1>3, <2>1, <2>2 DEF CheckSize, queues, hosts, WorkerPC
<1>4. CASE LockPush(w)
  BY <1>4, WorkersAssumption DEF LockPush, Goto, queues, hosts, WorkerPC, NOBODY, ASYNC
<1>5. CASE Push(w)
  <2>1. async_req' \in Seq(Write)
    BY <1>5, CurrentType, AppendProperties DEF Push
  <2>2. lock = w /\ lock' = NOBODY
    BY <1>5 DEF Push
  <2> QED
    BY <1>5, <2>1, <2>2, WorkersAssumption DEF Push, Goto, hosts, WorkerPC, NOBODY, ASYNC
<1>6. CASE TalkSync(w)
  <2>1. PICK t \in Talk(Append(worker[w].buf, Current(w))) :
          /\ backup' = [backup EXCEPT ![Owner[worker[w].key]] = @ \o t.got]
          /\ worker' = [worker EXCEPT ![w].pc = "idle", ![w].buf = t.left]
    BY <1>6 DEF TalkSync
  <2>2. Append(worker[w].buf, Current(w)) \in Seq(Write)
    BY CurrentType, AppendProperties
  <2>3. t.got \in Seq(Write) /\ t.left \in Seq(Write)
    BY <2>1, <2>2, TalkType
  <2>4. PICK h \in Backups : h = Owner[worker[w].key]
    BY OwnerAssumption
  <2>5. backup[h] \o t.got \in Seq(Write)
    BY <2>3, ConcatProperties
  <2>6. backup' \in [Backups -> Seq(Write)]
    BY <2>1, <2>4, <2>5
  <2>7. worker' \in [Workers -> [pc : WorkerPC, n : Nat, key : Keys, buf : Seq(Write)]]
    BY <2>1, <2>3 DEF WorkerPC
  <2>8. \A v \in Workers : worker'[v].pc = "push" <=> lock' = v
    BY <1>6, <2>1 DEF TalkSync
  <2> QED
    BY <1>6, <2>6, <2>7, <2>8 DEF TalkSync, queues
<1> QED
  BY <1>1, <1>2, <1>3, <1>4, <1>5, <1>6 DEF Worker

\* So does asyncReqThread.
LEMMA AsyncTypeStep ==
    ASSUME TypeOK, asyncReqThread
    PROVE  TypeOK'
<1> USE DEF TypeOK
<1>1. CASE Poll
  BY <1>1 DEF Poll, queues, hosts, AsyncPC
<1>2. CASE PollEmpty
  BY <1>2 DEF PollEmpty, vars
<1>3. CASE LockSwap
  BY <1>3, WorkersAssumption DEF LockSwap, queues, hosts, AsyncPC, NOBODY, ASYNC
<1>4. CASE Swap
  BY <1>4, WorkersAssumption DEF Swap, hosts, AsyncPC, NOBODY, ASYNC
<1>5. CASE talkToBackendAsync
  <2>1. PICK a, t : /\ a = Head(async_req_tmp)
                    /\ t \in Talk(Append(backend_buf, a))
                    /\ backup' = [backup EXCEPT ![Owner[a.key]] = @ \o t.got]
                    /\ handed' = [handed EXCEPT ![Owner[a.key]] = @ \o t.got]
                    /\ backend_buf' = t.left
    BY <1>5 DEF talkToBackendAsync
  <2>2. a \in Write /\ Tail(async_req_tmp) \in Seq(Write)
    BY <1>5, <2>1, HeadTailProperties DEF talkToBackendAsync
  <2>3. Append(backend_buf, a) \in Seq(Write)
    BY <2>2, AppendProperties
  <2>4. t.got \in Seq(Write) /\ t.left \in Seq(Write)
    BY <2>1, <2>3, TalkType
  <2>5. PICK h \in Backups : h = Owner[a.key]
    BY <2>2, OwnerAssumption DEF Write
  <2>6. backup[h] \o t.got \in Seq(Write) /\ handed[h] \o t.got \in Seq(Write)
    BY <2>4, ConcatProperties
  <2>7. backup' \in [Backups -> Seq(Write)] /\ handed' \in [Backups -> Seq(Write)]
    BY <2>1, <2>5, <2>6
  <2>8. apc' \in {"drain", "stuck"}
    BY <1>5 DEF talkToBackendAsync
  <2> QED
    BY <1>5, <2>1, <2>2, <2>4, <2>7, <2>8, SMTT(30) DEF talkToBackendAsync, AsyncPC
<1>6. CASE Drained
  BY <1>6 DEF Drained, queues, hosts, AsyncPC
<1>7. CASE Stuck
  BY <1>7 DEF Stuck, vars
<1> QED
  BY <1>1, <1>2, <1>3, <1>4, <1>5, <1>6, <1>7 DEF asyncReqThread

\* Every step keeps the types.
LEMMA TypeStep ==
    ASSUME TypeOK, [Next]_vars
    PROVE  TypeOK'
<1>1. CASE UNCHANGED vars
  BY <1>1 DEF vars, TypeOK
<1> QED
  BY <1>1, WorkerTypeStep, AsyncTypeStep DEF Next

\* The queue is only ever changed by the holder of async_req_lock, and
\* asyncReqThread never swaps a local queue that still holds writes back.
THEOREM TypeCorrect == Spec => []TypeOK
<1>1. Init => TypeOK
  BY TypeInit
<1>2. TypeOK /\ [Next]_vars => TypeOK'
  BY TypeStep
<1> QED
  BY <1>1, <1>2, PTL DEF Spec

-----------------------------------------------------------------------------
(* The bound of the queue                                                  *)

\* The workers that have passed the length test and not yet pushed.
Pending == {w \in Workers : worker[w].pc \in {"build", "push"}}

\* QueueBounded is not inductive: it has to count the pushes to come.
BoundInv ==
    ~ torn =>
        Len(async_req) + Cardinality(Pending) <= async_size + Cardinality(Workers) - 1

\* Counting pending workers.
LEMMA PendingFinite ==
    /\ IsFiniteSet(Pending) /\ Cardinality(Pending) \in Nat
    /\ Cardinality(Workers) \in Nat /\ Cardinality(Pending) <= Cardinality(Workers)
<1>1. Pending \in SUBSET Workers
  BY DEF Pending
<1>2. IsFiniteSet(Pending) /\ Cardinality(Pending) <= Cardinality(Workers)
  BY <1>1, WorkersAssumption, FS_Subset
<1> QED
  BY <1>2, WorkersAssumption, FS_CardinalityType

\* Nothing the bound depends on grows.
LEMMA BoundStay ==
    ASSUME BoundInv, UNCHANGED async_req, torn' \/ torn' = torn, Pending' = Pending
    PROVE  BoundInv'
BY DEF BoundInv

\* Every step keeps the bound.
LEMMA BoundStep ==
    ASSUME TypeOK, BoundInv, [Next]_vars
    PROVE  BoundInv'
<1> USE DEF TypeOK
<1>1. ASSUME NEW w \in Workers, CheckSize(w) PROVE BoundInv'
  <2>1. Pending' \in SUBSET Workers /\ async_req' = async_req
    BY <1>1 DEF Pending, CheckSize, queues
  <2>2. Cardinality(Pending') <= Cardinality(Workers) /\ Cardinality(Pending') \in Nat
    BY <2>1, WorkersAssumption, FS_Subset, FS_CardinalityType
  <2>3. CASE Len(async_req) < async_size
    <3>1. Len(async_req) \in Nat
      BY LenProperties
    <3> QED
      BY <2>1, <2>2, <2>3, <3>1, PendingFinite, SizeAssumption DEF BoundInv
  <2>4. CASE ~ (Len(async_req) < async_size) /\ ~ torn'
    <3>1. worker' = [worker EXCEPT ![w].pc = "idle"] /\ ~ torn
      BY <1>1, <2>4 DEF CheckSize, Goto
    <3>2. Pending' = Pending
      BY <1>1, <3>1 DEF Pending, CheckSize
    <3> QED
      BY <2>1, <3>1, <3>2 DEF BoundInv
  <2>5. CASE torn'
    BY <2>5 DEF BoundInv
  <2> QED
    BY <2>3, <2>4, <2>5
<1>2. ASSUME NEW w \in Workers, Push(w) PROVE BoundInv'
  <2>1. w \in Pending /\ Pending' = Pending \ {w}
    BY <1>2 DEF Pending, Push, Goto
  <2>2. Cardinality(Pending') = Cardinality(Pending) - 1
    BY <2>1, PendingFinite, FS_RemoveElement
  <2>3. Len(async_req') = Len(async_req) + 1 /\ Len(async_req) \in Nat
    BY <1>2, CurrentType, AppendProperties, LenProperties DEF Push
  <2>4. torn' = torn
    BY <1>2 DEF Push
  <2> QED
    BY <2>2, <2>3, <2>4, PendingFinite, SizeAssumption DEF BoundInv
<1>3. CASE Swap
  <2>1. async_req' = << >> /\ Pending' = Pending
    BY <1>3 DEF Swap, Pending
  <2>2. Len(async_req') = 0
    BY <2>1, EmptySeq
  <2> QED
    BY <2>1, <2>2, PendingFinite, SizeAssumption DEF BoundInv
<1>4. ASSUME NEW w \in Workers, TalkMaster(w) \/ TalkRead(w) \/ LockPush(w) \/ TalkSync(w)
      PROVE  BoundInv'
  <2>1. async_req' = async_req /\ torn' = torn
    BY <1>4 DEF TalkMaster, TalkRead, LockPush, TalkSync, queues
  <2>2. CASE TalkMaster(w)
    <3>1. PICK pc \in {"sync", "check"}, k \in Keys, got \in Seq(Write), left \in Seq(Write) :
            MasterEffect(w, pc, k, got, left)
      BY <2>2, TalkMasterEffect
    <3>2. worker[w].pc = "idle"
      BY <2>2 DEF TalkMaster
    <3> QED
      BY <2>1, <3>1, <3>2, BoundStay DEF Pending, MasterEffect
  <2>3. CASE TalkRead(w)
    <3>1. \E b : worker' = [worker EXCEPT ![w].buf = b]
      BY <2>3 DEF TalkRead
    <3> QED
      BY <2>1, <3>1, BoundStay DEF Pending
  <2>4. CASE LockPush(w)
    BY <2>1, <2>4, BoundStay DEF Pending, LockPush, Goto
  <2>5. CASE TalkSync(w)
    <3>1. \E b : worker' = [worker EXCEPT ![w].pc = "idle", ![w].buf = b]
      BY <2>5 DEF TalkSync
    <3>2. worker[w].pc = "sync"
      BY <2>5 DEF TalkSync
    <3> QED
      BY <2>1, <3>1, <3>2, BoundStay DEF Pending
  <2> QED
    BY <1>4, <2>2, <2>3, <2>4, <2>5, SMTT(30)
<1>5. CASE UNCHANGED <<async_req, worker, torn>>
  BY <1>5, BoundStay, SMTT(30) DEF Pending
<1>6. \/ \E w \in Workers : CheckSize(w) \/ Push(w)
      \/ \E w \in Workers : TalkMaster(w) \/ TalkRead(w) \/ LockPush(w) \/ TalkSync(w)
      \/ Swap
      \/ UNCHANGED <<async_req, worker, torn>>
  BY DEF Next, Worker, asyncReqThread, Poll, PollEmpty, LockSwap, talkToBackendAsync,
         Drained, Stuck, queues, vars
<1> QED
  BY <1>1, <1>2, <1>3, <1>4, <1>5, <1>6

\* Whatever the number of workers, the unlocked test of readEvent lets the
\* queue exceed async_size by at most one entry per other worker, until a worker
\* acts on a torn size().
THEOREM QueueBound == Spec => []QueueBounded
<1>1. Init => TypeOK /\ BoundInv
  <2> SUFFICES ASSUME Init PROVE BoundInv
    BY TypeInit
  <2>1. Pending = {} /\ Len(async_req) = 0
    BY EmptySeq DEF Init, Pending
  <2>2. Cardinality(Pending) = 0 /\ Cardinality(Workers) \in Nat
    BY <2>1, FS_EmptySet, PendingFinite
  <2>3. Cardinality(Workers) # 0
    BY WorkersAssumption, FS_EmptySet
  <2> QED
    BY <2>1, <2>2, <2>3, SizeAssumption DEF BoundInv
<1>2. TypeOK /\ BoundInv /\ [Next]_vars => (TypeOK /\ BoundInv)'
  BY TypeStep, BoundStep
<1>3. TypeOK /\ BoundInv => QueueBounded
  <2> SUFFICES ASSUME TypeOK, BoundInv PROVE QueueBounded
    OBVIOUS
  <2>1. Len(async_req) \in Nat
    BY LenProperties DEF TypeOK
  <2> QED
    BY <2>1, PendingFinite, SizeAssumption DEF BoundInv, QueueBounded
<1> QED
  BY <1>1, <1>2, <1>3, PTL DEF Spec

-----------------------------------------------------------------------------
(* The order of the writes on their way to a backup                        *)

\* Every write of s comes before every write of t.
AllBefore(s, t) == \A i \in 1 .. Len(s), j \in 1 .. Len(t) : Before(s[i], t[j])
AllBeforeOne(s, e) == \A i \in 1 .. Len(s) : Before(s[i], e)

\* What a backup has received, backend_buf, the local queue and the queue are
\* each in order, and in this order.
Chain(b, c, t, q) ==
    /\ Ordered(b) /\ Ordered(c) /\ Ordered(t) /\ Ordered(q)
    /\ AllBefore(b, c) /\ AllBefore(b, t) /\ AllBefore(b, q)
    /\ AllBefore(c, t) /\ AllBefore(c, q) /\ AllBefore(t, q)

\* g is made of elements of c, in their order.
Part(g, c) ==
    \E f : /\ \A x \in 1 .. Len(g) : f[x] \in 1 .. Len(c) /\ g[x] = c[f[x]]
           /\ \A x, y \in 1 .. Len(g) : x < y => f[x] < f[y]

\* A write appended after everything.
LEMMA AppendOrder ==
    ASSUME NEW s \in Seq(Write), NEW e \in Write
    PROVE  /\ Ordered(s) /\ AllBeforeOne(s, e) => Ordered(Append(s, e))
           /\ \A t \in Seq(Write) :
                 /\ AllBefore(t, s) /\ AllBeforeOne(t, e) => AllBefore(t, Append(s, e))
                 /\ AllBefore(s, t) /\ (\A j \in 1 .. Len(t) : Before(e, t[j]))
                       => AllBefore(Append(s, e), t)
<1>1. PICK u : u = Append(s, e)
  OBVIOUS
<1>2. /\ Len(u) = Len(s) + 1 /\ Len(s) \in Nat
      /\ \A i \in 1 .. Len(s) : u[i] = s[i]
      /\ u[Len(s) + 1] = e
  BY <1>1, AppendProperties, LenProperties
<1>3. \A i \in 1 .. Len(u) : i \in 1 .. Len(s) \/ i = Len(s) + 1
  BY <1>2
<1>4. ASSUME Ordered(s), AllBeforeOne(s, e) PROVE Ordered(u)
  <2> SUFFICES ASSUME NEW i \in 1 .. Len(u), NEW j \in 1 .. Len(u), i < j
               PROVE  Before(u[i], u[j])
    BY DEF Ordered
  <2>1. i \in 1 .. Len(s) /\ u[i] = s[i]
    BY <1>2
  <2>2. CASE j = Len(s) + 1
    BY <1>2, <1>4, <2>1, <2>2 DEF AllBeforeOne
  <2>3. CASE j \in 1 .. Len(s)
    BY <1>2, <1>4, <2>1, <2>3 DEF Ordered
  <2> QED
    BY <1>3, <2>2, <2>3
<1>5. ASSUME NEW t \in Seq(Write), AllBefore(t, s), AllBeforeOne(t, e) PROVE AllBefore(t, u)
  BY <1>2, <1>3, <1>5 DEF AllBefore, AllBeforeOne
<1>6. ASSUME NEW t \in Seq(Write), AllBefore(s, t), \A j \in 1 .. Len(t) : Before(e, t[j])
      PROVE  AllBefore(u, t)
  BY <1>2, <1>3, <1>6 DEF AllBefore
<1> QED
  BY <1>1, <1>4, <1>5, <1>6

\* The first write taken off.
LEMMA TailOrder ==
    ASSUME NEW s \in Seq(Write), s # << >>
    PROVE  /\ Ordered(s) => /\ Ordered(Tail(s))
                            /\ \A j \in 1 .. Len(Tail(s)) : Before(Head(s), Tail(s)[j])
           /\ \A t \in Seq(Write) :
                 /\ AllBefore(s, t) => /\ AllBefore(Tail(s), t)
                                       /\ \A j \in 1 .. Len(t) : Before(Head(s), t[j])
                 /\ AllBefore(t, s) => AllBefore(t, Tail(s)) /\ AllBeforeOne(t, Head(s))
<1>1. PICK u, e : u = Tail(s) /\ e = Head(s)
  OBVIOUS
<1>2. /\ Len(u) = Len(s) - 1 /\ Len(s) \in Nat /\ Len(s) # 0 /\ e = s[1]
      /\ \A i \in 1 .. Len(u) : u[i] = s[i + 1]
  BY <1>1, HeadTailProperties, LenProperties, EmptySeq
<1>3. \A i \in 1 .. Len(u) : i + 1 \in 1 .. Len(s)
  BY <1>2
<1>4. 1 \in 1 .. Len(s)
  BY <1>2
<1>5. ASSUME Ordered(s) PROVE Ordered(u) /\ \A j \in 1 .. Len(u) : Before(e, u[j])
  <2>1. ASSUME NEW i \in 1 .. Len(u), NEW j \in 1 .. Len(u), i < j PROVE Before(u[i], u[j])
    BY <1>2, <1>3, <1>5, <2>1 DEF Ordered
  <2>2. ASSUME NEW j \in 1 .. Len(u) PROVE Before(e, u[j])
    BY <1>2, <1>3, <1>4, <1>5 DEF Ordered
  <2> QED
    BY <2>1, <2>2 DEF Ordered
<1>6. ASSUME NEW t \in Seq(Write), AllBefore(s, t)
      PROVE  AllBefore(u, t) /\ \A j \in 1 .. Len(t) : Before(e, t[j])
  BY <1>2, <1>3, <1>4, <1>6 DEF AllBefore
<1>7. ASSUME NEW t \in Seq(Write), AllBefore(t, s)
      PROVE  AllBefore(t, u) /\ AllBeforeOne(t, e)
  BY <1>2, <1>3, <1>4, <1>7 DEF AllBefore, AllBeforeOne
<1> QED
  BY <1>1, <1>5, <1>6, <1>7

\* The empty sequence is in order with everything.
LEMMA EmptyOrder ==
    ASSUME NEW t \in Seq(Write)
    PROVE  Ordered(<< >>) /\ AllBefore(<< >>, t) /\ AllBefore(t, << >>)
<1>1. Len(<< >>) = 0
  BY EmptySeq
<1> QED
  BY <1>1 DEF Ordered, AllBefore

\* A part of an ordered sequence.
LEMMA PartOrder ==
    ASSUME NEW g \in Seq(Write), NEW c \in Seq(Write), Part(g, c)
    PROVE  /\ Ordered(c) => Ordered(g)
           /\ \A t \in Seq(Write) : /\ AllBefore(c, t) => AllBefore(g, t)
                                    /\ AllBefore(t, c) => AllBefore(t, g)
<1>1. PICK f : /\ \A x \in 1 .. Len(g) : f[x] \in 1 .. Len(c) /\ g[x] = c[f[x]]
               /\ \A x, y \in 1 .. Len(g) : x < y => f[x] < f[y]
  BY DEF Part
<1>3. ASSUME Ordered(c) PROVE Ordered(g)
  <2> SUFFICES ASSUME NEW i \in 1 .. Len(g), NEW j \in 1 .. Len(g), i < j
               PROVE  Before(g[i], g[j])
    BY DEF Ordered
  <2> QED
    BY <1>1, <1>3 DEF Ordered
<1>4. ASSUME NEW t \in Seq(Write), AllBefore(c, t) PROVE AllBefore(g, t)
  BY <1>1, <1>4 DEF AllBefore
<1>5. ASSUME NEW t \in Seq(Write), AllBefore(t, c) PROVE AllBefore(t, g)
  BY <1>1, <1>5 DEF AllBefore
<1> QED
  BY <1>3, <1>4, <1>5

\* One sequence after another.
LEMMA ConcatOrder ==
    ASSUME NEW s \in Seq(Write), NEW g \in Seq(Write)
    PROVE  /\ Ordered(s) /\ Ordered(g) /\ AllBefore(s, g) => Ordered(s \o g)
           /\ \A t \in Seq(Write) : AllBefore(s, t) /\ AllBefore(g, t) => AllBefore(s \o g, t)
<1>1. PICK u : u = s \o g
  OBVIOUS
<1>2. /\ Len(s) \in Nat /\ Len(g) \in Nat /\ Len(u) = Len(s) + Len(g)
      /\ \A i \in 1 .. Len(s) + Len(g) : u[i] = IF i <= Len(s) THEN s[i] ELSE g[i - Len(s)]
  BY <1>1, ConcatProperties, LenProperties
<1>3. ASSUME NEW i \in 1 .. Len(u)
      PROVE  \/ i \in 1 .. Len(s) /\ u[i] = s[i]
             \/ i > Len(s) /\ i - Len(s) \in 1 .. Len(g) /\ u[i] = g[i - Len(s)]
  BY <1>2
<1>4. ASSUME Ordered(s), Ordered(g), AllBefore(s, g) PROVE Ordered(u)
  <2> SUFFICES ASSUME NEW i \in 1 .. Len(u), NEW j \in 1 .. Len(u), i < j
               PROVE  Before(u[i], u[j])
    BY DEF Ordered
  <2>1. CASE j \in 1 .. Len(s) /\ u[j] = s[j]
    <3>1. i \in 1 .. Len(s) /\ u[i] = s[i]
      BY <1>2, <1>3, <2>1
    <3> QED
      BY <1>4, <2>1, <3>1 DEF Ordered
  <2>2. CASE j > Len(s) /\ j - Len(s) \in 1 .. Len(g) /\ u[j] = g[j - Len(s)]
    <3>1. CASE i \in 1 .. Len(s) /\ u[i] = s[i]
      BY <1>4, <2>2, <3>1 DEF AllBefore
    <3>2. CASE i > Len(s) /\ i - Len(s) \in 1 .. Len(g) /\ u[i] = g[i - Len(s)]
      <4>1. i - Len(s) < j - Len(s)
        BY <1>2
      <4> QED
        BY <1>4, <2>2, <3>2, <4>1 DEF Ordered
    <3> QED
      BY <1>3, <3>1, <3>2
  <2> QED
    BY <1>3, <2>1, <2>2
<1>5. ASSUME NEW t \in Seq(Write), AllBefore(s, t), AllBefore(g, t) PROVE AllBefore(u, t)
  BY <1>3, <1>5 DEF AllBefore
<1> QED
  BY <1>1, <1>4, <1>5

\* What a backend gets from Talk is a part of what was to be sent, and if
\* something is left it got nothing.
LEMMA TalkParts ==
    ASSUME NEW c \in Seq(Write), NEW x \in Talk(c)
    PROVE  Part(x.got, c) /\ (x.left = << >> \/ (x.got = << >> /\ x.left = c))
<1>1. Len(<< >>) = 0 /\ Len(c) \in Nat
  BY EmptySeq, LenProperties
<1>2. CASE x = [got |-> c, left |-> << >>]
  <2>1. Part(c, c)
    <3>1. PICK f : f = [i \in 1 .. Len(c) |-> i]
      OBVIOUS
    <3>2. /\ \A i \in 1 .. Len(c) : f[i] \in 1 .. Len(c) /\ c[i] = c[f[i]]
          /\ \A i, y \in 1 .. Len(c) : i < y => f[i] < f[y]
      BY <3>1
    <3> QED
      BY <3>2 DEF Part
  <2>2. x.got = c /\ x.left = << >>
    BY <1>2
  <2> QED
    BY <2>1, <2>2
<1>3. CASE x = [got |-> << >>, left |-> c]
  <2>1. Part(<< >>, c)
    BY <1>1 DEF Part
  <2>2. x.got = << >> /\ x.left = c
    BY <1>3
  <2> QED
    BY <2>1, <2>2
<1>4. ASSUME NEW f \in Picks(Len(c)), x = [got |-> Picked(c, f), left |-> << >>]
      PROVE  Part(x.got, c) /\ x.left = << >>
  <2>1. Part(Picked(c, f), c)
    BY PickedType DEF Part
  <2> QED
    BY <1>4, <2>1
<1> QED
  BY <1>2, <1>3, <1>4 DEF Talk

\* The first write of the local queue moves to backend_buf.
LEMMA ChainCreateReq ==
    ASSUME NEW b \in Seq(Write), NEW c \in Seq(Write), NEW t \in Seq(Write), NEW q \in Seq(Write),
           Chain(b, c, t, q), t # << >>
    PROVE  Chain(b, Append(c, Head(t)), Tail(t), q)
<1>1. PICK e \in Write, u \in Seq(Write) : e = Head(t) /\ u = Tail(t)
  BY HeadTailProperties
<1>2. /\ Ordered(u) /\ AllBefore(u, q) /\ AllBefore(b, u) /\ AllBefore(c, u)
      /\ AllBeforeOne(b, e) /\ AllBeforeOne(c, e)
      /\ (\A j \in 1 .. Len(u) : Before(e, u[j])) /\ (\A j \in 1 .. Len(q) : Before(e, q[j]))
  BY <1>1, TailOrder DEF Chain
<1>3. PICK d : d = Append(c, e)
  OBVIOUS
<1>4. Ordered(c) /\ AllBefore(b, c) /\ AllBefore(c, q)
  BY DEF Chain
<1>5. Ordered(d)
  BY <1>2, <1>3, <1>4, AppendOrder
<1>6. AllBefore(b, d)
  BY <1>2, <1>3, <1>4, AppendOrder
<1>7. AllBefore(d, u) /\ AllBefore(d, q)
  BY <1>2, <1>3, <1>4, AppendOrder
<1> QED
  BY <1>1, <1>2, <1>3, <1>5, <1>6, <1>7 DEF Chain

\* A contact keeps the chain, for the backup contacted and for the others.
LEMMA ChainTalk ==
    ASSUME NEW b \in Seq(Write), NEW c \in Seq(Write), NEW t \in Seq(Write), NEW q \in Seq(Write),
           Chain(b, c, t, q), NEW x \in Talk(c)
    PROVE  Chain(b, x.left, t, q) /\ Chain(b \o x.got, x.left, t, q)
<1>1. PICK g \in Seq(Write), l \in Seq(Write) : g = x.got /\ l = x.left
  BY TalkType
<1>2. Part(g, c) /\ (l = << >> \/ (g = << >> /\ l = c))
  BY <1>1, TalkParts
<1>3. Ordered(g) /\ AllBefore(b, g) /\ AllBefore(g, t) /\ AllBefore(g, q)
  BY <1>2, PartOrder DEF Chain
<1>4. PICK d \in Seq(Write) : d = b \o g
  BY ConcatProperties
<1>5. Ordered(d) /\ AllBefore(d, t) /\ AllBefore(d, q)
  BY <1>3, <1>4, ConcatOrder DEF Chain
<1>6. CASE l = << >>
  <2>1. /\ Ordered(l) /\ AllBefore(b, l) /\ AllBefore(d, l)
        /\ AllBefore(l, t) /\ AllBefore(l, q)
    BY <1>6, EmptyOrder
  <2> QED
    BY <1>1, <1>4, <1>5, <2>1 DEF Chain
<1>7. CASE g = << >> /\ l = c
  <2>1. d = b
    BY <1>4, <1>7, ConcatEmptySeq
  <2> QED
    BY <1>1, <1>4, <1>7, <2>1
<1> QED
  BY <1>2, <1>6, <1>7

\* The invariant: every write on its way was made before the one its worker has
\* in hand, and the chain for each backup.
Past(wk, a) ==
    /\ a.n <= wk[a.w].n
    /\ wk[a.w].pc \in {"check", "build", "push"} => a.n < wk[a.w].n
Old(wk, s) == \A i \in 1 .. Len(s) : Past(wk, s[i])

AllOld == /\ Old(worker, backend_buf) /\ Old(worker, async_req_tmp) /\ Old(worker, async_req)
          /\ \A h \in Backups : Old(worker, handed[h])
Chains == \A h \in Backups : Chain(handed[h], backend_buf, async_req_tmp, async_req)

\* A worker's write number never falls, and rises when it starts a write.
Advance == \A v \in Workers :
    /\ worker'[v].n >= worker[v].n
    /\ worker'[v].pc \in {"check", "build", "push"} =>
          \/ worker'[v].n > worker[v].n
          \/ worker'[v].n = worker[v].n /\ worker[v].pc \in {"check", "build", "push"}

\* Old writes stay old.
LEMMA OldStay ==
    ASSUME TypeOK, TypeOK', Advance, NEW s \in Seq(Write), Old(worker, s)
    PROVE  Old(worker', s)
<1> SUFFICES ASSUME NEW i \in 1 .. Len(s) PROVE Past(worker', s[i])
  BY DEF Old
<1>1. PICK a : a = s[i] /\ a \in Write /\ Past(worker, a)
  BY ElementOfSeq DEF Old
<1>2. a.w \in Workers /\ a.n \in Nat
  BY <1>1 DEF Write
<1>3. PICK v : v = a.w /\ v \in Workers /\ worker[v].n \in Nat /\ worker'[v].n \in Nat
  BY <1>2 DEF TypeOK
<1>4. /\ a.n <= worker'[v].n
      /\ worker'[v].pc \in {"check", "build", "push"} => a.n < worker'[v].n
  BY <1>1, <1>2, <1>3 DEF Past, Advance
<1> QED
  BY <1>1, <1>3, <1>4 DEF Past

\* The same for all the writes on their way.
LEMMA AllOldStay ==
    ASSUME TypeOK, TypeOK', Advance, AllOld
    PROVE  /\ Old(worker', async_req) /\ Old(worker', async_req_tmp) /\ Old(worker', backend_buf)
           /\ \A h \in Backups : Old(worker', handed[h])
BY OldStay DEF TypeOK, AllOld

\* Every step advances the workers.
LEMMA AdvanceStep ==
    ASSUME TypeOK, [Next]_vars
    PROVE  Advance
<1> USE DEF TypeOK
<1>1. ASSUME NEW w \in Workers, TalkMaster(w)
      PROVE  Advance
  <2>1. PICK pc \in {"sync", "check"}, k \in Keys, got \in Seq(Write), left \in Seq(Write) :
          MasterEffect(w, pc, k, got, left)
    BY <1>1, TalkMasterEffect
  <2> QED
    BY <2>1 DEF MasterEffect, Advance
<1>2. ASSUME NEW w \in Workers, TalkRead(w)
      PROVE  Advance
  <2>1. PICK b : worker' = [worker EXCEPT ![w].buf = b]
    BY <1>2 DEF TalkRead
  <2> QED
    BY <2>1 DEF Advance
<1>3. ASSUME NEW w \in Workers, CheckSize(w) \/ LockPush(w) \/ Push(w)
      PROVE  Advance
  <2>1. PICK pc \in {"idle", "build", "push"} :
          /\ worker' = [worker EXCEPT ![w].pc = pc]
          /\ pc # "idle" => worker[w].pc \in {"check", "build"}
    BY <1>3 DEF CheckSize, LockPush, Push, Goto
  <2> QED
    BY <2>1 DEF Advance
<1>4. ASSUME NEW w \in Workers, TalkSync(w)
      PROVE  Advance
  <2>1. PICK b : worker' = [worker EXCEPT ![w].pc = "idle", ![w].buf = b]
    BY <1>4 DEF TalkSync
  <2> QED
    BY <2>1 DEF Advance
<1>5. CASE UNCHANGED worker
  BY <1>5, SMTT(30) DEF Advance
<1>6. (\E w \in Workers : Worker(w)) \/ UNCHANGED worker
  BY DEF Next, asyncReqThread, Poll, PollEmpty, LockSwap, Swap, talkToBackendAsync,
         Drained, Stuck, vars
<1> QED
  BY <1>1, <1>2, <1>3, <1>4, <1>5, <1>6 DEF Worker

\* The writes on their way stay where they are.
LEMMA OrderStay ==
    ASSUME TypeOK, TypeOK', Advance, AllOld, Chains,
           UNCHANGED <<queues, backend_buf, handed>>
    PROVE  AllOld' /\ Chains'
<1>1. /\ async_req' = async_req /\ async_req_tmp' = async_req_tmp
      /\ backend_buf' = backend_buf /\ handed' = handed
  BY DEF queues
<1>2. AllOld'
  BY <1>1, AllOldStay DEF AllOld
<1>3. Chains'
  BY <1>1 DEF Chains
<1> QED
  BY <1>2, <1>3

\* A push puts a write behind all that came before it.
LEMMA OrderPush ==
    ASSUME TypeOK, TypeOK', Advance, AllOld, Chains, NEW w \in Workers, Push(w)
    PROVE  AllOld' /\ Chains'
<1>1. PICK e \in Write : e = Current(w)
  BY CurrentType
<1>2. e.w = w /\ e.n = worker[w].n /\ worker[w].pc = "push" /\ worker[w].n \in Nat
  BY <1>1 DEF Current, Push, TypeOK
<1>3. ASSUME NEW s \in Seq(Write), Old(worker, s) PROVE AllBeforeOne(s, e)
  BY <1>2, <1>3 DEF AllBeforeOne, Before, Old, Past
<1>4. PICK q \in Seq(Write) : q = Append(async_req, e) /\ q = async_req'
  BY <1>1, AppendProperties DEF Push, TypeOK
<1>5. async_req_tmp' = async_req_tmp /\ backend_buf' = backend_buf /\ handed' = handed
  BY DEF Push, hosts
<1>6. worker'[w].pc = "idle" /\ worker'[w].n = worker[w].n
  BY DEF Push, Goto, TypeOK
<1>7. Past(worker', e)
  BY <1>2, <1>6 DEF Past
<1>8. Old(worker', q)
  <2> SUFFICES ASSUME NEW i \in 1 .. Len(q) PROVE Past(worker', q[i])
    BY DEF Old
  <2>1. /\ Len(q) = Len(async_req) + 1 /\ Len(async_req) \in Nat /\ q[Len(async_req) + 1] = e
        /\ \A j \in 1 .. Len(async_req) : q[j] = async_req[j]
    <3>1. async_req \in Seq(Write)
      BY DEF TypeOK
    <3>2. q = Append(async_req, e)
      BY <1>4
    <3> QED
      BY <3>1, <3>2, AppendProperties, LenProperties
  <2>2. CASE i = Len(async_req) + 1
    BY <1>7, <2>1, <2>2
  <2>3. CASE i \in 1 .. Len(async_req)
    BY <2>1, <2>3, AllOldStay DEF Old
  <2> QED
    BY <2>1, <2>2, <2>3
<1>9. AllOld'
  BY <1>4, <1>5, <1>8, AllOldStay DEF AllOld
<1>10. ASSUME NEW h \in Backups PROVE Chain(handed[h], backend_buf, async_req_tmp, q)
  <2>1. /\ handed[h] \in Seq(Write) /\ backend_buf \in Seq(Write)
        /\ async_req_tmp \in Seq(Write) /\ async_req \in Seq(Write)
    BY DEF TypeOK
  <2>2. /\ AllBeforeOne(handed[h], e) /\ AllBeforeOne(backend_buf, e)
        /\ AllBeforeOne(async_req_tmp, e) /\ AllBeforeOne(async_req, e)
    BY <1>3, <2>1 DEF AllOld
  <2>3. Chain(handed[h], backend_buf, async_req_tmp, async_req)
    BY DEF Chains
  <2>4. Ordered(q)
    BY <1>4, <2>1, <2>2, <2>3, AppendOrder DEF Chain
  <2>5. AllBefore(handed[h], q)
    BY <1>4, <2>1, <2>2, <2>3, AppendOrder DEF Chain
  <2>6. AllBefore(backend_buf, q)
    BY <1>4, <2>1, <2>2, <2>3, AppendOrder DEF Chain
  <2>7. AllBefore(async_req_tmp, q)
    BY <1>4, <2>1, <2>2, <2>3, AppendOrder DEF Chain
  <2> QED
    BY <2>3, <2>4, <2>5, <2>6, <2>7 DEF Chain
<1>11. Chains'
  BY <1>4, <1>5, <1>10 DEF Chains
<1> QED
  BY <1>9, <1>11

\* The queue becomes the local queue, which was empty.
LEMMA OrderSwap ==
    ASSUME TypeOK, TypeOK', Advance, AllOld, Chains, Swap
    PROVE  AllOld' /\ Chains'
<1>1. /\ async_req' = << >> /\ async_req_tmp' = async_req
      /\ backend_buf' = backend_buf /\ handed' = handed
  BY DEF Swap, hosts, TypeOK
<1>2. Old(worker', << >>)
  BY EmptySeq DEF Old
<1>3. AllOld'
  BY <1>1, <1>2, AllOldStay DEF AllOld
<1>4. ASSUME NEW h \in Backups PROVE Chain(handed[h], backend_buf, async_req, << >>)
  <2>1. /\ Ordered(<< >>) /\ AllBefore(handed[h], << >>)
        /\ AllBefore(backend_buf, << >>) /\ AllBefore(async_req, << >>)
    BY EmptyOrder DEF TypeOK
  <2> QED
    BY <2>1 DEF Chain, Chains
<1>5. Chains'
  BY <1>1, <1>4 DEF Chains
<1> QED
  BY <1>3, <1>5

\* A contact with a backup.
LEMMA OrderTalk ==
    ASSUME TypeOK, TypeOK', Advance, AllOld, Chains, talkToBackendAsync
    PROVE  AllOld' /\ Chains'
<1>1. PICK a, x : /\ a = Head(async_req_tmp)
                  /\ x \in Talk(Append(backend_buf, a))
                  /\ handed' = [handed EXCEPT ![Owner[a.key]] = @ \o x.got]
                  /\ backend_buf' = x.left
  BY DEF talkToBackendAsync
<1>2. PICK t \in Seq(Write), u \in Seq(Write), c \in Seq(Write), q \in Seq(Write) :
          /\ t = async_req_tmp /\ t # << >> /\ u = Tail(t) /\ u = async_req_tmp'
          /\ c = backend_buf /\ q = async_req /\ q = async_req'
  BY HeadTailProperties DEF talkToBackendAsync, TypeOK
<1>3. a \in Write
  BY <1>1, <1>2, HeadTailProperties
<1>4. PICK d \in Seq(Write) : d = Append(c, a) /\ x \in Talk(d)
  BY <1>1, <1>2, <1>3, AppendProperties
<1>5. PICK g \in Seq(Write), l \in Seq(Write) : g = x.got /\ l = x.left /\ l = backend_buf'
  BY <1>1, <1>4, TalkType
<1>6. PICK o \in Backups : o = Owner[a.key]
  BY <1>3, OwnerAssumption DEF Write
<1>7. \A h \in Backups : /\ handed[h] \in Seq(Write)
                         /\ handed'[h] = IF h = o THEN handed[h] \o g ELSE handed[h]
  BY <1>1, <1>5, <1>6 DEF TypeOK
<1>8. Chains'
  <2>1. ASSUME NEW h \in Backups PROVE Chain(handed'[h], l, u, q)
    <3>1. PICK b \in Seq(Write) : b = handed[h] /\ Chain(b, c, t, q)
      BY <1>2, <1>7 DEF Chains
    <3>2. Chain(b, d, u, q)
      <4>1. d = Append(c, Head(t)) /\ u = Tail(t) /\ t # << >>
        BY <1>1, <1>2, <1>4
      <4>2. Chain(b, Append(c, Head(t)), Tail(t), q)
        BY <3>1, <4>1, ChainCreateReq
      <4> QED
        BY <4>1, <4>2
    <3>3. Chain(b, l, u, q) /\ Chain(b \o g, l, u, q)
      <4>1. Chain(b, x.left, u, q) /\ Chain(b \o x.got, x.left, u, q)
        BY <1>4, <3>2, ChainTalk
      <4> QED
        BY <1>5, <4>1
    <3> QED
      BY <1>7, <3>1, <3>3
  <2> QED
    BY <1>2, <1>5, <2>1 DEF Chains
<1>9. Old(worker', t) /\ Old(worker', c) /\ Old(worker', q)
      /\ \A h \in Backups : Old(worker', handed[h])
  BY <1>2, AllOldStay
<1>10. Old(worker', u) /\ Past(worker', a)
  <2>1. /\ Len(t) \in Nat /\ Len(t) # 0 /\ Len(u) = Len(t) - 1 /\ a = t[1]
        /\ \A i \in 1 .. Len(u) : u[i] = t[i + 1]
    BY <1>1, <1>2, HeadTailProperties, LenProperties, EmptySeq
  <2>2. 1 \in 1 .. Len(t) /\ \A i \in 1 .. Len(u) : i + 1 \in 1 .. Len(t)
    BY <2>1
  <2> QED
    BY <1>9, <2>1, <2>2 DEF Old
<1>11. Old(worker', d)
  <2>1. /\ Len(c) \in Nat /\ Len(d) = Len(c) + 1 /\ d[Len(c) + 1] = a
        /\ \A i \in 1 .. Len(c) : d[i] = c[i]
    BY <1>3, <1>4, AppendProperties, LenProperties
  <2>2. \A i \in 1 .. Len(d) : i \in 1 .. Len(c) \/ i = Len(c) + 1
    BY <2>1
  <2> QED
    BY <1>9, <1>10, <2>1, <2>2 DEF Old
<1>12. Old(worker', g) /\ Old(worker', l)
  <2>1. Part(g, d) /\ (l = << >> \/ (g = << >> /\ l = d))
    BY <1>4, <1>5, TalkParts
  <2>2. Old(worker', << >>)
    BY EmptySeq DEF Old
  <2>3. Old(worker', g)
    BY <1>11, <2>1 DEF Old, Part
  <2> QED
    BY <1>11, <2>1, <2>2, <2>3
<1>13. ASSUME NEW h \in Backups PROVE Old(worker', handed'[h])
  <2>1. PICK b \in Seq(Write), n \in Seq(Write) : b = handed[h] /\ n = b \o g
    BY <1>7, ConcatProperties
  <2>2. /\ Len(b) \in Nat /\ Len(g) \in Nat /\ Len(n) = Len(b) + Len(g)
        /\ \A i \in 1 .. Len(b) + Len(g) : n[i] = IF i <= Len(b) THEN b[i] ELSE g[i - Len(b)]
    BY <2>1, ConcatProperties, LenProperties
  <2>3. ASSUME NEW i \in 1 .. Len(n)
        PROVE  \/ i \in 1 .. Len(b) /\ n[i] = b[i]
               \/ i - Len(b) \in 1 .. Len(g) /\ n[i] = g[i - Len(b)]
    BY <2>2
  <2>4. Old(worker', b)
    BY <1>9, <2>1
  <2>5. Old(worker', n)
    BY <1>12, <2>3, <2>4 DEF Old
  <2> QED
    BY <1>7, <2>1, <2>4, <2>5
<1>14. AllOld'
  BY <1>2, <1>5, <1>9, <1>10, <1>12, <1>13 DEF AllOld
<1> QED
  BY <1>8, <1>14

\* Every step keeps the order.
LEMMA OrderStep ==
    ASSUME TypeOK, AllOld, Chains, [Next]_vars
    PROVE  (AllOld /\ Chains)'
<1>1. TypeOK' /\ Advance
  BY TypeStep, AdvanceStep
<1>2. ASSUME NEW w \in Workers, Push(w) PROVE AllOld' /\ Chains'
  BY <1>1, <1>2, OrderPush
<1>3. CASE Swap
  BY <1>1, <1>3, OrderSwap
<1>4. CASE talkToBackendAsync
  BY <1>1, <1>4, OrderTalk
<1>5. CASE UNCHANGED <<queues, backend_buf, handed>>
  BY <1>1, <1>5, OrderStay
<1>6. \/ \E w \in Workers : Push(w)
      \/ Swap \/ talkToBackendAsync
      \/ UNCHANGED <<queues, backend_buf, handed>>
  BY DEF Next, Worker, TalkMaster, TalkRead, CheckSize, LockPush, TalkSync, asyncReqThread,
         Poll, PollEmpty, LockSwap, Drained, Stuck, queues, hosts, vars
<1> QED
  BY <1>1, <1>2, <1>3, <1>4, <1>5, <1>6

\* For any number of workers, keys and backups, with connections that fail and
\* sends that break at any point, and with torn reads of size(): through
\* asyncReqThread a worker's writes reach each backup at most once and in the
\* order in which they were made.
THEOREM ReplicationOrder == Spec => []BackupInOrder
<1> DEFINE Inv == TypeOK /\ AllOld /\ Chains
<1>1. Init => Inv
  <2> SUFFICES ASSUME Init PROVE AllOld /\ Chains
    BY TypeInit
  <2>1. << >> \in Seq(Write) /\ Len(<< >>) = 0
    BY EmptySeq
  <2>2. Ordered(<< >>) /\ AllBefore(<< >>, << >>)
    BY <2>1, EmptyOrder
  <2>3. AllOld
    BY <2>1 DEF Init, AllOld, Old
  <2>4. Chains
    BY <2>2 DEF Init, Chains, Chain
  <2> QED
    BY <2>3, <2>4
<1>2. Inv /\ [Next]_vars => Inv'
  BY TypeStep, OrderStep
<1>3. Inv => BackupInOrder
  BY DEF Chains, Chain, BackupInOrder
<1> QED
  BY <1>1, <1>2, <1>3, PTL DEF Spec

-----------------------------------------------------------------------------
(***************************************************************************)
(* AsyncReq implements Replication                                         *)
(***************************************************************************)

\* A write that is queued goes to the end of the channel.
LEMMA ChannelAppend ==
    ASSUME NEW c \in Seq(Write), NEW q \in Seq(Write), NEW e \in Write
    PROVE  c \o Append(q, e) = Append(c \o q, e)
<1>1. <<e>> \in Seq(Write) /\ c \o q \in Seq(Write)
  BY ConcatProperties
<1>2. Append(q, e) = q \o <<e>> /\ Append(c \o q, e) = (c \o q) \o <<e>>
  BY <1>1, AppendIsConcat
<1> QED
  BY <1>1, <1>2, ConcatAssociative

\* The first element of t may be counted with c.
Moves(c, t, q) == c \o t \o q = Append(c, Head(t)) \o (Tail(t) \o q)

\* The channel does not change when CREATE_REQ_ASYNC moves the first write of
\* the local queue to backend_buf.
LEMMA ChannelMove ==
    ASSUME NEW c \in Seq(Write), NEW t \in Seq(Write), NEW q \in Seq(Write), t # << >>
    PROVE  Moves(c, t, q)
<1>0. PICK e \in Write, u \in Seq(Write) : e = Head(t) /\ u = Tail(t)
  BY HeadTailProperties
<1>1. <<e>> \in Seq(Write) /\ Len(t) \in Nat /\ Len(t) # 0 /\ e = t[1]
  BY <1>0, EmptySeq, LenProperties
<1>2. t = <<e>> \o u
  <2>1. 1 \in 1 .. Len(t) /\ Len(t) \in 1 .. Len(t)
    BY <1>1
  <2>2. SubSeq(t, 1, Len(t)) = <<t[1]>> \o SubSeq(t, 2, Len(t))
    BY <2>1, SubSeqRecursiveFirst
  <2> QED
    BY <1>0, <1>1, <2>2, SubSeqFull, TailIsSubSeq
<1>3. c \o t = (c \o <<e>>) \o u
  <2>1. PICK one \in Seq(Write) : one = <<e>>
    BY <1>1
  <2>2. (c \o one) \o u = c \o (one \o u)
    BY ConcatAssociative, SMTT(30)
  <2> QED
    BY <1>2, <2>1, <2>2, Zenon
<1>4. c \o <<e>> = Append(c, e) /\ c \o <<e>> \in Seq(Write)
  BY <1>1, AppendIsConcat, ConcatProperties
<1>5. PICK s \in Seq(Write) : s = Append(c, e) /\ c \o t = s \o u
  BY <1>3, <1>4, Zenon
<1>6. (s \o u) \o q = s \o (u \o q)
  BY ConcatAssociative, SMTT(30)
<1> QED
  BY <1>0, <1>5, <1>6, Zenon DEF Moves

\* What is cut off the front of the channel and what is left of it.
LEMMA ChannelCut ==
    ASSUME NEW d \in Seq(Write), NEW v \in Seq(Write)
    PROVE  /\ Len(d) \in 0 .. Len(d \o v)
           /\ SubSeq(d \o v, Len(d) + 1, Len(d \o v)) = v
           /\ \A f \in Picks(Len(d)) : Picked(d \o v, f) = Picked(d, f)
<1>1. Len(d) \in Nat /\ Len(v) \in Nat /\ Len(d \o v) = Len(d) + Len(v)
  BY LenProperties, ConcatProperties
<1>2. SubSeq(d \o v, Len(d) + 1, Len(d \o v)) = v
  <2>1. CASE Len(v) = 0
    <3>1. v = << >> /\ Len(d) + 1 \in Int /\ Len(d \o v) \in Int /\ Len(d \o v) < Len(d) + 1
      BY <1>1, <2>1, EmptySeq
    <3> QED
      BY <3>1, SubSeqEmpty
  <2>2. CASE Len(v) # 0
    <3>1. /\ Len(d) + 1 \in Len(d) + 1 .. Len(d) + Len(v)
          /\ Len(d) + Len(v) \in Len(d) + 1 .. Len(d) + Len(v)
          /\ (Len(d) + 1) - Len(d) = 1 /\ (Len(d) + Len(v)) - Len(d) = Len(v)
      BY <1>1, <2>2
    <3>2. SubSeq(d \o v, Len(d) + 1, Len(d) + Len(v))
            = SubSeq(v, (Len(d) + 1) - Len(d), (Len(d) + Len(v)) - Len(d))
      BY <3>1, SubSeqOfConcat2
    <3> QED
      BY <1>1, <3>1, <3>2, SubSeqFull
  <2> QED
    BY <2>1, <2>2
<1>3. ASSUME NEW f \in Picks(Len(d)) PROVE Picked(d \o v, f) = Picked(d, f)
  <2>1. PICK ch : ch = d \o v /\ \A i \in 1 .. Len(d) : ch[i] = d[i]
    <3>1. PICK ch : ch = d \o v
      OBVIOUS
    <3>2. \A i \in 1 .. Len(d) + Len(v) : ch[i] = IF i <= Len(d) THEN d[i] ELSE v[i - Len(d)]
      BY <3>1, ConcatProperties
    <3>3. \A i \in 1 .. Len(d) : ch[i] = d[i]
      BY <1>1, <3>2
    <3> QED
      BY <3>1, <3>3
  <2>2. DOMAIN f = 1 .. Len(Picked(d, f)) /\ \A x \in DOMAIN f : f[x] \in 1 .. Len(d)
    <3>1. PICK m \in 0 .. Len(d) : f \in [1 .. m -> 1 .. Len(d)]
      BY DEF Picks
    <3>2. m \in Nat /\ DOMAIN f = 1 .. m
      BY <1>1, <3>1
    <3>3. PICK g \in Seq(Write) : g = Picked(d, f) /\ DOMAIN g = 1 .. m
      BY <3>2, PickedType DEF Picked
    <3>4. Len(g) \in Nat /\ DOMAIN g = 1 .. Len(g)
      BY LenProperties
    <3> QED
      BY <3>1, <3>2, <3>3, <3>4
  <2>3. Picked(ch, f) = Picked(d, f)
    BY <2>1, <2>2 DEF Picked
  <2> QED
    BY <2>1, <2>3
<1> QED
  BY <1>1, <1>2, <1>3

\* The channel is the same, whichever of its parts are put together first.
LEMMA ThreeParts ==
    ASSUME NEW c \in Seq(Write), NEW t \in Seq(Write), NEW q \in Seq(Write)
    PROVE  (c \o t) \o q = c \o (t \o q)
BY ConcatAssociative

\* A contact that leaves nothing in the buffer has delivered a choice of it.
LEMMA TalkCases ==
    ASSUME NEW d \in Seq(Write), NEW x \in Talk(d)
    PROVE  \/ x = [got |-> << >>, left |-> d]
           \/ \E f \in Picks(Len(d)) : x = [got |-> Picked(d, f), left |-> << >>]
<1>1. CASE x = [got |-> d, left |-> << >>]
  <2>1. PICK n \in Nat : n = Len(d) /\ d \in [1 .. n -> Write]
    BY LenProperties
  <2>2. PICK f : f = [i \in 1 .. n |-> i]
    OBVIOUS
  <2>3. f \in Picks(n)
    <3>1. f \in [1 .. n -> 1 .. n] /\ \A i, j \in 1 .. n : i < j => f[i] < f[j]
      BY <2>2
    <3>2. n \in 0 .. n
      OBVIOUS
    <3> DEFINE S(m) == {g \in [1 .. m -> 1 .. n] : \A i, j \in 1 .. m : i < j => g[i] < g[j]}
    <3>3. f \in S(n)
      BY <3>1
    <3>4. Picks(n) = UNION {S(m) : m \in 0 .. n}
      BY DEF Picks
    <3> HIDE DEF S
    <3> QED
      BY <3>2, <3>3, <3>4
  <2>4. Picked(d, f) = d
    BY <2>1, <2>2 DEF Picked
  <2> QED
    BY <1>1, <2>1, <2>3, <2>4
<1>2. CASE x = [got |-> << >>, left |-> d]
  BY <1>2
<1>3. ASSUME NEW f \in Picks(Len(d)), x = [got |-> Picked(d, f), left |-> << >>]
      PROVE  \E h \in Picks(Len(d)) : x = [got |-> Picked(d, h), left |-> << >>]
  BY <1>3
<1> QED
  BY <1>1, <1>2, <1>3 DEF Talk

\* A contact with a backup is a delivery or, when no connection was to be had,
\* leaves the channel and the backups as they are.
LEMMA ContactDelivers ==
    ASSUME TypeOK, talkToBackendAsync
    PROVE  [Repl!Next]_(Repl!vars)
<1>1. PICK a, x : /\ a = Head(async_req_tmp)
                  /\ x \in Talk(Append(backend_buf, a))
                  /\ handed' = [handed EXCEPT ![Owner[a.key]] = @ \o x.got]
                  /\ backend_buf' = x.left
  BY DEF talkToBackendAsync
<1>2. PICK t \in Seq(Write), u \in Seq(Write), c \in Seq(Write), q \in Seq(Write) :
          /\ t = async_req_tmp /\ t # << >> /\ u = Tail(t) /\ u = async_req_tmp'
          /\ c = backend_buf /\ q = async_req /\ q = async_req'
  BY HeadTailProperties DEF talkToBackendAsync, TypeOK
<1>3. a \in Write /\ a = Head(t)
  BY <1>1, <1>2, HeadTailProperties
<1>4. PICK d \in Seq(Write) : d = Append(c, a) /\ x \in Talk(d) /\ Len(d) \in Nat \ {0}
  <2>1. PICK d \in Seq(Write) : d = Append(c, a) /\ Len(d) = Len(c) + 1 /\ Len(c) \in Nat
    BY <1>3, AppendProperties, LenProperties
  <2>2. x \in Talk(d)
    BY <1>1, <1>2, <2>1, Zenon
  <2>3. Len(d) \in Nat \ {0}
    BY <2>1
  <2> QED
    BY <2>1, <2>2, <2>3
<1>5. PICK o \in Backups : o = Owner[a.key]
  BY <1>3, OwnerAssumption DEF Write
<1>6. PICK v \in Seq(Write), ch \in Seq(Write) : v = u \o q /\ ch = d \o v
  BY ConcatProperties
<1>7. backend_buf \o async_req_tmp \o async_req = ch
  <2>0. u = Tail(t) /\ a = Head(t) /\ t # << >>
    BY <1>2, <1>3
  <2>2. Moves(c, t, q)
    BY <2>0, ChannelMove
  <2>1. c \o t \o q = Append(c, Head(t)) \o (Tail(t) \o q)
    BY <2>2, Zenon DEF Moves
  <2> QED
    BY <1>2, <1>4, <1>6, <2>0, <2>1, Zenon
<1>8. (backend_buf \o async_req_tmp \o async_req)' = x.left \o v
  <2>1. PICK l \in Seq(Write) : l = x.left
    BY <1>4, TalkType
  <2>2. (l \o u) \o q = l \o (u \o q)
    BY ThreeParts
  <2> QED
    BY <1>1, <1>2, <1>6, <2>1, <2>2, Zenon
<1>9. ASSUME NEW f \in Picks(Len(d)), x.got = Picked(d, f), x.left = << >>
      PROVE  Repl!Next
  <2>1. Len(d) \in 1 .. Len(ch) /\ SubSeq(ch, Len(d) + 1, Len(ch)) = v
    <3>1. /\ Len(d) \in 0 .. Len(d \o v)
          /\ SubSeq(d \o v, Len(d) + 1, Len(d \o v)) = v
      BY ChannelCut
    <3>2. Len(d) \in 0 .. Len(ch) /\ SubSeq(ch, Len(d) + 1, Len(ch)) = v
      BY <1>6, <3>1, Zenon
    <3>3. Len(ch) \in Nat
      BY LenProperties
    <3> QED
      BY <1>4, <3>2, <3>3
  <2>2. Picked(ch, f) = x.got
    <3>1. Picked(d \o v, f) = Picked(d, f)
      BY ChannelCut
    <3> QED
      BY <1>6, <1>9, <3>1, Zenon
  <2>3. (backend_buf \o async_req_tmp \o async_req)' = v
    BY <1>8, <1>9, ConcatEmptySeq
  <2>4. handed' = [handed EXCEPT ![o] = @ \o Picked(ch, f)]
    BY <1>1, <1>5, <2>2
  <2>5. Repl!Deliver(o, Len(d), f)
    BY <1>7, <2>1, <2>3, <2>4 DEF Repl!Deliver, Repl!Picked, Picked
  <2>6. f \in Repl!Picks(Len(d))
    BY DEF Picks, Repl!Picks
  <2> QED
    BY <1>7, <2>1, <2>5, <2>6 DEF Repl!Next
<1>10. CASE x = [got |-> << >>, left |-> d]
  <2>1. handed' = handed
    BY <1>1, <1>5, <1>10, ConcatEmptySeq DEF TypeOK
  <2> QED
    BY <1>6, <1>7, <1>8, <1>10, <2>1 DEF Repl!vars
<1>11. CASE \E f \in Picks(Len(d)) : x = [got |-> Picked(d, f), left |-> << >>]
  BY <1>9, <1>11
<1>12. \/ x = [got |-> << >>, left |-> d]
       \/ \E f \in Picks(Len(d)) : x = [got |-> Picked(d, f), left |-> << >>]
  <2>1. x \in Talk(d)
    BY <1>4
  <2> QED
    BY <2>1, TalkCases
<1> QED
  BY <1>10, <1>11, <1>12

\* Every step of AsyncReq is one of Replication or a stutter.
LEMMA ReplicationStep ==
    ASSUME TypeOK, [Next]_vars
    PROVE  [Repl!Next]_(Repl!vars)
<1>1. ASSUME NEW w \in Workers, Push(w)
      PROVE  Repl!Next
  <2>1. PICK e \in Write : e = Current(w)
    BY CurrentType
  <2>2. PICK c \in Seq(Write), q \in Seq(Write) :
            c = backend_buf \o async_req_tmp /\ q = async_req
    BY ConcatProperties DEF TypeOK
  <2>3. PICK ch \in Seq(Write) : ch = c \o q
    BY ConcatProperties
  <2>4. (backend_buf \o async_req_tmp \o async_req)' = Append(ch, e)
    BY <1>1, <2>1, <2>2, <2>3, ChannelAppend DEF Push
  <2>5. Append(ch, e) # << >> /\ Append(ch, e)[Len(Append(ch, e))] = e
    BY AppendProperties
  <2>6. handed' = handed
    BY <1>1 DEF Push, hosts
  <2>7. backend_buf \o async_req_tmp \o async_req = ch
    BY <2>2, <2>3
  <2> QED
    BY <2>4, <2>5, <2>6, <2>7 DEF Repl!Next, Repl!Enqueue
<1>2. CASE Swap
  <2>1. /\ async_req' = << >> /\ async_req_tmp = << >> /\ async_req_tmp' = async_req
        /\ backend_buf' = backend_buf /\ handed' = handed
    BY <1>2 DEF Swap, hosts, TypeOK
  <2>2. PICK c \in Seq(Write), q \in Seq(Write) : c = backend_buf /\ q = async_req
    BY DEF TypeOK
  <2>3. c \o << >> = c /\ c \o q \in Seq(Write)
    BY ConcatEmptySeq, ConcatProperties
  <2>4. (c \o q) \o << >> = (c \o << >>) \o q
    BY <2>3, ConcatEmptySeq
  <2> QED
    BY <2>1, <2>2, <2>4 DEF Repl!vars
<1>3. CASE talkToBackendAsync
  BY <1>3, ContactDelivers
<1>4. CASE UNCHANGED <<queues, backend_buf, handed>>
  BY <1>4, SMTT(30) DEF queues, Repl!vars
<1>5. \/ \E w \in Workers : Push(w)
      \/ Swap \/ talkToBackendAsync
      \/ UNCHANGED <<queues, backend_buf, handed>>
  BY DEF Next, Worker, TalkMaster, TalkRead, CheckSize, LockPush, TalkSync, asyncReqThread,
         Poll, PollEmpty, LockSwap, Drained, Stuck, queues, hosts, vars
<1> QED
  BY <1>1, <1>2, <1>3, <1>4, <1>5

\* AsyncReq implements Replication for any number of workers, keys and backups
\* and any failures of connections: the queue, the local queue and backend_buf
\* are one channel that may lose writes but neither repeats nor reorders them.
THEOREM AsyncImplementsReplication == Spec => ImplementsReplication
<1>1. Init => TypeOK /\ Repl!Init
  <2> SUFFICES ASSUME Init PROVE Repl!Init
    BY TypeInit
  <2>1. << >> \o << >> \o << >> = << >>
    BY ConcatEmptySeq, EmptySeq
  <2> QED
    BY <2>1 DEF Init, Repl!Init
<1>2. TypeOK /\ [Next]_vars => TypeOK'
  BY TypeStep
<1>3. TypeOK /\ [Next]_vars => [Repl!Next]_(Repl!vars)
  BY ReplicationStep
<1> QED
  BY <1>1, <1>2, <1>3, PTL DEF Spec, ImplementsReplication, Repl!Spec
=============================================================================

------------------------------ MODULE AsyncReq ------------------------------
(***************************************************************************)
(* Replication of writes to the backup group (src/src/kvproxy.cpp): what   *)
(* readEvent does with an update after createReqGroup, the queue async_req *)
(* that the worker threads fill, and asyncReqThread, which empties it.     *)
(*                                                                         *)
(* A memcached request carries at most one update, so the group map queued *)
(* for it has one backup host with one item: a write, numbered per worker. *)
(* The rings are taken as they stand (Owner); how they change is the       *)
(* subject of module Failover.                                             *)
(***************************************************************************)
EXTENDS Naturals, Sequences, FiniteSets, Picks

CONSTANTS
    Workers,     \* the libevent worker threads
    Keys,        \* keys the clients write
    SyncKeys,    \* the keys that start with sync_str
    Backups,     \* the hosts of hosts_backup
    Owner,       \* Owner[k]: the backup host that hash_backup.find gives for k
    async_size,  \* configured length of the queue
    TornSize,    \* whether size(), read without the lock, can be torn
    MayFail,     \* whether contact with a backend can fail or never end
    MaxWrites    \* MaxWrites[w]: bound on the number of writes of worker w

ASSUME WorkersAssumption == /\ IsFiniteSet(Workers) /\ Workers # {}
                            /\ {"nobody", "async"} \cap Workers = {}
ASSUME OwnerAssumption == SyncKeys \subseteq Keys /\ Owner \in [Keys -> Backups]
ASSUME SizeAssumption == /\ async_size \in Nat \ {0}
                         /\ MaxWrites \in [Workers -> Nat]
                         /\ TornSize \in BOOLEAN /\ MayFail \in BOOLEAN

VARIABLES
    worker,         \* [pc, n, key, buf]: control state, number and key of the
                    \* write in hand, and the thread's backend_buf
    master,         \* the writes the master has received, in order
    async_req,      \* the queue
    async_req_tmp,  \* the local queue of asyncReqThread
    apc,            \* control state of asyncReqThread
    lock,           \* async_req_lock: who holds it
    backend_buf,    \* backend_buf[thread_count], of asyncReqThread
    backup,         \* host |-> the writes it has received, in order
    handed,         \* history: those of them that asyncReqThread sent it
    torn            \* history: a worker has acted on a torn size()

vars == <<worker, master, async_req, async_req_tmp, apc, lock, backend_buf, backup,
          handed, torn>>
queues == <<async_req, async_req_tmp>>
hosts == <<backup, handed>>

Write == [w : Workers, n : Nat, key : Keys]
NOBODY == "nobody"
ASYNC == "async"

\* The write that worker w has in hand.
Current(w) == [w |-> w, n |-> worker[w].n, key |-> worker[w].key]

Init ==
    /\ \E k \in Keys :
          worker = [w \in Workers |-> [pc |-> "idle", n |-> 0, key |-> k, buf |-> << >>]]
    /\ master = << >>
    /\ async_req = << >> /\ async_req_tmp = << >>
    /\ apc = "poll"
    /\ lock = NOBODY
    /\ backend_buf = << >>
    /\ backup = [h \in Backups |-> << >>]
    /\ handed = [h \in Backups |-> << >>]
    /\ torn = FALSE

\* What an unlocked async_req.size() may return: while another thread is
\* inside push() or swap() the iterators of the deque do not belong together.
SizeSeen == IF TornSize /\ lock # NOBODY THEN {Len(async_req), 0, async_size}
            ELSE {Len(async_req)}

\* One round of talkToBackend with buf in backend_buf: what the backend gets
\* and what stays in backend_buf.  All of it arrives (whether an answer comes
\* in time only matters to the failure counters); or getConnection gives 0 and
\* "continue" skips the statement that empties backend_buf; or connections
\* break: each carries a piece from where send() stopped on the last, of which
\* the backend may have taken only the beginning.
Talk(buf) ==
    {[got |-> buf, left |-> << >>]}
    \cup (IF ~ MayFail THEN {}
          ELSE {[got |-> << >>, left |-> buf]}
               \cup {[got |-> Picked(buf, f), left |-> << >>] : f \in Picks(Len(buf))})

-----------------------------------------------------------------------------
(***************************************************************************)
(* readEvent on a worker thread                                            *)
(***************************************************************************)
Goto(w, pc) == worker' = [worker EXCEPT ![w].pc = pc]

\* talkToBackend for the master.  A write that fails there goes on to the
\* backup all the same.
TalkMaster(w) ==
    /\ worker[w].pc = "idle"
    /\ worker[w].n < MaxWrites[w]
    /\ \E k \in Keys :
          LET a == [w |-> w, n |-> worker[w].n + 1, key |-> k]
          IN  \E t \in Talk(Append(worker[w].buf, a)) :
                /\ master' = master \o t.got
                /\ worker' = [worker EXCEPT ![w] =
                     [pc |-> IF k \in SyncKeys THEN "sync" ELSE "check",
                      n |-> a.n, key |-> k, buf |-> t.left]]
    /\ UNCHANGED <<queues, apc, lock, backend_buf, hosts, torn>>

\* A get, which takes what is left in backend_buf along.
TalkRead(w) ==
    /\ worker[w].pc = "idle"
    /\ worker[w].buf # << >>
    /\ \E t \in Talk(worker[w].buf) :
          /\ master' = master \o t.got
          /\ worker' = [worker EXCEPT ![w].buf = t.left]
    /\ UNCHANGED <<queues, apc, lock, backend_buf, hosts, torn>>

\* Mutant: size() <= async_size.
CheckSize_AtMost(w) ==
    /\ worker[w].pc = "check"
    /\ \E size \in SizeSeen :
          /\ Goto(w, IF size <= async_size THEN "build" ELSE "idle")
          /\ torn' = (torn \/ size # Len(async_req))
    /\ UNCHANGED <<master, queues, apc, lock, backend_buf, hosts>>

\* The test of the queue's length, without the lock; a write that finds the
\* queue full is not replicated.
CheckSize(w) ==
    /\ worker[w].pc = "check"
    /\ \E size \in SizeSeen :
          /\ Goto(w, IF size < async_size THEN "build" ELSE "idle")
          /\ torn' = (torn \/ size # Len(async_req))
    /\ UNCHANGED <<master, queues, apc, lock, backend_buf, hosts>>

\* The items have been copied; lock the queue.
LockPush(w) ==
    /\ worker[w].pc = "build"
    /\ lock = NOBODY
    /\ lock' = w
    /\ Goto(w, "push")
    /\ UNCHANGED <<master, queues, apc, backend_buf, hosts, torn>>

\* push and unlock.
Push(w) ==
    /\ worker[w].pc = "push"
    /\ async_req' = Append(async_req, Current(w))
    /\ lock' = NOBODY
    /\ Goto(w, "idle")
    /\ UNCHANGED <<master, async_req_tmp, apc, backend_buf, hosts, torn>>

\* A key with the sync prefix: talkToBackend for the backup, by the worker.
TalkSync(w) ==
    /\ worker[w].pc = "sync"
    /\ \E t \in Talk(Append(worker[w].buf, Current(w))) :
          /\ backup' = [backup EXCEPT ![Owner[worker[w].key]] = @ \o t.got]
          /\ worker' = [worker EXCEPT ![w].pc = "idle", ![w].buf = t.left]
    /\ UNCHANGED <<master, queues, apc, lock, backend_buf, handed, torn>>

Worker(w) ==
    \/ TalkMaster(w) \/ TalkRead(w) \/ CheckSize(w) \/ LockPush(w) \/ Push(w) \/ TalkSync(w)

-----------------------------------------------------------------------------
(***************************************************************************)
(* asyncReqThread                                                          *)
(***************************************************************************)
\* Mutant: size() > 1.
Poll_Two ==
    /\ apc = "poll"
    /\ \E size \in SizeSeen : size > 1
    /\ apc' = "lock"
    /\ UNCHANGED <<worker, master, queues, lock, backend_buf, hosts, torn>>

\* The queue looks not empty.
Poll ==
    /\ apc = "poll"
    /\ \E size \in SizeSeen : size > 0
    /\ apc' = "lock"
    /\ UNCHANGED <<worker, master, queues, lock, backend_buf, hosts, torn>>

\* The queue looks empty: usleep, and the inner loop has nothing to do.
PollEmpty ==
    /\ apc = "poll"
    /\ 0 \in SizeSeen
    /\ UNCHANGED vars

LockSwap ==
    /\ apc = "lock"
    /\ lock = NOBODY
    /\ lock' = ASYNC
    /\ apc' = "swap"
    /\ UNCHANGED <<worker, master, queues, backend_buf, hosts, torn>>

Swap ==
    /\ apc = "swap"
    /\ async_req' = async_req_tmp
    /\ async_req_tmp' = async_req
    /\ lock' = NOBODY
    /\ apc' = "drain"
    /\ UNCHANGED <<worker, master, backend_buf, hosts, torn>>

\* Mutant: backend_buf_len is not reset after the contact.
talkToBackendAsync_Keep ==
    /\ apc = "drain"
    /\ async_req_tmp # << >>
    /\ LET a == Head(async_req_tmp)
       IN  \E t \in Talk(Append(backend_buf, a)) :
              /\ backup' = [backup EXCEPT ![Owner[a.key]] = @ \o t.got]
              /\ handed' = [handed EXCEPT ![Owner[a.key]] = @ \o t.got]
              /\ backend_buf' = Append(backend_buf, a)
    /\ async_req_tmp' = Tail(async_req_tmp)
    /\ apc' \in {"drain"} \cup (IF MayFail THEN {"stuck"} ELSE {})
    /\ UNCHANGED <<worker, master, async_req, lock, torn>>

\* talkToBackendAsync for the first item, then pop.  The loop of writeToBackend
\* has no bound: as long as connections can be had and break again, or send()
\* blocks (it has no timeout), the thread never comes back; the item it has in
\* hand then counts as taken out.
talkToBackendAsync ==
    /\ apc = "drain"
    /\ async_req_tmp # << >>
    /\ LET a == Head(async_req_tmp)
       IN  \E t \in Talk(Append(backend_buf, a)) :
              /\ backup' = [backup EXCEPT ![Owner[a.key]] = @ \o t.got]
              /\ handed' = [handed EXCEPT ![Owner[a.key]] = @ \o t.got]
              /\ backend_buf' = t.left
    /\ async_req_tmp' = Tail(async_req_tmp)
    /\ apc' \in {"drain"} \cup (IF MayFail THEN {"stuck"} ELSE {})
    /\ UNCHANGED <<worker, master, async_req, lock, torn>>

\* Mutant: one item is taken out per round ("if" for "while").
Drained_If ==
    /\ apc = "drain"
    /\ apc' = "poll"
    /\ UNCHANGED <<worker, master, queues, lock, backend_buf, hosts, torn>>

Drained ==
    /\ apc = "drain"
    /\ async_req_tmp = << >>
    /\ apc' = "poll"
    /\ UNCHANGED <<worker, master, queues, lock, backend_buf, hosts, torn>>

\* Still in writeToBackend.
Stuck ==
    /\ apc = "stuck"
    /\ UNCHANGED vars

asyncReqThread ==
    Poll \/ PollEmpty \/ LockSwap \/ Swap \/ talkToBackendAsync \/ Stuck \/ Drained

Next == (\E w \in Workers : Worker(w)) \/ asyncReqThread

\* A thread that may run does, and one that waits for a mutex nobody uses any
\* more gets it.  Nothing is assumed of contacts with backends (a worker may
\* stay in one for good, and asyncReqThread too: "stuck"), nor of a size()
\* read while somebody holds the lock.
Fairness == /\ WF_vars(Poll /\ lock = NOBODY)
            /\ WF_vars(LockSwap \/ Swap \/ talkToBackendAsync \/ Drained)
            /\ \A w \in Workers : WF_vars(LockPush(w) \/ Push(w))

Spec == Init /\ [][Next]_vars /\ Fairness

-----------------------------------------------------------------------------
(***************************************************************************)
(* Properties                                                              *)
(***************************************************************************)
WorkerPC == {"idle", "check", "build", "push", "sync"}
AsyncPC == {"poll", "lock", "swap", "drain", "stuck"}

\* Type invariant.  async_req_lock is held exactly inside its two critical
\* sections, and asyncReqThread locks only with an empty local queue.
TypeOK ==
    /\ worker \in [Workers -> [pc : WorkerPC, n : Nat, key : Keys, buf : Seq(Write)]]
    /\ master \in Seq(Write)
    /\ async_req \in Seq(Write) /\ async_req_tmp \in Seq(Write) /\ backend_buf \in Seq(Write)
    /\ apc \in AsyncPC
    /\ backup \in [Backups -> Seq(Write)] /\ handed \in [Backups -> Seq(Write)]
    /\ torn \in BOOLEAN
    /\ \A w \in Workers : worker[w].pc = "push" <=> lock = w
    /\ apc = "swap" <=> lock = ASYNC
    /\ apc \notin {"drain", "stuck"} => async_req_tmp = << >>

\* The length test of readEvent is made without the lock, so several workers
\* may pass it together; until one of them acts on a torn size, the queue exceeds
\* async_size by no more than the number of the other workers.
QueueBounded ==
    ~ torn => Len(async_req) <= async_size + Cardinality(Workers) - 1

\* One write comes before another, as far as the program orders them.
Before(a, b) == a.w = b.w => a.n < b.n
Ordered(s) == \A i, j \in 1 .. Len(s) : i < j => Before(s[i], s[j])

\* asyncReqThread brings each backup host the writes of a worker in the order
\* in which the worker made them and no write twice, through the queue, its
\* swap, failed connections, broken sends and what they leave in backend_buf.
BackupInOrder == \A h \in Backups : Ordered(handed[h])

Repl == INSTANCE Replication WITH
           chan <- backend_buf \o async_req_tmp \o async_req,
           received <- handed

\* Refinement: the queue, its swap, the local queue and what failed contacts
\* leave in backend_buf together are one channel that loses writes but neither
\* repeats nor reorders them.
ImplementsReplication == Repl!Spec

\* Nothing is under way.
Quiet == /\ \A w \in Workers : worker[w].pc = "idle"
         /\ apc = "poll" /\ async_req = << >>

\* README: the backup group is a copy of the data: once every write has been
\* handed over, the last write to a key is the same at the master and at the
\* backup.
BackupConverges ==
    Quiet => \A k \in Keys :
        LET of(s) == SelectSeq(s, LAMBDA a : a.key = k)
            m == of(master)
            b == of(backup[Owner[k]])
        IN  m # << >> => b # << >> /\ b[Len(b)] = m[Len(m)]

\* README: keys are distributed over a group by consistent hashing: a backup
\* host receives only writes to its own keys.
OwnKeysOnly ==
    \A h \in Backups : \A i \in 1 .. Len(backup[h]) : Owner[backup[h][i].key] = h

Queued(a) == \/ \E i \in 1 .. Len(async_req) : async_req[i] = a
             \/ \E i \in 1 .. Len(async_req_tmp) : async_req_tmp[i] = a

\* Liveness: asyncReqThread hands every write that was queued to
\* talkToBackendAsync, whatever torn sizes it has polled, unless a contact with
\* a backup never ends.
QueueDrains ==
    \A w \in Workers : \A n \in 1 .. MaxWrites[w], k \in Keys :
        LET a == [w |-> w, n |-> n, key |-> k]
        IN  Queued(a) ~> ~ Queued(a) \/ apc = "stuck"
=============================================================================

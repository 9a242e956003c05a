------------------------------ MODULE Failover ------------------------------
(***************************************************************************)
(* Failover of backends (src/src/kvproxy.cpp): the health-check thread     *)
(* that takes failing hosts out of the hash rings and puts recovered ones  *)
(* back, the failure counters, the worker threads that look keys up in the *)
(* same rings and count failures, and asyncReqThread, which contacts the   *)
(* backups and counts too, all without a lock between them.                *)
(*                                                                         *)
(* A ConsistentHash object holds two std::map's, _hash and _hash_tmp.      *)
(* delHost and createVNodes copy _hash into _hash_tmp, change the copy and *)
(* swap the two.  std::swap exchanges the trees, not the nodes, so an      *)
(* iterator stays with the tree it was taken from.  tree[g][i] are the two *)
(* trees of group g and live[g] is the one _hash refers to.                *)
(***************************************************************************)
EXTENDS ConsistentHash, Sequences

CONSTANTS
    Conf,                \* Conf[g]: alias |-> (index, weight) of group g
    Workers,             \* the libevent worker threads
    Keys,                \* CRC-32 values of the keys the clients use
    failover_threshold,  \* consecutive failures that take a host out
    st_limit,            \* ceiling of the st_fail counter (ST_LIMIT)
    async_size,          \* updates of the backups that may wait in async_req
    FdLimit,             \* descriptors failed connects can use up (bound)
    MayFail,             \* hosts the environment may stop and restart
    MaxContFail,         \* bound: no failure is injected at this count
    MaxSwaps             \* bound on the count of swaps seen by one lookup

GroupName == {"hosts", "hosts_read", "hosts_backup"}

ASSUME ConfAssumption ==
    /\ Conf \in [GroupName -> UNION {[H -> Info] : H \in SUBSET Alias}]
    /\ DOMAIN Conf["hosts"] # {}
ASSUME KeysAssumption == Keys \subseteq Nat
ASSUME WorkersAssumption == IsFiniteSet(Workers)

\* The thread that contacts the backups, besides the workers.
ASYNC == "asyncReqThread"
Threads == Workers \cup {ASYNC}
ASSUME AsyncAssumption == ASYNC \notin Workers

ASSUME LimitAssumption == /\ failover_threshold \in Nat \ {0}
                          /\ st_limit \in Nat \ {0}
                          /\ async_size \in Nat
                          /\ FdLimit \in Nat
                          /\ MaxContFail \in Nat
                          /\ MaxSwaps \in Nat

VARIABLES
    tree, live,          \* per group: the two maps and which one is _hash
    host_offline,        \* alias |-> taken out of the rings
    st_fail,             \* alias |-> failures since the start
    st_cont_fail,        \* alias |-> failures since the last success
    health,              \* control state of checkHealthThread
    worker,              \* control state of each worker and of asyncReqThread
    async_req,           \* the backups that queued updates are for
    leaked,              \* sockets of failed connects, which nobody closes
    up                   \* environment: the backend accepts connections

vars == <<tree, live, host_offline, st_fail, st_cont_fail, health, worker,
          async_req, leaked, up>>
rings == <<tree, live>>
outside == <<async_req, leaked, up>>
counters == <<st_fail, st_cont_fail>>

Member(g) == DOMAIN Conf[g]
Hosts == UNION {Member(g) : g \in GroupName}
Ring(g) == tree[g][live[g]]

\* host_infos: one entry per alias for all groups; setHosts is called for
\* hosts, hosts_backup and hosts_read in this order and overwrites.
host_infos(h) == IF h \in Member("hosts_read") THEN Conf["hosts_read"][h]
                 ELSE IF h \in Member("hosts_backup") THEN Conf["hosts_backup"][h]
                 ELSE Conf["hosts"][h]

\* The order in which failover() visits the groups a host belongs to.
GroupsOf(h) == {g \in GroupName : h \in Member(g)}
FirstGroup(G) == IF "hosts" \in G THEN "hosts"
                 ELSE IF "hosts_read" \in G THEN "hosts_read"
                 ELSE "hosts_backup"

-----------------------------------------------------------------------------
\* An iterator whose node was rewritten or freed under it.
DANGLING == -2

IdleWorker == [pc |-> "idle", update |-> FALSE, key |-> 0, group |-> "hosts",
               tree |-> 0, it |-> END, host |-> 0, talkto |-> << >>, push |-> 0, val |-> 0,
               seen |-> {}, swaps |-> 0, wild |-> FALSE]

Sleeping == [pc |-> "sleep", todo |-> {}, host |-> 0, left |-> {}, ready |-> FALSE]

Init ==
    /\ tree = [g \in GroupName |->
                 [i \in {0, 1} |-> IF i = 0 THEN createVNodes(EmptyRing, Conf[g])
                                   ELSE EmptyRing]]
    /\ live = [g \in GroupName |-> 0]
    /\ host_offline = [h \in Hosts |-> FALSE]
    /\ st_fail = [h \in Hosts |-> 0]
    /\ st_cont_fail = [h \in Hosts |-> 0]
    /\ health = Sleeping
    /\ worker = [w \in Threads |-> IdleWorker]
    /\ async_req = << >>
    /\ leaked = 0
    /\ up = [h \in Hosts |-> TRUE]

-----------------------------------------------------------------------------
(***************************************************************************)
(* checkHealthThread                                                       *)
(***************************************************************************)

\* Mutant: st_cont_fail == failover_threshold, as if every count were seen.
Wake_Equal ==
    /\ health.pc = "sleep"
    /\ health' = [health EXCEPT !.pc = "fail",
                                !.todo = {h \in Hosts : st_cont_fail[h] = failover_threshold}]
    /\ UNCHANGED <<rings, host_offline, counters, worker, outside>>

\* Wake up and copy st_cont_fail; todo is what the loop over the copy will
\* pass to failover(_, true), in alias order.
Wake ==
    /\ health.pc = "sleep"
    /\ health' = [health EXCEPT !.pc = "fail",
                                !.todo = {h \in Hosts : st_cont_fail[h] >= failover_threshold}]
    /\ UNCHANGED <<rings, host_offline, counters, worker, outside>>

\* Mutant: hash_backup is forgotten when a host is taken out.
FailoverDel_NotBackup ==
    /\ health.pc = "fail"
    /\ health.todo # {}
    /\ LET h == Least(health.todo)
       IN  health' = IF host_offline[h]
                     THEN [health EXCEPT !.todo = @ \ {h}]
                     ELSE [health EXCEPT !.pc = "del", !.host = h,
                                         !.left = GroupsOf(h) \ {"hosts_backup"}]
    /\ UNCHANGED <<rings, host_offline, counters, worker, outside>>

\* failover(h, true): returns at once when h is already offline.
FailoverDel ==
    /\ health.pc = "fail"
    /\ health.todo # {}
    /\ LET h == Least(health.todo)
       IN  health' = IF host_offline[h]
                     THEN [health EXCEPT !.todo = @ \ {h}]
                     ELSE [health EXCEPT !.pc = "del", !.host = h, !.left = GroupsOf(h)]
    /\ UNCHANGED <<rings, host_offline, counters, worker, outside>>

\* The rings the current mutation can leave in _hash_tmp.
Mutated(ring) == IF health.pc = "del" THEN delHost(ring, health.host)
                 ELSE {addHost(ring, health.host, host_infos(health.host))}

\* _hash_tmp = _hash and the loop that changes _hash_tmp.  Iterators that
\* workers still hold into the old contents of that tree dangle from here on.
RewriteTmp ==
    /\ health.pc \in {"del", "add"}
    /\ health.left # {}
    /\ ~ health.ready
    /\ LET g == FirstGroup(health.left)
           tmp == 1 - live[g]
       IN  /\ \E r \in Mutated(Ring(g)) : tree' = [tree EXCEPT ![g][tmp] = r]
           /\ worker' = [w \in Threads |->
                            IF /\ worker[w].pc \in {"size", "begin", "deref"}
                               /\ worker[w].group = g
                               /\ worker[w].tree = tmp
                               /\ worker[w].it # END
                            THEN [worker[w] EXCEPT !.it = DANGLING] ELSE worker[w]]
    /\ health' = [health EXCEPT !.ready = TRUE]
    /\ UNCHANGED <<live, host_offline, counters, outside>>

\* swap(_hash_tmp, _hash).  seen and swaps record, for each lookup that is
\* under way in this ring, what an atomic find would now answer.
SwapTrees ==
    /\ health.ready
    /\ LET g == FirstGroup(health.left)
       IN  /\ live' = [live EXCEPT ![g] = 1 - @]
           /\ health' = [health EXCEPT !.ready = FALSE, !.left = @ \ {g}]
           /\ worker' = [w \in Threads |->
                IF worker[w].pc \in {"size", "begin", "deref"} /\ worker[w].group = g
                THEN [worker[w] EXCEPT
                        !.seen = @ \cup {find(tree[g][1 - live[g]], worker[w].key)},
                        !.swaps = IF @ < MaxSwaps THEN @ + 1 ELSE @]
                ELSE worker[w]]
    /\ UNCHANGED <<tree, host_offline, counters, outside>>

\* The end of failover(h, true).
MarkOffline ==
    /\ health.pc = "del"
    /\ health.left = {}
    /\ host_offline' = [host_offline EXCEPT ![health.host] = TRUE]
    /\ health' = [health EXCEPT !.pc = "fail", !.todo = @ \ {health.host}, !.host = 0]
    /\ UNCHANGED <<rings, counters, worker, outside>>

\* Mutant: the second loop skips the offline hosts instead of the others.
StartProbe_Online ==
    /\ health.pc = "fail"
    /\ health.todo = {}
    /\ health' = [health EXCEPT !.pc = "probe", !.todo = {h \in Hosts : ~ host_offline[h]}]
    /\ UNCHANGED <<rings, host_offline, counters, worker, outside>>

\* The first loop is over: copy host_offline for the second.
StartProbe ==
    /\ health.pc = "fail"
    /\ health.todo = {}
    /\ health' = [health EXCEPT !.pc = "probe", !.todo = {h \in Hosts : host_offline[h]}]
    /\ UNCHANGED <<rings, host_offline, counters, worker, outside>>

\* createConnection: socket() fails when no descriptor is left; a connect()
\* that is refused returns without closing the socket.
Connects(h) == up[h] /\ leaked < FdLimit
LeakedBy(h) == IF ~ up[h] /\ leaked < FdLimit THEN leaked + 1 ELSE leaked

\* Mutant: hash_backup is forgotten when a host is put back.
Probe_NotBackup ==
    /\ health.pc = "probe"
    /\ health.todo # {}
    /\ LET h == Least(health.todo)
       IN  /\ health' = IF ~ Connects(h) THEN [health EXCEPT !.todo = @ \ {h}]
                        ELSE [health EXCEPT !.pc = "add", !.host = h,
                                            !.left = GroupsOf(h) \ {"hosts_backup"}]
           /\ leaked' = LeakedBy(h)
    /\ UNCHANGED <<rings, host_offline, counters, worker, async_req, up>>

\* createConnection to the next offline host and, when it is accepted,
\* failover(h, false), which returns at once when h is online.
Probe ==
    /\ health.pc = "probe"
    /\ health.todo # {}
    /\ LET h == Least(health.todo)
       IN  /\ health' = IF ~ Connects(h) THEN [health EXCEPT !.todo = @ \ {h}]
                        ELSE [health EXCEPT !.pc = "add", !.host = h,
                                !.left = IF host_offline[h] THEN GroupsOf(h) ELSE {}]
           /\ leaked' = LeakedBy(h)
    /\ UNCHANGED <<rings, host_offline, counters, worker, async_req, up>>

\* The end of failover(h, false).
MarkOnline ==
    /\ health.pc = "add"
    /\ health.left = {}
    /\ host_offline' = [host_offline EXCEPT ![health.host] = FALSE]
    /\ health' = [health EXCEPT !.pc = "reset"]
    /\ UNCHANGED <<rings, counters, worker, outside>>

\* countFail(false, h) and closeConnection.
ResetCount ==
    /\ health.pc = "reset"
    /\ st_cont_fail' = [st_cont_fail EXCEPT ![health.host] = 0]
    /\ health' = [health EXCEPT !.pc = "probe", !.todo = @ \ {health.host}, !.host = 0]
    /\ UNCHANGED <<rings, host_offline, st_fail, worker, outside>>

\* The second loop is over: back to sleep(failover_interval).
Sleep ==
    /\ health.pc = "probe"
    /\ health.todo = {}
    /\ health' = [health EXCEPT !.pc = "sleep"]
    /\ UNCHANGED <<rings, host_offline, counters, worker, outside>>

checkHealthThread ==
    \/ Wake \/ FailoverDel \/ RewriteTmp \/ SwapTrees \/ MarkOffline
    \/ StartProbe \/ Probe \/ MarkOnline \/ ResetCount \/ Sleep

-----------------------------------------------------------------------------
(***************************************************************************)
(* A worker thread: createReqGroup's lookups for one request, then         *)
(* talkToBackend's contact with the hosts found and countFail.             *)
(***************************************************************************)
Step(w, rec) == worker' = [worker EXCEPT ![w] = rec]

\* A request is parsed; a read goes to hash_read when that is not empty.
Request(w) ==
    /\ worker[w].pc = "idle"
    /\ \E update \in BOOLEAN, k \in Keys :
          Step(w, [IdleWorker EXCEPT !.pc = "find", !.update = update, !.key = k,
                     !.group = IF ~ update /\ DOMAIN Ring("hosts_read") # {}
                               THEN "hosts_read" ELSE "hosts"])
    /\ UNCHANGED <<rings, host_offline, counters, health, outside>>

\* find: lower_bound in the tree that is live now.
FindLowerBound(w) ==
    /\ worker[w].pc = "find"
    /\ LET r == worker[w]
           ring == Ring(r.group)
       IN  Step(w, [r EXCEPT !.pc = "size", !.tree = live[r.group],
                             !.it = lower_bound(ring, r.key),
                             !.seen = {find(ring, r.key)}, !.swaps = 0])
    /\ UNCHANGED <<rings, host_offline, counters, health, outside>>

\* Mutant: the test of it == _hash.end() is missing.
FindSize_NoEnd(w) ==
    /\ worker[w].pc = "size"
    /\ LET r == worker[w]
       IN  Step(w, IF DOMAIN Ring(r.group) = {}
                   THEN [r EXCEPT !.pc = "got", !.host = 0]
                   ELSE [r EXCEPT !.pc = "deref"])
    /\ UNCHANGED <<rings, host_offline, counters, health, outside>>

\* Mutant: the test of _hash.size() is missing.
FindSize_NoSize(w) ==
    /\ worker[w].pc = "size"
    /\ Step(w, [worker[w] EXCEPT !.pc = IF worker[w].it = END THEN "begin" ELSE "deref"])
    /\ UNCHANGED <<rings, host_offline, counters, health, outside>>

\* find: the test of _hash.size(), then of it == _hash.end(), which is the
\* header of the map object and survives a swap.
FindSize(w) ==
    /\ worker[w].pc = "size"
    /\ LET r == worker[w]
       IN  Step(w, IF DOMAIN Ring(r.group) = {}
                   THEN [r EXCEPT !.pc = "got", !.host = 0]
                   ELSE [r EXCEPT !.pc = IF r.it = END THEN "begin" ELSE "deref"])
    /\ UNCHANGED <<rings, host_offline, counters, health, outside>>

\* Mutant: the wrap-around goes to the last node, not to the first.
FindBegin_Last(w) ==
    /\ worker[w].pc = "begin"
    /\ LET r == worker[w]
           D == DOMAIN Ring(r.group)
       IN  Step(w, [r EXCEPT !.pc = "deref", !.tree = live[r.group],
                             !.it = IF D = {} THEN DANGLING
                                    ELSE CHOOSE p \in D : \A q \in D : q <= p])
    /\ UNCHANGED <<rings, host_offline, counters, health, outside>>

\* find: it = _hash.begin(); in a ring emptied meanwhile that is end().
FindBegin(w) ==
    /\ worker[w].pc = "begin"
    /\ LET r == worker[w]
           ring == Ring(r.group)
       IN  Step(w, [r EXCEPT !.pc = "deref", !.tree = live[r.group],
                             !.it = IF DOMAIN ring = {} THEN DANGLING ELSE begin(ring)])
    /\ UNCHANGED <<rings, host_offline, counters, health, outside>>

\* find: return it->second.  Through a dangling iterator the worker reads a
\* node that now belongs to some other host, or memory that is no node, and
\* the process dies.
FindDeref(w) ==
    /\ worker[w].pc = "deref"
    /\ LET r == worker[w]
       IN  IF r.it # DANGLING
           THEN Step(w, [r EXCEPT !.pc = "got", !.host = tree[r.group][r.tree][r.it]])
           ELSE \/ \E h \in Hosts : Step(w, [r EXCEPT !.pc = "got", !.host = h, !.wild = TRUE])
                \/ Step(w, [r EXCEPT !.pc = "crash", !.wild = TRUE])
    /\ UNCHANGED <<rings, host_offline, counters, health, outside>>

\* createReqGroup after find: host 0 skips the rest of the item (for the
\* first lookup that is the whole request); an update is looked up in
\* hash_backup too when that ring is not empty.  The worker itself contacts the
\* backup of a key that begins with sync_str; any other is for asyncReqThread.
Found(w) ==
    /\ worker[w].pc = "got"
    /\ LET r == worker[w]
           found == IF r.host = 0 THEN r.talkto ELSE Append(r.talkto, r.host)
           next == [IdleWorker EXCEPT !.talkto = found]
       IN  \/ Step(w, IF /\ r.update /\ r.group = "hosts" /\ r.host # 0
                         /\ DOMAIN Ring("hosts_backup") # {}
                      THEN [next EXCEPT !.pc = "find", !.update = TRUE, !.key = r.key,
                                        !.group = "hosts_backup"]
                      ELSE [next EXCEPT !.pc = IF found = << >> THEN "idle" ELSE "talk"])
           \/ /\ r.group = "hosts_backup" /\ r.host # 0
              /\ Step(w, [IdleWorker EXCEPT !.pc = "talk", !.talkto = r.talkto,
                                            !.push = r.host])
    /\ UNCHANGED <<rings, host_offline, counters, health, outside>>

\* What is left to do once one host has been dealt with.
Rest(r) == IF Len(r.talkto) > 1
           THEN [IdleWorker EXCEPT !.pc = "talk", !.talkto = Tail(r.talkto), !.push = r.push]
           ELSE IF r.push # 0 THEN [IdleWorker EXCEPT !.pc = "push", !.push = r.push]
           ELSE IdleWorker

\* The update for an asynchronous backup is queued, or dropped when async_req
\* is full.  (The queue, its lock and its races are in module AsyncReq.)
Push(w) ==
    /\ worker[w].pc = "push"
    /\ async_req' = IF Len(async_req) < async_size THEN Append(async_req, worker[w].push)
                    ELSE async_req
    /\ Step(w, IdleWorker)
    /\ UNCHANGED <<rings, host_offline, counters, health, leaked, up>>

\* asyncReqThread takes the next queued update to its backup.
TakeAsync ==
    /\ worker[ASYNC].pc = "idle"
    /\ async_req # << >>
    /\ Step(ASYNC, [IdleWorker EXCEPT !.pc = "talk", !.talkto = <<Head(async_req)>>])
    /\ async_req' = Tail(async_req)
    /\ UNCHANGED <<rings, host_offline, counters, health, leaked, up>>

\* The host answered: countFail(false, h).
TalkOk(w) ==
    /\ worker[w].pc = "talk"
    /\ LET h == Head(worker[w].talkto)
       IN  /\ up[h]
           /\ st_cont_fail' = [st_cont_fail EXCEPT ![h] = 0]
    /\ Step(w, Rest(worker[w]))
    /\ UNCHANGED <<rings, host_offline, st_fail, health, outside>>

\* Mutant: st_fail <= st_limit.
TalkFail_AtMost(w) ==
    /\ worker[w].pc = "talk"
    /\ LET h == Head(worker[w].talkto)
       IN  /\ st_cont_fail[h] < MaxContFail
           /\ leaked' \in {leaked, LeakedBy(h)}
           /\ Step(w, IF st_fail[h] <= st_limit THEN [worker[w] EXCEPT !.pc = "fail++"]
                      ELSE Rest(worker[w]))
    /\ UNCHANGED <<rings, host_offline, counters, health, async_req, up>>

\* No connection (createConnection leaks its socket then, too) or no answer in
\* time: countFail(true, h) tests st_fail.
TalkFail(w) ==
    /\ worker[w].pc = "talk"
    /\ LET h == Head(worker[w].talkto)
       IN  /\ st_cont_fail[h] < MaxContFail
           /\ leaked' \in {leaked, LeakedBy(h)}
           /\ Step(w, IF st_fail[h] < st_limit THEN [worker[w] EXCEPT !.pc = "fail++"]
                      ELSE Rest(worker[w]))
    /\ UNCHANGED <<rings, host_offline, counters, health, async_req, up>>

\* st_fail[h]++ and st_cont_fail[h]++ are each a read and a later write of a
\* plain uint32_t that other threads read and write as well.
LoadFail(w) ==
    /\ worker[w].pc = "fail++"
    /\ Step(w, [worker[w] EXCEPT !.pc = "fail=", !.val = st_fail[Head(worker[w].talkto)]])
    /\ UNCHANGED <<rings, host_offline, counters, health, outside>>

StoreFail(w) ==
    /\ worker[w].pc = "fail="
    /\ st_fail' = [st_fail EXCEPT ![Head(worker[w].talkto)] = worker[w].val + 1]
    /\ Step(w, [worker[w] EXCEPT !.pc = "cont++"])
    /\ UNCHANGED <<rings, host_offline, st_cont_fail, health, outside>>

LoadCont(w) ==
    /\ worker[w].pc = "cont++"
    /\ Step(w, [worker[w] EXCEPT !.pc = "cont=", !.val = st_cont_fail[Head(worker[w].talkto)]])
    /\ UNCHANGED <<rings, host_offline, counters, health, outside>>

StoreCont(w) ==
    /\ worker[w].pc = "cont="
    /\ st_cont_fail' = [st_cont_fail EXCEPT ![Head(worker[w].talkto)] = worker[w].val + 1]
    /\ Step(w, Rest(worker[w]))
    /\ UNCHANGED <<rings, host_offline, st_fail, health, outside>>

\* talkToBackend and talkToBackendAsync.
Talk(w) ==
    \/ TalkOk(w) \/ TalkFail(w)
    \/ LoadFail(w) \/ StoreFail(w) \/ LoadCont(w) \/ StoreCont(w)

Worker(w) ==
    \/ Request(w) \/ FindLowerBound(w) \/ FindSize(w) \/ FindBegin(w)
    \/ FindDeref(w) \/ Found(w) \/ Talk(w) \/ Push(w)

asyncReqThread == TakeAsync \/ Talk(ASYNC)

-----------------------------------------------------------------------------
\* Environment: a backend stops or comes back.
Toggle(h) ==
    /\ h \in MayFail
    /\ up' = [up EXCEPT ![h] = ~ @]
    /\ UNCHANGED <<rings, host_offline, counters, health, worker, async_req, leaked>>

\* No thread of the process has crashed.
Running == \A w \in Workers : worker[w].pc # "crash"

Next ==
    \/ /\ Running
       /\ \/ checkHealthThread
          \/ \E w \in Workers : Worker(w)
          \/ asyncReqThread
          \/ \E h \in Hosts : Toggle(h)
    \/ ~ Running /\ UNCHANGED vars

\* sleep() returns and the thread runs on: it takes no lock but trylock's and
\* its only blocking call is connect(), which the kernel ends by itself.
Fairness == WF_vars(Running /\ checkHealthThread)

Spec == Init /\ [][Next]_vars /\ Fairness
-----------------------------------------------------------------------------
(***************************************************************************)
(* Properties                                                              *)
(***************************************************************************)

HealthPC == {"sleep", "fail", "del", "probe", "add", "reset"}
WorkerPC == {"idle", "find", "size", "begin", "deref", "got", "talk",
             "fail++", "fail=", "cont++", "cont=", "push", "crash"}

WorkerRecord ==
    [pc : WorkerPC, update : BOOLEAN, key : Nat, group : GroupName,
     tree : {0, 1}, it : Int, host : Hosts \cup {0}, talkto : Seq(Hosts),
     push : Hosts \cup {0}, val : Nat, seen : SUBSET (Hosts \cup {0}), swaps : Nat, wild : BOOLEAN]

RingTypes ==
    /\ tree = [g \in GroupName |-> [i \in {0, 1} |-> tree[g][i]]]
    /\ \A g \in GroupName, i \in {0, 1} :
          IsRing(tree[g][i]) /\ tree[g][i] \in [DOMAIN tree[g][i] -> Member(g)]
    /\ live \in [GroupName -> {0, 1}]

HostTypes ==
    /\ host_offline \in [Hosts -> BOOLEAN]
    /\ st_fail \in [Hosts -> Nat]
    /\ st_cont_fail \in [Hosts -> Nat]
    /\ up \in [Hosts -> BOOLEAN]

OutsideTypes ==
    /\ async_req \in Seq(Hosts)
    /\ leaked \in 0 .. FdLimit

HealthTypes ==
    /\ health \in [pc : HealthPC, todo : SUBSET Hosts, host : Hosts \cup {0},
                   left : SUBSET GroupName, ready : BOOLEAN]
    /\ health.ready => health.pc \in {"del", "add"} /\ health.left # {}
    /\ health.pc \in {"del", "add", "reset"} => health.host \in health.todo
    /\ health.pc \in {"del", "add"} => health.left \subseteq GroupsOf(health.host)

\* An iterator that is neither end() nor dangling is at a node of its tree.
IteratorValid(r) ==
    r.pc \in {"size", "deref"} =>
        \/ r.it = DANGLING
        \/ r.it = END /\ r.pc = "size"
        \/ r.it \in DOMAIN tree[r.group][r.tree]

WorkerTypes ==
    /\ worker \in [Threads -> WorkerRecord]
    /\ \A w \in Threads :
          /\ IteratorValid(worker[w])
          /\ worker[w].pc \in {"talk", "fail++", "fail=", "cont++", "cont="} =>
                worker[w].talkto # << >>
          /\ worker[w].group = "hosts_backup" => worker[w].talkto # << >>
          /\ worker[w].pc = "push" => worker[w].push \in Hosts

\* Type invariant: every variable keeps its type.  Both trees of a ring always
\* map CRC points to hosts of its group, find dereferences nodes only, and
\* failover() visits only groups that the host is a member of.
TypeOK == RingTypes /\ HostTypes /\ HealthTypes /\ WorkerTypes /\ OutsideTypes

\* Whether Ring(g) should hold h: what host_offline says, except while
\* failover() is working its way through the groups of h.
Expected(g, h) ==
    IF health.pc = "del" /\ health.host = h THEN g \in health.left
    ELSE IF health.pc = "add" /\ health.host = h THEN g \notin health.left
    ELSE ~ host_offline[h]

\* Through any sequence of failovers and recoveries (failover, delHost,
\* addHost), a host that is online is in each ring of its groups with exactly
\* the virtual nodes its configuration gives it: nobody else's removal or
\* return takes a point away from it.
OnlineHostsComplete ==
    \A g \in GroupName : \A h \in Member(g) :
        Expected(g, h) => PointsOf(Ring(g), h) = VNodes(Conf[g][h])

\* src/README.md:11: a host that failover(h, true) has taken out owns no point
\* of any ring, so no key is routed to it.
OfflineHostsAbsent ==
    \A g \in GroupName : \A h \in Member(g) :
        ~ Expected(g, h) => PointsOf(Ring(g), h) = {}

\* Where a key goes when every host of its group is online.
Home(g, k) == find(createVNodes(EmptyRing, Conf[g]), k)

\* Whatever has been taken out and put back, and whatever delHost left behind,
\* a key whose own host is online in its group is looked up at that host: a
\* key is sent elsewhere only while its own host is out.
KeysStayHome ==
    \A g \in GroupName, k \in Keys :
        Home(g, k) # 0 /\ Expected(g, Home(g, k)) => find(Ring(g), k) = Home(g, k)

\* A lookup that overlaps at most one swap of its ring, and does not read
\* freed memory, answers what an atomic find would have answered at some
\* moment between its start and its end, although lower_bound, size, end and
\* begin are evaluated on a map that changes under them (find, hash.cpp).
LookupLinearizable ==
    \A w \in Workers :
        worker[w].pc = "got" /\ ~ worker[w].wild /\ worker[w].swaps <= 1
            => worker[w].host \in worker[w].seen

\* Double buffering protects a reader: its iterator dangles only if _hash was
\* swapped during the lookup, that is when the tree being rewritten (or found
\* empty by begin) is no longer the one the lookup began in.
DanglingOnlyAfterSwap ==
    \A w \in Workers : worker[w].it = DANGLING => worker[w].swaps >= 1

\* The threads that may count failures: asyncReqThread works for backups only.
CountingThreads == IF Member("hosts_backup") = {} THEN Workers ELSE Threads

\* The guard st_fail < st_limit of countFail is a check-then-act on a shared
\* counter: two threads that pass the check together overshoot the limit, and
\* by no more than one.  (With three threads stale writes can lower st_fail
\* again and again, and the overshoot grows with st_limit.)
FailCountBounded ==
    Cardinality(CountingThreads) = 2 => \A h \in Hosts : st_fail[h] <= st_limit + 1

\* src/README.md:105: "if the number of failures exceeds the given threshold,
\* the backend is taken out".
OfflineOnlyAboveThreshold ==
    \A h \in Hosts : host_offline[h] => st_fail[h] > failover_threshold

\* Conditions on the configuration under which the rings are determined by
\* the set of online hosts: a host that is in several groups has the same id
\* and weight in each (host_infos keeps only one pair per host), and no CRC-32
\* value is a virtual node of two hosts of one group.
SameInfo == \A g \in GroupName : \A h \in Member(g) : Conf[g][h] = host_infos(h)
DistinctPoints ==
    \A g \in GroupName : \A a, b \in Member(g) :
        a # b => VNodes(Conf[g][a]) \cap VNodes(Conf[g][b]) = {}

\* Consistent hashing: when failover() changes a ring, only keys of the host
\* that leaves it, or keys the returning host takes over, change hands.
MinimalDisruption ==
    [][\A g \in GroupName, k \in Keys :
          LET old == find(Ring(g), k)
              new == find(Ring(g)', k)
          IN  old # new => IF health.pc = "del" THEN old = health.host
                           ELSE new = health.host]_rings

\* The members of a group that are in its ring, and the order of the groups.
Online(g) == {h \in Member(g) : Expected(g, h)}
Rank == [g \in GroupName |-> IF g = "hosts" THEN 1 ELSE IF g = "hosts_read" THEN 2 ELSE 3]
Points == [g \in GroupName |-> [h \in Member(g) |-> VNodes(Conf[g][h])]]

R == INSTANCE Routing WITH
        Rank <- Rank,
        Points <- Points,
        online <- [g \in GroupName |-> Online(g)],
        owned <- [g \in GroupName |-> [h \in Member(g) |-> PointsOf(Ring(g), h)]],
        route <- [g \in GroupName |-> [k \in Keys |-> find(Ring(g), k)]]

\* Refinement: the two trees, their swaps and the walk of failover() through the
\* groups implement module Routing: at every moment find on a ring gives the
\* host that consistent hashing gives over all the points of the online members
\* and what delHost has left of the others'.
ImplementsRouting == R!Spec

\* Liveness: a host with more consecutive failures than the threshold is taken
\* out by checkHealthThread unless an answer resets the count first.
FailingHostTakenOut ==
    \A h \in Hosts : st_cont_fail[h] > failover_threshold ~>
        host_offline[h] \/ st_cont_fail[h] < failover_threshold \/ ~ Running

\* Liveness: a host that was taken out and accepts connections is put back,
\* unless failed connects have used up the descriptors.
RecoveredHostReturns ==
    \A h \in Hosts : host_offline[h] ~>
        ~ host_offline[h] \/ ~ up[h] \/ leaked = FdLimit \/ ~ Running
=============================================================================

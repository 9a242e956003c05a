# kvproxy: a TLA+ verification project

kvproxy is a proxy between memcached clients and a set of memcached servers
(*backends*). It places keys on backends by consistent hashing, replicates
writes to a backup group, takes failing backends out of the ring and puts them
back when they recover. This directory holds TLA+ models of the parts of it in
which threads, failures and partial messages meet, the TLC configurations that
check them on small instances, and TLAPS proofs that hold for every instance.

Source references are to `src/src/` (the proxy's own code, about 3 200
lines); `src/deps/` (libevent, gperftools) is third-party and not looked at.

Contents: 1 inventory; 2 modules and how they correspond to the code; 3 runs;
4 bounds and fairness; 5 proofs; 6 findings and observations; 7 what is not
modelled; 8 plan; 9 how to run.

## 1. Inventory

| component | state | operations | hard behaviour | correct if |
|---|---|---|---|---|
| consistent-hash ring, `hash.cpp` | `_hash`, `_hash_tmp`: maps from CRC-32 points to hosts | `setHosts`, `addHost`, `delHost` (copy, change, swap), `find` | `find` runs without a lock against the copy and the swap; `delHost` erases inside its own loop | online hosts own all their points and removed hosts none; a change moves only keys of the host it is about; a lookup answers like an atomic one |
| failover and health check, `kvproxy.cpp` 342-479 | `host_offline`, `st_fail`, `st_cont_fail`, `host_infos`, three rings | `countFail` (workers), `checkHealthThread`, `failover` | unlocked counters shared by all threads; one host is in up to three rings; decisions on copies of counters | a host above the threshold is taken out of every ring, a recovered one put back, nobody else disturbed |
| replication, `kvproxy.cpp` 109-151, 587-608, 788-826 | `async_req`, local queue, `backend_buf` per thread | queueing in `readEvent`, `asyncReqThread`, `talkToBackendAsync`, synchronous branch | length tested without the lock; contacts fail half-way; leftovers in `backend_buf` | queue bounded; order kept, no duplicates; everything queued is sent; backup agrees with the master |
| connection pool, `conn_pool.cpp` | `conn_list[thread][host][port]`, the descriptors of the process | `initConnection`, `getConnection`, `createConnection`, `destoryConnection`, `closeConnection` | a descriptor is closed before the lock is taken and its number is given out again at once | a pooled descriptor is the connection to its backend, used by its thread only; an answer belongs to its request |
| request path, `kvproxy.cpp` 481-786 | per thread: `req_buf`, `resp_buf`, `backend_buf`, `client_buf`, `position` | `readEvent`, `createReqGroup`, `talkToBackend`, `writeToBackend`, `readFromBackend` | messages arrive in pieces; a multi-get is spread over several hosts, some of which are silent | every request gets exactly the answers to its items |
| memcached extension, `ext/memcached/` | none (one static flag) | parse and create requests and responses, binary and text protocol | length tests on partial data, quiet gets answered only on a hit | cuts streams into messages however they arrive |
| event server, `serv.cpp`, and its hooks in `kvproxy.cpp` 831-848 | list of connections and pipe per worker thread, `last_thread`, `st_conn` | accept, round-robin hand-over through a pipe, callbacks, `stopRun` | hand-over between threads, pipes that fill up, descriptors reused by `accept()`, shutdown through the same pipe | every accepted connection is served by one worker; lists stay linked; SIGINT ends the process |
| configuration, extension loader, log, `main` | read once at start | ini file, `dlopen`, files, signals | none | not in scope |

Interactions: libevent calls `readEvent` on a worker thread. It parses with the
extension, looks every key up in a ring (`createReqGroup`), talks to each host
through the pool (`talkToBackend`), counts successes and failures
(`countFail`), queues replicated writes for `asyncReqThread`, and writes the
response. `checkHealthThread` wakes up every `failover_interval` seconds, copies the
counters, changes the rings under the feet of the workers, and probes offline
hosts with connections of its own. The only locks are `conn_list_lock` (pool)
and `async_req_lock` (queue): the rings, the counters and `host_offline` have none.

## 2. Modules

| module | models | used by |
|---|---|---|
| `ConsistentHash` | `hash.cpp` as operators on rings | `Failover` |
| `Failover` | health thread, counters, lookups of the workers, `asyncReqThread` as one more thread that counts | `MCFailover` |
| `AsyncReq` | replication queue and its two sides | `MCAsyncReq` |
| `ConnPool` | pool, kernel descriptors, contacts with backends, health probe, the descriptors of clients | `MCConnPool` |
| `ReqPath` | one worker from the client's bytes to the response, both protocols, synchronous copies | `MCReqPath` |
| `Server` | main thread, worker threads, pipes, lists of connections, shutdown | `MCServer` |
| `Picks` | subsequences: what is left of a message that went over several connections | `AsyncReq`, `Replication` |
| `Routing` | abstract: what failover promises to lookups | `Failover` implements it |
| `Replication` | abstract: what the replication queue promises | `AsyncReq` implements it |
| `ConsistentHashProofs`, `FailoverProofs`, `LookupProofs`, `AsyncReqProofs`, `ConnPoolProofs`, `ReqPathProofs`, `ResponseProofs`, `ServerProofs` | theorems | |

Definitions have the names of the functions they model; the line numbers are in
`PROJECT.json` under "map". Definitions marked "Mutant" are deliberately wrong
variants of the definition after them, which PROJECT.json names together with
the property each one breaks; nothing else uses them.

**ConsistentHash.** A ring is a function from a finite set of points to
aliases. CRC-32 is the parameter `Point` (and a key is its CRC value), so
nothing depends on the hash and colliding points are allowed: `createVNodes`
resolves them the way the loop does, by the order of the "host:port" strings.
`delHost` is a set of possible results, because the code increments the
iterator it has just erased: the loop always erases the first node of the host,
never one of another host, and may step over any of the later ones. What it steps over
depends on what the allocator leaves in the freed node. (Simulating a LIFO
free list as that of tcmalloc, which the build links, over 900
configurations, 458 left between one and eight nodes of the host in the ring;
the smallest had two hosts of weight 6.)

**Failover.** `tree[g]` are the two maps of group g, `live[g]` says which is
`_hash`: swapping two `std::map`s exchanges the trees, so iterators stay with
their tree. The health thread is split where another thread can see a
difference: `Wake` (copy of the counters), `FailoverDel`, `RewriteTmp` (the tree
that is not live is rewritten; iterators into it dangle), `SwapTrees`, `MarkOffline`,
`StartProbe` (copy of `host_offline`), `Probe`, `MarkOnline`, `ResetCount`,
`Sleep`. A worker's lookup is four steps (`lower_bound`; `size()` and the
comparison with `end()`; `begin()`; the dereference), as each reads `_hash` again.
Dereferencing a dangling iterator yields any host or crashes the process. The
counters are incremented by a load and a later store. `asyncReqThread` is one
more thread with a worker record: it takes updates for backups from `async_req`
(here without its lock, see `AsyncReq`), contacts them and counts. `leaked` are the sockets
of failed connects, which `createConnection` does not close; at `FdLimit` of them `socket()` fails
and `Probe` finds nobody. History fields of the
worker record: `seen` (answers an atomic `find` would have given since the
lookup began), `swaps` (swaps of that ring since then), `wild` (freed memory was read).
Requests are for one key: a read, or a write with a second lookup in the backup ring.

**AsyncReq.** A memcached request carries at most one update, so a queue entry
is one write. `Talk(buf)` is the set of outcomes of one contact: all of
`backend_buf` arrives; or there is no connection and `continue` skips the statement
that empties `backend_buf`; or connections break, and any subsequence arrives (each connection carries a piece
from where `send()` stopped on the last, of which the backend may have taken only the beginning; module `Picks`).
`writeToBackend` sends again as long as it gets connections and they break, without a bound, and
`send()` has no timeout (`send_timeout` is read and never used): `asyncReqThread` may stay in a contact for good (`stuck`).
A worker that never comes back is one that takes no more steps. `handed` is what `asyncReqThread` has sent, in the order of
sending; in which order a backend executes what came over two connections is outside the model. `SizeSeen`
is what an unlocked `size()` of a `std::deque` may return: with `TornSize` it can
also be 0 or full while somebody is inside `push` or `swap`.

**ConnPool.** A locked section is one step. `destoryConnection` is two, `Close`
before the lock and `Scan` under it; between them `socket()` may hand the same number to
another thread, since it returns the lowest free descriptor. After a peer has closed
(`ReadClosed`), `readFromBackend` goes round its loop with the descriptor it has just
destroyed. A failed `connect()` leaves its socket open (state `unconnected`). The
probe of the health thread takes and closes a descriptor outside the pool, and so do the
client connections of the server (`Accept`, `CloseEvent`), all from one space of numbers. A client's descriptor that a
worker has closed and that became a backend connection is read and closed by libevent as if it were
still the client's; only what the server *writes* there is left out. Two history variables: `stray` (a
thread has closed a connection that was not its own) and `foul` (slots whose descriptor nobody is going to reset). A request, and its answer, is a
thread and a number.

**ReqPath.** A message is a sequence of units: a binary header or a line of text, and
possibly a body or data block; a text answer with two values has a third. A binary header and announced
data are atomic because the parsers return `AGAIN` until all of it is there. `recv()` may end after any unit (`Recv`) or inside
a line of text (`RecvCut`), and the code does not always see it: the length test of
`PARSE_RESP` looks at the whole buffer, and a line that is not `VALUE ...` is taken as it is. The history variable `torn`
is the first request of which an answer was taken too early. The protocol is part of the
initial state, as the configuration fixes it. `resp_buf` keeps its
old contents, `resp_list` holds offsets into it as the code holds pointers, and
`CREATE_RESP` copies what is there *at the end*. `PARSE_RESP` returns a set of
results: `is_agin` is uninitialised when `position` is already past what has
arrived. `Dead` hosts take requests and never answer, so `select()` times out.
`set` stands for all updates (they are framed alike). Quiet gets are ended by a noop, as
clients do for a multi-get. A write with the sync prefix goes through `talkToBackend` a second time
(`EndTalk` starts the second round with `sync_group`), which makes `client_buf` anew.
`NextHost` counts a success or a failure of each host as `talkToBackend` does. `replies` has an entry for
every request that was dealt with, empty when nothing was written to the client.
An unknown word with an argument (`touch`) is a read of that key for `get_opcode`, one without has no key. Three text inputs
are left out because the code misreads them at once: a command line that arrives in two pieces (the
first is taken for a whole request) and `noreply` (the line counts as empty);
and the digits of the unique id of a `cas` line are appended to its length.

**Server.** The main thread's `listenerEventCb` is two steps, as `write()` to a full pipe blocks
(`HandOver`). `accept()` returns the lowest descriptor that nobody has, so descriptors are reused as soon as
`bufferevent_free` has closed them. A worker's callbacks are split at the shared `st_conn`, which
`connectionEvent` and `closeEvent` change by a load and a store and `getStatus` sets to 0 when it is
negative. `threadProcess` reads one descriptor or `EXIT_CODE`; when there is no
bufferevent it leaves the loop for good (`failed`), and the pipe is no longer read. What
`readEvent` does with a request is the subject of the other modules; here it keeps the worker busy until it returns
(`ReadDone`), or for good (`ReadStuck`: the unbounded loop of `writeToBackend` or a `send()` that blocks). A connection that `ConnPool` shows
closed by the wrong thread is not repeated here: the module is the server as it is while nobody else closes its descriptors. `exit()` in
`quitCb` stops all threads where they are.

**Routing** and **Replication** are the two abstract specifications. Routing has the set of online
members of each group, the points every member owns and the route of every key. Hosts leave and return one at a time, through the groups in a fixed
order; one that leaves gives up some of its points, not always all (`delHost`), and gets all of them back. `Failover` maps its live trees to points and
routes and its health thread's place to `online` (`R` in
`Failover`). Replication has one channel and what each host has received; `AsyncReq` maps
`backend_buf`, the local queue and the queue, in this order, to the channel (`Repl`).

## 3. Runs

| run | expects | properties | what it shows |
|---|---|---|---|
| `failover_rings` | pass | `TypeOK`, `OnlineHostsComplete`, `KeysStayHome`, `LookupLinearizable`, `DanglingOnlyAfterSwap`, `MinimalDisruption`, `ImplementsRouting` | three groups that share hosts, both hosts fail and recover in any order, `delHost` leaves nodes behind as the code does: at every moment, also half-way through `failover`, the online hosts own all their nodes and a key whose own host is online is found there; every swap moves only keys of the host it is about; a lookup torn into its steps against rewrites and swaps answers like an atomic one; the whole implements `Routing` |
| `failover_live` | pass | `FailCountBounded`, `FailingHostTakenOut`, `RecoveredHostReturns` | a worker and `asyncReqThread` on the same counters: overshoot of the limit is one; a host above the threshold leaves, and one that accepts connections returns while there is a descriptor to try it with |
| `failover_skip` | violation | `OfflineHostsAbsent` | the erased-iterator loop leaves nodes of a failed host in the ring |
| `failover_threshold` | violation | `OfflineOnlyAboveThreshold` | a host is taken out at the threshold, where the documentation says above it |
| `async_order` | pass | `TypeOK`, `BackupInOrder`, `QueueBounded`, `ImplementsReplication`, `QueueDrains` | two workers, torn sizes, every contact may fail, break or never end, synchronous copies in between: per-worker order, no duplicates; the queue exceeds `async_size` by at most the other workers until a torn size is acted on; the whole implements `Replication`; everything queued is sent unless `asyncReqThread` is stuck |
| `async_converge` | violation | `BackupConverges` | two workers, one key: master and backup end with different values |
| `async_own_keys` | violation | `OwnKeysOnly` | a write left in `backend_buf` goes to another host |
| `pool_slots` | pass | `TypeOK`, `PooledIsOwn`, `OneCause` | two threads, two backends on one address, two descriptors shared with the probe and a client: a slot holds its own connection except in the cases that `PooledIsOwn` lists, and all of these begin with a thread that goes on with a descriptor it has closed |
| `pool_answers` | violation | `AnswersMatch` | a late answer becomes the response of the next request |
| `req_single` | pass | `TypeOK`, `ResponsesRight`, `TornAtTheEnd`, `BlameRight`, `AllAnswered` | all 909 streams of one to three binary or one to two text requests, requests cut between header and body, answers at any place where the parsers could tell a difference: every request is dealt with, responses are right up to the first torn answer, that one is wrong at its end only; the counters accuse only silent hosts, and which of them |
| `req_two_hosts` | violation | `ResponsesRight` | the second host's answers overwrite the first's |
| `server` | pass | `TypeOK`, `OneOwner`, `ListsLinked`, `NothingAfterExit`, `ConnCountOneThread`, `ConnectionServed`, `QuitEnds` | one or two workers, pipes of two entries, three descriptors reused, SIGINT, lack of memory and a `readEvent` that never returns at any moment |

`FailCountBounded` is stated for two counting threads because with three a stale store can
lower `st_fail` repeatedly and the overshoot then grows with `st_limit`. `LookupLinearizable` allows one swap
because two are too many: `lower_bound` may say `end()` in one ring and `begin()` then
answer from a ring two changes later, and TLC finds an answer that no ring
in between gives. A lookup takes microseconds and a swap happens at most a few
times per `failover_interval` (seconds), which is why one is the case that matters.

No constant switches a defect off in a passing run: `delHost` skips nodes, sizes are torn, contacts fail and never end, backends share an
address, answers are torn. Where the code then breaks what one would like to have, the property says until when it holds
(`QueueBounded`, `OneCause`, `ResponsesRight`) or what is left of it (`KeysStayHome`, `PooledIsOwn`, `TornAtTheEnd`). `async_converge` has
`MayFail` and `TornSize` off to show that the divergence needs no failure.

## 4. Bounds and fairness

* `failover_rings`: 2 hosts x 2 points, three rings, keys before the first and
  after the last point (wrap-around). Threshold 1, `MaxContFail` 1 (no more failures
  are injected into a host already at the threshold), `st_limit` 2. `async_size` 0: the backups' updates are all dropped,
  as this run is about lookups. Two hosts are enough to have a
  survivor, an empty ring, and a host that leaves while another returns. `MaxSwaps` 2 is where
  the counter of swaps under a lookup saturates ("two or more").
* `failover_live`: 1 host that is its own backup, so that a worker and `asyncReqThread` count its failures: the races are between counters of one host.
  `FdLimit` 2: a probe may fail, succeed later, and in the end find no descriptor.
* `failover_threshold`: threshold 2, as in the example configuration.
* `async_order`: 2 workers with 2 writes and 1, `async_size` 1: the queue is full and overshoots, both
  queues are in use at once. `QueueDrains` is thus shown for workers that rest after their writes; that more writes come in
  between does not change what was queued before them. `async_own_keys`: 1 worker and 2 backups, all it takes.
* `pool_slots`: 2 descriptors for 4 slots, a probe and a client at a time (`MaxConn` 1 per descriptor), so that every
  descriptor is reused by everybody and they run out; one thread makes two requests, the other one. Both backends have one address, as in the example configuration. Deadlock is not checked: threads stop at `MaxReq`.
* `req_single`: three hosts of which one is silent; 9 kinds of binary requests (writes without a copy and with
  one to a living or a silent backup, read hit and miss, an unknown opcode, multi-gets with hits, misses, repeated
  keys and with the silent host before and after the one that answers), up to three in a row and a quit; 9 kinds of text
  requests, up to two. Three is enough for state left behind by one request (buffers, position) to meet the next two.
* `server`: 4 connections over 3 descriptors, so that one is reused; pipes of 2 entries, so that
  one fills up while its worker is busy (a real one holds 16 384). `MaxThreads` 2 includes the case of one
  thread. Deadlock is not checked: the process ends, or blocks when the worker with a full pipe is lost.

Fairness. `Failover`: weak fairness of the health thread only; it takes no lock that others wait in
(`pthread_mutex_trylock` in the rings), `sleep()` returns, and the kernel ends a `connect()`. Nothing is assumed of workers and of
`asyncReqThread`. `AsyncReq`: weak fairness of `asyncReqThread` at the lock, in the swap and between items, and at a poll that nobody disturbs (no
fairness of a poll that may read a torn size), and of a worker from its lock request to the unlock; the mutex is held for one push or swap.
Contacts are not assumed to end: `asyncReqThread` may get stuck in one, which `QueueDrains` excepts, and a worker may take no further step outside
the lock. `ReqPath`: weak fairness of the whole step relation (the worker runs on, TCP
delivers, `select()` times out; connections do not break in this module, so the resend loop is not in it). `Server`: weak fairness of the main thread once it
has a descriptor or a signal in hand and of a worker inside a callback, where `readEvent` either returns or is stuck for good (`ReadStuck`);
strong fairness of `threadProcess`, because libevent serves every ready
descriptor in each round of its loop, so that other connections cannot keep a worker from its pipe
for ever. `ConnectionServed` and `QuitEnds` except what a lost worker (stuck, or out of memory) makes impossible: its own connections, and
SIGINT when `stopRun` comes to its full pipe. Clients, SIGINT and `accept()` are not assumed to do anything.

## 5. Proofs

All theorems are for every value of the constants that satisfies the named
assumptions of the modules: any number of hosts, groups, threads, keys.

| theorem | states | rests on |
|---|---|---|
| `ConsistentHashProofs!DelHostMovesOnlyItsKeys`, `AddHostTakesKeysOnly` | what a change of a ring does to `find`, for any ring, also with skipped nodes and colliding points | what `createVNodes`, `addHost`, `delHost` return (lemmas) |
| `FailoverProofs!TypeCorrect` | `Spec => []TypeOK` | `TypeOK` is inductive: it includes that an iterator is at a node of its tree |
| `FailoverProofs!OnlineComplete` | `[]OnlineHostsComplete`, if `SameInfo` and `DistinctPoints` | `ControlInv`, `RingInv` |
| `FailoverProofs!OnlineKeysStayHome` | `[]KeysStayHome`, if `SameInfo` and `DistinctPoints` | the same, and `find` on a ring from which only nodes of others are missing |
| `FailoverProofs!FailoverMovesFewKeys` | `MinimalDisruption` | `ControlInv` and the lemmas on rings; no assumption on the configuration |
| `LookupProofs!LookupsLinearize`, `DanglingNeedsSwap` | the two lookup properties, if `MaxSwaps >= 2` | `AllLookups` |
| `AsyncReqProofs!TypeCorrect`, `QueueBound`, `ReplicationOrder` | `TypeOK`, `QueueBounded`, `BackupInOrder` | `BoundInv`; chains of writes |
| `FailoverProofs!FailoverImplementsRouting` | `Failover` implements `Routing`, if `SameInfo` and `DistinctPoints` | `RingInv`, `SuffixInv` |
| `AsyncReqProofs!AsyncImplementsReplication` | `AsyncReq` implements `Replication` | `TypeOK`; lemmas on concatenations, their ends and subsequences (`Picks`) |
| `FailoverProofs!FailCountIsBounded` | `[]FailCountBounded` | `CountInv`; cardinality of the set of counting threads |
| `ConnPoolProofs!TypeCorrect`, `PoolIsSound`, `OneCauseOnly` | `TypeOK`, `PooledIsOwn`, `OneCause`, for any addresses | `PooledIsOwn` is inductive with `TypeOK`; `CauseInv` for `OneCause` |
| `ServerProofs!TypeCorrect`, `OwnedOnce`, `ListsStayLinked`, `ExitTakesAll` | `TypeOK`, `OneOwner`, `ListsLinked`, `NothingAfterExit` | each other; `ExitInv` |
| `ServerProofs!ConnCountExact` | `[]ConnCountOneThread` | `ConnInv`; cardinality of the set of open connections |
| `ReqPathProofs!TypeCorrect` | `[]TypeOK`: items exist, and the answers found lie in `resp_buf` | `TypeInv`; what the parsers return (`ParseReqType`, `ParseRespType`) |
| `ResponseProofs!BlameCorrect` | `[](torn = 0 => BlameRight)` | `ReadInv`, `TalkInv`, `BlameInv`; what the parsers compute (`ParseRequest`, `ParseTalk`) |
| `ResponseProofs!ResponsesCorrect` | `[]ResponsesRight`, if `OneAnswers` | `ReadInv`, `TalkInv`, `ResponseInv`; what `CREATE_RESP` copies (`CopyTiles`) |

The strengthenings, and why they are needed:

* `ControlInv`: what the health thread knows at each program point (a host being
  deleted is still marked online; hosts to probe are offline; a prepared `_hash_tmp` is one
  mutation of the live ring). Without the last part nothing is known of a ring after a swap.
* `RingInv` says of every ring that it is `Good` for the hosts expected in it: each point
  is a virtual node of its owner, and expected hosts have all their nodes; the others may have some left. `OnlineHostsComplete` alone
  does not say that nobody owns a foreign point and is not inductive without it.
* `LookupInv`, one per worker: relates a half-done lookup to the live ring: with no swap so far the
  iterator is in the live tree, or the key wraps in it; after one swap the owner of the
  first point, or of the iterator's node, is among the answers `seen`. The case of a wrapping key needs the lemma that one
  mutation makes the new first owner the old or the new answer.
* `BoundInv` counts the workers past the length test (`Pending`) as if they had pushed, until a torn length has been acted on (`torn`).
* The order of replication: what a backup has been sent (`handed`), `backend_buf`, the local queue and the
  queue are each in order *and in this order* (`Chain`), and all of it is older than what a worker has in hand.
* `PooledIsOwn` needs no more than `TypeOK`. `CauseInv`, which holds until `stray`, says that the probe and the clients hold the descriptors they
  think they hold (`OutsideInv`), that the slot of a thread's contact holds that contact's descriptor or nothing and no other slot of the
  thread holds it (`ThreadInv`), so that the scan of `destoryConnection` stops at the right slot also when two backends share
  an address, and that a slot with a foreign descriptor is about to be reset (`SlotInv`).
* `SuffixInv`: the groups that the host being moved is still to be moved in are the last ones of
  the order of groups, and every other host is in all of its groups or in none. The refinement of `Routing` needs
  it: the abstract step moves a host through its groups in order. That `find` on a `Good` ring is
  `Route` over the points it owns (`FindRoutes`) is the other half.
* `OneOwner` is inductive given `TypeOK`, and says of a worker which of its control states have the Conn in the
  list; `ListsLinked` needs that (a Conn is inserted when it is in no list, and deleted by the worker in whose list it is)
  and then rests on two lemmas about a doubly linked list between sentinels (`InsertLinks`, `DeleteLinks`).
* `ExitInv`: `EXIT_CODE` is the last entry of a pipe, and only pipes that `stopRun` has passed have one.
* `CountInv`: while one thread counts a failure of a host (`Counting`: it is between the test of `st_fail` and its store), `st_fail` is
  at most the limit, and the thread's copy reaches the limit only if `st_fail` has; while two do, `st_fail` is below the limit, as the second
  one has just tested. Hence the store of the last one makes at most the limit plus one. That of three counting threads two are the same
  (`TwoThreads`) is where the number two enters. `asyncReqThread` counts only if there is a backup group (`AsyncInv`: without one nothing is queued
  and the thread rests).
* `ConnInv`: with one thread, `st_conn` is the number of descriptors that have a Conn (`Open`), or one less between `insertConn` and the store of
  `connectionEvent` and between `closeEvent` and `deleteConn`; what the worker has loaded and will store is still the value of `st_conn`, and
  `getStatus` never gets to its correction.
* `TypeInv` of `ReqPath`: the wires hold *whole* answers (`Whole`: a unit that is not the last of its answer is followed by one that is
  not the first of another), the groups hold items of the client, and `resp_list` lies in `resp_buf`. The bound on `resp_list` is not
  inductive without the first part: with it the last unit received ends its answer, or the answer is torn, and then `resp_list` is at most one unit ahead (`Ahead`).
* `ReadInv`: `read_buf` is a part of the client's bytes that begins with the first byte of a request and holds nothing after
  the current one, and is empty while that is served. With it `ParseRequest` says that `PARSE_REQ` waits, or finds exactly the
  items of the current request, or refuses it, although its length test looks at the whole buffer.
* `TalkInv` has three parts. `GroupInv`: the groups are what is left of the two rounds of a complete request, and the hosts done (`Done`)
  come before those left. `WireInv`: the wires are empty except that of the host being heard; the first `resp_buf_len` units
  of `resp_buf` and that wire together are what the host answers, and `position` is at the beginning of an answer. `ListInv`: between hosts `resp_list` is
  empty exactly if all hosts done are silent, which is what `countFail` is told by. No part is inductive alone.
* `BlameInv` says whom the counters accuse at any moment, also half-way through a round: a host done by what this round has shown, one of the first
  round while the second runs by the first, any other by the last request that asked it.
* `ResponseInv`: the items in `resp_list` are adjacent (`Tiles`) from the start of `resp_buf` to `position`, a noop among them is the last (`EndLast`), and between
  hosts they cover all that the one living host has answered (`Collected`). It is because of the adjacency that copying item by item gives the answers
  back, and because the noop is last that moving it to the end changes nothing.
* The last four are invariants as long as no answer was torn (`torn = 0 => ...`). From the first torn answer on `ResponsesRight` speaks only about the
  replies before it, which do not change any more.

These invariants are about a constant `K` (`IsKnown(K)`: what the stream alone determines, such as the groups and the expected response of every
request), and the inductive invariant is `\E K : IsKnown(K) /\ ...`: steps are then compared with a value that cannot change.
`ResponseProofs` first relates parsers and streams: the bytes of a stream are chained item by item (`BytesChained`), requests are intervals of items (`RequestItems`), and
the answers to what a host is sent are a `Talk`: whole answers in order, all but the last to quiet gets (`TalkAnswers`). `ParseTalk` says what
`PARSE_RESP` makes of a prefix of a talk: nothing yet, or items that tile it, and `SUCCESS` exactly at its end.

The parsers are recursive functions, which TLA+ defines by `CHOOSE`, so each proof about one begins with the existence of a solution. The
prover cannot instantiate an induction theorem over an operator; `ReqPathProofs` has induction over *sets* instead (`LeastNumber`, `SetInduction`,
`RankInduction`), and one theorem (`Recursion`) that a body which only looks at points of a lower rank has a solution. The rank is what is left of
the buffer. That `PARSE_REQ` and `PARSE_RESP` return for every buffer of units is part of the result. `FlattenSeq` is treated the same
way (`FlattenIn`), and with it `Only`, the filter of sequences that `ReqPath` uses instead of `SelectSeq`, which the prover knows nothing of.

Assumptions. `SameInfo` and `DistinctPoints` are about the configuration: a host has the same id and weight in all its groups, and CRC-32 gives no point
twice. `MaxSwaps >= 2` is about the history variable that counts swaps. `OneAnswers` in `ResponsesCorrect` says
that no request of the stream has two hosts that answer (any number of silent ones, and any
number of hosts over the whole stream); without it `resp_buf` is overwritten, which is finding 6. `BlameCorrect` does not need it, but
is for `torn = 0` only.

Only model-checked: liveness (`FailingHostTakenOut`, `RecoveredHostReturns`, `QueueDrains`,
`AllAnswered`, `ConnectionServed`, `QuitEnds`), which is out of the prover's reach; `TornAtTheEnd`; and `BlameRight` after a torn answer. Every other
invariant and action property of the passing runs, and both refinements, are also theorems.

## 6. Findings and observations

Findings with a run (details in `PROJECT.json`):

1. `hash.cpp:59`: `delHost` increments an erased iterator; virtual nodes of a failed host can stay (`failover_skip`).
2. `kvproxy.cpp:441`: a host is taken out when its failures reach the threshold, where the documentation says when they exceed it (`failover_threshold`).
3. `kvproxy.cpp:597`: master and queue are ordered independently; a backup can keep an older value for good (`async_converge`).
4. `kvproxy.cpp:805` (and 764): a request that found no connection stays in `backend_buf` and is sent with the next, to that one's host (`async_own_keys`).
5. `kvproxy.cpp:700`: after a timeout the connection stays pooled, and from then on responses are one behind (`pool_answers`).
6. `kvproxy.cpp:686`: a multi-get over two hosts returns the second host's answers twice and the first's never (`req_two_hosts`).

Observations without a run of their own:

* `kvproxy.cpp:301`: `host_infos` has one (id, weight) pair per host. A host with different ids in two groups, which
  the documentation allows (unique ids are asked for within a group only), comes back under the wrong id and takes another host's
  points; `OnlineHostsComplete` fails for such a configuration. Hence `SameInfo`.
* `kvproxy.cpp:733`: a worker that goes on with a closed descriptor may read from, or close, what has the number now: a connection of another thread, of
  the health probe or of a client (`stray`). The probe and the server then close the number once more, which hits the next owner, and what is in a
  slot may stay foreign (`foul`). `OneCause` shows that this loop is the only cause.
* `conn_pool.cpp:124`: `break` leaves only the loop over the ports of one address. With two
  backends on one address, as in the example configuration of the documentation, the scan may reset another slot than its own.
  `OneCause` shows that this needs a `stray` close before.
* `conn_pool.cpp:42`: a `connect()` that fails leaks its socket. When a dead host has used up all descriptors it is never put back: `RecoveredHostReturns`
  excepts this state (`leaked = FdLimit`), and TLC reaches it.
* `kvproxy.cpp:636-655`: the loop that sends again on a new connection has no bound, and `send()` no timeout (`send_timeout` is read and never
  used). A thread in it may be lost for good; `QueueDrains`, `ConnectionServed` and `QuitEnds` except what such a thread makes impossible.
* `memcached.cpp:77` and `:164`: the length tests compare with all the data and not with the rest of it. An
  answer after the first that is cut behind its header counts as complete, and the next call
  returns an uninitialised `is_agin`. The response of that request is cut off or ends with something wrong (`TornAtTheEnd`); those before it are right (`ResponsesRight`).
* `memcached.cpp:313`: a text answer that does not begin with `VALUE` has no length test, so a line that `recv()` cut counts as complete.
* `kvproxy.cpp:581`: the whole input is dropped with the first request in it; a second request that a client sent along is never answered.
* `kvproxy.cpp:489`: a noop goes where the other items of its request go; a noop alone goes nowhere and gets an empty response. No property says that it should not.
* `memcached.cpp:361`: a text command that is not in the table (`touch`, `cas`) has opcode 0, which is GET: it is sent on as a read, and a write among them is not
  copied to the backup group.
* `kvproxy.cpp:770`: in a multi-get a silent host visited after one that answered counts as a success, since `resp_list` is not empty;
  its consecutive failures are reset, and it is taken out later than the threshold says. `BlameRight` states who is accused exactly.
* `kvproxy.cpp:606`: a write with the sync prefix is acknowledged by the backup alone: the client is told STORED when the
  backup has it and the master may not, and hears nothing when the master has it and the backup is silent (`ResponsesRight`).
* `kvproxy.cpp:713`: an answer that fills `resp_buf` is given up with its rest still in the connection, where the next request finds it.
* `kvproxy.cpp:832`: `st_conn` is the number of connections for one worker thread (`ConnCountOneThread`); with two, updates are
  lost, and `ConnCountRight` is violated within 15 steps. The source marks the place with a `todo`.
* `serv.cpp:169` and `:185`: a worker without memory for a bufferevent leaves its loop but stays in the round robin, and so does one that
  is stuck in `readEvent`. When its pipe is full the main thread blocks in `write()`, accepts nothing more and does not end on SIGINT. `ConnectionServed`
  and `QuitEnds` except this case and hold otherwise.
* `memcached.cpp:257`: a text command line that arrives in two pieces, or has `noreply`, is not parsed as what it is.
* `kvproxy.cpp:494`: when the read group is empty, reads go to the masters.
* `kvproxy.cpp:588`: a full queue drops writes silently, and the queue may exceed `async_size`.
* `kvproxy.cpp:405`: consecutive failures are no longer counted once `st_fail` is at `st_limit` (2.1e9).

## 7. Not modelled

Configuration parsing (`config.cpp`) and the extension loader (`extension.cpp`) run once, on one thread, before any other
exists; what they produce are the constants of the modules. Logging, daemonising and the text of the status page are output that nothing
reads back. The limits of the
buffers (`req_buf_size`, `resp_buf_size`, `client_buf_size`), `noreply`, text command lines in two pieces and the `cas` value whose digits `memcached.cpp:287` takes for part of the length are not modelled. A process exit
with a non-empty queue has nothing to recover. CRC-32 is a
parameter. Insertion into `conn_list` by `operator[]` under the read lock (`conn_pool.cpp:57`) is undefined when
two threads do it at once; the model starts with all slots present. The time that `connect()` spends under the write lock is not modelled, nor is
what the server writes to a client whose descriptor has become a backend's connection (`ConnPool` has its closing), nor the order in
which a backend executes what it gets over two connections.
`addSignalEvent` and `addTimerEvent` (`serv.cpp` 217-256) are called once each at start; the callback of the timer is empty.

## 8. Plan

Done: the rings and failover with their abstract specification, replication with its own, the pool, the request path with
both protocols and synchronous copies, the event server, and theorems for every safety property of the passing runs but `TornAtTheEnd`. Left:

1. A bound for `st_fail` with any number of workers.
2. `TornAtTheEnd`, which needs `TalkInv` for a half-received answer.
3. Composition of `ConnPool` and `ReqPath`, so that late answers meet multi-gets; the limits of the buffers.

## 9. How to run

    tlc -workers 2 -config MCFailoverRings.cfg MCFailover
    tlapm FailoverProofs.tla

Each run of section 3 finishes within five minutes with two workers; the largest are `pool_slots` (5.5 million states),
`failover_live` (1.0 million) and `failover_rings` (0.4 million).

------------------------------- MODULE Server -------------------------------
(***************************************************************************)
(* The event server (src/src/serv.cpp, src/src/serv.h) and the hooks that  *)
(* KvProxy gives it: the main thread accepts client connections and hands  *)
(* their descriptors round robin to the worker threads, through one pipe   *)
(* each; a worker makes a Conn for a descriptor, keeps it in its           *)
(* connect_queue, serves its events and closes it.  SIGINT makes the main  *)
(* thread send EXIT_CODE through every pipe and exit.                      *)
(*                                                                         *)
(* A Conn is called after its descriptor: the Conn is deleted before the   *)
(* descriptor is closed, and only then can accept() return it again.  What *)
(* readEvent does with a request is the subject of module ReqPath; here it *)
(* keeps the worker busy, or is the status command.                        *)
(***************************************************************************)
EXTENDS Integers, Sequences, FiniteSets

CONSTANTS
    MaxThreads,    \* the largest thread_count of the configuration
    Fds,           \* descriptors accept() can return
    PipeSize,      \* descriptors a pipe holds; a write() to a full one blocks
    MayRunOut,     \* whether bufferevent_socket_new can return NULL
    MaxAccepts     \* bound: the number of connections accepted

ASSUME ThreadsAssumption == MaxThreads \in Nat \ {0}
ASSUME FdsAssumption == Fds \subseteq Nat \ {0} /\ IsFiniteSet(Fds)
ASSUME BoundsAssumption == /\ PipeSize \in Nat \ {0} /\ MaxAccepts \in Nat
                           /\ MayRunOut \in BOOLEAN

VARIABLES
    m_thread_count,  \* number of worker threads
    main,            \* [pc, fd, num]: control state of the main thread, the
                     \* descriptor in hand and the worker it is meant for
    last_thread,     \* the worker that got the last connection
    accepted,        \* connections accepted so far
    pipe,            \* worker |-> descriptors in its notify pipe
    worker,          \* worker |-> [pc, fd, val]: control state, Conn in hand,
                     \* copy of st_conn
    m_thread,        \* Conn |-> the worker it belongs to, or NONE
    m_next, m_prev,  \* the links of the connect_queues
    st_conn          \* the number of client connections, for getStatus

vars == <<m_thread_count, main, last_thread, accepted, pipe, worker,
          m_thread, m_next, m_prev, st_conn>>
list == <<m_thread, m_next, m_prev>>

EXIT_CODE == -1
NONE == -1
NULL == <<"null">>

Threads == 0 .. (m_thread_count - 1)

\* The nodes of a connect_queue: two sentinels per worker, and the Conns.
m_head(t) == <<"head", t>>
m_tail(t) == <<"tail", t>>
Node(fd) == <<"conn", fd>>
Nodes == {Node(fd) : fd \in Fds} \cup {m_head(t) : t \in Threads} \cup {m_tail(t) : t \in Threads}

\* A descriptor that is in use: in the main thread's hand, in a pipe, in a
\* worker's hand before or after its Conn exists, or in a connect_queue.
InPipe(fd, t) == \E i \in DOMAIN pipe[t] : pipe[t][i] = fd
Taken(fd, t) == worker[t].fd = fd
Used(fd) == \/ main.fd = fd
            \/ \E t \in Threads : InPipe(fd, t) \/ Taken(fd, t)
            \/ m_thread[fd] # NONE

Idle == [pc |-> "loop", fd |-> NONE, val |-> 0]

\* Server::Server and startRun: empty queues, one event loop per worker.
Init ==
    /\ m_thread_count \in 1 .. MaxThreads
    /\ main = [pc |-> "loop", fd |-> NONE, num |-> 0]
    /\ last_thread = -1
    /\ accepted = 0
    /\ pipe = [t \in Threads |-> << >>]
    /\ worker = [t \in Threads |-> Idle]
    /\ m_thread = [fd \in Fds |-> NONE]
    /\ m_next = [n \in Nodes |-> IF \E t \in Threads : n = m_head(t) THEN m_tail(n[2]) ELSE NULL]
    /\ m_prev = [n \in Nodes |-> IF \E t \in Threads : n = m_tail(t) THEN m_head(n[2]) ELSE NULL]
    /\ st_conn = 0

-----------------------------------------------------------------------------
(***************************************************************************)
(* The main thread                                                         *)
(***************************************************************************)

\* listenerEventCb: accept() has returned the lowest descriptor not in use.
listenerEventCb ==
    /\ main.pc = "loop"
    /\ accepted < MaxAccepts
    /\ \E fd \in Fds :
          /\ ~ Used(fd) /\ \A f \in Fds : f < fd => Used(f)
          /\ LET num == (last_thread + 1) % m_thread_count
             IN  /\ last_thread' = num
                 /\ main' = [pc |-> "write", fd |-> fd, num |-> num]
    /\ accepted' = accepted + 1
    /\ UNCHANGED <<m_thread_count, pipe, worker, list, st_conn>>

\* Mutant: a write() that succeeded is made again.
HandOver_Again ==
    /\ main.pc = "write"
    /\ Len(pipe[main.num]) < PipeSize
    /\ pipe' = [pipe EXCEPT ![main.num] = Append(@, main.fd)]
    /\ \E again \in BOOLEAN :
          main' = IF again THEN main ELSE [pc |-> "loop", fd |-> NONE, num |-> 0]
    /\ UNCHANGED <<m_thread_count, last_thread, accepted, worker, list, st_conn>>

\* Mutant: the pipe does not block, and the result of write() is not looked at.
HandOver_Nonblock ==
    /\ main.pc = "write"
    /\ pipe' = [pipe EXCEPT ![main.num] = IF Len(@) < PipeSize THEN Append(@, main.fd) ELSE @]
    /\ main' = [pc |-> "loop", fd |-> NONE, num |-> 0]
    /\ UNCHANGED <<m_thread_count, last_thread, accepted, worker, list, st_conn>>

\* The write() to the pipe of the worker, which waits while the pipe is full.
HandOver ==
    /\ main.pc = "write"
    /\ Len(pipe[main.num]) < PipeSize
    /\ pipe' = [pipe EXCEPT ![main.num] = Append(@, main.fd)]
    /\ main' = [pc |-> "loop", fd |-> NONE, num |-> 0]
    /\ UNCHANGED <<m_thread_count, last_thread, accepted, worker, list, st_conn>>

\* SIGINT: quitCb calls stopRun.
quitCb ==
    /\ main.pc = "loop"
    /\ main' = [main EXCEPT !.pc = "stop", !.num = 0]
    /\ UNCHANGED <<m_thread_count, last_thread, accepted, pipe, worker, list, st_conn>>

\* Mutant: EXIT_CODE goes to the same worker every time.
stopRun_Same ==
    /\ main.pc = "stop"
    /\ main.num \in Threads
    /\ Len(pipe[0]) < PipeSize
    /\ pipe' = [pipe EXCEPT ![0] = Append(@, EXIT_CODE)]
    /\ UNCHANGED <<m_thread_count, main, last_thread, accepted, worker, list, st_conn>>

\* stopRun: EXIT_CODE to one worker after the other.
stopRun ==
    /\ main.pc = "stop"
    /\ main.num \in Threads
    /\ Len(pipe[main.num]) < PipeSize
    /\ pipe' = [pipe EXCEPT ![main.num] = Append(@, EXIT_CODE)]
    /\ main' = [main EXCEPT !.num = @ + 1]
    /\ UNCHANGED <<m_thread_count, last_thread, accepted, worker, list, st_conn>>

\* Mutant: quitCb does not call exit(), and stopRun leaves the loop only later.
Exit_Later ==
    /\ main.pc = "stop"
    /\ main.num \notin Threads
    /\ \E pc \in {"loop", "exit"} : main' = [main EXCEPT !.pc = pc]
    /\ UNCHANGED <<m_thread_count, last_thread, accepted, pipe, worker, list, st_conn>>

\* exit() in quitCb ends the process, whatever the workers are doing.
Exit ==
    /\ main.pc = "stop"
    /\ main.num \notin Threads
    /\ main' = [main EXCEPT !.pc = "exit"]
    /\ UNCHANGED <<m_thread_count, last_thread, accepted, pipe, worker, list, st_conn>>

Main == listenerEventCb \/ HandOver \/ stopRun \/ Exit

-----------------------------------------------------------------------------
(***************************************************************************)
(* A worker thread                                                         *)
(***************************************************************************)
Running == main.pc # "exit"

\* Mutant: EXIT_CODE is not told from a descriptor that cannot be used.
threadProcess_NoExit(t) ==
    /\ Running
    /\ worker[t].pc = "loop"
    /\ pipe[t] # << >>
    /\ pipe' = [pipe EXCEPT ![t] = Tail(@)]
    /\ worker' = [worker EXCEPT ![t] =
         IF Head(pipe[t]) = EXIT_CODE THEN [@ EXCEPT !.pc = "new"]
         ELSE [@ EXCEPT !.pc = "new", !.fd = Head(pipe[t])]]
    /\ UNCHANGED <<m_thread_count, main, last_thread, accepted, list, st_conn>>

\* threadProcess: read() from the pipe.
threadProcess(t) ==
    /\ Running
    /\ worker[t].pc = "loop"
    /\ pipe[t] # << >>
    /\ pipe' = [pipe EXCEPT ![t] = Tail(@)]
    /\ worker' = [worker EXCEPT ![t] =
         IF Head(pipe[t]) = EXIT_CODE THEN [@ EXCEPT !.pc = "stopped"]
         ELSE [@ EXCEPT !.pc = "new", !.fd = Head(pipe[t])]]
    /\ UNCHANGED <<m_thread_count, main, last_thread, accepted, list, st_conn>>

\* threadProcess: no memory for the bufferevent; the event loop is left, and
\* the descriptor stays open.
NoBufferevent(t) ==
    /\ Running
    /\ worker[t].pc = "new"
    /\ MayRunOut
    /\ worker' = [worker EXCEPT ![t].pc = "failed"]
    /\ UNCHANGED <<m_thread_count, main, last_thread, accepted, pipe, list, st_conn>>

\* threadProcess: insertConn puts the Conn at the head of the list, and the
\* bufferevent is enabled.
insertConn(t) ==
    /\ Running
    /\ worker[t].pc = "new"
    /\ LET fd == worker[t].fd
           next == m_next[m_head(t)]
       IN  /\ m_thread' = [m_thread EXCEPT ![fd] = t]
           /\ m_next' = [m_next EXCEPT ![Node(fd)] = next, ![m_head(t)] = Node(fd)]
           /\ m_prev' = [m_prev EXCEPT ![Node(fd)] = m_head(t), ![next] = Node(fd)]
    /\ worker' = [worker EXCEPT ![t].pc = "st_conn++"]
    /\ UNCHANGED <<m_thread_count, main, last_thread, accepted, pipe, st_conn>>

\* connectionEvent: st_conn++ and closeEvent: st_conn--, each a load and a
\* store, with no lock around them.
LoadConn(t) ==
    /\ Running
    /\ worker[t].pc \in {"st_conn++", "st_conn--"}
    /\ worker' = [worker EXCEPT ![t].val = st_conn,
         ![t].pc = IF @ = "st_conn++" THEN "store++" ELSE "store--"]
    /\ UNCHANGED <<m_thread_count, main, last_thread, accepted, pipe, list, st_conn>>

connectionEvent(t) ==
    /\ Running
    /\ worker[t].pc = "store++"
    /\ st_conn' = worker[t].val + 1
    /\ worker' = [worker EXCEPT ![t] = Idle]
    /\ UNCHANGED <<m_thread_count, main, last_thread, accepted, pipe, list>>

\* readEventCb: readEvent works on a request.
readEventCb(t) ==
    /\ Running
    /\ worker[t].pc = "loop"
    /\ \E fd \in Fds :
          /\ m_thread[fd] = t
          /\ \E pc \in {"busy", "status"} :
                worker' = [worker EXCEPT ![t].pc = pc, ![t].fd = fd]
    /\ UNCHANGED <<m_thread_count, main, last_thread, accepted, pipe, list, st_conn>>

\* readEvent returns.
ReadDone(t) ==
    /\ Running
    /\ worker[t].pc = "busy"
    /\ worker' = [worker EXCEPT ![t] = Idle]
    /\ UNCHANGED <<m_thread_count, main, last_thread, accepted, pipe, list, st_conn>>

\* readEvent never returns: writeToBackend goes on for ever with a backend that
\* takes connections and no data, or a send() or connect() blocks.
ReadStuck(t) ==
    /\ Running
    /\ worker[t].pc = "busy"
    /\ worker' = [worker EXCEPT ![t].pc = "stuck"]
    /\ UNCHANGED <<m_thread_count, main, last_thread, accepted, pipe, list, st_conn>>

\* getStatus: a negative st_conn is set to 0, again in two steps.
getStatus(t) ==
    /\ Running
    /\ worker[t].pc = "status"
    /\ worker' = [worker EXCEPT ![t].pc = IF st_conn < 0 THEN "clamp" ELSE "busy"]
    /\ UNCHANGED <<m_thread_count, main, last_thread, accepted, pipe, list, st_conn>>

ClampConn(t) ==
    /\ Running
    /\ worker[t].pc = "clamp"
    /\ st_conn' = 0
    /\ worker' = [worker EXCEPT ![t].pc = "busy"]
    /\ UNCHANGED <<m_thread_count, main, last_thread, accepted, pipe, list>>

\* closeEventCb: the client has closed the connection, or it broke.
closeEventCb(t) ==
    /\ Running
    /\ worker[t].pc = "loop"
    /\ \E fd \in Fds : m_thread[fd] = t
                       /\ worker' = [worker EXCEPT ![t].pc = "st_conn--", ![t].fd = fd]
    /\ UNCHANGED <<m_thread_count, main, last_thread, accepted, pipe, list, st_conn>>

\* Mutant: st_conn is loaded and not changed.
closeEvent_None(t) ==
    /\ Running
    /\ worker[t].pc = "store--"
    /\ st_conn' = worker[t].val
    /\ worker' = [worker EXCEPT ![t].pc = "delete"]
    /\ UNCHANGED <<m_thread_count, main, last_thread, accepted, pipe, list>>

closeEvent(t) ==
    /\ Running
    /\ worker[t].pc = "store--"
    /\ st_conn' = worker[t].val - 1
    /\ worker' = [worker EXCEPT ![t].pc = "delete"]
    /\ UNCHANGED <<m_thread_count, main, last_thread, accepted, pipe, list>>

\* Mutant: the successor keeps its link to the deleted Conn.
deleteConn_OneWay(t) ==
    /\ Running
    /\ worker[t].pc = "delete"
    /\ LET c == Node(worker[t].fd)
       IN  /\ m_next' = [m_next EXCEPT ![m_prev[c]] = m_next[c], ![c] = NULL]
           /\ m_prev' = [m_prev EXCEPT ![c] = NULL]
           /\ m_thread' = [m_thread EXCEPT ![worker[t].fd] = NONE]
    /\ worker' = [worker EXCEPT ![t].pc = "free"]
    /\ UNCHANGED <<m_thread_count, main, last_thread, accepted, pipe, st_conn>>

\* deleteConn links the neighbours to each other and deletes the Conn.
deleteConn(t) ==
    /\ Running
    /\ worker[t].pc = "delete"
    /\ LET c == Node(worker[t].fd)
       IN  /\ m_next' = [m_next EXCEPT ![m_prev[c]] = m_next[c], ![c] = NULL]
           /\ m_prev' = [m_prev EXCEPT ![m_next[c]] = m_prev[c], ![c] = NULL]
           /\ m_thread' = [m_thread EXCEPT ![worker[t].fd] = NONE]
    /\ worker' = [worker EXCEPT ![t].pc = "free"]
    /\ UNCHANGED <<m_thread_count, main, last_thread, accepted, pipe, st_conn>>

\* bufferevent_free closes the descriptor.
bufferevent_free(t) ==
    /\ Running
    /\ worker[t].pc = "free"
    /\ worker' = [worker EXCEPT ![t] = Idle]
    /\ UNCHANGED <<m_thread_count, main, last_thread, accepted, pipe, list, st_conn>>

\* What a worker does by itself once it has begun, and taking over what is in
\* its pipe.
Busy(t) ==
    \/ NoBufferevent(t) \/ insertConn(t) \/ LoadConn(t) \/ connectionEvent(t)
    \/ ReadDone(t) \/ ReadStuck(t) \/ getStatus(t) \/ ClampConn(t)
    \/ closeEvent(t) \/ deleteConn(t) \/ bufferevent_free(t)

Worker(t) == threadProcess(t) \/ readEventCb(t) \/ closeEventCb(t) \/ Busy(t)

Next == Main \/ quitCb \/ \E t \in Threads : Worker(t)

\* A thread runs on, and a readEvent that neither returns nor is stuck does not
\* exist.  The event loop serves every descriptor that is ready in each of its
\* rounds, so a worker cannot pass over its pipe for ever.
Fairness == /\ WF_vars(HandOver \/ stopRun \/ Exit)
            /\ \A t \in 0 .. (MaxThreads - 1) :
                  /\ WF_vars(t \in Threads /\ Busy(t))
                  /\ SF_vars(t \in Threads /\ threadProcess(t))

Spec == Init /\ [][Next]_vars /\ Fairness

-----------------------------------------------------------------------------
(***************************************************************************)
(* Properties                                                              *)
(***************************************************************************)
MainPC == {"loop", "write", "stop", "exit"}
HoldsFd == {"new", "failed", "free"}
HoldsConn == {"st_conn++", "store++", "busy", "stuck", "status", "clamp", "st_conn--", "store--", "delete"}
WorkerPC == {"loop", "stopped"} \cup HoldsFd \cup HoldsConn

\* Type invariant.  The main thread has a descriptor in hand exactly while it
\* writes to a pipe, and a worker exactly while it opens, serves or closes it.
TypeOK ==
    /\ m_thread_count \in 1 .. MaxThreads
    /\ main \in [pc : MainPC, fd : Fds \cup {NONE}, num : Nat]
    /\ main.pc = "write" => main.num \in Threads
    /\ main.pc = "write" <=> main.fd # NONE
    /\ last_thread \in Threads \cup {-1}
    /\ accepted \in Nat
    /\ pipe \in [Threads -> Seq(Fds \cup {EXIT_CODE})]
    /\ worker \in [Threads -> [pc : WorkerPC, fd : Fds \cup {NONE}, val : Int]]
    /\ \A t \in Threads : worker[t].pc \in HoldsFd \cup HoldsConn <=> worker[t].fd # NONE
    /\ m_thread \in [Fds -> Threads \cup {NONE}]
    /\ m_next \in [Nodes -> Nodes \cup {NULL}]
    /\ m_prev \in [Nodes -> Nodes \cup {NULL}]
    /\ st_conn \in Int

\* A descriptor is at one place at a time, from accept() to the close() in
\* bufferevent_free: in the hand of the main thread, once in one pipe, in the
\* hand of one worker, or in the list of the worker that got it.  Two threads
\* never serve one connection, nor one a descriptor that was closed and used
\* again.
OneOwner ==
    \A fd \in Fds :
        /\ main.fd = fd \/ (\E t \in Threads : InPipe(fd, t)) =>
              m_thread[fd] = NONE /\ \A t \in Threads : ~ Taken(fd, t)
        /\ main.fd = fd => \A t \in Threads : ~ InPipe(fd, t)
        /\ \A t, u \in Threads : \A i \in DOMAIN pipe[t], j \in DOMAIN pipe[u] :
              pipe[t][i] = fd /\ pipe[u][j] = fd => t = u /\ i = j
        /\ \A t, u \in Threads : Taken(fd, t) /\ Taken(fd, u) => t = u
        /\ \A t \in Threads : Taken(fd, t) =>
              m_thread[fd] = IF worker[t].pc \in HoldsConn THEN t ELSE NONE

\* The Conns of worker t.
Conns(t) == {Node(fd) : fd \in {f \in Fds : m_thread[f] = t}}

\* The links of each connect_queue lead only to its own sentinels and to Conns
\* that have not been deleted, and m_prev undoes m_next: insertConn and
\* deleteConn never follow a dangling pointer, nor into another thread's list.
ListsLinked ==
    \A t \in Threads :
        /\ \A n \in Conns(t) \cup {m_head(t)} :
              m_next[n] \in Conns(t) \cup {m_tail(t)} /\ m_prev[m_next[n]] = n
        /\ \A n \in Conns(t) \cup {m_tail(t)} :
              m_prev[n] \in Conns(t) \cup {m_head(t)} /\ m_next[m_prev[n]] = n

\* A worker that ends because of EXIT_CODE has taken over every connection that
\* was handed to it, and gets no other: stopRun writes behind them, and quitCb
\* does not return to the loop that accepts.
NothingAfterExit ==
    \A t \in Threads : worker[t].pc = "stopped" =>
        pipe[t] = << >> /\ ~ (main.pc = "write" /\ main.num = t)

AtRest == \A t \in Threads : worker[t].pc \in {"loop", "busy", "stuck", "status", "clamp", "stopped"}

\* README: status shows the number of client connections.
ConnCountRight == AtRest => st_conn = Cardinality({fd \in Fds : m_thread[fd] # NONE})

\* With one worker thread st_conn, changed by connectionEvent and closeEvent
\* and corrected by getStatus, is the number of client connections.
ConnCountOneThread == m_thread_count = 1 => ConnCountRight

\* A worker that will never read its pipe again.
Lost(t) == worker[t].pc \in {"stuck", "failed"}

\* Liveness: a connection that was accepted is taken over by the worker it is
\* meant for, although the pipe may be full, SIGINT may come and other workers
\* may be lost; unless the process ends or that very worker is lost.
ConnectionServed ==
    \A t \in 0 .. (MaxThreads - 1), fd \in Fds :
        (t \in Threads /\ (InPipe(fd, t) \/ (main.fd = fd /\ main.num = t)))
            ~> (t \in Threads => m_thread[fd] = t \/ Lost(t) \/ ~ Running)

\* Liveness: SIGINT ends the process, although stopRun writes to pipes that may
\* be full; unless it comes to the full pipe of a worker that is lost.
QuitEnds ==
    main.pc = "stop" ~>
        \/ ~ Running
        \/ main.num \in Threads /\ Lost(main.num) /\ Len(pipe[main.num]) = PipeSize
=============================================================================

------------------------------ MODULE ConnPool ------------------------------
(***************************************************************************)
(* The pool of backend connections (src/src/conn_pool.cpp) and the contact *)
(* of a thread with a backend through it (writeToBackend, readFromBackend  *)
(* in src/src/kvproxy.cpp).                                                *)
(*                                                                         *)
(* conn_list has a slot for each thread and backend.  Every access to it   *)
(* is made under conn_list_lock, so a locked section is one step here; but *)
(* destoryConnection closes its descriptor before it takes the lock, and   *)
(* the kernel gives a closed descriptor to the next socket() or accept().  *)
(* The health check's connections and the server's client connections have *)
(* no slot, but their descriptors are numbers of the same table.           *)
(***************************************************************************)
EXTENDS Integers, Sequences, FiniteSets

CONSTANTS
    Threads,   \* thread indices: the workers and asyncReqThread
    Backends,  \* port numbers of the backends
    Ip,        \* Ip[b]: the address of b; conn_list is ordered by it first
    MaxFd,     \* descriptors the process may have beside its fixed ones
    MaxReq,    \* bound: thread |-> the number of requests it makes
    MaxConn    \* bound: the connections the server holds under one descriptor

Fds == 1 .. MaxFd
Slots == Threads \X Backends
NONE == << >>     \* the socket was made for no slot
CLIENT == <<0>>   \* accept() made it for a client

ASSUME BackendsAssumption == Backends \subseteq Nat /\ Ip \in [Backends -> Nat]
ASSUME BoundAssumption == MaxFd \in Nat \ {0} /\ MaxReq \in [Threads -> Nat] /\ MaxConn \in Nat

VARIABLES
    conn_list,  \* slot |-> descriptor; 0: none, -1: the connect failed
    sock,       \* descriptor |-> the kernel's socket
    thread,     \* thread |-> its contact with a backend
    probe,      \* descriptor checkHealthThread has open, or 0
    clients,    \* descriptor |-> the connections the server holds under it
    stray,      \* history: a thread has closed a connection of somebody else
    foul        \* history: slots that hold a descriptor nobody will reset

outside == <<probe, clients>>
history == <<stray, foul>>
vars == <<conn_list, sock, thread, outside, history>>

\* A request and its answer are identified by the thread and its count; the
\* bytes a client sends are neither.
Req == [t : Threads \cup {CLIENT}, n : Nat]
Bytes == [t |-> CLIENT, n |-> 0]
Current(t) == [t |-> t, n |-> thread[t].n]

\* The slot a socket was made for, the requests in it that the backend has
\* not answered and the answers in it that nobody has read.
Socket(st, for) == [st |-> st, for |-> for, sent |-> << >>, recv |-> << >>]
Closed == Socket("closed", NONE)

\* socket() and accept() return the lowest descriptor that is free.
Free == {f \in Fds : sock[f].st = "closed"}
Lowest == CHOOSE f \in Free : \A g \in Free : f <= g

\* initConnection in setHosts: some of the connections could be made.
Init ==
    /\ conn_list \in [Slots -> Fds \cup {0}]
    /\ \A s, u \in Slots : conn_list[s] = conn_list[u] => s = u \/ conn_list[s] = 0
    /\ sock = [f \in Fds |->
                 IF \E s \in Slots : conn_list[s] = f
                 THEN Socket("up", CHOOSE s \in Slots : conn_list[s] = f) ELSE Closed]
    /\ thread = [t \in Threads |-> [pc |-> "idle", host |-> 0, fd |-> 0, n |-> 0,
                                    ret |-> "get", got |-> << >>]]
    /\ probe = 0
    /\ clients = [f \in Fds |-> 0]
    /\ stray = FALSE
    /\ foul = {}

-----------------------------------------------------------------------------
(***************************************************************************)
(* talkToBackend                                                           *)
(***************************************************************************)
\* The slots that hold a descriptor, and the one of them it was made for.
Matches(f) == {s \in Slots : conn_list[s] = f}
Owner(f) == {s \in Matches(f) : sock[f].for = s}
OwnSlot(t) == <<t, thread[t].host>>

Step(t, rec) == thread' = [thread EXCEPT ![t] = rec]

\* talkToBackend is over, with the answers in resp_list as the response.
Finish(t, resp_list) ==
    Step(t, [thread[t] EXCEPT !.pc = "idle", !.host = 0, !.fd = 0, !.got = resp_list])

\* The next request of t, for a host that createReqGroup has found.
Request(t) ==
    /\ thread[t].pc = "idle"
    /\ thread[t].n < MaxReq[t]
    /\ \E b \in Backends :
          Step(t, [thread[t] EXCEPT !.pc = "get", !.host = b, !.n = @ + 1, !.got = << >>])
    /\ UNCHANGED <<conn_list, sock, outside, history>>

\* getConnection, under the read lock.
GetPooled(t) ==
    /\ thread[t].pc = "get"
    /\ LET c == conn_list[t, thread[t].host]
       IN  Step(t, IF c > 0 THEN [thread[t] EXCEPT !.pc = "send", !.fd = c]
                   ELSE [thread[t] EXCEPT !.pc = "create"])
    /\ UNCHANGED <<conn_list, sock, outside, history>>

\* Mutant: the result of createConnection is not tested.
CreateConnection_Untested(t) ==
    LET s == OwnSlot(t)
    IN  /\ thread[t].pc = "create"
        /\ \E f \in IF Free = {} THEN {-1} ELSE {-1, Lowest} :
              /\ conn_list' = [conn_list EXCEPT ![s] = f]
              /\ foul' = foul \ {s}
              /\ sock' = IF Free = {} THEN sock
                         ELSE [sock EXCEPT ![Lowest] =
                                 IF f = -1 THEN Socket("unconnected", NONE) ELSE Socket("up", s)]
              /\ Step(t, [thread[t] EXCEPT !.pc = "send", !.fd = f])
        /\ UNCHANGED <<outside, stray>>

\* getConnection, under the write lock: createConnection, whose result is
\* stored whatever it is.  There is no descriptor left, or connect() fails and
\* its socket stays open, or the connection is made.  Without a connection
\* talkToBackend gives up.
CreateConnection(t) ==
    LET s == OwnSlot(t)
    IN  /\ thread[t].pc = "create"
        /\ \E f \in IF Free = {} THEN {-1} ELSE {-1, Lowest} :
              /\ conn_list' = [conn_list EXCEPT ![s] = f]
              /\ foul' = foul \ {s}
              /\ sock' = IF Free = {} THEN sock
                         ELSE [sock EXCEPT ![Lowest] =
                                 IF f = -1 THEN Socket("unconnected", NONE) ELSE Socket("up", s)]
              /\ IF f = -1 THEN Finish(t, << >>)
                 ELSE Step(t, [thread[t] EXCEPT !.pc = "send", !.fd = f])
        /\ UNCHANGED <<outside, stray>>

\* writeToBackend: send() takes the request; if the peer is gone it is lost.
Send(t) ==
    /\ thread[t].pc = "send"
    /\ LET f == thread[t].fd
       IN  /\ sock[f].st \in {"up", "peer_closed"}
           /\ sock' = IF sock[f].st = "up"
                      THEN [sock EXCEPT ![f].sent = Append(@, Current(t))] ELSE sock
    /\ Step(t, [thread[t] EXCEPT !.pc = "read"])
    /\ UNCHANGED <<conn_list, outside, history>>

\* writeToBackend: send() fails; destroy the connection and get another.
SendFails(t) ==
    /\ thread[t].pc = "send"
    /\ sock[thread[t].fd].st # "up"
    /\ Step(t, [thread[t] EXCEPT !.pc = "destroy", !.ret = "get"])
    /\ UNCHANGED <<conn_list, sock, outside, history>>

\* readFromBackend: all that has arrived is parsed and is the response.  What
\* a client sent is an error for the parser, or passes for an answer.
ReadAnswer(t) ==
    /\ thread[t].pc = "read"
    /\ LET f == thread[t].fd
       IN  /\ sock[f].recv # << >>
           /\ sock' = [sock EXCEPT ![f].recv = << >>]
           /\ \/ Finish(t, sock[f].recv)
              \/ sock[f].for = CLIENT /\ Finish(t, << >>)
    /\ UNCHANGED <<conn_list, outside, history>>

\* readFromBackend: recv() returns 0; destroy the connection and go on with
\* the loop, on the descriptor that was just closed.
ReadClosed(t) ==
    /\ thread[t].pc = "read"
    /\ sock[thread[t].fd].st = "peer_closed"
    /\ sock[thread[t].fd].recv = << >>
    /\ Step(t, [thread[t] EXCEPT !.pc = "destroy", !.ret = "read"])
    /\ UNCHANGED <<conn_list, sock, outside, history>>

\* readFromBackend: select() or recv() fails on the descriptor, be it closed or
\* reset by the peer, or nothing has arrived within recv_timeout; there is no
\* response, and the connection stays in the pool.
ReadFails(t) ==
    /\ thread[t].pc = "read"
    /\ sock[thread[t].fd].recv = << >>
    /\ Finish(t, << >>)
    /\ UNCHANGED <<conn_list, sock, outside, history>>

\* destoryConnection: close(conn), whosever connection it is by now.
Close(t) ==
    /\ thread[t].pc = "destroy"
    /\ LET f == thread[t].fd
       IN  /\ sock' = [sock EXCEPT ![f] = Closed]
           /\ stray' = (stray \/ (sock[f].st # "closed" /\ sock[f].for # OwnSlot(t)))
    /\ Step(t, [thread[t] EXCEPT !.pc = "scan"])
    /\ UNCHANGED <<conn_list, outside, foul>>

\* The slots the loops of destoryConnection reset: the innermost one, over the
\* ports of one address, stops at its first match.
FirstMatches(f) ==
    {s \in Matches(f) : \A u \in Matches(f) :
        u[1] = s[1] /\ Ip[u[2]] = Ip[s[2]] => s[2] <= u[2]}

\* Mutant: all the loops stop at the first match.
Scan_One(t) ==
    LET f == thread[t].fd
    IN  /\ thread[t].pc = "scan"
        /\ \/ /\ Matches(f) = {}
              /\ UNCHANGED conn_list
           \/ \E s \in FirstMatches(f) : conn_list' = [conn_list EXCEPT ![s] = 0]
        /\ foul' = (foul \cup Matches(f)) \ FirstMatches(f)
        /\ Step(t, [thread[t] EXCEPT !.pc = thread[t].ret, !.ret = "get"])
        /\ UNCHANGED <<sock, outside, stray>>

\* destoryConnection, under the write lock: reset the slots that hold conn,
\* except for those the loops pass over.
Scan(t) ==
    LET f == thread[t].fd
    IN  /\ thread[t].pc = "scan"
        /\ conn_list' = [s \in Slots |-> IF s \in FirstMatches(f) THEN 0 ELSE conn_list[s]]
        /\ foul' = (foul \cup Matches(f)) \ FirstMatches(f)
        /\ Step(t, [thread[t] EXCEPT !.pc = thread[t].ret, !.ret = "get"])
        /\ UNCHANGED <<sock, outside, stray>>

Talk(t) ==
    \/ Request(t) \/ GetPooled(t) \/ CreateConnection(t) \/ Send(t) \/ SendFails(t)
    \/ ReadAnswer(t) \/ ReadClosed(t) \/ ReadFails(t) \/ Close(t) \/ Scan(t)

-----------------------------------------------------------------------------
(***************************************************************************)
(* The descriptors outside the pool                                        *)
(***************************************************************************)
\* checkHealthThread: createConnection to an offline host, outside the pool
\* and without the lock; a failed one stays open here too.
Probe ==
    /\ probe = 0
    /\ Free # {}
    /\ \/ /\ sock' = [sock EXCEPT ![Lowest] = Socket("unconnected", NONE)]
          /\ UNCHANGED probe
       \/ /\ sock' = [sock EXCEPT ![Lowest] = Socket("up", NONE)]
          /\ probe' = Lowest
    /\ UNCHANGED <<conn_list, thread, clients, history>>

\* checkHealthThread: closeConnection.
ProbeClose ==
    /\ probe # 0
    /\ sock' = [sock EXCEPT ![probe] = Closed]
    /\ foul' = foul \cup Owner(probe)
    /\ probe' = 0
    /\ UNCHANGED <<conn_list, thread, clients, stray>>

\* The listener accepts a client.
Accept ==
    /\ Free # {}
    /\ clients[Lowest] < MaxConn
    /\ sock' = [sock EXCEPT ![Lowest] = Socket("up", CLIENT)]
    /\ clients' = [clients EXCEPT ![Lowest] = @ + 1]
    /\ UNCHANGED <<conn_list, thread, probe, history>>

\* Libevent reads what has arrived on the descriptor of a client.
ReadEvent(f) ==
    /\ clients[f] > 0
    /\ sock[f].recv # << >>
    /\ sock' = [sock EXCEPT ![f].recv = << >>]
    /\ UNCHANGED <<conn_list, thread, outside, history>>

\* Mutant: the descriptor is closed by hand too, and again by bufferevent_free.
CloseEvent_Twice(f) ==
    /\ clients[f] > 0
    /\ sock[f].st # "up"
    /\ sock' = [sock EXCEPT ![f] = Closed]
    /\ foul' = foul \cup Owner(f)
    /\ \E left \in {clients[f], clients[f] - 1} : clients' = [clients EXCEPT ![f] = left]
    /\ UNCHANGED <<conn_list, thread, probe, stray>>

\* closeEventCb: the descriptor is at its end or in error; bufferevent_free.
CloseEvent(f) ==
    /\ clients[f] > 0
    /\ sock[f].st # "up"
    /\ sock' = [sock EXCEPT ![f] = Closed]
    /\ foul' = foul \cup Owner(f)
    /\ clients' = [clients EXCEPT ![f] = @ - 1]
    /\ UNCHANGED <<conn_list, thread, probe, stray>>

\* A backend answers the requests of a connection in order.
Answer(f) ==
    /\ sock[f].st = "up"
    /\ sock[f].for # CLIENT
    /\ sock[f].sent # << >>
    /\ sock' = [sock EXCEPT ![f].sent = Tail(@), ![f].recv = Append(@, Head(sock[f].sent))]
    /\ UNCHANGED <<conn_list, thread, outside, history>>

\* A client sends its request.
ClientSends(f) ==
    /\ sock[f].st = "up"
    /\ sock[f].for = CLIENT
    /\ sock[f].recv = << >>
    /\ sock' = [sock EXCEPT ![f].recv = <<Bytes>>]
    /\ UNCHANGED <<conn_list, thread, outside, history>>

\* The peer closes a connection, or resets it, and then what has arrived and
\* was not read is lost.
PeerClose(f) ==
    /\ sock[f].st = "up"
    /\ \E left \in {sock[f].recv, << >>} :
          sock' = [sock EXCEPT ![f].st = "peer_closed", ![f].sent = << >>, ![f].recv = left]
    /\ UNCHANGED <<conn_list, thread, outside, history>>

Next ==
    \/ \E t \in Threads : Talk(t)
    \/ Probe \/ ProbeClose \/ Accept
    \/ \E f \in Fds : \/ ReadEvent(f) \/ CloseEvent(f)
                      \/ Answer(f) \/ ClientSends(f) \/ PeerClose(f)

Spec == Init /\ [][Next]_vars

-----------------------------------------------------------------------------
(***************************************************************************)
(* Properties                                                              *)
(***************************************************************************)
SocketType == [st : {"closed", "unconnected", "up", "peer_closed"},
               for : Slots \cup {NONE, CLIENT}, sent : Seq(Req), recv : Seq(Req)]

ThreadType == [pc : {"idle", "get", "create", "send", "read", "destroy", "scan"},
               host : Backends \cup {0}, fd : Fds \cup {0}, n : Nat, ret : {"get", "read"},
               got : Seq(Req)]

ThreadOK(r) ==
    /\ r \in ThreadType
    /\ r.pc # "idle" => r.host \in Backends
    /\ r.pc \in {"send", "read", "destroy", "scan"} => r.fd \in Fds

\* Type invariant.  A thread that sends, reads or destroys has a descriptor,
\* and a closed socket belongs to nobody.
TypeOK ==
    /\ conn_list \in [Slots -> Fds \cup {0, -1}]
    /\ sock \in [Fds -> SocketType]
    /\ \A f \in Fds : sock[f].st = "closed" => sock[f] = Closed
    /\ thread = [t \in Threads |-> thread[t]]
    /\ \A t \in Threads : ThreadOK(thread[t])
    /\ probe \in Fds \cup {0}
    /\ clients \in [Fds -> Nat]
    /\ stray \in BOOLEAN
    /\ foul \subseteq Slots

Destroying(f) == \E t \in Threads : thread[t].pc = "scan" /\ thread[t].fd = f

\* The open connection that was made for the slot.
Own(s, f) == sock[f].st # "closed" /\ sock[f].for = s

\* Whatever is closed, reused, closed twice or leaked, by the threads, the
\* health check and the clients: a descriptor in the pool is the open
\* connection that was made for its slot, and so to its backend and in no other
\* slot, except
\*   - while a destoryConnection of it is between its close() and its scan, or
\*   - in a foul slot: the health check or bufferevent_free has closed the
\*     slot's own connection, or a scan has passed over the slot because an
\*     earlier port of the same address held the descriptor too.
PooledIsOwn ==
    \A s \in Slots :
        conn_list[s] > 0 => \/ Own(s, conn_list[s])
                            \/ Destroying(conn_list[s])
                            \/ s \in foul

\* All of that has one cause, the loop of readFromBackend that goes on with the
\* descriptor it has closed: until it has closed a connection of somebody else
\* no slot is foul and no thread sends its request on a connection that was
\* not made for it, and a slot whose descriptor is not its own is the one its
\* thread is about to reset, be the backends on one address or on many.
OneCause ==
    ~ stray =>
        /\ foul = {}
        /\ \A t \in Threads : thread[t].pc = "send" => Own(OwnSlot(t), thread[t].fd)
        /\ \A s \in Slots : conn_list[s] > 0 =>
              \/ Own(s, conn_list[s])
              \/ thread[s[1]].pc = "scan" /\ OwnSlot(s[1]) = s

\* README: an error such as a timeout of select() fails the request it happens
\* to: every other response is the answer to its request.
AnswersMatch ==
    \A t \in Threads : \A i \in 1 .. Len(thread[t].got) : thread[t].got[i] = Current(t)
=============================================================================

---------------------------- MODULE ServerProofs ----------------------------
(***************************************************************************)
(* Proofs about module Server, for every number of threads, every set of   *)
(* descriptors and every size of the pipes.                                *)
(***************************************************************************)
EXTENDS Server, TLAPS, FiniteSetTheorems

\* The number of threads is set once, by the constructor.
LEMMA ThreadsFixed ==
  ASSUME [Next]_vars
  PROVE  m_thread_count' = m_thread_count /\ Threads' = Threads /\ Nodes' = Nodes
<1>1. m_thread_count' = m_thread_count
  BY DEF Next, Main, Worker, Busy, listenerEventCb, HandOver, quitCb, stopRun, Exit,
         threadProcess, NoBufferevent, insertConn, LoadConn, connectionEvent,
         readEventCb, ReadDone, ReadStuck, getStatus, ClampConn, closeEventCb, closeEvent,
         deleteConn, bufferevent_free, vars
<1>2. QED BY <1>1 DEF Threads, Nodes, m_head, m_tail

\* The type invariant holds at the start.
LEMMA InitType == Init => TypeOK
<1> SUFFICES ASSUME Init PROVE TypeOK
  OBVIOUS
<1> USE ThreadsAssumption, FdsAssumption DEF Init
<1>1. /\ m_next \in [Nodes -> Nodes \cup {NULL}]
      /\ m_prev \in [Nodes -> Nodes \cup {NULL}]
  <2>1. \A t \in Threads : m_head(t)[2] = t /\ m_tail(t)[2] = t
    BY DEF m_head, m_tail
  <2>2. \A t \in Threads : m_head(t) \in Nodes /\ m_tail(t) \in Nodes
    BY DEF Nodes
  <2>3. QED BY <2>1, <2>2
<1>2. /\ worker \in [Threads -> [pc : WorkerPC, fd : Fds \cup {NONE}, val : Int]]
      /\ \A t \in Threads : worker[t].pc \in HoldsFd \cup HoldsConn <=> worker[t].fd # NONE
  BY DEF Idle, WorkerPC, HoldsFd, HoldsConn
<1>3. pipe \in [Threads -> Seq(Fds \cup {EXIT_CODE})]
  OBVIOUS
<1>4. /\ m_thread_count \in 1 .. MaxThreads
      /\ main \in [pc : MainPC, fd : Fds \cup {NONE}, num : Nat]
      /\ main.pc = "loop" /\ main.fd = NONE
      /\ last_thread \in Threads \cup {-1} /\ accepted \in Nat /\ st_conn \in Int
      /\ m_thread \in [Fds -> Threads \cup {NONE}]
  BY DEF MainPC
<1>5. QED BY <1>1, <1>2, <1>3, <1>4 DEF TypeOK

\* A step of the main thread keeps the type invariant.
LEMMA MainType ==
  ASSUME TypeOK, Main \/ quitCb
  PROVE  TypeOK'
<1>1. m_thread_count' = m_thread_count /\ Threads' = Threads /\ Nodes' = Nodes
  BY ThreadsFixed DEF Next
<1>2. UNCHANGED <<worker, list, st_conn>>
  BY DEF Main, listenerEventCb, HandOver, quitCb, stopRun, Exit
<1>3. /\ main' \in [pc : MainPC, fd : Fds \cup {NONE}, num : Nat]
      /\ main'.pc = "write" => main'.num \in Threads
      /\ main'.pc = "write" <=> main'.fd # NONE
      /\ last_thread' \in Threads \cup {-1}
      /\ accepted' \in Nat
      /\ pipe' \in [Threads -> Seq(Fds \cup {EXIT_CODE})]
  <2> USE FdsAssumption, ThreadsAssumption DEF TypeOK, MainPC, NONE, Threads
  <2>1. CASE listenerEventCb BY <2>1 DEF listenerEventCb
  <2>2. CASE HandOver BY <2>2 DEF HandOver
  <2>3. CASE quitCb BY <2>3 DEF quitCb
  <2>4. CASE stopRun
    <3>1. main'.num = main.num + 1 /\ main'.pc = "stop" /\ main'.fd = main.fd
      BY <2>4 DEF stopRun
    <3>2. main' \in [pc : MainPC, fd : Fds \cup {NONE}, num : Nat]
      <4>1. main.num + 1 \in Nat /\ main' = [main EXCEPT !.num = main.num + 1]
        BY <2>4 DEF stopRun
      <4>2. main \in [pc : MainPC, fd : Fds \cup {NONE}, num : Nat]
        OBVIOUS
      <4> HIDE DEF TypeOK, MainPC, NONE, Threads
      <4>3. QED BY <4>1, <4>2
    <3>3. pipe' \in [Threads -> Seq(Fds \cup {EXIT_CODE})]
      <4>1. Append(pipe[main.num], EXIT_CODE) \in Seq(Fds \cup {EXIT_CODE})
        BY <2>4 DEF stopRun
      <4>2. QED BY <4>1, <2>4 DEF stopRun
    <3>4. QED BY <2>4, <3>1, <3>2, <3>3 DEF stopRun
  <2>5. CASE Exit BY <2>5 DEF Exit
  <2>6. QED BY <2>1, <2>2, <2>3, <2>4, <2>5 DEF Main
<1>4. QED BY <1>1, <1>2, <1>3 DEF TypeOK, list

\* A worker's control state, and when it has a descriptor in hand.
Good(w) == /\ w \in [pc : WorkerPC, fd : Fds \cup {NONE}, val : Int]
           /\ w.pc \in HoldsFd \cup HoldsConn <=> w.fd # NONE

\* Changes of a control state that keep it good.
LEMMA SetPc ==
  ASSUME NEW w, Good(w), w.pc \in HoldsFd \cup HoldsConn, NEW pc \in HoldsFd \cup HoldsConn
  PROVE  Good([w EXCEPT !.pc = pc])
<1>1. pc \in WorkerPC BY DEF WorkerPC
<1>2. QED BY <1>1 DEF Good

\* The same, with a new copy of st_conn.
LEMMA SetVal ==
  ASSUME NEW w, Good(w), w.pc \in HoldsFd \cup HoldsConn, NEW pc \in HoldsFd \cup HoldsConn,
         NEW val \in Int
  PROVE  Good([w EXCEPT !.val = val, !.pc = pc])
<1>1. pc \in WorkerPC BY DEF WorkerPC
<1>2. QED BY <1>1 DEF Good

\* A descriptor is taken into the hand.
LEMMA SetBoth ==
  ASSUME NEW w, Good(w), NEW pc \in HoldsFd \cup HoldsConn, NEW fd \in Fds
  PROVE  Good([w EXCEPT !.pc = pc, !.fd = fd])
<1>1. pc \in WorkerPC BY DEF WorkerPC
<1>2. fd # NONE BY FdsAssumption DEF NONE
<1>3. QED BY <1>1, <1>2 DEF Good

\* The event loop is left.
LEMMA SetOther ==
  ASSUME NEW w, Good(w), w.pc = "loop"
  PROVE  Good([w EXCEPT !.pc = "stopped"])
<1>1. "stopped" \in WorkerPC /\ "stopped" \notin HoldsFd \cup HoldsConn /\ "loop" \notin HoldsFd \cup HoldsConn
  BY DEF WorkerPC, HoldsFd, HoldsConn
<1>2. QED BY <1>1 DEF Good

\* The hand is empty in the event loop.
LEMMA IdleGood == Good(Idle)
<1>1. "loop" \in WorkerPC /\ "loop" \notin HoldsFd \cup HoldsConn
  BY DEF WorkerPC, HoldsFd, HoldsConn
<1>2. QED BY <1>1 DEF Good, Idle

\* A worker that changes only its own control state.
LEMMA PutWorker ==
  ASSUME TypeOK, NEW t \in Threads, NEW w, Good(w), worker' = [worker EXCEPT ![t] = w]
  PROVE  /\ worker' \in [Threads -> [pc : WorkerPC, fd : Fds \cup {NONE}, val : Int]]
         /\ \A u \in Threads : worker'[u].pc \in HoldsFd \cup HoldsConn <=> worker'[u].fd # NONE
BY DEF TypeOK, Good

\* So does a step of a worker thread.
LEMMA WorkerType ==
  ASSUME TypeOK, NEW t \in Threads, Worker(t)
  PROVE  TypeOK'
<1>1. m_thread_count' = m_thread_count /\ Threads' = Threads /\ Nodes' = Nodes
  BY ThreadsFixed DEF Next
<1>2. UNCHANGED <<main, last_thread, accepted>>
  BY DEF Worker, Busy, threadProcess, NoBufferevent, insertConn, LoadConn,
         connectionEvent, readEventCb, ReadDone, ReadStuck, getStatus, ClampConn,
         closeEventCb, closeEvent, deleteConn, bufferevent_free
<1>3. /\ pipe' \in [Threads -> Seq(Fds \cup {EXIT_CODE})]
      /\ worker' \in [Threads -> [pc : WorkerPC, fd : Fds \cup {NONE}, val : Int]]
      /\ \A u \in Threads : worker'[u].pc \in HoldsFd \cup HoldsConn <=> worker'[u].fd # NONE
      /\ st_conn' \in Int
  <2>1. CASE threadProcess(t)
    <3>1. Head(pipe[t]) \in Fds \cup {EXIT_CODE} /\ Tail(pipe[t]) \in Seq(Fds \cup {EXIT_CODE})
      BY <2>1 DEF threadProcess, TypeOK
    <3>2. pipe' \in [Threads -> Seq(Fds \cup {EXIT_CODE})] /\ st_conn' = st_conn
      BY <2>1, <3>1 DEF threadProcess, TypeOK
    <3>3. CASE Head(pipe[t]) = EXIT_CODE
      <4>1. worker' = [worker EXCEPT ![t] = [worker[t] EXCEPT !.pc = "stopped"]]
        BY <2>1, <3>3 DEF threadProcess
      <4>2. Good([worker[t] EXCEPT !.pc = "stopped"])
        BY <2>1, SetOther DEF threadProcess, TypeOK, Good
      <4>3. QED BY <3>2, <4>1, <4>2, PutWorker DEF TypeOK
    <3>4. CASE Head(pipe[t]) # EXIT_CODE
      <4>1. worker' = [worker EXCEPT ![t] = [worker[t] EXCEPT !.pc = "new", !.fd = Head(pipe[t])]]
        BY <2>1, <3>4 DEF threadProcess
      <4>2. Good([worker[t] EXCEPT !.pc = "new", !.fd = Head(pipe[t])])
        BY <3>1, <3>4, SetBoth DEF TypeOK, Good, HoldsFd
      <4>3. QED BY <3>2, <4>1, <4>2, PutWorker DEF TypeOK
    <3>5. QED BY <3>3, <3>4
  <2>2. CASE NoBufferevent(t)
    <3>1. worker' = [worker EXCEPT ![t] = [worker[t] EXCEPT !.pc = "failed"]]
      BY <2>2 DEF NoBufferevent
    <3>2. Good([worker[t] EXCEPT !.pc = "failed"])
      BY <2>2, SetPc DEF NoBufferevent, TypeOK, Good, HoldsFd, HoldsConn
    <3>3. pipe' = pipe /\ st_conn' \in Int
      BY <2>2 DEF NoBufferevent, TypeOK
    <3>4. QED BY <3>1, <3>2, <3>3, PutWorker DEF TypeOK
  <2>3. CASE insertConn(t)
    <3>1. worker' = [worker EXCEPT ![t] = [worker[t] EXCEPT !.pc = "st_conn++"]]
      BY <2>3 DEF insertConn
    <3>2. Good([worker[t] EXCEPT !.pc = "st_conn++"])
      BY <2>3, SetPc DEF insertConn, TypeOK, Good, HoldsFd, HoldsConn
    <3>3. pipe' = pipe /\ st_conn' \in Int
      BY <2>3 DEF insertConn, TypeOK
    <3>4. QED BY <3>1, <3>2, <3>3, PutWorker DEF TypeOK
  <2>4. CASE LoadConn(t)
    <3>1. PICK pc \in HoldsConn :
             worker' = [worker EXCEPT ![t] = [worker[t] EXCEPT !.val = st_conn, !.pc = pc]]
      BY <2>4 DEF LoadConn, HoldsConn
    <3>2. Good([worker[t] EXCEPT !.val = st_conn, !.pc = pc])
      BY <2>4, SetVal DEF LoadConn, TypeOK, Good, HoldsConn
    <3>3. pipe' = pipe /\ st_conn' \in Int
      BY <2>4 DEF LoadConn, TypeOK
    <3>4. QED BY <3>1, <3>2, <3>3, PutWorker DEF TypeOK
  <2>5. CASE connectionEvent(t)
    <3>1. worker' = [worker EXCEPT ![t] = Idle] /\ pipe' = pipe /\ st_conn' \in Int
      BY <2>5 DEF connectionEvent, TypeOK
    <3>2. QED BY <3>1, IdleGood, PutWorker DEF TypeOK
  <2>6. CASE readEventCb(t)
    <3>1. PICK fd \in Fds, pc \in HoldsConn :
             worker' = [worker EXCEPT ![t] = [worker[t] EXCEPT !.pc = pc, !.fd = fd]]
      <4>1. PICK fd \in Fds : \E pc \in {"busy", "status"} :
               worker' = [worker EXCEPT ![t] = [worker[t] EXCEPT !.pc = pc, !.fd = fd]]
        BY <2>6 DEF readEventCb
      <4>2. "busy" \in HoldsConn /\ "status" \in HoldsConn
        BY DEF HoldsConn
      <4>3. QED BY <4>1, <4>2
    <3>2. Good([worker[t] EXCEPT !.pc = pc, !.fd = fd])
      BY SetBoth DEF TypeOK, Good
    <3>3. pipe' = pipe /\ st_conn' \in Int
      BY <2>6 DEF readEventCb, TypeOK
    <3>4. QED BY <3>1, <3>2, <3>3, PutWorker DEF TypeOK
  <2>7. CASE ReadDone(t)
    <3>1. worker' = [worker EXCEPT ![t] = Idle] /\ pipe' = pipe /\ st_conn' \in Int
      BY <2>7 DEF ReadDone, TypeOK
    <3>2. QED BY <3>1, IdleGood, PutWorker DEF TypeOK
  <2>8. CASE getStatus(t)
    <3>1. PICK pc \in HoldsConn : worker' = [worker EXCEPT ![t] = [worker[t] EXCEPT !.pc = pc]]
      BY <2>8 DEF getStatus, HoldsConn
    <3>2. Good([worker[t] EXCEPT !.pc = pc])
      BY <2>8, SetPc DEF getStatus, TypeOK, Good, HoldsConn
    <3>3. pipe' = pipe /\ st_conn' \in Int
      BY <2>8 DEF getStatus, TypeOK
    <3>4. QED BY <3>1, <3>2, <3>3, PutWorker DEF TypeOK
  <2>9. CASE ClampConn(t)
    <3>1. worker' = [worker EXCEPT ![t] = [worker[t] EXCEPT !.pc = "busy"]]
      BY <2>9 DEF ClampConn
    <3>2. Good([worker[t] EXCEPT !.pc = "busy"])
      BY <2>9, SetPc DEF ClampConn, TypeOK, Good, HoldsFd, HoldsConn
    <3>3. pipe' = pipe /\ st_conn' \in Int
      BY <2>9 DEF ClampConn, TypeOK
    <3>4. QED BY <3>1, <3>2, <3>3, PutWorker DEF TypeOK
  <2>10. CASE closeEventCb(t)
    <3>1. PICK fd \in Fds, pc \in HoldsConn :
             worker' = [worker EXCEPT ![t] = [worker[t] EXCEPT !.pc = pc, !.fd = fd]]
      BY <2>10 DEF closeEventCb, HoldsConn
    <3>2. Good([worker[t] EXCEPT !.pc = pc, !.fd = fd])
      BY SetBoth DEF TypeOK, Good
    <3>3. pipe' = pipe /\ st_conn' \in Int
      BY <2>10 DEF closeEventCb, TypeOK
    <3>4. QED BY <3>1, <3>2, <3>3, PutWorker DEF TypeOK
  <2>11. CASE closeEvent(t)
    <3>1. worker' = [worker EXCEPT ![t] = [worker[t] EXCEPT !.pc = "delete"]]
      BY <2>11 DEF closeEvent
    <3>2. Good([worker[t] EXCEPT !.pc = "delete"])
      BY <2>11, SetPc DEF closeEvent, TypeOK, Good, HoldsFd, HoldsConn
    <3>3. pipe' = pipe /\ st_conn' \in Int
      BY <2>11 DEF closeEvent, TypeOK
    <3>4. QED BY <3>1, <3>2, <3>3, PutWorker DEF TypeOK
  <2>12. CASE deleteConn(t)
    <3>1. worker' = [worker EXCEPT ![t] = [worker[t] EXCEPT !.pc = "free"]]
      BY <2>12 DEF deleteConn
    <3>2. Good([worker[t] EXCEPT !.pc = "free"])
      BY <2>12, SetPc DEF deleteConn, TypeOK, Good, HoldsFd, HoldsConn
    <3>3. pipe' = pipe /\ st_conn' \in Int
      BY <2>12 DEF deleteConn, TypeOK
    <3>4. QED BY <3>1, <3>2, <3>3, PutWorker DEF TypeOK
  <2>13. CASE bufferevent_free(t)
    <3>1. worker' = [worker EXCEPT ![t] = Idle] /\ pipe' = pipe /\ st_conn' \in Int
      BY <2>13 DEF bufferevent_free, TypeOK
    <3>2. QED BY <3>1, IdleGood, PutWorker DEF TypeOK
  <2>14. CASE ReadStuck(t)
    <3>1. worker' = [worker EXCEPT ![t] = [worker[t] EXCEPT !.pc = "stuck"]]
      BY <2>14 DEF ReadStuck
    <3>2. Good([worker[t] EXCEPT !.pc = "stuck"])
      BY <2>14, SetPc DEF ReadStuck, TypeOK, Good, HoldsFd, HoldsConn
    <3>3. pipe' = pipe /\ st_conn' \in Int
      BY <2>14 DEF ReadStuck, TypeOK
    <3>4. QED BY <3>1, <3>2, <3>3, PutWorker DEF TypeOK
  <2>15. QED BY <2>1, <2>2, <2>3, <2>4, <2>5, <2>6, <2>7, <2>8, <2>9, <2>10, <2>11,
                <2>12, <2>13, <2>14 DEF Worker, Busy
<1>4. /\ m_thread' \in [Fds -> Threads \cup {NONE}]
      /\ m_next' \in [Nodes -> Nodes \cup {NULL}]
      /\ m_prev' \in [Nodes -> Nodes \cup {NULL}]
  <2>1. CASE insertConn(t)
    <3>1. worker[t].fd \in Fds /\ m_head(t) \in Nodes /\ Node(worker[t].fd) \in Nodes
      BY <2>1, FdsAssumption DEF insertConn, TypeOK, HoldsFd, NONE, Nodes
    <3>2. m_next[m_head(t)] \in Nodes \cup {NULL}
      BY <3>1 DEF TypeOK
    <3>3. QED BY <2>1, <3>1, <3>2 DEF insertConn, TypeOK
  <2>2. CASE deleteConn(t)
    <3>1. worker[t].fd \in Fds /\ Node(worker[t].fd) \in Nodes
      BY <2>2, FdsAssumption DEF deleteConn, TypeOK, HoldsConn, NONE, Nodes
    <3>2. QED BY <2>2, <3>1 DEF deleteConn, TypeOK
  <2>3. CASE UNCHANGED list BY <2>3 DEF TypeOK, list
  <2>4. QED
    BY <2>1, <2>2, <2>3 DEF Worker, Busy, threadProcess, NoBufferevent, LoadConn,
         connectionEvent, readEventCb, ReadDone, ReadStuck, getStatus, ClampConn,
         closeEventCb, closeEvent, bufferevent_free
<1>5. QED BY <1>1, <1>2, <1>3, <1>4 DEF TypeOK

\* Every step keeps the type invariant.
LEMMA StepType == TypeOK /\ [Next]_vars => TypeOK'
<1> SUFFICES ASSUME TypeOK, [Next]_vars PROVE TypeOK'
  OBVIOUS
<1>1. CASE Main \/ quitCb BY <1>1, MainType
<1>2. CASE \E t \in Threads : Worker(t) BY <1>2, WorkerType
<1>3. CASE UNCHANGED vars BY <1>3 DEF vars, TypeOK, Threads, Nodes, m_head, m_tail
<1>4. QED BY <1>1, <1>2, <1>3 DEF Next

\* Type correctness of the event server: a thread has a descriptor in hand
\* exactly while it accepts, opens, serves or closes a connection, and the
\* links of the lists stay within the nodes.
THEOREM TypeCorrect == Spec => []TypeOK
BY InitType, StepType, PTL DEF Spec

-----------------------------------------------------------------------------
(***************************************************************************)
(* The end of the process                                                  *)
(***************************************************************************)

\* The worker has been sent EXIT_CODE: stopRun has passed it.
Sent(t) == main.pc \in {"stop", "exit"} /\ t < main.num

\* EXIT_CODE is the last thing in a pipe, and only stopRun puts it there; a
\* worker that has read it finds nothing else.
ExitInv ==
    \A t \in Threads :
        /\ \A i \in DOMAIN pipe[t] : pipe[t][i] = EXIT_CODE => i = Len(pipe[t]) /\ Sent(t)
        /\ worker[t].pc = "stopped" => pipe[t] = << >> /\ Sent(t)

\* A step of the main thread keeps ExitInv.
LEMMA MainExit ==
  ASSUME TypeOK, ExitInv, Main \/ quitCb
  PROVE  ExitInv'
<1>1. m_thread_count' = m_thread_count /\ Threads' = Threads
  BY ThreadsFixed DEF Next
<1> SUFFICES ASSUME NEW t \in Threads
             PROVE  /\ \A i \in DOMAIN pipe'[t] : pipe'[t][i] = EXIT_CODE =>
                          i = Len(pipe'[t]) /\ Sent(t)'
                    /\ worker'[t].pc = "stopped" => pipe'[t] = << >> /\ Sent(t)'
  BY <1>1 DEF ExitInv
<1> USE DEF TypeOK, ExitInv, Sent
<1>2. CASE listenerEventCb BY <1>2 DEF listenerEventCb
<1>3. CASE HandOver
  <2>1. pipe[t] \in Seq(Fds \cup {EXIT_CODE}) /\ main.fd \in Fds /\ EXIT_CODE \notin Fds
    BY <1>3, FdsAssumption DEF HandOver, NONE, EXIT_CODE
  <2>2. /\ worker[t].pc # "stopped" /\ worker' = worker
        /\ \A i \in DOMAIN pipe[t] : pipe[t][i] # EXIT_CODE
    BY <1>3 DEF HandOver
  <2>3. pipe'[t] \in {pipe[t], Append(pipe[t], main.fd)}
    BY <1>3 DEF HandOver
  <2>4. \A i \in DOMAIN pipe'[t] : pipe'[t][i] # EXIT_CODE
    <3> HIDE DEF TypeOK, ExitInv, Sent
    <3>1. QED BY <2>1, <2>2, <2>3
  <2>5. QED BY <2>2, <2>4
<1>4. CASE quitCb BY <1>4 DEF quitCb
<1>5. CASE stopRun
  <2>1. pipe[t] \in Seq(Fds \cup {EXIT_CODE}) /\ worker' = worker
    BY <1>5 DEF stopRun
  <2>2. main'.pc = "stop" /\ main'.num = main.num + 1 /\ main.num \in Nat /\ main.pc = "stop"
    BY <1>5 DEF stopRun
  <2>3. CASE t = main.num
    <3>1. pipe'[t] = Append(pipe[t], EXIT_CODE)
      BY <1>5, <2>3 DEF stopRun
    <3>2. /\ worker[t].pc # "stopped"
          /\ \A i \in DOMAIN pipe[t] : pipe[t][i] # EXIT_CODE
      BY <2>3 DEF Threads
    <3>3. QED BY <2>1, <2>2, <2>3, <3>1, <3>2
  <2>4. CASE t # main.num
    <3>1. pipe'[t] = pipe[t]
      BY <1>5, <2>4 DEF stopRun
    <3>2. Sent(t) => Sent(t)'
      BY <2>2 DEF Threads
    <3>3. QED BY <2>1, <3>1, <3>2 DEF Threads
  <2>5. QED BY <2>3, <2>4
<1>6. CASE Exit BY <1>6 DEF Exit
<1>7. QED BY <1>2, <1>3, <1>4, <1>5, <1>6 DEF Main

\* So does a step of a worker thread.
LEMMA WorkerExit ==
  ASSUME TypeOK, ExitInv, NEW u \in Threads, Worker(u)
  PROVE  ExitInv'
<1>1. m_thread_count' = m_thread_count /\ Threads' = Threads /\ main' = main
  BY ThreadsFixed DEF Next, Worker, Busy, threadProcess, NoBufferevent, insertConn, LoadConn,
         connectionEvent, readEventCb, ReadDone, ReadStuck, getStatus, ClampConn,
         closeEventCb, closeEvent, deleteConn, bufferevent_free
<1>2. CASE threadProcess(u)
  <2>1. /\ pipe[u] \in Seq(Fds \cup {EXIT_CODE}) /\ pipe[u] # << >> /\ worker[u].pc # "stopped"
        /\ \A t \in Threads \ {u} : pipe'[t] = pipe[t] /\ worker'[t] = worker[t]
        /\ pipe'[u] = Tail(pipe[u])
        /\ worker'[u].pc = "stopped" => Head(pipe[u]) = EXIT_CODE
    BY <1>2 DEF threadProcess, TypeOK
  <2>2. \A i \in DOMAIN Tail(pipe[u]) : Tail(pipe[u])[i] = EXIT_CODE =>
           i = Len(Tail(pipe[u])) /\ Sent(u)
    BY <2>1 DEF ExitInv
  <2>3. Head(pipe[u]) = EXIT_CODE => Tail(pipe[u]) = << >> /\ Sent(u)
    BY <2>1 DEF ExitInv
  <2>4. QED BY <1>1, <2>1, <2>2, <2>3 DEF ExitInv, Sent
<1>3. CASE UNCHANGED pipe /\ worker'[u].pc # "stopped" /\ \A t \in Threads \ {u} : worker'[t] = worker[t]
  BY <1>1, <1>3 DEF ExitInv, Sent
<1>4. QED
  BY <1>2, <1>3 DEF TypeOK, Idle, Worker, Busy, NoBufferevent, insertConn, LoadConn,
         connectionEvent, readEventCb, ReadDone, ReadStuck, getStatus, ClampConn,
         closeEventCb, closeEvent, deleteConn, bufferevent_free

\* ExitInv is an invariant.
LEMMA ExitInvariant == Spec => []ExitInv
<1>1. Init => ExitInv
  BY DEF Init, ExitInv, Idle
<1>2. TypeOK /\ ExitInv /\ [Next]_vars => ExitInv'
  <2> SUFFICES ASSUME TypeOK, ExitInv, [Next]_vars PROVE ExitInv'
    OBVIOUS
  <2>1. CASE Main \/ quitCb BY <2>1, MainExit
  <2>2. CASE \E t \in Threads : Worker(t) BY <2>2, WorkerExit
  <2>3. CASE UNCHANGED vars BY <2>3 DEF vars, ExitInv, Sent, Threads
  <2>4. QED BY <2>1, <2>2, <2>3 DEF Next
<1>3. QED BY <1>1, <1>2, TypeCorrect, PTL DEF Spec

\* A worker that ends because of EXIT_CODE leaves no connection behind in its
\* pipe and is handed none, for any number of threads: stopRun writes behind
\* every descriptor and quitCb does not return to the accepting loop.
THEOREM ExitTakesAll == Spec => []NothingAfterExit
<1>1. ExitInv => NothingAfterExit
  BY DEF ExitInv, NothingAfterExit, Sent
<1>2. QED BY <1>1, ExitInvariant, PTL
-----------------------------------------------------------------------------
(***************************************************************************)
(* One owner per descriptor                                                *)
(***************************************************************************)

\* A step that moves no descriptor, except out of the hand of a worker that
\* returns to its loop.
Quiet ==
    /\ pipe' = pipe /\ m_thread' = m_thread /\ main'.fd = main.fd
    /\ \A u \in Threads : \/ worker'[u].fd = NONE
                          \/ /\ worker'[u].fd = worker[u].fd
                             /\ worker'[u].pc \in HoldsConn <=> worker[u].pc \in HoldsConn

\* A quiet step keeps OneOwner.
LEMMA QuietOwner ==
  ASSUME TypeOK, OneOwner, Quiet, Threads' = Threads
  PROVE  OneOwner'
<1>1. NONE \notin Fds BY FdsAssumption DEF NONE
<1>2. \A fd \in Fds, t \in Threads : /\ InPipe(fd, t)' <=> InPipe(fd, t)
                                     /\ Taken(fd, t)' => Taken(fd, t)
                                     /\ Taken(fd, t)' => (worker'[t].pc \in HoldsConn <=> worker[t].pc \in HoldsConn)
  BY <1>1 DEF Quiet, InPipe, Taken
<1>3. pipe' = pipe /\ m_thread' = m_thread /\ main'.fd = main.fd
  BY DEF Quiet
<1> SUFFICES ASSUME NEW fd \in Fds
             PROVE  /\ main'.fd = fd \/ (\E t \in Threads : InPipe(fd, t)') =>
                          m_thread'[fd] = NONE /\ \A t \in Threads : ~ Taken(fd, t)'
                    /\ main'.fd = fd => \A t \in Threads : ~ InPipe(fd, t)'
                    /\ \A t, u \in Threads : \A i \in DOMAIN pipe'[t], j \in DOMAIN pipe'[u] :
                          pipe'[t][i] = fd /\ pipe'[u][j] = fd => t = u /\ i = j
                    /\ \A t, u \in Threads : Taken(fd, t)' /\ Taken(fd, u)' => t = u
                    /\ \A t \in Threads : Taken(fd, t)' =>
                          m_thread'[fd] = IF worker'[t].pc \in HoldsConn THEN t ELSE NONE
  BY DEF OneOwner
<1>4. QED BY <1>2, <1>3 DEF OneOwner

\* The steps of the main thread keep OneOwner: accept() returns a descriptor
\* that is not in use, and write() moves it from the hand to the end of a pipe.
LEMMA MainOwner ==
  ASSUME TypeOK, OneOwner, Main \/ quitCb
  PROVE  OneOwner'
<1>1. Threads' = Threads /\ worker' = worker /\ m_thread' = m_thread
  BY ThreadsFixed DEF Next, Main, listenerEventCb, HandOver, quitCb, stopRun, Exit, list
<1>2. \A fd \in Fds, t \in Threads : Taken(fd, t)' <=> Taken(fd, t)
  BY <1>1 DEF Taken
<1>3. NONE \notin Fds /\ EXIT_CODE \notin Fds
  BY FdsAssumption DEF NONE, EXIT_CODE
<1> SUFFICES ASSUME NEW fd \in Fds
             PROVE  /\ main'.fd = fd \/ (\E t \in Threads : InPipe(fd, t)') =>
                          m_thread[fd] = NONE /\ \A t \in Threads : ~ Taken(fd, t)
                    /\ main'.fd = fd => \A t \in Threads : ~ InPipe(fd, t)'
                    /\ \A t, u \in Threads : \A i \in DOMAIN pipe'[t], j \in DOMAIN pipe'[u] :
                          pipe'[t][i] = fd /\ pipe'[u][j] = fd => t = u /\ i = j
  BY <1>1, <1>2 DEF OneOwner
<1>4. CASE listenerEventCb
  <2>1. pipe' = pipe /\ \A t \in Threads : InPipe(fd, t)' <=> InPipe(fd, t)
    BY <1>4 DEF listenerEventCb, InPipe
  <2>2. main'.fd = fd => ~ Used(fd)
    BY <1>4 DEF listenerEventCb
  <2>3. QED BY <2>1, <2>2 DEF OneOwner, Used
<1>5. CASE HandOver
  <2>1. /\ main.num \in Threads /\ main.fd \in Fds /\ main'.fd = NONE
        /\ \A t \in Threads : pipe[t] \in Seq(Fds \cup {EXIT_CODE})
    BY <1>5 DEF HandOver, TypeOK
  <2>2. /\ pipe'[main.num] = Append(pipe[main.num], main.fd)
        /\ \A t \in Threads \ {main.num} : pipe'[t] = pipe[t]
    BY <1>5, <2>1 DEF HandOver, TypeOK
  <2>3. \A t \in Threads : \A i \in DOMAIN pipe'[t] :
           \/ i \in DOMAIN pipe[t] /\ pipe'[t][i] = pipe[t][i]
           \/ t = main.num /\ i = Len(pipe[t]) + 1 /\ pipe'[t][i] = main.fd
    BY <2>1, <2>2
  <2>4. \A t \in Threads : InPipe(fd, t)' => InPipe(fd, t) \/ main.fd = fd
    BY <2>3 DEF InPipe
  <2>5. CASE fd = main.fd
    <3>1. \A t \in Threads : \A i \in DOMAIN pipe[t] : pipe[t][i] # fd
      BY <2>5 DEF OneOwner, InPipe
    <3>2. QED BY <1>3, <2>1, <2>3, <2>5, <3>1 DEF OneOwner
  <2>6. CASE fd # main.fd
    <3>1. \A t, u \in Threads : \A i \in DOMAIN pipe'[t], j \in DOMAIN pipe'[u] :
            pipe'[t][i] = fd /\ pipe'[u][j] = fd => t = u /\ i = j
      BY <2>3, <2>6 DEF OneOwner
    <3>2. QED BY <1>3, <2>1, <2>4, <2>6, <3>1 DEF OneOwner
  <2>7. QED BY <2>5, <2>6
<1>6. CASE stopRun
  <2>1. /\ main.num \in Threads /\ main'.fd = main.fd
        /\ \A t \in Threads : pipe[t] \in Seq(Fds \cup {EXIT_CODE})
    BY <1>6 DEF stopRun, TypeOK
  <2>2. /\ pipe'[main.num] = Append(pipe[main.num], EXIT_CODE)
        /\ \A t \in Threads \ {main.num} : pipe'[t] = pipe[t]
    BY <1>6, <2>1 DEF stopRun, TypeOK
  <2>3. \A t \in Threads : \A i \in DOMAIN pipe'[t] : pipe'[t][i] = fd =>
           i \in DOMAIN pipe[t] /\ pipe[t][i] = fd
    BY <1>3, <2>1, <2>2
  <2>4. \A t \in Threads : InPipe(fd, t)' => InPipe(fd, t)
    BY <2>3 DEF InPipe
  <2>5. QED BY <2>1, <2>3, <2>4 DEF OneOwner
<1>7. CASE quitCb \/ Exit
  <2>1. pipe' = pipe /\ main'.fd = main.fd
    BY <1>7 DEF quitCb, Exit, TypeOK
  <2>2. \A t \in Threads : InPipe(fd, t)' <=> InPipe(fd, t)
    BY <2>1 DEF InPipe
  <2>3. QED BY <2>1, <2>2 DEF OneOwner
<1>8. QED BY <1>4, <1>5, <1>6, <1>7 DEF Main

\* The steps of a worker thread keep OneOwner.
LEMMA WorkerOwner ==
  ASSUME TypeOK, OneOwner, NEW t \in Threads, Worker(t)
  PROVE  OneOwner'
<1>1. Threads' = Threads
  BY ThreadsFixed DEF Next
<1>2. NONE \notin Fds /\ EXIT_CODE \notin Fds
  BY FdsAssumption DEF NONE, EXIT_CODE
<1>3. ASSUME main'.fd = main.fd,
             \A fd \in Fds : \A u \in Threads :
                /\ InPipe(fd, u)' => InPipe(fd, u)
                /\ Taken(fd, u)' /\ ~ Taken(fd, u) =>
                      /\ u = t
                      /\ \/ m_thread[fd] = t
                         \/ InPipe(fd, t) /\ \A v \in Threads : ~ InPipe(fd, v)'
                /\ Taken(fd, u)' =>
                      m_thread'[fd] = IF worker'[u].pc \in HoldsConn THEN u ELSE NONE
                /\ InPipe(fd, u) => m_thread'[fd] = m_thread[fd],
             \A fd \in Fds : main.fd = fd => m_thread'[fd] = m_thread[fd],
             \A fd \in Fds : \A u, v \in Threads :
                \A i \in DOMAIN pipe'[u], j \in DOMAIN pipe'[v] :
                   pipe'[u][i] = fd /\ pipe'[v][j] = fd => u = v /\ i = j
      PROVE  OneOwner'
  <2> SUFFICES ASSUME NEW fd \in Fds
               PROVE  /\ main'.fd = fd \/ (\E u \in Threads : InPipe(fd, u)') =>
                            m_thread'[fd] = NONE /\ \A u \in Threads : ~ Taken(fd, u)'
                      /\ main'.fd = fd => \A u \in Threads : ~ InPipe(fd, u)'
                      /\ \A u, v \in Threads : \A i \in DOMAIN pipe'[u], j \in DOMAIN pipe'[v] :
                            pipe'[u][i] = fd /\ pipe'[v][j] = fd => u = v /\ i = j
                      /\ \A u, v \in Threads : Taken(fd, u)' /\ Taken(fd, v)' => u = v
                      /\ \A u \in Threads : Taken(fd, u)' =>
                            m_thread'[fd] = IF worker'[u].pc \in HoldsConn THEN u ELSE NONE
    BY <1>1 DEF OneOwner
  <2>1. NONE \notin Threads
    BY DEF NONE, Threads
  <2>2. \A u, v \in Threads : Taken(fd, u)' /\ Taken(fd, v)' => u = v
    BY <1>3, <2>1 DEF OneOwner
  <2>3. ASSUME main'.fd = fd \/ (\E u \in Threads : InPipe(fd, u)')
        PROVE  m_thread'[fd] = NONE /\ \A u \in Threads : ~ Taken(fd, u)'
    BY <1>3, <2>1, <2>3 DEF OneOwner
  <2>4. QED BY <1>3, <2>2, <2>3 DEF OneOwner
<1>4. CASE Quiet BY <1>1, <1>4, QuietOwner
<1>5. CASE threadProcess(t)
  <2>1. /\ main' = main /\ m_thread' = m_thread
        /\ pipe[t] \in Seq(Fds \cup {EXIT_CODE}) /\ pipe[t] # << >>
        /\ pipe'[t] = Tail(pipe[t]) /\ worker[t].fd = NONE
        /\ \A u \in Threads \ {t} : pipe'[u] = pipe[u] /\ worker'[u] = worker[u]
    BY <1>5 DEF threadProcess, TypeOK, list, HoldsFd, HoldsConn
  <2>2. \/ worker'[t].fd = NONE
        \/ worker'[t].fd = pipe[t][1] /\ worker'[t].pc \notin HoldsConn
    BY <1>5, <2>1 DEF threadProcess, TypeOK, HoldsConn
  <2>3. \A u \in Threads : \A i \in DOMAIN pipe'[u] :
           \E k \in DOMAIN pipe[u] : /\ pipe[u][k] = pipe'[u][i]
                                     /\ k = IF u = t THEN i + 1 ELSE i
    <3>1. \A i \in DOMAIN Tail(pipe[t]) : i + 1 \in DOMAIN pipe[t] /\ pipe[t][i + 1] = Tail(pipe[t])[i]
      BY <2>1
    <3>2. QED BY <2>1, <3>1
  <2>4. \A fd \in Fds : \A u \in Threads : InPipe(fd, u)' => InPipe(fd, u)
    BY <2>3 DEF InPipe
  <2>5. \A u \in Threads : \A i \in DOMAIN pipe'[u] : i \in Nat \ {0}
    <3>1. \A u \in Threads : pipe'[u] \in Seq(Fds \cup {EXIT_CODE})
      BY <1>1, WorkerType DEF TypeOK
    <3>2. QED BY <3>1
  <2>6. \A fd \in Fds : \A u, v \in Threads :
           \A i \in DOMAIN pipe'[u], j \in DOMAIN pipe'[v] :
              pipe'[u][i] = fd /\ pipe'[v][j] = fd => u = v /\ i = j
    BY <2>3, <2>5 DEF OneOwner
  <2>7. ASSUME NEW fd \in Fds, pipe[t][1] = fd
        PROVE  InPipe(fd, t) /\ \A v \in Threads : ~ InPipe(fd, v)'
    <3>1. 1 \in DOMAIN pipe[t]
      BY <2>1
    <3>2. \A v \in Threads : \A i \in DOMAIN pipe'[v] : pipe'[v][i] # fd
      BY <2>3, <2>5, <2>7, <3>1 DEF OneOwner
    <3>3. QED BY <2>7, <3>1, <3>2 DEF InPipe
  <2>8. \A fd \in Fds : \A u \in Threads :
           Taken(fd, u)' /\ ~ Taken(fd, u) => u = t /\ pipe[t][1] = fd
    BY <1>2, <2>1, <2>2 DEF Taken
  <2>9. \A fd \in Fds : \A u \in Threads : Taken(fd, u)' =>
           m_thread[fd] = IF worker'[u].pc \in HoldsConn THEN u ELSE NONE
    <3> SUFFICES ASSUME NEW fd \in Fds, NEW u \in Threads, Taken(fd, u)'
                 PROVE  m_thread[fd] = IF worker'[u].pc \in HoldsConn THEN u ELSE NONE
      OBVIOUS
    <3>1. CASE u = t
      <4>1. pipe[t][1] = fd /\ worker'[t].pc \notin HoldsConn
        BY <1>2, <2>2, <3>1 DEF Taken
      <4>2. QED BY <2>7, <3>1, <4>1 DEF OneOwner
    <3>2. CASE u # t
      BY <2>1, <3>2 DEF OneOwner, Taken
    <3>3. QED BY <3>1, <3>2
  <2>10. QED BY <1>3, <2>1, <2>4, <2>6, <2>7, <2>8, <2>9
<1>6. CASE readEventCb(t) \/ closeEventCb(t)
  <2>1. /\ main' = main /\ m_thread' = m_thread /\ pipe' = pipe
        /\ \A u \in Threads \ {t} : worker'[u] = worker[u]
    BY <1>6 DEF readEventCb, closeEventCb, TypeOK, list
  <2>2. worker'[t].pc \in HoldsConn /\ m_thread[worker'[t].fd] = t
    BY <1>6 DEF readEventCb, closeEventCb, TypeOK, HoldsConn
  <2>3. \A fd \in Fds : \A u \in Threads : /\ InPipe(fd, u)' => InPipe(fd, u)
                                           /\ Taken(fd, u)' => IF u = t THEN m_thread[fd] = t
                                                               ELSE Taken(fd, u)
    BY <2>1, <2>2 DEF InPipe, Taken
  <2>4. \A fd \in Fds : \A u \in Threads : Taken(fd, u)' =>
           m_thread[fd] = IF worker'[u].pc \in HoldsConn THEN u ELSE NONE
    BY <2>1, <2>2, <2>3 DEF OneOwner
  <2>5. \A fd \in Fds : \A u, v \in Threads :
           \A i \in DOMAIN pipe'[u], j \in DOMAIN pipe'[v] :
              pipe'[u][i] = fd /\ pipe'[v][j] = fd => u = v /\ i = j
    BY <2>1 DEF OneOwner
  <2>6. QED BY <1>3, <2>1, <2>3, <2>4, <2>5
<1>7. CASE insertConn(t) \/ deleteConn(t)
  <2>1. /\ main' = main /\ pipe' = pipe
        /\ \A u \in Threads \ {t} : worker'[u] = worker[u]
        /\ worker'[t].fd = worker[t].fd /\ worker[t].fd \in Fds
        /\ \A fd \in Fds \ {worker[t].fd} : m_thread'[fd] = m_thread[fd]
        /\ m_thread'[worker[t].fd] = IF worker'[t].pc \in HoldsConn THEN t ELSE NONE
    BY <1>7 DEF insertConn, deleteConn, TypeOK, HoldsConn, HoldsFd
  <2>2. \A fd \in Fds : \A u \in Threads : /\ InPipe(fd, u)' => InPipe(fd, u)
                                           /\ Taken(fd, u)' <=> Taken(fd, u)
                                           /\ Taken(fd, t) <=> fd = worker[t].fd
    BY <2>1 DEF InPipe, Taken
  <2>3. \A fd \in Fds : \A u \in Threads : Taken(fd, u)' =>
           m_thread'[fd] = IF worker'[u].pc \in HoldsConn THEN u ELSE NONE
    <3> SUFFICES ASSUME NEW fd \in Fds, NEW u \in Threads, Taken(fd, u)'
                 PROVE  m_thread'[fd] = IF worker'[u].pc \in HoldsConn THEN u ELSE NONE
      OBVIOUS
    <3>1. CASE fd = worker[t].fd
      <4>1. u = t
        BY <2>2, <3>1 DEF OneOwner
      <4>2. QED BY <2>1, <3>1, <4>1
    <3>2. CASE fd # worker[t].fd
      <4>1. u # t /\ worker'[u] = worker[u] /\ m_thread'[fd] = m_thread[fd]
        BY <2>1, <2>2, <3>2
      <4>2. QED BY <2>2, <4>1 DEF OneOwner
    <3>3. QED BY <3>1, <3>2
  <2>4. \A fd \in Fds : main.fd = fd \/ (\E u \in Threads : InPipe(fd, u)) => m_thread'[fd] = m_thread[fd]
    BY <2>1, <2>2 DEF OneOwner
  <2>5. \A fd \in Fds : \A u, v \in Threads :
           \A i \in DOMAIN pipe'[u], j \in DOMAIN pipe'[v] :
              pipe'[u][i] = fd /\ pipe'[v][j] = fd => u = v /\ i = j
    BY <2>1 DEF OneOwner
  <2>6. QED BY <1>3, <2>1, <2>2, <2>3, <2>4, <2>5
<1>8. CASE \/ NoBufferevent(t) \/ LoadConn(t) \/ ReadStuck(t) \/ getStatus(t) \/ ClampConn(t)
           \/ closeEvent(t)
  <2>1. Quiet
    <3>1. /\ pipe' = pipe /\ m_thread' = m_thread /\ main' = main
          /\ \A u \in Threads \ {t} : worker'[u] = worker[u]
      BY <1>8 DEF NoBufferevent, LoadConn, ReadStuck, getStatus, ClampConn, closeEvent, TypeOK, list
    <3>2. worker'[t].fd = worker[t].fd /\ (worker'[t].pc \in HoldsConn <=> worker[t].pc \in HoldsConn)
      <4>1. CASE NoBufferevent(t) BY <4>1 DEF NoBufferevent, TypeOK, HoldsConn
      <4>2. CASE LoadConn(t) BY <4>2 DEF LoadConn, TypeOK, HoldsConn
      <4>3. CASE getStatus(t) BY <4>3 DEF getStatus, TypeOK, HoldsConn
      <4>4. CASE ClampConn(t) BY <4>4 DEF ClampConn, TypeOK, HoldsConn
      <4>5. CASE closeEvent(t) BY <4>5 DEF closeEvent, TypeOK, HoldsConn
      <4>6. CASE ReadStuck(t) BY <4>6 DEF ReadStuck, TypeOK, HoldsConn
      <4>7. QED BY <1>8, <4>1, <4>2, <4>3, <4>4, <4>5, <4>6
    <3>3. QED BY <3>1, <3>2 DEF Quiet
  <2>2. QED BY <1>4, <2>1
<1>9. CASE connectionEvent(t) \/ ReadDone(t) \/ bufferevent_free(t)
  <2>1. Quiet
    <3>1. /\ pipe' = pipe /\ m_thread' = m_thread /\ main' = main
          /\ \A u \in Threads \ {t} : worker'[u] = worker[u]
          /\ worker'[t].fd = NONE
      BY <1>9 DEF connectionEvent, ReadDone, bufferevent_free, TypeOK, list, Idle
    <3>2. QED BY <3>1 DEF Quiet
  <2>2. QED BY <1>4, <2>1
<1>10. QED BY <1>5, <1>6, <1>7, <1>8, <1>9 DEF Worker, Busy

\* A descriptor is at one place at a time, for any number of threads and any
\* set of descriptors: the hand-over through the pipes and the reuse of closed
\* descriptors by accept() never make two threads serve one connection.
THEOREM OwnedOnce == Spec => []OneOwner
<1>1. Init => OneOwner
  BY FdsAssumption DEF Init, OneOwner, InPipe, Taken, Idle, NONE, Threads
<1>2. TypeOK /\ OneOwner /\ [Next]_vars => OneOwner'
  <2> SUFFICES ASSUME TypeOK, OneOwner, [Next]_vars PROVE OneOwner'
    OBVIOUS
  <2>1. CASE Main \/ quitCb BY <2>1, MainOwner
  <2>2. CASE \E t \in Threads : Worker(t) BY <2>2, WorkerOwner
  <2>3. CASE UNCHANGED vars
    <3>1. Quiet /\ Threads' = Threads
      BY <2>3 DEF vars, Quiet, Threads
    <3>2. QED BY <3>1, QuietOwner
  <2>4. QED BY <2>1, <2>2, <2>3 DEF Next
<1>3. QED BY <1>1, <1>2, TypeCorrect, PTL DEF Spec

-----------------------------------------------------------------------------
(***************************************************************************)
(* The connect_queues                                                      *)
(***************************************************************************)

\* A doubly linked list of the nodes S between the sentinels h and l.
Linked(nx, pv, S, h, l) ==
    /\ \A n \in S \cup {h} : nx[n] \in S \cup {l} /\ pv[nx[n]] = n
    /\ \A n \in S \cup {l} : pv[n] \in S \cup {h} /\ nx[pv[n]] = n

\* A node is inserted behind the head.
LEMMA InsertLinks ==
  ASSUME NEW D, NEW R, NEW nx \in [D -> R], NEW pv \in [D -> R],
         NEW S \in SUBSET D, NEW h \in D, NEW l \in D, NEW c \in D,
         h \notin S, l \notin S, h # l, c \notin S, c # h, c # l,
         Linked(nx, pv, S, h, l)
  PROVE  Linked([nx EXCEPT ![c] = nx[h], ![h] = c], [pv EXCEPT ![c] = h, ![nx[h]] = c],
                S \cup {c}, h, l)
<1> DEFINE nx2 == [nx EXCEPT ![c] = nx[h], ![h] = c]
           pv2 == [pv EXCEPT ![c] = h, ![nx[h]] = c]
<1>1. nx[h] \in S \cup {l} /\ pv[nx[h]] = h
  BY DEF Linked
<1>2. nx2[c] = nx[h] /\ nx2[h] = c /\ \A n \in D : n # c /\ n # h => nx2[n] = nx[n]
  OBVIOUS
<1>3. pv2[c] = h /\ pv2[nx[h]] = c /\ \A n \in D : n # c /\ n # nx[h] => pv2[n] = pv[n]
  BY <1>1
<1> HIDE DEF nx2, pv2
<1>4. ASSUME NEW n \in S \cup {c} \cup {h}
      PROVE  nx2[n] \in S \cup {c} \cup {l} /\ pv2[nx2[n]] = n
  <2>1. CASE n = c BY <1>1, <1>2, <1>3, <2>1
  <2>2. CASE n = h BY <1>1, <1>2, <1>3, <2>2
  <2>3. CASE n \in S
    <3>1. nx2[n] = nx[n] /\ nx[n] \in S \cup {l} /\ pv[nx[n]] = n
      BY <1>2, <2>3 DEF Linked
    <3>2. nx[n] # nx[h] /\ nx[n] # c
      BY <1>1, <2>3, <3>1
    <3>3. QED BY <1>3, <3>1, <3>2
  <2>4. QED BY <2>1, <2>2, <2>3
<1>5. ASSUME NEW n \in S \cup {c} \cup {l}
      PROVE  pv2[n] \in S \cup {c} \cup {h} /\ nx2[pv2[n]] = n
  <2>1. CASE n = c BY <1>2, <1>3, <2>1
  <2>2. CASE n = nx[h] BY <1>2, <1>3, <2>2
  <2>3. CASE n # c /\ n # nx[h]
    <3>1. pv2[n] = pv[n] /\ pv[n] \in S \cup {h} /\ nx[pv[n]] = n
      BY <1>3, <1>5, <2>3 DEF Linked
    <3>2. pv[n] # h /\ pv[n] # c
      BY <2>3, <3>1
    <3>3. QED BY <1>2, <3>1, <3>2
  <2>4. QED BY <2>1, <2>2, <2>3
<1>6. Linked(nx2, pv2, S \cup {c}, h, l)
  BY <1>4, <1>5 DEF Linked
<1>7. QED BY <1>6 DEF nx2, pv2

\* A node is taken out.
LEMMA DeleteLinks ==
  ASSUME NEW D, NEW R, NEW nx \in [D -> R], NEW pv \in [D -> R],
         NEW S \in SUBSET D, NEW h \in D, NEW l \in D, NEW c \in S, NEW null,
         h \notin S, l \notin S, h # l,
         Linked(nx, pv, S, h, l)
  PROVE  Linked([nx EXCEPT ![pv[c]] = nx[c], ![c] = null],
                [pv EXCEPT ![nx[c]] = pv[c], ![c] = null], S \ {c}, h, l)
<1> DEFINE nx2 == [nx EXCEPT ![pv[c]] = nx[c], ![c] = null]
           pv2 == [pv EXCEPT ![nx[c]] = pv[c], ![c] = null]
<1>1. /\ pv[c] \in S \cup {h} /\ nx[pv[c]] = c
      /\ nx[c] \in S \cup {l} /\ pv[nx[c]] = c
  BY DEF Linked
<1>2. /\ pv[c] # c => nx2[pv[c]] = nx[c]
      /\ \A n \in D : n # c /\ n # pv[c] => nx2[n] = nx[n]
  BY <1>1
<1>3. /\ nx[c] # c => pv2[nx[c]] = pv[c]
      /\ \A n \in D : n # c /\ n # nx[c] => pv2[n] = pv[n]
  BY <1>1
<1>4. pv[c] = c <=> nx[c] = c
  BY <1>1
<1> HIDE DEF nx2, pv2
<1>5. ASSUME NEW n \in (S \ {c}) \cup {h}
      PROVE  nx2[n] \in (S \ {c}) \cup {l} /\ pv2[nx2[n]] = n
  <2>1. n # c /\ nx[n] \in S \cup {l} /\ pv[nx[n]] = n
    BY DEF Linked
  <2>2. CASE n = pv[c] BY <1>1, <1>2, <1>3, <1>4, <2>1, <2>2
  <2>3. CASE n # pv[c]
    <3>1. nx2[n] = nx[n] /\ nx[n] # c /\ nx[n] # nx[c]
      BY <1>1, <1>2, <2>1, <2>3
    <3>2. QED BY <1>3, <2>1, <3>1
  <2>4. QED BY <2>2, <2>3
<1>6. ASSUME NEW n \in (S \ {c}) \cup {l}
      PROVE  pv2[n] \in (S \ {c}) \cup {h} /\ nx2[pv2[n]] = n
  <2>1. n # c /\ pv[n] \in S \cup {h} /\ nx[pv[n]] = n
    BY DEF Linked
  <2>2. CASE n = nx[c] BY <1>1, <1>2, <1>3, <1>4, <2>1, <2>2
  <2>3. CASE n # nx[c]
    <3>1. pv2[n] = pv[n] /\ pv[n] # c /\ pv[n] # pv[c]
      BY <1>1, <1>3, <2>1, <2>3
    <3>2. QED BY <1>2, <2>1, <3>1
  <2>4. QED BY <2>2, <2>3
<1>7. Linked(nx2, pv2, S \ {c}, h, l)
  BY <1>5, <1>6 DEF Linked
<1>8. QED BY <1>7 DEF nx2, pv2

\* A list whose nodes are not touched stays linked.
LEMMA OtherLinks ==
  ASSUME NEW nx, NEW pv, NEW nx2, NEW pv2, NEW S, NEW h, NEW l,
         \A n \in S \cup {h} : nx2[n] = nx[n], \A n \in S \cup {l} : pv2[n] = pv[n],
         Linked(nx, pv, S, h, l)
  PROVE  Linked(nx2, pv2, S, h, l)
BY DEF Linked

\* The nodes of the lists are different from each other.
LEMMA NodesDiffer ==
  ASSUME NEW t, NEW u, NEW f, NEW g
  PROVE  /\ Node(f) # m_head(t) /\ Node(f) # m_tail(t) /\ m_head(t) # m_tail(u)
         /\ Node(f) = Node(g) => f = g
         /\ m_head(t) = m_head(u) => t = u
         /\ m_tail(t) = m_tail(u) => t = u
BY DEF Node, m_head, m_tail

\* Two workers have no node in common.
LEMMA ListsApart ==
  ASSUME NEW t \in Threads, NEW u \in Threads
  PROVE  /\ m_head(t) \notin Conns(u) /\ m_tail(t) \notin Conns(u) /\ m_head(t) # m_tail(u)
         /\ u # t => /\ Conns(t) \cap Conns(u) = {}
                     /\ m_head(t) # m_head(u) /\ m_tail(t) # m_tail(u)
<1>1. \A f \in Fds : m_head(t) # Node(f) /\ m_tail(t) # Node(f)
  BY NodesDiffer
<1>2. \A f, g \in Fds : Node(f) = Node(g) => f = g
  BY NodesDiffer
<1>3. QED BY <1>1, <1>2, NodesDiffer DEF Conns

\* insertConn keeps the lists linked: the Conn is new, in no list.
LEMMA InsertStep ==
  ASSUME TypeOK, OneOwner, ListsLinked, NEW t \in Threads, insertConn(t)
  PROVE  ListsLinked'
<1> DEFINE fd == worker[t].fd
           next == m_next[m_head(t)]
<1>1. Threads' = Threads
  BY ThreadsFixed DEF Next, Worker, Busy
<1>2. fd \in Fds /\ m_thread[fd] = NONE /\ NONE \notin Threads
  <2>1. worker[t].pc = "new" /\ "new" \in HoldsFd /\ "new" \notin HoldsConn
    BY DEF insertConn, HoldsFd, HoldsConn
  <2>2. fd \in Fds /\ Taken(fd, t)
    BY <2>1 DEF TypeOK, Taken
  <2>3. QED BY <2>1, <2>2 DEF OneOwner, NONE, Threads
<1>3. /\ m_thread' = [m_thread EXCEPT ![fd] = t]
      /\ m_next' = [m_next EXCEPT ![Node(fd)] = next, ![m_head(t)] = Node(fd)]
      /\ m_prev' = [m_prev EXCEPT ![Node(fd)] = m_head(t), ![next] = Node(fd)]
  BY DEF insertConn
<1>4. \A u \in Threads : /\ Conns(u)' = IF u = t THEN Conns(u) \cup {Node(fd)} ELSE Conns(u)
                         /\ Node(fd) \notin Conns(u)
  <2>1. \A f \in Fds : Node(f) = Node(fd) => f = fd
    BY NodesDiffer
  <2>2. \A f \in Fds : m_thread'[f] = IF f = fd THEN t ELSE m_thread[f]
    BY <1>2, <1>3 DEF TypeOK
  <2> SUFFICES ASSUME NEW u \in Threads
               PROVE  /\ Conns(u)' = IF u = t THEN Conns(u) \cup {Node(fd)} ELSE Conns(u)
                      /\ Node(fd) \notin Conns(u)
    OBVIOUS
  <2>3. \A n : n \in Conns(u) <=> \E f \in Fds : m_thread[f] = u /\ n = Node(f)
    BY DEF Conns
  <2>4. \A n : n \in Conns(u)' <=> \E f \in Fds : m_thread'[f] = u /\ n = Node(f)
    BY DEF Conns
  <2>5. Node(fd) \notin Conns(u)
    BY <1>2, <2>1, <2>3
  <2>6. \A n : n \in Conns(u)' <=> n \in Conns(u) \/ (u = t /\ n = Node(fd))
    BY <1>2, <2>2, <2>3, <2>4
  <2>7. QED BY <2>5, <2>6
<1>5. \A u \in Threads : /\ Conns(u) \in SUBSET Nodes /\ m_head(u) \in Nodes /\ m_tail(u) \in Nodes
                         /\ m_head(u) \notin Conns(u) /\ m_tail(u) \notin Conns(u)
                         /\ m_head(u) # m_tail(u)
                         /\ Linked(m_next, m_prev, Conns(u), m_head(u), m_tail(u))
  BY NodesDiffer DEF Conns, Nodes, ListsLinked, Linked
<1>6. Node(fd) \in Nodes /\ \A u \in Threads : Node(fd) # m_head(u) /\ Node(fd) # m_tail(u)
  BY <1>2, NodesDiffer DEF Nodes
<1>7. m_next \in [Nodes -> Nodes \cup {NULL}] /\ m_prev \in [Nodes -> Nodes \cup {NULL}]
  BY DEF TypeOK
<1> HIDE DEF fd
<1>8. Linked(m_next', m_prev', Conns(t) \cup {Node(fd)}, m_head(t), m_tail(t))
  <2>1. Linked([m_next EXCEPT ![Node(fd)] = next, ![m_head(t)] = Node(fd)],
               [m_prev EXCEPT ![Node(fd)] = m_head(t), ![next] = Node(fd)],
               Conns(t) \cup {Node(fd)}, m_head(t), m_tail(t))
    BY <1>4, <1>5, <1>6, <1>7, InsertLinks
  <2>2. QED BY <1>3, <2>1
<1>9. ASSUME NEW u \in Threads, u # t
      PROVE  Linked(m_next', m_prev', Conns(u), m_head(u), m_tail(u))
  <2>1. next \in Conns(t) \cup {m_tail(t)}
    BY <1>5 DEF Linked
  <2>2. \A n \in Conns(u) \cup {m_tail(u)} : n # next /\ n # Node(fd) /\ n \in Nodes
    BY <1>4, <1>5, <1>6, <1>9, <2>1, ListsApart
  <2>3. \A n \in Conns(u) \cup {m_head(u)} : n # m_head(t) /\ n # Node(fd) /\ n \in Nodes
    BY <1>4, <1>5, <1>6, <1>9, ListsApart
  <2>4. \A n \in Conns(u) \cup {m_head(u)} : m_next'[n] = m_next[n]
    BY <1>3, <1>7, <2>3
  <2>5. \A n \in Conns(u) \cup {m_tail(u)} : m_prev'[n] = m_prev[n]
    BY <1>3, <1>7, <2>2
  <2>6. QED BY <1>5, <2>4, <2>5, OtherLinks
<1>10. \A u \in Threads : Linked(m_next', m_prev', Conns(u)', m_head(u), m_tail(u))
  BY <1>4, <1>8, <1>9
<1>11. QED BY <1>1, <1>10 DEF ListsLinked, Linked, m_head, m_tail

\* deleteConn keeps the lists linked: the Conn is in the list of this worker.
LEMMA DeleteStep ==
  ASSUME TypeOK, OneOwner, ListsLinked, NEW t \in Threads, deleteConn(t)
  PROVE  ListsLinked'
<1> DEFINE fd == worker[t].fd
           c == Node(fd)
<1>1. Threads' = Threads
  BY ThreadsFixed DEF Next, Worker, Busy
<1>2. fd \in Fds /\ m_thread[fd] = t /\ NONE \notin Threads
  BY FdsAssumption DEF deleteConn, TypeOK, OneOwner, Taken, HoldsFd, HoldsConn, NONE, Threads
<1>3. /\ m_thread' = [m_thread EXCEPT ![fd] = NONE]
      /\ m_next' = [m_next EXCEPT ![m_prev[c]] = m_next[c], ![c] = NULL]
      /\ m_prev' = [m_prev EXCEPT ![m_next[c]] = m_prev[c], ![c] = NULL]
  BY DEF deleteConn
<1>4. \A u \in Threads : /\ Conns(u)' = IF u = t THEN Conns(u) \ {c} ELSE Conns(u)
                         /\ c \in Conns(u) <=> u = t
  <2>1. \A f \in Fds : Node(f) = c => f = fd
    BY NodesDiffer
  <2>2. \A f \in Fds : m_thread'[f] = IF f = fd THEN NONE ELSE m_thread[f]
    BY <1>2, <1>3 DEF TypeOK
  <2> SUFFICES ASSUME NEW u \in Threads
               PROVE  /\ Conns(u)' = IF u = t THEN Conns(u) \ {c} ELSE Conns(u)
                      /\ c \in Conns(u) <=> u = t
    OBVIOUS
  <2>3. \A n : n \in Conns(u) <=> \E f \in Fds : m_thread[f] = u /\ n = Node(f)
    BY DEF Conns
  <2>4. \A n : n \in Conns(u)' <=> \E f \in Fds : m_thread'[f] = u /\ n = Node(f)
    BY DEF Conns
  <2>5. c \in Conns(u) <=> u = t
    BY <1>2, <2>1, <2>3
  <2>6. \A n : n \in Conns(u)' <=> n \in Conns(u) /\ n # c
    BY <1>2, <2>1, <2>2, <2>3, <2>4
  <2>7. QED BY <2>5, <2>6
<1>5. \A u \in Threads : /\ Conns(u) \in SUBSET Nodes /\ m_head(u) \in Nodes /\ m_tail(u) \in Nodes
                         /\ m_head(u) \notin Conns(u) /\ m_tail(u) \notin Conns(u)
                         /\ m_head(u) # m_tail(u)
                         /\ Linked(m_next, m_prev, Conns(u), m_head(u), m_tail(u))
  BY NodesDiffer DEF Conns, Nodes, ListsLinked, Linked
<1>6. c \in Nodes /\ \A u \in Threads : c # m_head(u) /\ c # m_tail(u)
  BY <1>2, NodesDiffer DEF Nodes
<1>7. m_next \in [Nodes -> Nodes \cup {NULL}] /\ m_prev \in [Nodes -> Nodes \cup {NULL}]
  BY DEF TypeOK
<1> HIDE DEF fd, c
<1>8. Linked(m_next', m_prev', Conns(t) \ {c}, m_head(t), m_tail(t))
  <2>1. Linked([m_next EXCEPT ![m_prev[c]] = m_next[c], ![c] = NULL],
               [m_prev EXCEPT ![m_next[c]] = m_prev[c], ![c] = NULL],
               Conns(t) \ {c}, m_head(t), m_tail(t))
    BY <1>4, <1>5, <1>6, <1>7, DeleteLinks
  <2>2. QED BY <1>3, <2>1
<1>9. ASSUME NEW u \in Threads, u # t
      PROVE  Linked(m_next', m_prev', Conns(u), m_head(u), m_tail(u))
  <2>1. m_next[c] \in Conns(t) \cup {m_tail(t)} /\ m_prev[c] \in Conns(t) \cup {m_head(t)}
    BY <1>4, <1>5 DEF Linked
  <2>2. \A n \in Conns(u) \cup {m_tail(u)} : n # m_next[c] /\ n # c /\ n \in Nodes
    BY <1>4, <1>5, <1>6, <1>9, <2>1, ListsApart
  <2>3. \A n \in Conns(u) \cup {m_head(u)} : n # m_prev[c] /\ n # c /\ n \in Nodes
    BY <1>4, <1>5, <1>6, <1>9, <2>1, ListsApart
  <2>4. \A n \in Conns(u) \cup {m_head(u)} : m_next'[n] = m_next[n]
    BY <1>3, <1>7, <2>3
  <2>5. \A n \in Conns(u) \cup {m_tail(u)} : m_prev'[n] = m_prev[n]
    BY <1>3, <1>7, <2>2
  <2>6. QED BY <1>5, <2>4, <2>5, OtherLinks
<1>10. \A u \in Threads : Linked(m_next', m_prev', Conns(u)', m_head(u), m_tail(u))
  BY <1>4, <1>8, <1>9
<1>11. QED BY <1>1, <1>10 DEF ListsLinked, Linked, m_head, m_tail

\* The lists of the workers stay linked, for any number of threads and
\* connections: insertConn and deleteConn follow no dangling pointer and none
\* into another thread's list.
THEOREM ListsStayLinked == Spec => []ListsLinked
<1>1. Init => ListsLinked
  <2> SUFFICES ASSUME Init PROVE ListsLinked
    OBVIOUS
  <2>1. \A t \in Threads : Conns(t) = {}
    BY DEF Init, Conns, Threads, NONE
  <2>2. \A t \in Threads : /\ m_head(t) \in Nodes /\ m_tail(t) \in Nodes
                           /\ m_head(t)[2] = t /\ m_tail(t)[2] = t
    BY DEF Nodes, m_head, m_tail
  <2>3. \A t \in Threads : m_next[m_head(t)] = m_tail(t) /\ m_prev[m_tail(t)] = m_head(t)
    BY <2>2 DEF Init
  <2>4. QED BY <2>1, <2>3 DEF ListsLinked
<1>2. TypeOK /\ OneOwner /\ ListsLinked /\ [Next]_vars => ListsLinked'
  <2> SUFFICES ASSUME TypeOK, OneOwner, ListsLinked, [Next]_vars PROVE ListsLinked'
    OBVIOUS
  <2>1. CASE \E t \in Threads : insertConn(t) BY <2>1, InsertStep
  <2>2. CASE \E t \in Threads : deleteConn(t) BY <2>2, DeleteStep
  <2>3. CASE UNCHANGED list
    <3>1. Threads' = Threads /\ \A t : Conns(t)' = Conns(t) /\ m_head(t)' = m_head(t) /\ m_tail(t)' = m_tail(t)
      BY <2>3, ThreadsFixed DEF list, Conns, m_head, m_tail
    <3>2. m_next' = m_next /\ m_prev' = m_prev
      BY <2>3 DEF list
    <3>3. QED BY <3>1, <3>2 DEF ListsLinked
  <2>4. QED
    BY <2>1, <2>2, <2>3 DEF Next, Main, Worker, Busy, listenerEventCb, HandOver, quitCb, stopRun, Exit,
         threadProcess, NoBufferevent, LoadConn, connectionEvent,
         readEventCb, ReadDone, ReadStuck, getStatus, ClampConn, closeEventCb, closeEvent,
         bufferevent_free, vars, list
<1>3. QED BY <1>1, <1>2, TypeCorrect, OwnedOnce, PTL DEF Spec

-----------------------------------------------------------------------------
(***************************************************************************)
(* st_conn with one worker thread                                          *)
(***************************************************************************)

\* The connections whose Conn exists.
Open == {fd \in Fds : m_thread[fd] # NONE}

\* What st_conn is of a worker record w and n open connections: one less between
\* insertConn and connectionEvent and between closeEvent and deleteConn.  A copy
\* that is to be stored is still right, and getStatus finds nothing to correct.
Counted(conn, n, w) ==
    /\ conn = IF w.pc \in {"st_conn++", "store++", "delete"} THEN n - 1 ELSE n
    /\ w.pc \in {"store++", "store--"} => w.val = conn
    /\ w.pc # "clamp"

ConnInv == m_thread_count = 1 => Counted(st_conn, Cardinality(Open), worker[0])

\* The number of open connections is a natural number.
LEMMA OpenFinite == IsFiniteSet(Open) /\ Cardinality(Open) \in Nat
<1>1. Open \subseteq Fds BY DEF Open
<1>2. QED BY <1>1, FdsAssumption, FS_Subset, FS_CardinalityType

\* insertConn adds one connection, and deleteConn takes one away.
LEMMA OpenSteps ==
  ASSUME TypeOK, OneOwner, NEW t \in Threads
  PROVE  /\ insertConn(t) => Cardinality(Open)' = Cardinality(Open) + 1
         /\ deleteConn(t) => Cardinality(Open)' = Cardinality(Open) - 1
<1> DEFINE fd == worker[t].fd
<1>1. NONE \notin Threads
  BY DEF Threads, NONE
<1>2. ASSUME insertConn(t)
      PROVE  Cardinality(Open)' = Cardinality(Open) + 1
  <2>1. fd \in Fds /\ m_thread[fd] = NONE
    <3>1. worker[t].pc = "new" /\ "new" \in HoldsFd /\ "new" \notin HoldsConn
      BY <1>2 DEF insertConn, HoldsFd, HoldsConn
    <3>2. fd \in Fds
      BY <3>1 DEF TypeOK
    <3>3. QED BY <3>1, <3>2 DEF OneOwner, Taken
  <2>2. m_thread' = [m_thread EXCEPT ![fd] = t]
    BY <1>2 DEF insertConn
  <2>3. Open' = Open \cup {fd} /\ fd \notin Open
    BY <1>1, <2>1, <2>2 DEF Open, TypeOK
  <2>4. QED BY <2>3, OpenFinite, FS_AddElement
<1>3. ASSUME deleteConn(t)
      PROVE  Cardinality(Open)' = Cardinality(Open) - 1
  <2>1. fd \in Fds /\ m_thread[fd] = t
    <3>1. worker[t].pc \in HoldsConn
      BY <1>3 DEF deleteConn, HoldsConn
    <3>2. fd \in Fds
      BY <3>1 DEF TypeOK
    <3>3. QED BY <3>1, <3>2 DEF OneOwner, Taken
  <2>2. m_thread' = [m_thread EXCEPT ![fd] = NONE]
    BY <1>3 DEF deleteConn
  <2>3. Open' = Open \ {fd} /\ fd \in Open
    BY <1>1, <2>1, <2>2 DEF Open, TypeOK
  <2>4. QED BY <2>3, OpenFinite, FS_RemoveElement
<1>4. QED BY <1>2, <1>3

\* A step of the only worker keeps st_conn in line with the list.
LEMMA WorkerCount ==
  ASSUME TypeOK, OneOwner, m_thread_count = 1, Worker(0), 0 \in Threads,
         NEW n \in Nat, n = Cardinality(Open), Counted(st_conn, n, worker[0])
  PROVE  Counted(st_conn', Cardinality(Open)', worker'[0])
<1> DEFINE w == worker[0]
<1>1. /\ w \in [pc : WorkerPC, fd : Fds \cup {NONE}, val : Int] /\ st_conn \in Int
      /\ 0 \in DOMAIN worker
  BY DEF TypeOK
<1>2. m_thread' = m_thread => Cardinality(Open)' = n
  BY DEF Open
<1> USE DEF Counted
<1>3. CASE threadProcess(0)
  <2>1. w.pc = "loop" /\ worker'[0].pc \in {"new", "stopped"} /\ m_thread' = m_thread /\ st_conn' = st_conn
    BY <1>1, <1>3 DEF threadProcess, list
  <2>2. QED BY <1>2, <2>1
<1>4. CASE NoBufferevent(0)
  <2>1. w.pc = "new" /\ worker'[0].pc = "failed" /\ m_thread' = m_thread /\ st_conn' = st_conn
    BY <1>1, <1>4 DEF NoBufferevent, list
  <2>2. QED BY <1>2, <2>1
<1>5. CASE insertConn(0)
  <2>1. w.pc = "new" /\ worker'[0].pc = "st_conn++" /\ st_conn' = st_conn
    BY <1>1, <1>5 DEF insertConn
  <2>2. Cardinality(Open)' = n + 1
    BY <1>5, OpenSteps
  <2>3. QED BY <2>1, <2>2
<1>6. CASE LoadConn(0)
  <2>1. /\ \/ w.pc = "st_conn++" /\ worker'[0].pc = "store++"
           \/ w.pc = "st_conn--" /\ worker'[0].pc = "store--"
        /\ worker'[0].val = st_conn /\ m_thread' = m_thread /\ st_conn' = st_conn
    BY <1>1, <1>6 DEF LoadConn, list
  <2>2. QED BY <1>2, <2>1
<1>7. CASE connectionEvent(0)
  <2>1. /\ w.pc = "store++" /\ worker'[0].pc = "loop"
        /\ st_conn' = w.val + 1 /\ m_thread' = m_thread
    BY <1>1, <1>7 DEF connectionEvent, list, Idle
  <2>2. QED BY <1>1, <1>2, <2>1
<1>8. CASE readEventCb(0) \/ closeEventCb(0)
  <2>1. /\ w.pc = "loop" /\ worker'[0].pc \in {"busy", "status", "st_conn--"}
        /\ m_thread' = m_thread /\ st_conn' = st_conn
    BY <1>1, <1>8 DEF readEventCb, closeEventCb, list
  <2>2. QED BY <1>2, <2>1
<1>9. CASE ReadDone(0) \/ bufferevent_free(0)
  <2>1. /\ w.pc \in {"busy", "free"} /\ worker'[0].pc = "loop"
        /\ m_thread' = m_thread /\ st_conn' = st_conn
    BY <1>1, <1>9 DEF ReadDone, bufferevent_free, list, Idle
  <2>2. QED BY <1>2, <2>1
<1>10. CASE getStatus(0)
  <2>1. /\ w.pc = "status" /\ worker'[0].pc = IF st_conn < 0 THEN "clamp" ELSE "busy"
        /\ m_thread' = m_thread /\ st_conn' = st_conn
    BY <1>1, <1>10 DEF getStatus, list
  <2>2. QED BY <1>2, <2>1
<1>11. CASE ClampConn(0)
  BY <1>11 DEF ClampConn
<1>12. CASE closeEvent(0)
  <2>1. /\ w.pc = "store--" /\ worker'[0].pc = "delete"
        /\ st_conn' = w.val - 1 /\ m_thread' = m_thread
    BY <1>1, <1>12 DEF closeEvent, list
  <2>2. QED BY <1>1, <1>2, <2>1
<1>13. CASE deleteConn(0)
  <2>1. w.pc = "delete" /\ worker'[0].pc = "free" /\ st_conn' = st_conn
    BY <1>1, <1>13 DEF deleteConn
  <2>2. Cardinality(Open)' = n - 1
    BY <1>13, OpenSteps
  <2>3. QED BY <2>1, <2>2
<1>14. CASE ReadStuck(0)
  <2>1. /\ w.pc = "busy" /\ worker'[0].pc = "stuck"
        /\ m_thread' = m_thread /\ st_conn' = st_conn
    BY <1>1, <1>14 DEF ReadStuck, list
  <2>2. QED BY <1>2, <2>1
<1>15. QED
  BY <1>3, <1>4, <1>5, <1>6, <1>7, <1>8, <1>9, <1>10, <1>11, <1>12, <1>13, <1>14 DEF Worker, Busy

\* With one worker thread st_conn is the number of client connections whenever
\* the worker is not in the middle of opening or closing one; connectionEvent,
\* closeEvent and getStatus need no lock then, and getStatus never has to
\* correct it.
THEOREM ConnCountExact == Spec => []ConnCountOneThread
<1>1. Init => ConnInv
  <2> SUFFICES ASSUME Init PROVE ConnInv
    OBVIOUS
  <2>1. m_thread_count = 1 => worker[0] = Idle
    BY DEF Init, Threads
  <2>2. Open = {}
    BY DEF Init, Open
  <2>3. QED BY <2>1, <2>2, FS_EmptySet DEF Init, ConnInv, Counted, Idle
<1>2. TypeOK /\ OneOwner /\ ConnInv /\ [Next]_vars => ConnInv'
  <2> SUFFICES ASSUME TypeOK, OneOwner, ConnInv, [Next]_vars, m_thread_count = 1
               PROVE  Counted(st_conn', Cardinality(Open)', worker'[0])
    BY ThreadsFixed DEF ConnInv
  <2>1. Threads = {0}
    BY DEF Threads
  <2>2. CASE \E t \in Threads : Worker(t)
    BY <2>1, <2>2, OpenFinite, WorkerCount DEF ConnInv
  <2>3. CASE UNCHANGED <<worker, list, st_conn>>
    BY <2>3 DEF ConnInv, Open, list
  <2>4. QED
    BY <2>2, <2>3 DEF Next, Main, listenerEventCb, HandOver, quitCb, stopRun, Exit, vars, list
<1>3. TypeOK /\ ConnInv => ConnCountOneThread
  <2> SUFFICES ASSUME TypeOK, ConnInv, m_thread_count = 1, AtRest
               PROVE  st_conn = Cardinality(Open)
    BY DEF ConnCountOneThread, ConnCountRight, Open
  <2>1. 0 \in Threads
    BY DEF Threads
  <2>2. QED BY <2>1 DEF AtRest, ConnInv, Counted
<1>4. QED BY <1>1, <1>2, <1>3, TypeCorrect, OwnedOnce, PTL DEF Spec
=============================================================================

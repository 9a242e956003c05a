--------------------------- MODULE ConnPoolProofs ---------------------------
(***************************************************************************)
(* The theorems about the connection pool: its type invariant, and that a  *)
(* pooled descriptor is the connection made for its slot, for any number   *)
(* of threads, backends and descriptors.                                   *)
(***************************************************************************)
EXTENDS ConnPool, TLAPS, WellFoundedInduction

\* socket() returns a free descriptor whenever there is one.
LEMMA LowestFree ==
    ASSUME Free # {}
    PROVE  Lowest \in Fds /\ sock[Lowest].st = "closed"
<1> DEFINE R == {ss \in Nat \X Nat : ss[1] < ss[2]}
<1>1. IsWellFoundedOn(R, Nat)
  BY NatLessThanWellFounded DEF OpToRel
<1>2. Free \in SUBSET Nat /\ Free \subseteq Fds
  BY BoundAssumption DEF Free, Fds
<1> HIDE DEF R
<1>3. PICK p \in Free : \A q \in Free : ~ (<<q, p>> \in R)
  BY <1>1, <1>2, WFMin, Zenon
<1>4. \A q \in Free : p <= q
  <2>1. \A q \in Free : q \in Nat /\ p \in Nat
    BY <1>2
  <2>2. \A q \in Free : ~ (q < p)
    BY <1>3, <2>1 DEF R
  <2> QED
    BY <2>1, <2>2
<1>5. Lowest \in Free
  BY <1>4 DEF Lowest
<1> QED
  BY <1>5 DEF Free

\* What socket() and connect() make is a socket.
LEMMA SocketTyped ==
    ASSUME NEW st \in {"closed", "unconnected", "up"}, NEW for \in Slots \cup {NONE, CLIENT}
    PROVE  Socket(st, for) \in SocketType /\ Socket(st, for).st = st /\ Socket(st, for).for = for
BY DEF Socket, SocketType

\* A change of one socket keeps the type of all of them.
LEMMA SockStep ==
    ASSUME TypeOK, NEW f \in Fds, NEW x \in SocketType, sock' = [sock EXCEPT ![f] = x],
           x.st = "closed" => x = Closed
    PROVE  /\ sock' \in [Fds -> SocketType]
           /\ \A g \in Fds : sock'[g].st = "closed" => sock'[g] = Closed
BY DEF TypeOK

\* A change of one thread keeps the type of all of them.
LEMMA ThreadStep ==
    ASSUME TypeOK, NEW t \in Threads, NEW r, ThreadOK(r), Step(t, r)
    PROVE  /\ thread' = [u \in Threads |-> thread'[u]]
           /\ \A u \in Threads : ThreadOK(thread'[u])
<1>1. thread' = [u \in Threads |-> IF u = t THEN r ELSE thread[u]]
  BY DEF TypeOK, Step
<1>2. \A u \in Threads : thread'[u] = IF u = t THEN r ELSE thread[u]
  BY <1>1
<1> QED
  BY <1>1, <1>2 DEF TypeOK

\* A thread that gives up or has its response is well formed.
LEMMA FinishTyped ==
    ASSUME TypeOK, NEW t \in Threads, NEW s \in Seq(Req), Finish(t, s)
    PROVE  /\ thread' = [u \in Threads |-> thread'[u]]
           /\ \A u \in Threads : ThreadOK(thread'[u])
<1> DEFINE r == [thread[t] EXCEPT !.pc = "idle", !.host = 0, !.fd = 0, !.got = s]
<1>1. ThreadOK(r)
  BY DEF TypeOK, ThreadOK, ThreadType
<1>2. Step(t, r)
  BY DEF Finish
<1> HIDE DEF r
<1> QED
  BY <1>1, <1>2, ThreadStep

\* The type invariant holds initially.
LEMMA TypeInit == Init => TypeOK
<1> SUFFICES ASSUME Init PROVE TypeOK
  OBVIOUS
<1>1. conn_list \in [Slots -> Fds \cup {0, -1}]
  BY DEF Init
<1>2. \A f \in Fds : sock[f] \in SocketType /\ (sock[f].st = "closed" => sock[f] = Closed)
  <2> TAKE f \in Fds
  <2>1. CASE \E s \in Slots : conn_list[s] = f
    <3>1. PICK s \in Slots : s = CHOOSE u \in Slots : conn_list[u] = f
      BY <2>1
    <3>2. sock[f] = Socket("up", s)
      BY <2>1, <3>1 DEF Init
    <3> QED
      BY <3>2, SocketTyped
  <2>2. CASE ~ \E s \in Slots : conn_list[s] = f
    <3>1. sock[f] = Closed
      BY <2>2 DEF Init
    <3> QED
      BY <3>1, SocketTyped DEF Closed
  <2> QED
    BY <2>1, <2>2
<1>3. sock \in [Fds -> SocketType]
  BY <1>2 DEF Init
<1>4. \A t \in Threads : ThreadOK(thread[t])
  BY DEF Init, ThreadOK, ThreadType
<1> QED
  BY <1>1, <1>2, <1>3, <1>4 DEF Init, TypeOK

-----------------------------------------------------------------------------
\* Every step of a thread keeps the type invariant.
LEMMA TypeTalk ==
    ASSUME TypeOK, NEW t \in Threads, Talk(t)
    PROVE  TypeOK'
<1> DEFINE rt == thread[t]
<1>r. rt \in ThreadType /\ ThreadOK(rt)
  BY DEF TypeOK, ThreadOK
<1>e. << >> \in Seq(Req)
  OBVIOUS
<1>1. CASE Request(t)
  <2>1. PICK b \in Backends :
          Step(t, [rt EXCEPT !.pc = "get", !.host = b, !.n = @ + 1, !.got = << >>])
    BY <1>1 DEF Request
  <2>2. ThreadOK([rt EXCEPT !.pc = "get", !.host = b, !.n = @ + 1, !.got = << >>])
    <3>1. PICK e : e = << >>
      OBVIOUS
    <3>2. PICK m : m = rt.n + 1
      OBVIOUS
    <3>3. e \in Seq(Req) /\ m \in Nat
      BY <1>e, <1>r, <3>1, <3>2 DEF ThreadType
    <3>4. PICK r : r = [rt EXCEPT !.pc = "get", !.host = b, !.n = m, !.got = e]
      OBVIOUS
    <3>5. r \in ThreadType /\ r.pc = "get" /\ r.host = b
      BY <1>r, <3>3, <3>4 DEF ThreadType
    <3> QED
      BY <3>1, <3>2, <3>4, <3>5 DEF ThreadOK
  <2> QED
    BY <1>1, <2>1, <2>2, ThreadStep DEF Request, TypeOK, outside, history
<1>2. CASE GetPooled(t)
  <2>1. PICK c : c = conn_list[t, rt.host]
    OBVIOUS
  <2>2. rt.host \in Backends /\ c \in Fds \cup {0, -1}
    BY <1>2, <1>r, <2>1 DEF GetPooled, ThreadOK, TypeOK, Slots
  <2>3. Step(t, IF c > 0 THEN [rt EXCEPT !.pc = "send", !.fd = c] ELSE [rt EXCEPT !.pc = "create"])
    BY <1>2, <2>1 DEF GetPooled
  <2>4. c > 0 => c \in Fds
    BY <2>2 DEF Fds
  <2>5. ThreadOK(IF c > 0 THEN [rt EXCEPT !.pc = "send", !.fd = c] ELSE [rt EXCEPT !.pc = "create"])
    BY <1>r, <2>2, <2>4 DEF ThreadOK, ThreadType
  <2> QED
    BY <1>2, <2>3, <2>5, ThreadStep DEF GetPooled, TypeOK, outside, history
<1>3. CASE CreateConnection(t)
  <2>1. PICK s : s = OwnSlot(t) /\ s \in Slots
    BY <1>3, <1>r DEF CreateConnection, ThreadOK, Slots, OwnSlot
  <2>2. PICK f \in IF Free = {} THEN {-1} ELSE {-1, Lowest} :
          /\ conn_list' = [conn_list EXCEPT ![s] = f]
          /\ foul' = foul \ {s}
          /\ sock' = IF Free = {} THEN sock
                     ELSE [sock EXCEPT ![Lowest] =
                             IF f = -1 THEN Socket("unconnected", NONE) ELSE Socket("up", s)]
          /\ IF f = -1 THEN Finish(t, << >>)
             ELSE Step(t, [rt EXCEPT !.pc = "send", !.fd = f])
    BY <1>3, <2>1 DEF CreateConnection
  <2>3. f \in Fds \cup {-1}
    BY <2>2, LowestFree
  <2>4. conn_list' \in [Slots -> Fds \cup {0, -1}]
    BY <2>2, <2>3 DEF TypeOK
  <2>5. /\ sock' \in [Fds -> SocketType]
        /\ \A g \in Fds : sock'[g].st = "closed" => sock'[g] = Closed
    <3>1. CASE Free = {}
      BY <2>2, <3>1 DEF TypeOK
    <3>2. CASE Free # {}
      <4>1. PICK x : x = IF f = -1 THEN Socket("unconnected", NONE) ELSE Socket("up", s)
        OBVIOUS
      <4>2. x \in SocketType /\ x.st # "closed"
        BY <2>1, <4>1, SocketTyped
      <4>3. Lowest \in Fds /\ sock' = [sock EXCEPT ![Lowest] = x]
        BY <2>2, <3>2, <4>1, LowestFree
      <4> QED
        BY <4>2, <4>3, SockStep
    <3> QED
      BY <3>1, <3>2
  <2>6. /\ thread' = [u \in Threads |-> thread'[u]]
        /\ \A u \in Threads : ThreadOK(thread'[u])
    <3>1. CASE f = -1
      BY <1>e, <2>2, <3>1, FinishTyped
    <3>2. CASE f # -1
      <4>1. ThreadOK([rt EXCEPT !.pc = "send", !.fd = f])
        BY <1>3, <1>r, <2>3, <3>2 DEF ThreadOK, ThreadType, CreateConnection
      <4> QED
        BY <2>2, <3>2, <4>1, ThreadStep
    <3> QED
      BY <3>1, <3>2
  <2>7. foul' \subseteq Slots
    BY <2>2 DEF TypeOK
  <2> QED
    BY <1>3, <2>4, <2>5, <2>6, <2>7 DEF CreateConnection, TypeOK, outside
<1>4. CASE Send(t)
  <2>1. rt.fd \in Fds /\ sock[rt.fd] \in SocketType /\ Current(t) \in Req
    BY <1>4, <1>r DEF Send, ThreadOK, ThreadType, TypeOK, Current, Req
  <2>2. /\ sock' \in [Fds -> SocketType]
        /\ \A g \in Fds : sock'[g].st = "closed" => sock'[g] = Closed
    <3>1. CASE sock[rt.fd].st = "up"
      <4>0. PICK v : v = Append(sock[rt.fd].sent, Current(t)) /\ v \in Seq(Req)
        <5>1. PICK q, c : q = sock[rt.fd].sent /\ c = Current(t)
          OBVIOUS
        <5>2. q \in Seq(Req)
          BY <2>1, <5>1 DEF SocketType
        <5>3. c \in Req
          BY <2>1, <5>1
        <5>4. Append(q, c) \in Seq(Req)
          BY <5>2, <5>3
        <5> QED
          BY <5>1, <5>4
      <4>1. PICK x : x = [sock[rt.fd] EXCEPT !.sent = v]
        OBVIOUS
      <4>2. sock' = [sock EXCEPT ![rt.fd] = x]
        <5>1. sock' = [sock EXCEPT ![rt.fd].sent = Append(@, Current(t))]
          BY <1>4, <3>1 DEF Send
        <5> QED
          BY <2>1, <4>0, <4>1, <5>1 DEF TypeOK
      <4>3. x \in SocketType /\ x.st = "up"
        BY <2>1, <3>1, <4>0, <4>1 DEF SocketType
      <4> QED
        BY <2>1, <4>2, <4>3, SockStep
    <3>2. CASE sock[rt.fd].st # "up"
      BY <1>4, <3>2 DEF Send, TypeOK, outside, history
    <3> QED
      BY <3>1, <3>2
  <2>3. ThreadOK([rt EXCEPT !.pc = "read"])
    BY <1>4, <1>r DEF Send, ThreadOK, ThreadType
  <2>4. Step(t, [rt EXCEPT !.pc = "read"])
    BY <1>4 DEF Send
  <2> QED
    BY <1>4, <2>2, <2>3, <2>4, ThreadStep DEF Send, TypeOK, outside, history
<1>5. CASE SendFails(t)
  <2>1. ThreadOK([rt EXCEPT !.pc = "destroy", !.ret = "get"])
    BY <1>5, <1>r DEF SendFails, ThreadOK, ThreadType
  <2> QED
    BY <1>5, <2>1, ThreadStep DEF SendFails, TypeOK, outside, history
<1>6. CASE ReadAnswer(t)
  <2>1. rt.fd \in Fds /\ sock[rt.fd] \in SocketType
    BY <1>6, <1>r DEF ReadAnswer, ThreadOK, TypeOK
  <2>2. sock[rt.fd].st # "closed"
    BY <1>6, <2>1 DEF ReadAnswer, TypeOK, Closed, Socket
  <2>0. PICK e : e = << >> /\ e \in Seq(Req)
    BY <1>e
  <2>3. PICK x : x = [sock[rt.fd] EXCEPT !.recv = e]
    OBVIOUS
  <2>4. x \in SocketType /\ x.st # "closed"
    BY <2>0, <2>1, <2>2, <2>3 DEF SocketType
  <2>5. sock' = [sock EXCEPT ![rt.fd] = x]
    BY <1>6, <2>0, <2>3 DEF ReadAnswer
  <2>6. PICK a : a \in Seq(Req) /\ Finish(t, a)
    BY <1>6, <1>e, <2>1 DEF ReadAnswer, SocketType
  <2>7. UNCHANGED <<conn_list, outside, history>>
    BY <1>6 DEF ReadAnswer
  <2> QED
    BY <2>1, <2>4, <2>5, <2>6, <2>7, SockStep, FinishTyped DEF TypeOK, outside, history
<1>7. CASE ReadClosed(t)
  <2>1. ThreadOK([rt EXCEPT !.pc = "destroy", !.ret = "read"])
    BY <1>7, <1>r DEF ReadClosed, ThreadOK, ThreadType
  <2> QED
    BY <1>7, <2>1, ThreadStep DEF ReadClosed, TypeOK, outside, history
<1>8. CASE ReadFails(t)
  BY <1>e, <1>8, FinishTyped DEF ReadFails, TypeOK, outside, history
<1>9. CASE Close(t)
  <2>1. rt.fd \in Fds
    BY <1>9, <1>r DEF Close, ThreadOK
  <2>2. Closed \in SocketType
    BY SocketTyped DEF Closed
  <2>3. ThreadOK([rt EXCEPT !.pc = "scan"])
    BY <1>9, <1>r DEF Close, ThreadOK, ThreadType
  <2>4. sock' = [sock EXCEPT ![rt.fd] = Closed] /\ Step(t, [rt EXCEPT !.pc = "scan"])
    BY <1>9 DEF Close
  <2>5. stray' \in BOOLEAN /\ UNCHANGED <<conn_list, outside, foul>>
    BY <1>9 DEF Close, TypeOK
  <2> QED
    BY <2>1, <2>2, <2>3, <2>4, <2>5, SockStep, ThreadStep DEF TypeOK, outside
<1>10. CASE Scan(t)
  <2>1. ThreadOK([rt EXCEPT !.pc = rt.ret, !.ret = "get"])
    BY <1>10, <1>r DEF Scan, ThreadOK, ThreadType
  <2>2. Step(t, [rt EXCEPT !.pc = rt.ret, !.ret = "get"])
    BY <1>10 DEF Scan
  <2>3. conn_list' \in [Slots -> Fds \cup {0, -1}]
    BY <1>10 DEF Scan, TypeOK
  <2>4. foul' \subseteq Slots
    BY <1>10 DEF Scan, Matches, TypeOK
  <2> QED
    BY <1>10, <2>1, <2>2, <2>3, <2>4, ThreadStep DEF Scan, TypeOK, outside
<1> QED
  BY <1>1, <1>2, <1>3, <1>4, <1>5, <1>6, <1>7, <1>8, <1>9, <1>10 DEF Talk

\* Every other step keeps the type invariant too.
LEMMA TypeStep ==
    ASSUME TypeOK, [Next]_vars
    PROVE  TypeOK'
<1>1. ASSUME NEW t \in Threads, Talk(t) PROVE TypeOK'
  BY <1>1, TypeTalk
<1>2. CASE Probe
  <2>1. PICK x \in {Socket("unconnected", NONE), Socket("up", NONE)} :
          sock' = [sock EXCEPT ![Lowest] = x]
    BY <1>2 DEF Probe
  <2>2. x \in SocketType /\ x.st # "closed" /\ Lowest \in Fds
    BY <1>2, <2>1, SocketTyped, LowestFree DEF Probe
  <2>3. /\ sock' \in [Fds -> SocketType]
        /\ \A g \in Fds : sock'[g].st = "closed" => sock'[g] = Closed
    BY <2>1, <2>2, SockStep
  <2>4. probe' \in Fds \cup {0}
    BY <1>2, <2>2 DEF Probe, TypeOK
  <2> QED
    BY <1>2, <2>3, <2>4 DEF Probe, TypeOK, history
<1>3. CASE ProbeClose
  <2>1. probe \in Fds /\ sock' = [sock EXCEPT ![probe] = Closed] /\ Closed \in SocketType
    BY <1>3, SocketTyped DEF ProbeClose, TypeOK, Closed
  <2>2. /\ sock' \in [Fds -> SocketType]
        /\ \A g \in Fds : sock'[g].st = "closed" => sock'[g] = Closed
    BY <2>1, SockStep
  <2>3. foul' \subseteq Slots
    BY <1>3 DEF ProbeClose, TypeOK, Owner, Matches
  <2> QED
    BY <1>3, <2>2, <2>3 DEF ProbeClose, TypeOK
<1>4. ASSUME NEW f \in Fds, Answer(f) PROVE TypeOK'
  <2>1. PICK q, r : q = sock[f].sent /\ r = sock[f].recv
    OBVIOUS
  <2>2. q \in Seq(Req) /\ r \in Seq(Req) /\ q # << >>
    BY <1>4, <2>1 DEF Answer, TypeOK, SocketType
  <2>3. PICK h, l : h = Tail(q) /\ l = Append(r, Head(q))
    OBVIOUS
  <2>4. h \in Seq(Req) /\ l \in Seq(Req)
    BY <2>2, <2>3
  <2>5. PICK x : x = [sock[f] EXCEPT !.sent = h, !.recv = l]
    OBVIOUS
  <2>6. x \in SocketType /\ x.st # "closed"
    BY <1>4, <2>4, <2>5 DEF Answer, TypeOK, SocketType
  <2>7. sock' = [sock EXCEPT ![f] = x]
    BY <1>4, <2>1, <2>3, <2>5 DEF Answer, TypeOK
  <2>8. /\ sock' \in [Fds -> SocketType]
        /\ \A g \in Fds : sock'[g].st = "closed" => sock'[g] = Closed
    BY <2>6, <2>7, SockStep
  <2> QED
    BY <1>4, <2>8 DEF Answer, TypeOK, outside, history
<1>5. ASSUME NEW f \in Fds, PeerClose(f) PROVE TypeOK'
  <2>1. PICK e : e = << >>
    OBVIOUS
  <2>2. e \in Seq(Req)
    BY <2>1
  <2>l. PICK left \in {sock[f].recv, e} :
          sock' = [sock EXCEPT ![f].st = "peer_closed", ![f].sent = e, ![f].recv = left]
    BY <1>5, <2>1 DEF PeerClose
  <2>m. left \in Seq(Req)
    BY <2>2, <2>l DEF TypeOK, SocketType
  <2>3. PICK x : x = [sock[f] EXCEPT !.st = "peer_closed", !.sent = e, !.recv = left]
    OBVIOUS
  <2>4. x \in SocketType /\ x.st # "closed"
    BY <2>2, <2>3, <2>m DEF TypeOK, SocketType
  <2>5. sock' = [sock EXCEPT ![f] = x]
    BY <2>3, <2>l DEF TypeOK
  <2>6. /\ sock' \in [Fds -> SocketType]
        /\ \A g \in Fds : sock'[g].st = "closed" => sock'[g] = Closed
    BY <2>4, <2>5, SockStep
  <2> QED
    BY <1>5, <2>6 DEF PeerClose, TypeOK, outside, history
<1>6. CASE UNCHANGED vars
  BY <1>6 DEF vars, outside, history, TypeOK
<1>7. CASE Accept
  <2>1. Lowest \in Fds /\ Socket("up", CLIENT) \in SocketType /\ Socket("up", CLIENT).st = "up"
    BY <1>7, LowestFree, SocketTyped DEF Accept
  <2>2. /\ sock' \in [Fds -> SocketType]
        /\ \A g \in Fds : sock'[g].st = "closed" => sock'[g] = Closed
    BY <1>7, <2>1, SockStep DEF Accept
  <2>3. clients' \in [Fds -> Nat]
    BY <1>7, <2>1 DEF Accept, TypeOK
  <2> QED
    BY <1>7, <2>2, <2>3 DEF Accept, TypeOK, history
<1>8. ASSUME NEW f \in Fds, ReadEvent(f) PROVE TypeOK'
  <2>z. << >> \in Seq(Req)
    OBVIOUS
  <2>0. PICK e : e = << >> /\ e \in Seq(Req)
    BY <2>z
  <2>1. PICK x : x = [sock[f] EXCEPT !.recv = e]
    OBVIOUS
  <2>2. sock[f].st # "closed"
    BY <1>8 DEF ReadEvent, TypeOK, Closed, Socket
  <2>3. x \in SocketType /\ x.st # "closed"
    BY <2>0, <2>1, <2>2 DEF TypeOK, SocketType
  <2>4. sock' = [sock EXCEPT ![f] = x]
    BY <1>8, <2>0, <2>1 DEF ReadEvent
  <2>5. /\ sock' \in [Fds -> SocketType]
        /\ \A g \in Fds : sock'[g].st = "closed" => sock'[g] = Closed
    BY <2>3, <2>4, SockStep
  <2> QED
    BY <1>8, <2>5 DEF ReadEvent, TypeOK, outside, history
<1>9. ASSUME NEW f \in Fds, CloseEvent(f) PROVE TypeOK'
  <2>1. sock' = [sock EXCEPT ![f] = Closed] /\ Closed \in SocketType
    BY <1>9, SocketTyped DEF CloseEvent, Closed
  <2>2. /\ sock' \in [Fds -> SocketType]
        /\ \A g \in Fds : sock'[g].st = "closed" => sock'[g] = Closed
    BY <2>1, SockStep
  <2>3. clients' \in [Fds -> Nat] /\ foul' \subseteq Slots
    BY <1>9 DEF CloseEvent, TypeOK, Owner, Matches
  <2> QED
    BY <1>9, <2>2, <2>3 DEF CloseEvent, TypeOK
<1>10. ASSUME NEW f \in Fds, ClientSends(f) PROVE TypeOK'
  <2>x. Bytes \in Req
    BY DEF Bytes, Req
  <2>y. PICK b : b = Bytes /\ b \in Req
    BY <2>x
  <2>z. <<b>> \in Seq(Req)
    BY <2>y
  <2>0. PICK e : e = <<Bytes>> /\ e \in Seq(Req)
    BY <2>y, <2>z
  <2>1. PICK x : x = [sock[f] EXCEPT !.recv = e]
    OBVIOUS
  <2>3. x \in SocketType /\ x.st # "closed"
    BY <1>10, <2>0, <2>1 DEF ClientSends, TypeOK, SocketType
  <2>4. sock' = [sock EXCEPT ![f] = x]
    BY <1>10, <2>0, <2>1 DEF ClientSends
  <2>5. /\ sock' \in [Fds -> SocketType]
        /\ \A g \in Fds : sock'[g].st = "closed" => sock'[g] = Closed
    BY <2>3, <2>4, SockStep
  <2> QED
    BY <1>10, <2>5 DEF ClientSends, TypeOK, outside, history
<1> QED
  BY <1>1, <1>2, <1>3, <1>4, <1>5, <1>6, <1>7, <1>8, <1>9, <1>10 DEF Next

\* Type correctness: in every reachable state of the pool a thread that sends,
\* reads or destroys has a descriptor, and a closed one belongs to nobody.
THEOREM TypeCorrect == Spec => []TypeOK
<1>1. Init => TypeOK
  BY TypeInit
<1>2. TypeOK /\ [Next]_vars => TypeOK'
  BY TypeStep
<1> QED
  BY <1>1, <1>2, PTL DEF Spec

-----------------------------------------------------------------------------
(***************************************************************************)
(* Pooled descriptors.  PooledIsOwn is inductive together with the types.  *)
(***************************************************************************)
\* A slot is neither NONE nor CLIENT.
LEMMA OutsideIsNoSlot ==
    ASSUME NEW s \in Slots
    PROVE  s # NONE /\ s # CLIENT
BY DEF Slots, NONE, CLIENT

\* A pooled descriptor is a descriptor.
LEMMA SlotFd ==
    ASSUME TypeOK, NEW u \in Slots, NEW g, g = conn_list[u], g > 0
    PROVE  g \in Fds
BY DEF TypeOK, Fds

\* A step that stores nothing in the pool keeps the invariant, if every
\* destroyer stays one and whoever closes a slot's own connection is one or
\* leaves the slot foul.
LEMMA PoolKept ==
    ASSUME TypeOK, PooledIsOwn, conn_list' = conn_list, foul \subseteq foul',
           \A f \in Fds : \A u \in Slots :
             Own(u, f) => Own(u, f)' \/ Destroying(f)' \/ (conn_list[u] = f => u \in foul'),
           \A f \in Fds : Destroying(f) => Destroying(f)'
    PROVE  PooledIsOwn'
<1> SUFFICES ASSUME NEW s \in Slots, conn_list'[s] > 0
             PROVE  Own(s, conn_list[s])' \/ Destroying(conn_list[s])' \/ s \in foul'
  BY DEF PooledIsOwn
<1>1. PICK f : f = conn_list[s]
  OBVIOUS
<1>2. f \in Fds /\ f > 0
  BY <1>1, SlotFd
<1>3. Own(s, f) \/ Destroying(f) \/ s \in foul
  BY <1>1, <1>2 DEF PooledIsOwn
<1>4. Own(s, f)' \/ Destroying(f)' \/ s \in foul'
  BY <1>1, <1>2, <1>3
<1>5. f = conn_list'[s]
  BY <1>1
<1> QED
  BY <1>4, <1>5 DEF Own, Destroying

\* A socket that stays open for the same slot stays the slot's own.
LEMMA OwnKept ==
    ASSUME NEW f, NEW u, sock'[f].for = sock[f].for, sock[f].st # "closed" => sock'[f].st # "closed"
    PROVE  Own(u, f) => Own(u, f)'
BY DEF Own

\* A step of a thread that is not at its scan ends nobody's destoryConnection.
LEMMA DestroyersStay ==
    ASSUME TypeOK, NEW t \in Threads, thread[t].pc # "scan", NEW r, Step(t, r)
    PROVE  \A f \in Fds : Destroying(f) => Destroying(f)'
<1> SUFFICES ASSUME NEW f \in Fds, NEW u \in Threads, thread[u].pc = "scan", thread[u].fd = f
             PROVE  thread'[u].pc = "scan" /\ thread'[u].fd = f
  BY DEF Destroying
<1>1. thread'[u] = thread[u]
  BY DEF Step, TypeOK
<1> QED
  BY <1>1

\* What a step on a connection leaves of it: the slot it was made for, and
\* that it is open.
Traffic == \A f \in Fds : /\ sock'[f].for = sock[f].for
                          /\ sock[f].st # "closed" => sock'[f].st # "closed"

\* Sending and receiving opens and closes nothing.
LEMMA OnlyTraffic ==
    ASSUME TypeOK,
           \/ \E t \in Threads : \/ Request(t) \/ GetPooled(t) \/ Send(t) \/ SendFails(t)
                                 \/ ReadAnswer(t) \/ ReadClosed(t) \/ ReadFails(t)
           \/ \E f \in Fds : ReadEvent(f) \/ Answer(f) \/ ClientSends(f) \/ PeerClose(f)
           \/ UNCHANGED vars
    PROVE  Traffic /\ UNCHANGED <<conn_list, outside, history>>
<1>1. ASSUME NEW t \in Threads, Request(t) \/ GetPooled(t) \/ SendFails(t) \/ ReadClosed(t) \/ ReadFails(t)
      PROVE  Traffic /\ UNCHANGED <<conn_list, outside, history>>
  BY <1>1 DEF Request, GetPooled, SendFails, ReadClosed, ReadFails, Traffic
<1>2. ASSUME NEW t \in Threads, Send(t) PROVE Traffic /\ UNCHANGED <<conn_list, outside, history>>
  <2>1. CASE sock' = sock
    BY <1>2, <2>1 DEF Send, Traffic
  <2>2. CASE sock' # sock
    <3>1. PICK v : v = Append(sock[thread[t].fd].sent, Current(t))
      OBVIOUS
    <3>2. sock' = [sock EXCEPT ![thread[t].fd].sent = v]
      BY <1>2, <2>2, <3>1 DEF Send
    <3> QED
      BY <1>2, <3>2 DEF TypeOK, SocketType, Send, Traffic
  <2> QED
    BY <2>1, <2>2
<1>3. ASSUME NEW t \in Threads, ReadAnswer(t) PROVE Traffic /\ UNCHANGED <<conn_list, outside, history>>
  <2>1. PICK e : sock' = [sock EXCEPT ![thread[t].fd].recv = e]
    BY <1>3 DEF ReadAnswer
  <2> QED
    BY <1>3, <2>1 DEF TypeOK, SocketType, ReadAnswer, Traffic
<1>4. ASSUME NEW f \in Fds, ReadEvent(f) PROVE Traffic /\ UNCHANGED <<conn_list, outside, history>>
  <2>1. PICK e : sock' = [sock EXCEPT ![f].recv = e]
    BY <1>4 DEF ReadEvent
  <2> QED
    BY <1>4, <2>1 DEF TypeOK, SocketType, ReadEvent, Traffic
<1>5. ASSUME NEW f \in Fds, Answer(f) PROVE Traffic /\ UNCHANGED <<conn_list, outside, history>>
  <2>1. PICK q, r : q = Tail(sock[f].sent) /\ r = Append(sock[f].recv, Head(sock[f].sent))
    OBVIOUS
  <2>2. sock' = [sock EXCEPT ![f].sent = q, ![f].recv = r]
    BY <1>5, <2>1 DEF Answer
  <2> QED
    BY <1>5, <2>2 DEF TypeOK, SocketType, Answer, Traffic
<1>6. ASSUME NEW f \in Fds, ClientSends(f) PROVE Traffic /\ UNCHANGED <<conn_list, outside, history>>
  <2>1. PICK e : sock' = [sock EXCEPT ![f].recv = e]
    BY <1>6 DEF ClientSends
  <2> QED
    BY <1>6, <2>1 DEF TypeOK, SocketType, ClientSends, Traffic
<1>7. ASSUME NEW f \in Fds, PeerClose(f) PROVE Traffic /\ UNCHANGED <<conn_list, outside, history>>
  <2>1. PICK e, left : sock' = [sock EXCEPT ![f].st = "peer_closed", ![f].sent = e, ![f].recv = left]
    BY <1>7 DEF PeerClose
  <2> QED
    BY <1>7, <2>1 DEF TypeOK, SocketType, PeerClose, Traffic
<1>8. CASE UNCHANGED vars
  BY <1>8 DEF vars, Traffic
<1> QED
  BY <1>1, <1>2, <1>3, <1>4, <1>5, <1>6, <1>7, <1>8

\* The threads' steps before their scan, and all steps of others, end
\* nobody's destoryConnection.
LEMMA DestroyersKept ==
    ASSUME TypeOK, [Next]_vars, ~ \E t \in Threads : Scan(t)
    PROVE  \A f \in Fds : Destroying(f) => Destroying(f)'
<1>1. ASSUME NEW t \in Threads, Talk(t) PROVE \A f \in Fds : Destroying(f) => Destroying(f)'
  <2>1. thread[t].pc # "scan"
    BY <1>1 DEF Talk, Request, GetPooled, CreateConnection, Send, SendFails, ReadAnswer,
                ReadClosed, ReadFails, Close
  <2>2. PICK r : Step(t, r)
    BY <1>1 DEF Talk, Request, GetPooled, CreateConnection, Send, SendFails, ReadAnswer,
                ReadClosed, ReadFails, Close, Finish
  <2> QED
    BY <2>1, <2>2, DestroyersStay
<1>2. CASE thread' = thread
  BY <1>2 DEF Destroying
<1>3. (\E t \in Threads : Talk(t)) \/ thread' = thread
  BY DEF Next, Probe, ProbeClose, Accept, ReadEvent, CloseEvent, Answer, ClientSends, PeerClose, vars
<1> QED
  BY <1>1, <1>2, <1>3

\* A new descriptor: it was closed, so whatever slot still holds it is being
\* reset or is foul, and the slot it is stored in is the one it was made for.
LEMMA PoolCreate ==
    ASSUME TypeOK, PooledIsOwn, NEW t \in Threads, CreateConnection(t),
           \A g \in Fds : Destroying(g) => Destroying(g)'
    PROVE  PooledIsOwn'
<1>1. PICK s : s = OwnSlot(t) /\ s \in Slots
  BY DEF CreateConnection, TypeOK, ThreadOK, Slots, OwnSlot
<1>2. PICK f \in IF Free = {} THEN {-1} ELSE {-1, Lowest} :
        /\ conn_list' = [conn_list EXCEPT ![s] = f]
        /\ foul' = foul \ {s}
        /\ sock' = IF Free = {} THEN sock
                   ELSE [sock EXCEPT ![Lowest] =
                           IF f = -1 THEN Socket("unconnected", NONE) ELSE Socket("up", s)]
  BY <1>1 DEF CreateConnection
<1>3. \A g \in Fds : sock[g].st # "closed" => sock'[g] = sock[g]
  BY <1>2, LowestFree DEF TypeOK
<1> SUFFICES ASSUME NEW u \in Slots, conn_list'[u] > 0
             PROVE  Own(u, conn_list[u])' \/ Destroying(conn_list[u])' \/ u \in foul'
  BY DEF PooledIsOwn
<1>4. CASE u = s
  <2>1. conn_list'[u] = f /\ f # -1
    BY <1>2, <1>4 DEF TypeOK
  <2>2. f = Lowest /\ f \in Fds /\ sock' = [sock EXCEPT ![f] = Socket("up", s)]
    BY <1>2, <2>1, LowestFree
  <2>3. sock'[f].st # "closed" /\ sock'[f].for = s
    BY <1>1, <2>2, SocketTyped DEF TypeOK
  <2> QED
    BY <1>4, <2>1, <2>3 DEF Own
<1>5. CASE u # s
  <2>1. PICK g : g = conn_list[u] /\ g = conn_list'[u]
    BY <1>2, <1>5 DEF TypeOK
  <2>2. g \in Fds /\ g > 0
    BY <2>1, SlotFd
  <2>3. Own(u, g) \/ Destroying(g) \/ u \in foul
    BY <2>1, <2>2 DEF PooledIsOwn
  <2>4. Own(u, g)' \/ Destroying(g)' \/ u \in foul'
    BY <1>2, <1>3, <1>5, <2>2, <2>3 DEF Own
  <2> QED
    BY <2>1, <2>4 DEF Own, Destroying
<1> QED
  BY <1>4, <1>5

\* The scan resets every slot that holds its descriptor or leaves it foul.
LEMMA PoolScan ==
    ASSUME TypeOK, PooledIsOwn, NEW t \in Threads, Scan(t)
    PROVE  PooledIsOwn'
<1>1. PICK f : f = thread[t].fd
  OBVIOUS
<1>2. /\ conn_list' = [s \in Slots |-> IF s \in FirstMatches(f) THEN 0 ELSE conn_list[s]]
      /\ foul' = (foul \cup Matches(f)) \ FirstMatches(f)
      /\ sock' = sock
  BY <1>1 DEF Scan
<1>3. ASSUME NEW g \in Fds, g # f, Destroying(g) PROVE Destroying(g)'
  <2>1. PICK v \in Threads : thread[v].pc = "scan" /\ thread[v].fd = g
    BY <1>3 DEF Destroying
  <2>2. thread'[v] = thread[v]
    BY <1>1, <1>3, <2>1 DEF Scan, Step, TypeOK
  <2> QED
    BY <2>1, <2>2 DEF Destroying
<1> SUFFICES ASSUME NEW u \in Slots, conn_list'[u] > 0
             PROVE  Own(u, conn_list[u])' \/ Destroying(conn_list[u])' \/ u \in foul'
  BY DEF PooledIsOwn
<1>4. u \notin FirstMatches(f) /\ conn_list'[u] = conn_list[u]
  BY <1>2
<1>5. PICK g : g = conn_list[u] /\ g = conn_list'[u]
  BY <1>4
<1>6. g \in Fds /\ g > 0
  BY <1>5, SlotFd
<1>7. CASE g = f
  BY <1>2, <1>4, <1>5, <1>7 DEF Matches
<1>8. CASE g # f
  <2>1. Own(u, g) \/ Destroying(g) \/ u \in foul
    BY <1>5, <1>6 DEF PooledIsOwn
  <2>2. Own(u, g)' \/ Destroying(g)' \/ u \in foul'
    BY <1>2, <1>3, <1>4, <1>6, <1>8, <2>1 DEF Own
  <2> QED
    BY <1>5, <2>2 DEF Own, Destroying
<1> QED
  BY <1>7, <1>8

\* Every step keeps the invariant of the pool.
LEMMA PoolStep ==
    ASSUME TypeOK, PooledIsOwn, [Next]_vars
    PROVE  PooledIsOwn'
<1>1. CASE \E t \in Threads : Scan(t)
  BY <1>1, PoolScan
<1>2. CASE ~ \E t \in Threads : Scan(t)
  <2>0. \A f \in Fds : Destroying(f) => Destroying(f)'
    BY <1>2, DestroyersKept
  <2>1. CASE \E t \in Threads : CreateConnection(t)
    BY <2>0, <2>1, PoolCreate
  <2>2. CASE \/ \E t \in Threads : \/ Request(t) \/ GetPooled(t) \/ Send(t) \/ SendFails(t)
                                   \/ ReadAnswer(t) \/ ReadClosed(t) \/ ReadFails(t)
             \/ \E f \in Fds : ReadEvent(f) \/ Answer(f) \/ ClientSends(f) \/ PeerClose(f)
             \/ UNCHANGED vars
    <3>1. Traffic /\ UNCHANGED <<conn_list, foul>>
      BY <2>2, OnlyTraffic DEF history
    <3>2. \A f \in Fds : \A u \in Slots : Own(u, f) => Own(u, f)'
      BY <3>1, OwnKept DEF Traffic
    <3> QED
      BY <2>0, <3>1, <3>2, PoolKept
  <2>3. ASSUME NEW t \in Threads, Close(t) PROVE PooledIsOwn'
    <3>1. PICK f : f = thread[t].fd
      OBVIOUS
    <3>2. f \in Fds /\ sock' = [sock EXCEPT ![f] = Closed]
      BY <2>3, <3>1 DEF Close, TypeOK, ThreadOK
    <3>3. Destroying(f)'
      <4>1. thread'[t] = [thread[t] EXCEPT !.pc = "scan"]
        BY <2>3 DEF Close, Step, TypeOK
      <4>2. thread'[t].pc = "scan" /\ thread'[t].fd = f
        BY <3>1, <4>1 DEF TypeOK, ThreadOK, ThreadType
      <4> QED
        BY <4>2 DEF Destroying
    <3>4. \A g \in Fds : \A u \in Slots : Own(u, g) => Own(u, g)' \/ Destroying(g)'
      BY <3>2, <3>3 DEF Own, TypeOK
    <3>5. conn_list' = conn_list /\ foul' = foul
      BY <2>3 DEF Close
    <3> QED
      BY <2>0, <3>4, <3>5, PoolKept
  <2>4. CASE Probe \/ Accept
    <3>1. \A g \in Fds : sock[g].st # "closed" => sock'[g] = sock[g]
      <4>1. PICK x : sock' = [sock EXCEPT ![Lowest] = x]
        BY <2>4 DEF Probe, Accept
      <4> QED
        BY <2>4, <4>1, LowestFree DEF Probe, Accept, TypeOK
    <3>2. \A f \in Fds : \A u \in Slots : Own(u, f) => Own(u, f)'
      BY <3>1 DEF Own
    <3>3. conn_list' = conn_list /\ foul' = foul
      BY <2>4 DEF Probe, Accept, history
    <3> QED
      BY <2>0, <3>2, <3>3, PoolKept
  <2>5. ASSUME NEW f \in Fds, CloseEvent(f) \/ (ProbeClose /\ f = probe) PROVE PooledIsOwn'
    <3>1. /\ sock' = [sock EXCEPT ![f] = Closed] /\ foul' = foul \cup Owner(f)
          /\ conn_list' = conn_list
      BY <2>5 DEF CloseEvent, ProbeClose
    <3>2. \A g \in Fds : \A u \in Slots :
            Own(u, g) => Own(u, g)' \/ (conn_list[u] = g => u \in foul')
      BY <3>1 DEF Own, Owner, Matches, TypeOK
    <3> QED
      BY <2>0, <3>1, <3>2, PoolKept
  <2>6. ProbeClose => probe \in Fds
    BY DEF ProbeClose, TypeOK
  <2> QED
    BY <1>2, <2>1, <2>2, <2>3, <2>4, <2>5, <2>6 DEF Next, Talk
<1> QED
  BY <1>1, <1>2

\* The pool starts with the connections made for its slots.
LEMMA PoolInit ==
    ASSUME Init, NEW s \in Slots, conn_list[s] > 0
    PROVE  Own(s, conn_list[s])
<1>1. PICK f : f = conn_list[s]
  OBVIOUS
<1>2. f \in Fds
  BY <1>1 DEF Init
<1>3. PICK u \in Slots : u = (CHOOSE v \in Slots : conn_list[v] = f) /\ conn_list[u] = f
  BY <1>1
<1>4. sock[f] = Socket("up", u)
  BY <1>1, <1>2, <1>3 DEF Init
<1>5. u = s
  BY <1>1, <1>2, <1>3 DEF Init
<1> QED
  BY <1>1, <1>4, <1>5, SocketTyped DEF Own

\* For any number of threads, backends, addresses and descriptors, and through
\* every order of closes, reuses, double closes and failed connects: a pooled
\* descriptor is the open connection made for its slot, unless it is being
\* destroyed or the slot is foul in one of the two ways foul records.
THEOREM PoolIsSound == Spec => []PooledIsOwn
<1>1. Init => PooledIsOwn
  BY PoolInit DEF PooledIsOwn
<1>2. TypeOK /\ PooledIsOwn /\ [Next]_vars => PooledIsOwn'
  BY PoolStep
<1> QED
  BY <1>1, <1>2, TypeCorrect, PTL DEF Spec

-----------------------------------------------------------------------------
(***************************************************************************)
(* The one cause.  Until a thread has closed somebody else's connection,   *)
(* the descriptors outside the pool are what their holders think they are, *)
(* the slot of a thread's contact holds its descriptor or nothing, and no  *)
(* other slot of the thread holds it: so the scan passes over nothing.     *)
(***************************************************************************)
OutsideInv ==
    /\ probe # 0 => sock[probe].st # "closed" /\ sock[probe].for = NONE
    /\ \A f \in Fds : clients[f] > 0 =>
         sock[f].st # "closed" /\ sock[f].for = CLIENT /\ clients[f] = 1

\* The thread has not closed its descriptor yet.
Holds(t) == thread[t].pc = "send" \/ (thread[t].pc = "destroy" /\ thread[t].ret = "get")
Busy(t) == thread[t].pc \in {"send", "read", "destroy", "scan"}

ThreadInv(t) ==
    /\ Holds(t) => Own(OwnSlot(t), thread[t].fd)
    /\ Busy(t) => /\ conn_list[OwnSlot(t)] \in {thread[t].fd, 0}
                  /\ \A s \in Slots : s[1] = t /\ s # OwnSlot(t) => conn_list[s] # thread[t].fd

SlotInv(s) ==
    conn_list[s] > 0 => \/ Own(s, conn_list[s])
                        \/ thread[s[1]].pc = "scan" /\ OwnSlot(s[1]) = s

CauseInv ==
    /\ foul = {}
    /\ OutsideInv
    /\ \A t \in Threads : ThreadInv(t)
    /\ \A s \in Slots : SlotInv(s)

\* A slot is a thread and a backend, and the slot of a contact is a slot.
LEMMA SlotParts ==
    ASSUME NEW s \in Slots
    PROVE  s[1] \in Threads /\ s[2] \in Backends /\ s = <<s[1], s[2]>>
BY DEF Slots

\* The slot of a thread that is not idle is a slot of its own.
LEMMA OwnSlotTyped ==
    ASSUME TypeOK, NEW t \in Threads, thread[t].pc # "idle"
    PROVE  OwnSlot(t) \in Slots /\ OwnSlot(t)[1] = t
BY DEF TypeOK, ThreadOK, OwnSlot, Slots

\* A step that stores nothing in the pool keeps the invariant, if it keeps
\* every slot's own connection open but that of a thread it takes to its scan,
\* and the thread it moves is in order after it.
LEMMA CauseKept ==
    ASSUME TypeOK, CauseInv, conn_list' = conn_list, foul' = foul, OutsideInv',
           \A s \in Slots : \A f \in Fds :
             Own(s, f) => Own(s, f)' \/ (thread'[s[1]].pc = "scan" /\ OwnSlot(s[1])' = s),
           \A v \in Threads : thread'[v] = thread[v] \/ (thread[v].pc # "scan" /\ ThreadInv(v)')
    PROVE  CauseInv'
<1>1. ASSUME NEW v \in Threads PROVE ThreadInv(v)'
  <2>1. CASE thread'[v] = thread[v]
    <3>1. ThreadInv(v)
      BY DEF CauseInv
    <3>2. Holds(v) => Own(OwnSlot(v), thread[v].fd)'
      <4> SUFFICES ASSUME Holds(v) PROVE Own(OwnSlot(v), thread[v].fd)'
        OBVIOUS
      <4>1. PICK s, f : s = OwnSlot(v) /\ f = thread[v].fd
        OBVIOUS
      <4>2. s \in Slots /\ s[1] = v /\ f \in Fds /\ thread[v].pc # "scan"
        BY <4>1, OwnSlotTyped DEF Holds, TypeOK, ThreadOK
      <4>3. Own(s, f)
        BY <3>1, <4>1 DEF ThreadInv
      <4>4. Own(s, f)'
        BY <2>1, <4>2, <4>3
      <4>5. s = OwnSlot(v)' /\ f = thread'[v].fd
        BY <2>1, <4>1 DEF OwnSlot
      <4> QED
        BY <4>4, <4>5 DEF Own
    <3>3. (Holds(v)' => Holds(v)) /\ (Busy(v)' => Busy(v)) /\ OwnSlot(v)' = OwnSlot(v)
      BY <2>1 DEF Holds, Busy, OwnSlot
    <3> QED
      BY <2>1, <3>1, <3>2, <3>3 DEF ThreadInv
  <2> QED
    BY <2>1
<1>2. ASSUME NEW s \in Slots PROVE SlotInv(s)'
  <2> SUFFICES ASSUME conn_list'[s] > 0
               PROVE  Own(s, conn_list[s])' \/ (thread'[s[1]].pc = "scan" /\ OwnSlot(s[1])' = s)
    BY DEF SlotInv
  <2>1. PICK f : f = conn_list[s] /\ f = conn_list'[s]
    OBVIOUS
  <2>2. f \in Fds /\ f > 0
    BY <2>1, SlotFd
  <2>3. Own(s, f) \/ (thread[s[1]].pc = "scan" /\ OwnSlot(s[1]) = s)
    BY <2>1, <2>2 DEF CauseInv, SlotInv
  <2>4. CASE Own(s, f)
    <3>1. Own(s, f)' \/ (thread'[s[1]].pc = "scan" /\ OwnSlot(s[1])' = s)
      BY <2>2, <2>4
    <3> QED
      BY <2>1, <3>1 DEF Own
  <2>5. CASE thread[s[1]].pc = "scan" /\ OwnSlot(s[1]) = s
    <3>1. thread'[s[1]] = thread[s[1]]
      BY <2>5, SlotParts
    <3> QED
      BY <2>5, <3>1 DEF OwnSlot
  <2> QED
    BY <2>3, <2>4, <2>5
<1> QED
  BY <1>1, <1>2 DEF CauseInv

\* What a step of a thread does to the threads.
LEMMA Moves ==
    ASSUME TypeOK, NEW t \in Threads, NEW r, Step(t, r)
    PROVE  thread'[t] = r /\ \A v \in Threads : v # t => thread'[v] = thread[v]
BY DEF Step, TypeOK

\* The steps of a thread that open and close nothing leave it in order.
LEMMA TalkKeeps ==
    ASSUME TypeOK, CauseInv, NEW t \in Threads, Traffic, conn_list' = conn_list,
           \/ Request(t) \/ GetPooled(t) \/ Send(t) \/ SendFails(t)
           \/ ReadAnswer(t) \/ ReadClosed(t) \/ ReadFails(t)
    PROVE  /\ \A v \in Threads : v # t => thread'[v] = thread[v]
           /\ thread[t].pc # "scan" /\ ThreadInv(t)'
<1>a. thread[t] \in ThreadType /\ ThreadOK(thread[t]) /\ ThreadInv(t)
  BY DEF TypeOK, ThreadOK, CauseInv
<1>b. \A s \in Slots : \A f \in Fds : Own(s, f) => Own(s, f)'
  BY OwnKept DEF Traffic
<1>1. CASE Request(t) \/ ReadAnswer(t) \/ ReadFails(t) \/ (GetPooled(t) /\ ~ (conn_list[OwnSlot(t)] > 0))
  <2>1. PICK r : Step(t, r) /\ r.pc \in {"idle", "get", "create"}
    <3>1. CASE Request(t)
      <4>1. PICK r : r.pc = "get" /\ Step(t, r)
        <5>1. PICK b \in Backends :
                Step(t, [thread[t] EXCEPT !.pc = "get", !.host = b, !.n = @ + 1, !.got = << >>])
          BY <3>1 DEF Request
        <5>2. PICK q : q = [thread[t] EXCEPT !.pc = "get", !.host = b, !.n = @ + 1, !.got = << >>]
          OBVIOUS
        <5>3. q.pc = "get"
          BY <1>a, <5>2 DEF ThreadType
        <5> QED
          BY <5>1, <5>2, <5>3
      <4> QED
        BY <4>1
    <3>2. CASE ReadAnswer(t) \/ ReadFails(t)
      <4>1. PICK a : Finish(t, a)
        BY <3>2 DEF ReadAnswer, ReadFails
      <4>2. PICK q : q = [thread[t] EXCEPT !.pc = "idle", !.host = 0, !.fd = 0, !.got = a]
        OBVIOUS
      <4>3. q.pc = "idle"
        BY <1>a, <4>2 DEF ThreadType
      <4> QED
        BY <4>1, <4>2, <4>3 DEF Finish
    <3>3. CASE GetPooled(t) /\ ~ (conn_list[OwnSlot(t)] > 0)
      <4>1. Step(t, [thread[t] EXCEPT !.pc = "create"])
        BY <3>3 DEF GetPooled, OwnSlot
      <4>2. PICK q : q = [thread[t] EXCEPT !.pc = "create"]
        OBVIOUS
      <4>3. q.pc = "create"
        BY <1>a, <4>2 DEF ThreadType
      <4> QED
        BY <4>1, <4>2, <4>3
    <3> QED
      BY <1>1, <3>1, <3>2, <3>3
  <2>2. thread'[t] = r /\ \A v \in Threads : v # t => thread'[v] = thread[v]
    BY <2>1, Moves
  <2>3. ~ Holds(t)' /\ ~ Busy(t)'
    BY <2>1, <2>2 DEF Holds, Busy
  <2>4. thread[t].pc # "scan"
    BY <1>1 DEF Request, ReadAnswer, ReadFails, GetPooled
  <2> QED
    BY <2>2, <2>3, <2>4 DEF ThreadInv
<1>2. CASE GetPooled(t) /\ conn_list[OwnSlot(t)] > 0
  <2>1. PICK s : s = OwnSlot(t) /\ s \in Slots /\ s[1] = t
    BY <1>2, OwnSlotTyped DEF GetPooled
  <2>2. PICK c : c = conn_list[s]
    OBVIOUS
  <2>3. c \in Fds /\ c > 0
    BY <1>2, <2>1, <2>2, SlotFd
  <2>4. Step(t, [thread[t] EXCEPT !.pc = "send", !.fd = c]) /\ thread[t].pc = "get"
    BY <1>2, <2>1, <2>2 DEF GetPooled, OwnSlot
  <2>5. PICK r : r = [thread[t] EXCEPT !.pc = "send", !.fd = c]
    OBVIOUS
  <2>6. r.pc = "send" /\ r.fd = c /\ r.host = thread[t].host
    BY <1>a, <2>5 DEF ThreadType
  <2>7. thread'[t] = r /\ \A v \in Threads : v # t => thread'[v] = thread[v]
    BY <2>4, <2>5, Moves
  <2>8. Own(s, c)
    BY <2>1, <2>2, <2>3, <2>4 DEF CauseInv, SlotInv
  <2>9. ASSUME NEW u \in Slots, u[1] = t, u # s PROVE conn_list[u] # c
    <3> SUFFICES ASSUME conn_list[u] = c PROVE FALSE
      OBVIOUS
    <3>1. Own(u, c)
      BY <2>3, <2>4, <2>9 DEF CauseInv, SlotInv
    <3> QED
      BY <2>8, <2>9, <3>1 DEF Own
  <2>10. OwnSlot(t)' = s /\ thread'[t].fd = c
    BY <2>1, <2>6, <2>7 DEF OwnSlot
  <2>11. Own(s, c)'
    BY <1>b, <2>1, <2>3, <2>8
  <2>12. Own(OwnSlot(t), thread[t].fd)'
    BY <2>10, <2>11 DEF Own
  <2>13. conn_list'[OwnSlot(t)'] \in {thread'[t].fd, 0}
    BY <2>2, <2>10
  <2>14. \A u \in Slots : u[1] = t /\ u # OwnSlot(t)' => conn_list'[u] # thread'[t].fd
    BY <2>9, <2>10
  <2> QED
    BY <2>4, <2>7, <2>12, <2>13, <2>14 DEF ThreadInv
<1>3. CASE Send(t) \/ SendFails(t) \/ ReadClosed(t)
  <2>1. PICK r : /\ Step(t, r) /\ r.fd = thread[t].fd /\ r.host = thread[t].host
                 /\ r.pc \in {"read", "destroy"} /\ (r.pc = "destroy" /\ r.ret = "get" => SendFails(t))
    <3>1. CASE Send(t)
      <4>1. PICK q : q = [thread[t] EXCEPT !.pc = "read"]
        OBVIOUS
      <4>2. q.pc = "read" /\ q.fd = thread[t].fd /\ q.host = thread[t].host
        BY <1>a, <4>1 DEF ThreadType
      <4> QED
        BY <3>1, <4>1, <4>2 DEF Send
    <3>2. CASE SendFails(t)
      <4>1. PICK q : q = [thread[t] EXCEPT !.pc = "destroy", !.ret = "get"]
        OBVIOUS
      <4>2. q.pc = "destroy" /\ q.fd = thread[t].fd /\ q.host = thread[t].host
        BY <1>a, <4>1 DEF ThreadType
      <4>3. Step(t, q)
        BY <3>2, <4>1 DEF SendFails
      <4> QED
        BY <3>2, <4>2, <4>3
    <3>3. CASE ReadClosed(t)
      <4>1. PICK q : q = [thread[t] EXCEPT !.pc = "destroy", !.ret = "read"]
        OBVIOUS
      <4>2. q.pc = "destroy" /\ q.fd = thread[t].fd /\ q.host = thread[t].host /\ q.ret = "read"
        BY <1>a, <4>1 DEF ThreadType
      <4>3. Step(t, q)
        BY <3>3, <4>1 DEF ReadClosed
      <4> QED
        BY <4>2, <4>3
    <3> QED
      BY <1>3, <3>1, <3>2, <3>3
  <2>2. thread'[t] = r /\ \A v \in Threads : v # t => thread'[v] = thread[v]
    BY <2>1, Moves
  <2>3. Busy(t) /\ thread[t].pc \in {"send", "read"}
    BY <1>3 DEF Send, SendFails, ReadClosed, Busy
  <2>4. OwnSlot(t)' = OwnSlot(t) /\ thread'[t].fd = thread[t].fd
    BY <2>1, <2>2 DEF OwnSlot
  <2>5. Holds(t)' => Own(OwnSlot(t), thread[t].fd)'
    <3> SUFFICES ASSUME Holds(t)' PROVE Own(OwnSlot(t), thread[t].fd)'
      OBVIOUS
    <3>1. SendFails(t)
      BY <2>1, <2>2 DEF Holds
    <3>2. PICK s, f : s = OwnSlot(t) /\ f = thread[t].fd
      OBVIOUS
    <3>3. s \in Slots /\ f \in Fds /\ Own(s, f)
      BY <1>a, <3>1, <3>2, OwnSlotTyped DEF SendFails, ThreadOK, ThreadInv, Holds
    <3>4. Own(s, f)'
      BY <1>b, <3>3
    <3>5. s = OwnSlot(t)' /\ f = thread'[t].fd
      BY <2>4, <3>2
    <3> QED
      BY <3>4, <3>5 DEF Own
  <2>6. /\ conn_list'[OwnSlot(t)'] \in {thread'[t].fd, 0}
        /\ \A s \in Slots : s[1] = t /\ s # OwnSlot(t)' => conn_list'[s] # thread'[t].fd
    BY <1>a, <2>3, <2>4 DEF ThreadInv
  <2>7. ThreadInv(t)'
    BY <2>5, <2>6 DEF ThreadInv
  <2> QED
    BY <2>2, <2>3, <2>7
<1> QED
  BY <1>1, <1>2, <1>3

\* The descriptors outside the pool stay what they are while their sockets do.
LEMMA OutsideKept ==
    ASSUME TypeOK, OutsideInv, outside' = outside,
           \A f \in Fds : sock[f].st # "closed" /\ sock[f].for \in {NONE, CLIENT} =>
                            sock'[f].st # "closed" /\ sock'[f].for = sock[f].for
    PROVE  OutsideInv'
<1>1. probe' = probe /\ clients' = clients /\ probe \in Fds \cup {0}
  BY DEF outside, TypeOK
<1> QED
  BY <1>1 DEF OutsideInv

\* A new connection of a thread: its descriptor was closed and so is in none
\* of the thread's other slots.
LEMMA CauseCreate ==
    ASSUME TypeOK, CauseInv, NEW t \in Threads, CreateConnection(t)
    PROVE  CauseInv'
<1>a. thread[t] \in ThreadType /\ ThreadOK(thread[t]) /\ thread[t].pc = "create"
  BY DEF TypeOK, ThreadOK, CreateConnection
<1>1. PICK s : s = OwnSlot(t) /\ s \in Slots /\ s[1] = t
  BY OwnSlotTyped DEF CreateConnection
<1>2. PICK f \in IF Free = {} THEN {-1} ELSE {-1, Lowest} :
        /\ conn_list' = [conn_list EXCEPT ![s] = f]
        /\ foul' = foul \ {s}
        /\ sock' = IF Free = {} THEN sock
                   ELSE [sock EXCEPT ![Lowest] =
                           IF f = -1 THEN Socket("unconnected", NONE) ELSE Socket("up", s)]
        /\ IF f = -1 THEN Finish(t, << >>)
           ELSE Step(t, [thread[t] EXCEPT !.pc = "send", !.fd = f])
  BY <1>1 DEF CreateConnection
<1>3. \A g \in Fds : sock[g].st # "closed" => sock'[g] = sock[g]
  BY <1>2, LowestFree DEF TypeOK
<1>4. PICK r : /\ Step(t, r) /\ r.pc = IF f = -1 THEN "idle" ELSE "send"
               /\ f # -1 => r.fd = f /\ r.host = thread[t].host
  <2>1. CASE f = -1
    <3>1. PICK e : e = << >>
      OBVIOUS
    <3>2. PICK q : q = [thread[t] EXCEPT !.pc = "idle", !.host = 0, !.fd = 0, !.got = e]
      OBVIOUS
    <3>3. q.pc = "idle"
      BY <1>a, <3>2 DEF ThreadType
    <3> QED
      BY <1>2, <2>1, <3>1, <3>2, <3>3 DEF Finish
  <2>2. CASE f # -1
    <3>2. PICK q : q = [thread[t] EXCEPT !.pc = "send", !.fd = f]
      OBVIOUS
    <3>3. q.pc = "send" /\ q.fd = f /\ q.host = thread[t].host
      BY <1>a, <3>2 DEF ThreadType
    <3> QED
      BY <1>2, <2>2, <3>2, <3>3
  <2> QED
    BY <2>1, <2>2
<1>5. thread'[t] = r /\ \A v \in Threads : v # t => thread'[v] = thread[v]
  BY <1>4, Moves
<1>6. f # -1 => f \in Fds /\ sock[f].st = "closed" /\ sock'[f].st # "closed" /\ sock'[f].for = s
  <2> SUFFICES ASSUME f # -1
               PROVE  f \in Fds /\ sock[f].st = "closed" /\ sock'[f].st # "closed" /\ sock'[f].for = s
    OBVIOUS
  <2>1. f = Lowest /\ f \in Fds /\ sock[f].st = "closed" /\ sock' = [sock EXCEPT ![f] = Socket("up", s)]
    BY <1>2, LowestFree
  <2> QED
    BY <1>1, <2>1, SocketTyped DEF TypeOK
<1>7. \A u \in Slots : conn_list'[u] = IF u = s THEN f ELSE conn_list[u]
  BY <1>2 DEF TypeOK
<1>8. foul' = {}
  BY <1>2 DEF CauseInv
<1>9. OutsideInv'
  <2>1. outside' = outside
    BY DEF CreateConnection
  <2>2. OutsideInv
    BY DEF CauseInv
  <2> QED
    BY <1>3, <2>1, <2>2, OutsideKept
<1>10. ASSUME NEW v \in Threads, v # t PROVE ThreadInv(v)'
  <2>1. ThreadInv(v) /\ thread'[v] = thread[v]
    BY <1>5, <1>10 DEF CauseInv
  <2>2. (Holds(v)' => Holds(v)) /\ (Busy(v)' => Busy(v)) /\ OwnSlot(v)' = OwnSlot(v)
    BY <2>1 DEF Holds, Busy, OwnSlot
  <2>3. Holds(v) => Own(OwnSlot(v), thread[v].fd)'
    <3>1. Holds(v) => thread[v].fd \in Fds
      BY DEF Holds, TypeOK, ThreadOK
    <3> QED
      BY <1>3, <2>1, <2>2, <3>1 DEF ThreadInv, Own
  <2>4. Busy(v) => OwnSlot(v) \in Slots /\ OwnSlot(v)[1] = v
    BY OwnSlotTyped DEF Busy
  <2>5. \A u \in Slots : u[1] = v => conn_list'[u] = conn_list[u]
    BY <1>1, <1>7, <1>10
  <2> QED
    BY <2>1, <2>2, <2>3, <2>4, <2>5 DEF ThreadInv
<1>11. ThreadInv(t)'
  <2>1. CASE f = -1
    <3>1. ~ Holds(t)' /\ ~ Busy(t)'
      BY <1>4, <1>5, <2>1 DEF Holds, Busy
    <3> QED
      BY <3>1 DEF ThreadInv
  <2>2. CASE f # -1
    <3>1. OwnSlot(t)' = s /\ thread'[t].fd = f
      BY <1>1, <1>4, <1>5, <2>2 DEF OwnSlot
    <3>2. Own(OwnSlot(t), thread[t].fd)'
      BY <1>6, <2>2, <3>1 DEF Own
    <3>3. ASSUME NEW u \in Slots, u[1] = t, u # s PROVE conn_list'[u] # f
      <4> SUFFICES ASSUME conn_list[u] = f PROVE FALSE
        BY <1>7, <3>3
      <4>1. f > 0
        BY <1>6, <2>2 DEF Fds
      <4>2. Own(u, f)
        BY <1>a, <3>3, <4>1 DEF CauseInv, SlotInv
      <4> QED
        BY <1>6, <2>2, <4>2 DEF Own
    <3>4. conn_list'[OwnSlot(t)'] = thread'[t].fd
      BY <1>1, <1>7, <3>1
    <3>5. \A u \in Slots : u[1] = t /\ u # OwnSlot(t)' => conn_list'[u] # thread'[t].fd
      BY <3>1, <3>3
    <3> QED
      BY <3>2, <3>4, <3>5 DEF ThreadInv
  <2> QED
    BY <2>1, <2>2
<1>12. ASSUME NEW u \in Slots PROVE SlotInv(u)'
  <2> SUFFICES ASSUME conn_list'[u] > 0
               PROVE  Own(u, conn_list[u])' \/ (thread'[u[1]].pc = "scan" /\ OwnSlot(u[1])' = u)
    BY DEF SlotInv
  <2>1. CASE u = s
    <3>1. conn_list'[u] = f /\ f # -1
      BY <1>7, <2>1
    <3> QED
      BY <1>6, <2>1, <3>1 DEF Own
  <2>2. CASE u # s
    <3>1. PICK g : g = conn_list[u] /\ g = conn_list'[u]
      BY <1>7, <2>2
    <3>2. g \in Fds /\ g > 0
      BY <3>1, SlotFd
    <3>3. Own(u, g) \/ (thread[u[1]].pc = "scan" /\ OwnSlot(u[1]) = u)
      BY <3>1, <3>2 DEF CauseInv, SlotInv
    <3>4. CASE Own(u, g)
      <4>1. Own(u, g)'
        BY <1>3, <3>2, <3>4 DEF Own
      <4> QED
        BY <3>1, <4>1 DEF Own
    <3>5. CASE thread[u[1]].pc = "scan" /\ OwnSlot(u[1]) = u
      <4>1. thread'[u[1]] = thread[u[1]]
        BY <1>a, <1>5, <3>5, SlotParts
      <4> QED
        BY <3>5, <4>1 DEF OwnSlot
    <3> QED
      BY <3>3, <3>4, <3>5
  <2> QED
    BY <2>1, <2>2
<1> QED
  BY <1>8, <1>9, <1>10, <1>11, <1>12 DEF CauseInv

\* A close() of the thread's own connection leaves the slot to its scan.
LEMMA CauseClose ==
    ASSUME TypeOK, CauseInv, NEW t \in Threads, Close(t), ~ stray'
    PROVE  CauseInv'
<1>a. thread[t] \in ThreadType /\ ThreadOK(thread[t]) /\ thread[t].pc = "destroy" /\ ThreadInv(t)
  BY DEF TypeOK, ThreadOK, Close, CauseInv
<1>1. PICK s, f : s = OwnSlot(t) /\ f = thread[t].fd
  OBVIOUS
<1>2. s \in Slots /\ s[1] = t /\ f \in Fds
  BY <1>a, <1>1, OwnSlotTyped DEF ThreadOK
<1>3. sock' = [sock EXCEPT ![f] = Closed] /\ (sock[f].st = "closed" \/ sock[f].for = s)
  BY <1>1 DEF Close
<1>4. PICK r : r = [thread[t] EXCEPT !.pc = "scan"]
  OBVIOUS
<1>5. r.pc = "scan" /\ r.fd = f /\ r.host = thread[t].host
  BY <1>a, <1>1, <1>4 DEF ThreadType
<1>6. thread'[t] = r /\ \A v \in Threads : v # t => thread'[v] = thread[v]
  BY <1>4, Moves DEF Close
<1>7. OwnSlot(t)' = s /\ thread'[t].fd = f /\ thread'[t].pc = "scan"
  BY <1>1, <1>5, <1>6 DEF OwnSlot
<1>8. conn_list' = conn_list /\ foul' = foul /\ outside' = outside
  BY DEF Close
<1>9. \A u \in Slots : \A g \in Fds :
        Own(u, g) => Own(u, g)' \/ (thread'[u[1]].pc = "scan" /\ OwnSlot(u[1])' = u)
  <2> SUFFICES ASSUME NEW u \in Slots, NEW g \in Fds, Own(u, g)
               PROVE  Own(u, g)' \/ (thread'[u[1]].pc = "scan" /\ OwnSlot(u[1])' = u)
    OBVIOUS
  <2>1. CASE g = f
    <3>1. u = s
      BY <1>3, <2>1 DEF Own
    <3> QED
      BY <1>2, <1>7, <3>1
  <2>2. CASE g # f
    BY <1>2, <1>3, <2>2 DEF Own, TypeOK
  <2> QED
    BY <2>1, <2>2
<1>10. OutsideInv'
  <2>1. OutsideInv
    BY DEF CauseInv
  <2>2. \A g \in Fds : sock[g].st # "closed" /\ sock[g].for \in {NONE, CLIENT} =>
                         sock'[g].st # "closed" /\ sock'[g].for = sock[g].for
    <3>1. s # NONE /\ s # CLIENT
      BY <1>2, OutsideIsNoSlot
    <3> QED
      BY <1>2, <1>3, <3>1 DEF TypeOK
  <2> QED
    BY <1>8, <2>1, <2>2, OutsideKept
<1>11. ThreadInv(t)'
  <2>1. ~ Holds(t)'
    BY <1>7 DEF Holds
  <2>2. Busy(t)
    BY <1>a DEF Busy
  <2>3. /\ conn_list'[OwnSlot(t)'] \in {thread'[t].fd, 0}
        /\ \A u \in Slots : u[1] = t /\ u # OwnSlot(t)' => conn_list'[u] # thread'[t].fd
    BY <1>a, <1>1, <1>7, <1>8, <2>2 DEF ThreadInv
  <2> QED
    BY <2>1, <2>3 DEF ThreadInv
<1>12. \A v \in Threads : thread'[v] = thread[v] \/ (thread[v].pc # "scan" /\ ThreadInv(v)')
  BY <1>a, <1>6, <1>11
<1> QED
  BY <1>8, <1>9, <1>10, <1>12, CauseKept

\* No thread has the descriptor in two of its slots, so the loops of the scan
\* reset every slot that holds it.
LEMMA NothingMissed ==
    ASSUME TypeOK, CauseInv, NEW f \in Fds
    PROVE  FirstMatches(f) = Matches(f)
<1> SUFFICES ASSUME NEW s \in Matches(f), NEW u \in Matches(f), u[1] = s[1]
             PROVE  s[2] <= u[2]
  BY DEF FirstMatches
<1>1. s \in Slots /\ u \in Slots /\ conn_list[s] = f /\ conn_list[u] = f /\ f > 0
  BY DEF Matches, Fds
<1>2. PICK v : v = s[1] /\ v = u[1] /\ v \in Threads
  BY <1>1, SlotParts
<1>3. SlotInv(s) /\ SlotInv(u) /\ ThreadInv(v)
  BY <1>1, <1>2 DEF CauseInv
<1>4. u = s
  <2>1. CASE Own(s, f) /\ Own(u, f)
    BY <2>1 DEF Own
  <2>2. CASE thread[v].pc = "scan"
    <3>1. Busy(v)
      BY <2>2 DEF Busy
    <3>2. CASE OwnSlot(v) = s
      <4>1. thread[v].fd = f
        BY <1>1, <1>3, <3>1, <3>2 DEF ThreadInv
      <4> QED
        BY <1>1, <1>2, <1>3, <3>1, <3>2, <4>1 DEF ThreadInv
    <3>3. CASE OwnSlot(v) = u
      <4>1. thread[v].fd = f
        BY <1>1, <1>3, <3>1, <3>3 DEF ThreadInv
      <4> QED
        BY <1>1, <1>2, <1>3, <3>1, <3>3, <4>1 DEF ThreadInv
    <3>4. CASE OwnSlot(v) # u /\ OwnSlot(v) # s
      <4>1. Own(s, f) /\ Own(u, f)
        BY <1>1, <1>2, <1>3, <3>4 DEF SlotInv
      <4> QED
        BY <4>1 DEF Own
    <3> QED
      BY <3>2, <3>3, <3>4
  <2>3. CASE thread[v].pc # "scan"
    <3>1. Own(s, f) /\ Own(u, f)
      BY <1>1, <1>2, <1>3, <2>3 DEF SlotInv
    <3> QED
      BY <3>1 DEF Own
  <2> QED
    BY <2>2, <2>3
<1> QED
  BY <1>1, <1>4, BackendsAssumption, SlotParts

\* So the scan leaves no slot foul and no slot with a descriptor not its own.
LEMMA CauseScan ==
    ASSUME TypeOK, CauseInv, NEW t \in Threads, Scan(t)
    PROVE  CauseInv'
<1>a. thread[t] \in ThreadType /\ ThreadOK(thread[t]) /\ thread[t].pc = "scan" /\ ThreadInv(t)
  BY DEF TypeOK, ThreadOK, Scan, CauseInv
<1>1. PICK s, f : s = OwnSlot(t) /\ f = thread[t].fd
  OBVIOUS
<1>2. s \in Slots /\ s[1] = t /\ f \in Fds /\ f > 0
  BY <1>a, <1>1, OwnSlotTyped DEF ThreadOK, Fds
<1>3. FirstMatches(f) = Matches(f)
  BY <1>2, NothingMissed
<1>4. /\ \A u \in Slots : conn_list'[u] = IF conn_list[u] = f THEN 0 ELSE conn_list[u]
      /\ foul' = {} /\ sock' = sock /\ outside' = outside
  <2>1. /\ conn_list' = [u \in Slots |-> IF u \in FirstMatches(f) THEN 0 ELSE conn_list[u]]
        /\ foul' = (foul \cup Matches(f)) \ FirstMatches(f) /\ sock' = sock /\ outside' = outside
    BY <1>1 DEF Scan
  <2> QED
    BY <1>3, <2>1 DEF Matches, CauseInv
<1>5. PICK r : r = [thread[t] EXCEPT !.pc = thread[t].ret, !.ret = "get"]
  OBVIOUS
<1>6. r.pc \in {"get", "read"} /\ r.fd = f /\ r.host = thread[t].host
  BY <1>a, <1>1, <1>5 DEF ThreadType
<1>7. thread'[t] = r /\ \A v \in Threads : v # t => thread'[v] = thread[v]
  BY <1>5, Moves DEF Scan
<1>8. OutsideInv'
  <2>1. OutsideInv
    BY DEF CauseInv
  <2> QED
    BY <1>4, <2>1, OutsideKept
<1>9. ASSUME NEW v \in Threads PROVE ThreadInv(v)'
  <2>1. ThreadInv(v)
    BY DEF CauseInv
  <2>2. /\ OwnSlot(v)' = OwnSlot(v) /\ thread'[v].fd = thread[v].fd
        /\ (Holds(v)' => Holds(v)) /\ (Busy(v)' => Busy(v))
    <3>1. CASE v = t
      BY <1>a, <1>1, <1>6, <1>7, <3>1 DEF OwnSlot, Holds, Busy
    <3>2. CASE v # t
      BY <1>7, <3>2 DEF OwnSlot, Holds, Busy
    <3> QED
      BY <3>1, <3>2
  <2>3. Holds(v) => Own(OwnSlot(v), thread[v].fd)'
    BY <1>4, <2>1, <2>2 DEF ThreadInv, Own
  <2>4. Busy(v) => OwnSlot(v) \in Slots /\ thread[v].fd # 0
    BY OwnSlotTyped DEF Busy, TypeOK, ThreadOK, Fds
  <2>5. Busy(v) => /\ conn_list'[OwnSlot(v)] \in {thread[v].fd, 0}
                   /\ \A u \in Slots : u[1] = v /\ u # OwnSlot(v) => conn_list'[u] # thread[v].fd
    BY <1>4, <2>1, <2>4 DEF ThreadInv
  <2> QED
    BY <2>2, <2>3, <2>5 DEF ThreadInv
<1>10. ASSUME NEW u \in Slots PROVE SlotInv(u)'
  <2> SUFFICES ASSUME conn_list'[u] > 0
               PROVE  Own(u, conn_list[u])' \/ (thread'[u[1]].pc = "scan" /\ OwnSlot(u[1])' = u)
    BY DEF SlotInv
  <2>1. PICK g : g = conn_list[u] /\ g = conn_list'[u] /\ g # f /\ g > 0
    BY <1>4
  <2>2. Own(u, g) \/ (thread[u[1]].pc = "scan" /\ OwnSlot(u[1]) = u)
    BY <2>1 DEF CauseInv, SlotInv
  <2>3. CASE Own(u, g)
    BY <1>4, <2>1, <2>3 DEF Own
  <2>4. CASE thread[u[1]].pc = "scan" /\ OwnSlot(u[1]) = u
    <3>1. u[1] # t
      <4> SUFFICES ASSUME u[1] = t PROVE FALSE
        OBVIOUS
      <4>1. g \in {f, 0}
        BY <1>a, <1>1, <2>1, <2>4 DEF ThreadInv, Busy
      <4> QED
        BY <2>1, <4>1
    <3>2. thread'[u[1]] = thread[u[1]]
      BY <1>7, <3>1, SlotParts
    <3> QED
      BY <2>4, <3>2 DEF OwnSlot
  <2> QED
    BY <2>2, <2>3, <2>4
<1> QED
  BY <1>4, <1>8, <1>9, <1>10 DEF CauseInv

\* Nobody outside the pool closes or reuses a connection in it.
LEMMA CauseOutside ==
    ASSUME TypeOK, CauseInv, Probe \/ ProbeClose \/ Accept \/ \E f \in Fds : CloseEvent(f)
    PROVE  CauseInv'
<1>a. OutsideInv /\ foul = {}
  BY DEF CauseInv
<1>b. conn_list' = conn_list /\ thread' = thread
  BY DEF Probe, ProbeClose, Accept, CloseEvent
<1>1. CASE Probe \/ Accept
  <2>0. Lowest \in Fds /\ sock[Lowest].st = "closed"
    BY <1>1, LowestFree DEF Probe, Accept
  <2>1. PICK x \in {Socket("unconnected", NONE), Socket("up", NONE), Socket("up", CLIENT)} :
          /\ sock' = [sock EXCEPT ![Lowest] = x]
          /\ \/ x.for = NONE /\ clients' = clients /\ probe' \in {0, Lowest}
             \/ x.for = CLIENT /\ probe' = probe /\ clients' = [clients EXCEPT ![Lowest] = @ + 1]
    <3>1. CASE Probe
      <4>1. PICK x \in {Socket("unconnected", NONE), Socket("up", NONE)} :
              sock' = [sock EXCEPT ![Lowest] = x] /\ clients' = clients /\ probe' \in {0, Lowest}
        BY <3>1 DEF Probe
      <4>2. x.for = NONE
        BY <4>1, SocketTyped
      <4> QED
        BY <4>1, <4>2
    <3>2. CASE Accept
      BY <3>2, SocketTyped DEF Accept
    <3> QED
      BY <1>1, <3>1, <3>2
  <2>2. sock'[Lowest] = x /\ x.st # "closed"
    BY <2>0, <2>1, SocketTyped DEF TypeOK
  <2>3. \A g \in Fds : sock[g].st # "closed" => sock'[g] = sock[g]
    BY <2>0, <2>1 DEF TypeOK
  <2>4. OutsideInv'
    <3>1. CASE x.for = NONE /\ clients' = clients /\ probe' \in {0, Lowest}
      <4>1. clients' = clients /\ probe' \in {0, Lowest} /\ sock'[Lowest].for = NONE
        BY <2>2, <3>1
      <4> QED
        BY <1>a, <2>2, <2>3, <4>1 DEF OutsideInv
    <3>2. CASE x.for = CLIENT /\ probe' = probe /\ clients' = [clients EXCEPT ![Lowest] = @ + 1]
      <4>1. probe' = probe /\ clients' = [clients EXCEPT ![Lowest] = @ + 1] /\ sock'[Lowest].for = CLIENT
        BY <2>2, <3>2
      <4>2. clients[Lowest] = 0
        BY <1>a, <2>0 DEF OutsideInv, TypeOK
      <4>3. clients'[Lowest] = 1 /\ \A g \in Fds : g # Lowest => clients'[g] = clients[g]
        BY <2>0, <4>1, <4>2 DEF TypeOK
      <4>4. probe # 0 => probe \in Fds
        BY DEF TypeOK
      <4>5. probe' # 0 => sock'[probe'].st # "closed" /\ sock'[probe'].for = NONE
        BY <1>a, <2>3, <4>1, <4>4 DEF OutsideInv
      <4>6. \A g \in Fds : clients'[g] > 0 =>
              sock'[g].st # "closed" /\ sock'[g].for = CLIENT /\ clients'[g] = 1
        BY <1>a, <2>2, <2>3, <4>1, <4>3 DEF OutsideInv
      <4> QED
        BY <4>5, <4>6 DEF OutsideInv
    <3> QED
      BY <2>1, <3>1, <3>2
  <2>5. foul' = foul
    BY <1>1 DEF Probe, Accept, history
  <2>6. \A u \in Slots : \A g \in Fds : Own(u, g) => Own(u, g)'
    BY <2>3 DEF Own
  <2> QED
    BY <1>b, <2>4, <2>5, <2>6, CauseKept
<1>2. CASE ProbeClose \/ \E f \in Fds : CloseEvent(f)
  <2>1. PICK f \in Fds : CloseEvent(f) \/ (ProbeClose /\ f = probe)
    BY <1>2 DEF ProbeClose, TypeOK
  <2>2. sock' = [sock EXCEPT ![f] = Closed] /\ foul' = foul \cup Owner(f)
    BY <2>1 DEF CloseEvent, ProbeClose
  <2>3. sock[f].for \in {NONE, CLIENT} /\ (CloseEvent(f) => sock[f].for = CLIENT /\ clients[f] = 1)
                                       /\ (~ CloseEvent(f) => sock[f].for = NONE /\ probe = f)
    BY <1>a, <2>1 DEF OutsideInv, CloseEvent, ProbeClose
  <2>4. Owner(f) = {}
    BY <2>3, OutsideIsNoSlot DEF Owner, Matches
  <2>5. \A g \in Fds : g # f => sock'[g] = sock[g]
    BY <2>2 DEF TypeOK
  <2>n. NONE # CLIENT
    BY DEF NONE, CLIENT
  <2>6. OutsideInv'
    <3>1. CASE CloseEvent(f)
      <4>1. probe' = probe /\ clients' = [clients EXCEPT ![f] = @ - 1]
        BY <3>1 DEF CloseEvent
      <4>2. clients'[f] = 0 /\ \A g \in Fds : g # f => clients'[g] = clients[g]
        BY <2>3, <3>1, <4>1 DEF TypeOK
      <4>3. probe # 0 => probe \in Fds /\ probe # f
        BY <1>a, <2>3, <2>n, <3>1 DEF OutsideInv, TypeOK
      <4>4. probe' # 0 => sock'[probe'].st # "closed" /\ sock'[probe'].for = NONE
        BY <1>a, <2>5, <4>1, <4>3 DEF OutsideInv
      <4>5. \A g \in Fds : clients'[g] > 0 =>
              sock'[g].st # "closed" /\ sock'[g].for = CLIENT /\ clients'[g] = 1
        BY <1>a, <2>5, <4>2 DEF OutsideInv
      <4> QED
        BY <4>4, <4>5 DEF OutsideInv
    <3>2. CASE ~ CloseEvent(f)
      <4>1. probe' = 0 /\ clients' = clients
        BY <2>1, <3>2 DEF ProbeClose
      <4>2. ~ (clients[f] > 0)
        BY <1>a, <2>3, <2>n, <3>2 DEF OutsideInv
      <4>3. \A g \in Fds : clients'[g] > 0 =>
              sock'[g].st # "closed" /\ sock'[g].for = CLIENT /\ clients'[g] = 1
        BY <1>a, <2>5, <4>1, <4>2 DEF OutsideInv
      <4> QED
        BY <4>1, <4>3 DEF OutsideInv
    <3> QED
      BY <3>1, <3>2
  <2>7. \A u \in Slots : \A g \in Fds : Own(u, g) => Own(u, g)'
    BY <2>3, <2>5, OutsideIsNoSlot DEF Own
  <2>8. foul' = foul
    BY <2>2, <2>4
  <2> QED
    BY <1>b, <2>6, <2>7, <2>8, CauseKept
<1> QED
  BY <1>1, <1>2

\* Every step keeps it, unless it is the stray close itself.
LEMMA CauseStep ==
    ASSUME TypeOK, ~ stray => CauseInv, [Next]_vars
    PROVE  ~ stray' => CauseInv'
<1> SUFFICES ASSUME ~ stray' PROVE CauseInv'
  OBVIOUS
<1>1. stray' = stray \/ \E t \in Threads : Close(t)
  BY DEF Next, Talk, Request, GetPooled, CreateConnection, Send, SendFails, ReadAnswer,
         ReadClosed, ReadFails, Scan, Probe, ProbeClose, Accept, ReadEvent, CloseEvent, Answer,
         ClientSends, PeerClose, vars, history
<1>2. CauseInv
  BY <1>1 DEF Close
<1>3. CASE \/ \E f \in Fds : ReadEvent(f) \/ Answer(f) \/ ClientSends(f) \/ PeerClose(f)
           \/ UNCHANGED vars
  <2>1. Traffic /\ conn_list' = conn_list /\ foul' = foul /\ outside' = outside /\ thread' = thread
    <3>1. Traffic /\ UNCHANGED <<conn_list, outside, history>>
      BY <1>3, OnlyTraffic
    <3>2. thread' = thread
      BY <1>3 DEF ReadEvent, Answer, ClientSends, PeerClose, vars
    <3> QED
      BY <3>1, <3>2 DEF history
  <2>2. OutsideInv'
    BY <1>2, <2>1, OutsideKept DEF CauseInv, Traffic
  <2>3. \A u \in Slots : \A g \in Fds : Own(u, g) => Own(u, g)'
    BY <2>1, OwnKept DEF Traffic
  <2> QED
    BY <1>2, <2>1, <2>2, <2>3, CauseKept
<1>4. ASSUME NEW t \in Threads, \/ Request(t) \/ GetPooled(t) \/ Send(t) \/ SendFails(t)
                                \/ ReadAnswer(t) \/ ReadClosed(t) \/ ReadFails(t)
      PROVE  CauseInv'
  <2>1. Traffic /\ conn_list' = conn_list /\ foul' = foul /\ outside' = outside
    BY <1>4, OnlyTraffic DEF history
  <2>2. OutsideInv'
    BY <1>2, <2>1, OutsideKept DEF CauseInv, Traffic
  <2>3. \A u \in Slots : \A g \in Fds : Own(u, g) => Own(u, g)'
    BY <2>1, OwnKept DEF Traffic
  <2>4. /\ \A v \in Threads : v # t => thread'[v] = thread[v]
        /\ thread[t].pc # "scan" /\ ThreadInv(t)'
    BY <1>2, <1>4, <2>1, TalkKeeps
  <2> QED
    BY <1>2, <2>1, <2>2, <2>3, <2>4, CauseKept
<1> QED
  BY <1>2, <1>3, <1>4, CauseCreate, CauseClose, CauseScan, CauseOutside DEF Next, Talk

\* For any number of threads, backends, addresses and descriptors: as long as
\* the loop of readFromBackend has not closed a connection of somebody else,
\* no slot is foul, no request is sent on a connection not made for it, and a
\* slot whose descriptor is not its own is about to be reset by its thread.
THEOREM OneCauseOnly == Spec => []OneCause
<1>1. Init => CauseInv
  <2> SUFFICES ASSUME Init PROVE CauseInv
    OBVIOUS
  <2>1. \A s \in Slots : SlotInv(s)
    BY PoolInit DEF SlotInv
  <2>2. \A t \in Threads : thread[t].pc = "idle"
    BY DEF Init
  <2>3. \A t \in Threads : ThreadInv(t)
    BY <2>2 DEF ThreadInv, Holds, Busy
  <2>4. foul = {} /\ OutsideInv
    BY DEF Init, OutsideInv
  <2> QED
    BY <2>1, <2>3, <2>4 DEF CauseInv
<1>2. CauseInv => OneCause
  BY DEF CauseInv, OneCause, ThreadInv, Holds, SlotInv
<1>3. TypeOK /\ (~ stray => CauseInv) /\ [Next]_vars => (~ stray => CauseInv)'
  BY CauseStep
<1>4. (~ stray => CauseInv) => OneCause
  BY <1>2 DEF OneCause
<1> QED
  BY <1>1, <1>3, <1>4, TypeCorrect, PTL DEF Spec
=============================================================================
